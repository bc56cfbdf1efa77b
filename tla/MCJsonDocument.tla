-------------------------- MODULE MCJsonDocument --------------------------
EXTENDS JsonOrder

A  == <<97>>
A0 == <<97, 0>>
MCNames   == {A, A0}
MCIndices == {0, 2}
MCScalars   == {OfInt(1), OfString(A), Empty("array")}
MCSlots   == {"before"}
MCRemarks == {<<SLASH, STAR, STAR, SLASH>>}

Listed(v) == append(Empty("array"), v)
MCOthers ==
    {OfInt(-2), OfInt(3), OfUInt(3), OfBool(TRUE), OfString(A0),
     OfReal(<<3, 0>>), OfReal(<<-25, -1>>), OfReal(Infinite(1)), OfReal(NaN),
     Listed(OfInt(3)), Listed(OfUInt(3)), Listed(OfReal(<<3, 0>>))}
============================================================================
