------------------------------ MODULE MCStream ------------------------------
(* Small instances of Stream for TLC: an empty message, which fits into an  *)
(* empty socket at once, and one for which a new buffer has to grow and     *)
(* whose bytes read as a negative length, or one near the greatest, when    *)
(* they are taken for a part of a header.                                   *)
EXTENDS Stream

Mixed == {<<>>, <<1, 1>>}
=============================================================================
