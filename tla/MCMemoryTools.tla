--------------------------- MODULE MCMemoryTools ---------------------------
EXTENDS MemoryTools

MCCells == <<2, 1, 1>>
MCStart == [a \in {<<1, 1>>, <<1, 2>>, <<2, 1>>, <<3, 1>>} |-> IF a = <<1, 2>> THEN 1 ELSE 0]

Get(path) == [method |-> "GET", path |-> path]
MCDefaults == [type |-> "int", func |-> "isEqual", value |-> Absent, count |-> Absent,
               skip |-> 1, address |-> <<1, 1>>]
MCRequests ==
    {Get("/init"), Get("/getPages"), [method |-> "GET", path |-> "/first", type |-> "int"],
     [method |-> "GET", path |-> "/first", type |-> "void"],
     [method |-> "GET", path |-> "/second", func |-> "isEqual", value |-> Absent],
     [method |-> "GET", path |-> "/second", func |-> "isLess", value |-> Absent],
     [method |-> "GET", path |-> "/third", func |-> "isNotEqual", value |-> Absent, count |-> Absent],
     [method |-> "GET", path |-> "/third", func |-> "isSmaller", value |-> 0, count |-> 1],
     [method |-> "GET", path |-> "/dump", count |-> Absent, skip |-> 1],
     [method |-> "GET", path |-> "/write", address |-> <<1, 1>>, value |-> 3],
     [method |-> "POST", path |-> "/init"]}
MCGetPaths == {"/init", "/getPages", "/first", "/second", "/third", "/dump", "/write"}
============================================================================
