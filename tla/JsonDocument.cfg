CONSTANTS
    MaxInt        = 47
    MaxLargestInt = 499
    Digits        = 2
    MaxExponent   = 4
    MaxNodes      = 3
    MaxOther      = 1
    Names   <- MCNames
    Indices <- MCIndices
    Scalars <- MCScalars
    Remarks <- MCRemarks
    Slots   <- MCSlots
    MaxRemarks    = 1
    Others  <- MCOthers
SPECIFICATION Spec
CONSTRAINT Small
INVARIANT EachCallKeepsItsPromise OrderIsTotal
PROPERTY ImplementsPromise
CHECK_DEADLOCK FALSE
