CONSTANTS
    MaxInt        = 47
    MaxLargestInt = 499
    Digits        = 2
    MaxExponent   = 4
    RightMargin   = 8
    IndentSize    = 1
    MaxLexemes    = 6
    Lexemes            <- MCLexemes
    Words              <- MCWords
    Layouts            <- MCLayouts
    ReaderFeatures     <- MCReaderFeatures
    CharReaderSettings <- MCCharReaderSettings
SPECIFICATION Spec
CONSTRAINT Viable
INVARIANTS ReadersFollowGrammar OffsetsFit RoundTrip CommentsAreKept ConversionsAgree
CHECK_DEADLOCK FALSE
