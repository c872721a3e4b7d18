SPECIFICATION Spec
CONSTANTS
    Kinds <- MCKinds
    Class <- MCClass
    Calls <- MCCalls
    Keys <- MCKeys
    TokenType <- MCTokenType
    HasCR <- MCHasCR
    Decoded <- MCDecoded
    ReadBack <- MCReadBack
    MaxInnerKeys = 2
    Surrogates = FALSE
    MaxErrors = 2
    MaxWarnings = 1
    MaxStackTraces = 1
    StackTraceMaxLines = 2
    MaxTotalLines = 4
    FloorLines = 1
    MinTokens = 64
    MaxChars = 262144
    ProseMaxChars = 100000
    WithModel = TRUE
    HasStore = TRUE
    AliasDigits = {1, 10}
    MinLength = 256
    NoText = NoText
    NotText = NotText
INVARIANTS
    NeverLonger
    LossIsMarked
    FailuresKept
    ContextOnly
    CodeStaysAway
    BlocksComeBack
    TableComesBack
    ReplyHonest
CHECK_DEADLOCK FALSE
