SPECIFICATION WireSpec
CONSTANTS
    MaxHeader = 10
    MaxBody = 3
    MaxChunkLine = 3
    Symbols <- MCSymbols
    Scripts <- MCScripts
    Responses <- MCResponses
    MaxDepth = 2
    MaxPoint = 3
    Block = 5
    LenBytes = 2
    DigestLen = 3
    IPad = 6
    OPad = 12
    ByteBits = 4
    WordBytes = 2
    Chain <- MCChain
    CoreWords = 3
    Core <- MCCore
    UsizeMax = 150
    I64Max = 7
    Tolerance = 2
    Secret = "mine"
    Now = 3
    Seeds <- MCSeeds
    MaxFed = 14
INVARIANTS RequestsAreAsSent AnswersLineUp TextsAreReadAndWritten DigestIsStandard
CHECK_DEADLOCK FALSE
