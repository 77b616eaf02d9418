SPECIFICATION LiveSpec
CONSTANTS
    Buffers <- MCBuffers
    Rates = {0, 1}
    NoBuffer = NoBuffer
    Writes <- MCWrites
    Transfers = {1}
    Channels = {1, 2}
    Blocks <- MCBlocks
    NoBlock = NoBlock
    Sectors = 2
    C2Sectors = 2
    EarlyIo = FALSE
    MaxEvents = 2
INVARIANTS
    PutOffWhileFrozen
    TaskIsReported
    TransferIsWhole
    NeverStalls
PROPERTIES
    AudioPlays
    DpComes
    AnswersAreForTheBlock
    TransfersEnd
