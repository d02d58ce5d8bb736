SPECIFICATION Spec
CONSTANTS
    Graphs <- GraphsOfFour
    Batches = {1, 2}
    Alignment = 2
    MaxChunkSize = 8
    MaxChunks = 2
    Endless = 1000
    MaxRounds = 2
INVARIANTS TypeOK ReadsItsSources FreeBlocksSound FitsBuffer
