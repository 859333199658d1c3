CONSTANTS
    MaxLines = 3
    MaxChars = 4
    Files <- MCFiles
    Size = 3
    Scope <- AllStates
    Paths <- MCPaths
    Unsafe = {"u"}
    Folded <- MCFolded
    MaxCount = 1
    MaxDeclared = 2
    MaxRead = 8
    Workers = {w1, w2}
    AttemptLimit = 2
    LLMRetries = 2
    ValidationRetries = 1
    EmbeddingRetries = 1
    Queries = 2
SPECIFICATION MCSpec
INVARIANTS
    ChunksTile
    ReturnsAdvance
    AcceptsPatches
    RequestsBounded
CHECK_DEADLOCK FALSE
