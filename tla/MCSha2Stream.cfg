SPECIFICATION MCSpec
CONSTANTS
    MessageLengths <- MCMessageLengths
    EntropyLengths <- MCEntropyLengths
    Counters <- MCCounters
    ThashBlocks <- MCThashBlocks
    SIZE_BITS = 9
    Backends = {"ref256", "ref512", "x86_256", "x86_512", "arm", "avx2", "cc"}
    Blocks <- MCBlocks
    Tails <- MCTails
    CC_LONG = 4096
INVARIANTS
    TypeOK
    DigestsWhatIsMeant
    WorkingVariables
    BlocksChain
