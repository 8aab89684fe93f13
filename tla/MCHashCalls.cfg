SPECIFICATION HashSpec
CONSTANTS
    Junk = Junk
    None = None
    N = 3
    BYTE_BITS = 4
    LOGW = 2
    LANES = 4
    Leaves = 8
    MaxCounter = 3
    Limits = {0, 1}
    MaxSearches = 2
    Digests <- MCDigests
    D = 3
    TREE_HEIGHT = 4
    FORS_SIG_TREES = 2
    FORS_HEIGHT = 3
    WOTS_LEN = 2
    WOTS_W = 3
    BYTE = 7
    MessageDigests <- MCMessageDigests
    Lengths <- MCLengths
    MaxOps = 4
    DIGEST_BYTE_BITS = 5
    Outputs <- MCOutputs
INVARIANTS
    SignatureCompletes
    NoSignatureFromAnother
    AddressNamesRole
    VerifierRetraces
    EveryBitDecidesOnce
