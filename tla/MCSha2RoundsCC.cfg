\* CC_LONG stands for 2^32: here four SHA-256 blocks.
CONSTANTS
    Backends = {"cc"}
    Blocks <- MCManyBlocks
    Tails <- MCTails
    CC_LONG = 256
SPECIFICATION Spec
INVARIANT CommonCryptoAgrees
