SPECIFICATION Spec
CONSTANTS
    Heights <- MCHeights
    ForsTrees <- MCForsTrees
    UINT32_MODULUS = 256
    Junk = Junk
    None = None
INVARIANTS
    StackHoldsSiblings
    BuildsTheTree
    VerifierAgrees
