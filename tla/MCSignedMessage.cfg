SPECIFICATION Spec
CONSTANTS
    N = 2
    Seeds <- MCSeeds
    Texts <- MCTexts
    MEM = 13
    SM = 3
    Optrands = {o1}
INVARIANTS
    OpensWholeOrNothing
    ValidatedKeyVerifies
