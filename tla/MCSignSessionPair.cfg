SPECIFICATION Spec
CONSTANTS
    Threads = {t1, t2}
    Keys <- MCKeys
    ValidKeys <- MCValidKeys
    Messages <- MCMessages
    SPX_D = 2
    FORSC_MAX_GRIND_ATTEMPTS = 3
    WOTSC_MAX_COUNTER = 1
    WOTSC_COUNTER_LIMIT = 3
    CTR_MODULUS = 4
    ForscZero <- MCForscZero
    WotscHit <- MCWotscHit
    Offers <- MCOffers
    DefectSets <- MCNoDefects
    k1 = k1
    kbad = kbad
    NULL = NULL
    Zero = Zero
    Stale = Stale
    Garbage = Garbage
INVARIANTS
    TypeOK
    NoDanglingTls
    SignMatchesReference
    VerifyMatchesReference
