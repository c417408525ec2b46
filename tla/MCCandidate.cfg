SPECIFICATION MCSpec
CONSTANTS
    Tx = {t1, t2, t3, t4, t5}
    MaxSize = 4
    Coinbase = {cb}
    Limit = 4
    Zeros = Zeros
INVARIANTS PoolTypeOK PoolBounded RootNamesBody OnlyTailRepeats
PROPERTIES PoolKeepsOrder
SYMMETRY Symmetry
