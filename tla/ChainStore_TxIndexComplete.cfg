SPECIFICATION Spec
CONSTANTS
    g1 = g1  g2 = g2
    a1 = a1  b1 = b1  a2 = a2  b2 = b2  c2 = c2  e1 = e1  e2 = e2
    weak = weak  forged = forged  skip = skip  stray = stray  unsigned = unsigned
    t0 = t0  t1 = t1  t2 = t2  t3 = t3  tbad = tbad
    NoBlock = NoBlock
    Tx <- MCTx
    ValidTx <- MCValidTx
    Block <- MCBlock
    Genesis <- MCGenesis
    HashBits = 3
    header <- MCheader
    body <- MCbody
    MaxFaults = 1
INVARIANTS TxIndexComplete
