SPECIFICATION Spec
CONSTANTS
    g = g  a1 = a1  b1 = b1  a2 = a2  weak = weak
    t0 = t0  t1 = t1  t2 = t2  t3 = t3  forged = forged
    NoBlock = NoBlock
    Tx <- MCTx
    SignedTx <- MCSignedTx
    ValidTx <- MCValidTx
    Block <- MCBlock
    Genesis <- MCGenesis
    HashBits = 2
    header <- MCheader
    body <- MCbody
    AutoMine = FALSE
    Task = {1, 2}
    MaxSize = 1
    Forced = {FALSE}
INVARIANT OneMiningLoop
