----------------------------- MODULE ChainStore -----------------------------
(***************************************************************************)
(* The block store (curvetime/storage/chain_db.py) under the blockchain    *)
(* object that owns it (curvetime/core/blockchain.py).                     *)
(*                                                                         *)
(* The database is LevelDB: a log of puts, of which a read returns the     *)
(* last one under its key.  No put of the code is synchronous and put_block *)
(* is a loop of puts rather than a batch, so a crash keeps any prefix of   *)
(* the log.  While the process runs its handlers are not interrupted       *)
(* inside put_block (it does not await), so each is one action.            *)
(***************************************************************************)
EXTENDS Blocks, FiniteSets, FiniteSetsExt

CONSTANT MaxFaults  \* bound: crashes and failed writes in a behaviour

ASSUME MaxFaultsAssumption == MaxFaults \in Nat

VARIABLES
    log,    \* the puts that reached the database, in order
    up,     \* a process has the database open
    total,  \* blockchain.total_transactions
    faults  \* crashes and failed writes so far

vars == <<log, up, total, faults>>

-----------------------------------------------------------------------------
(* The database *)

Put(ns, id, val) == [ns |-> ns, id |-> id, val |-> val]

\* Keys are a prefix byte and an identifier: B{hash}, H{height}, T{tx hash}.
BlockPut(b) == Put("B", b, b)
\* Faulty: heights counted from 1 and stored from 0.
HeightPutFromOne(b) == Put("H", header[b].height - 1, b)

HeightPut(b) == Put("H", header[b].height, b)
TxPut(t) == Put("T", t, t)

\* Faulty: the height before the block, or after the transactions.
PutBlockHeightFirst(b) ==
    <<HeightPut(b), BlockPut(b)>> \o [i \in 1 .. Len(body[b]) |-> TxPut(body[b][i])]
PutBlockHeightLast(b) ==
    <<BlockPut(b)>> \o [i \in 1 .. Len(body[b]) |-> TxPut(body[b][i])] \o <<HeightPut(b)>>
\* Faulty: the first transaction, usually the coinbase, is not indexed.
PutBlockSkipsFirst(b) ==
    <<BlockPut(b), HeightPut(b)>> \o [i \in 1 .. Len(body[b]) - 1 |-> TxPut(body[b][i + 1])]

\* BlockchainDB.put_block: the block, then its height, then its transactions
PutBlock(b) ==
    <<BlockPut(b), HeightPut(b)>> \o [i \in 1 .. Len(body[b]) |-> TxPut(body[b][i])]

Writes(l, ns, id) == {i \in DOMAIN l : l[i].ns = ns /\ l[i].id = id}

\* plyvel's get: the last value written under the key
Get(l, ns, id) ==
    IF Writes(l, ns, id) = {} THEN NoBlock ELSE l[Max(Writes(l, ns, id))].val

Heights(l) == {l[i].id : i \in {j \in DOMAIN l : l[j].ns = "H"}}

\* get_height: the last key of a reverse scan.  The keys are big-endian, so
\* their order in the database is the order of the heights.
GetHeight(l) == IF Heights(l) = {} THEN -1 ELSE Max(Heights(l))

GetBlockByHash(l, h) == Get(l, "B", h)

GetBlockByHeight(l, h) ==
    IF Get(l, "H", h) = NoBlock THEN NoBlock ELSE GetBlockByHash(l, Get(l, "H", h))

GetLastBlock(l) ==
    IF Heights(l) = {} THEN NoBlock ELSE GetBlockByHeight(l, GetHeight(l))

-----------------------------------------------------------------------------
(* The blockchain object *)

Init ==
    /\ log = <<>>
    /\ up = FALSE
    /\ total = 0
    /\ faults = 0

\* Faulty: the test for an empty database is missing.
StartAlwaysWithGenesis ==
    /\ ~up
    /\ up' = TRUE
    /\ \E g \in Genesis : log' = log \o PutBlock(g) /\ total' = Len(body[g])
    /\ UNCHANGED faults

\* Blockchain.__init__ on the opened database: an empty one gets a genesis
\* block; on any other the transaction counter starts from 0 again.
Start ==
    /\ ~up
    /\ up' = TRUE
    /\ IF GetHeight(log) = -1
       THEN \E g \in Genesis : log' = log \o PutBlock(g) /\ total' = Len(body[g])
       ELSE total' = 0 /\ UNCHANGED log
    /\ UNCHANGED faults

\* Faulty: the previous hash, or the height, is not compared.
AcceptsAnyParent(l, b) ==
    LET last == GetLastBlock(l)
    IN  /\ last # NoBlock
        /\ header[b].height = header[last].height + 1
        /\ ContentValid(b, header[b].bits)
AcceptsAnyHeight(l, b) ==
    LET last == GetLastBlock(l)
    IN  last # NoBlock /\ header[b].prev = last /\ ContentValid(b, header[b].bits)

\* add_block holds a block to the difficulty the block itself states.
Accepts(l, b) ==
    LET last == GetLastBlock(l)
    IN  last # NoBlock /\ Validate(b, last, header[last].height, header[b].bits)

AddBlock(b) ==
    /\ up
    /\ Accepts(log, b)
    /\ log' = log \o PutBlock(b)
    /\ total' = total + Len(body[b])
    /\ UNCHANGED <<up, faults>>

\* Faulty: the counter is updated before the block is stored.
AddBlockFailsCounted(b) ==
    /\ up
    /\ faults < MaxFaults
    /\ Accepts(log, b)
    /\ \E n \in 0 .. Len(PutBlock(b)) - 1 : log' = log \o SubSeq(PutBlock(b), 1, n)
    /\ faults' = faults + 1
    /\ total' = total + Len(body[b])
    /\ UNCHANGED up

\* A put, or the serialize before it, raises after n puts of put_block: the
\* exception leaves add_block before the counter is updated, and the caller
\* (a message handler) swallows it.
AddBlockFails(b) ==
    /\ up
    /\ faults < MaxFaults
    /\ Accepts(log, b)
    /\ \E n \in 0 .. Len(PutBlock(b)) - 1 : log' = log \o SubSeq(PutBlock(b), 1, n)
    /\ faults' = faults + 1
    /\ UNCHANGED <<up, total>>

\* CurveTimeNode.stop: BlockchainDB.close
Close ==
    /\ up
    /\ up' = FALSE
    /\ total' = 0
    /\ UNCHANGED <<log, faults>>

\* The process or the machine dies, possibly inside put_block.
Crash ==
    /\ up
    /\ faults < MaxFaults
    /\ up' = FALSE
    /\ total' = 0
    /\ faults' = faults + 1
    /\ \E n \in 0 .. Len(log) : log' = SubSeq(log, 1, n)

Next ==
    \/ Start
    \/ \E b \in Block : AddBlock(b)
    \/ \E b \in Block : AddBlockFails(b)
    \/ Close
    \/ Crash

Spec == Init /\ [][Next]_vars

-----------------------------------------------------------------------------
(* Properties *)

Entry ==
    [ns : {"B"}, id : Block, val : Block]
        \cup [ns : {"H"}, id : Nat, val : Block]
        \cup [ns : {"T"}, id : Tx, val : Tx]

\* Every record in the database has the shape its key prefix says, and the
\* counters stay in their ranges (chain_db.py:18-22).
TypeOK ==
    /\ log \in Seq(Entry)
    /\ up \in BOOLEAN
    /\ total \in Nat
    /\ faults \in 0 .. MaxFaults

\* The highest height key always leads to a stored block of that height,
\* whatever was lost or half written, and an open store has one: add_block
\* and get_blockchain_info read get_last_block().header without a test for
\* None (blockchain.py:34, routes.py:48).
TipResolves ==
    up \/ Heights(log) # {} =>
        /\ GetLastBlock(log) # NoBlock
        /\ header[GetLastBlock(log)].height = GetHeight(log)

\* Every height up to the tip leads to a block: a genesis block at 0, and
\* above it a block that validates against the block one below, whatever
\* crashes, restarts and failed writes came between the two
\* (blockchain.py:33-38).
ChainLinked ==
    \A h \in 0 .. GetHeight(log) :
        LET b == GetBlockByHeight(log, h)
        IN  /\ b \in Block
            /\ header[b].height = h
            /\ h = 0 => b \in Genesis
            /\ h > 0 => /\ header[b].prev = GetBlockByHeight(log, h - 1)
                        /\ ContentValid(b, header[b].bits)

\* A transaction the T index returns is in a block of the chain: put_block
\* writes it last (chain_db.py:34-37).
TxIndexSound ==
    \A t \in Tx : Get(log, "T", t) # NoBlock =>
        \E h \in Heights(log) : t \in TxsOf(GetBlockByHeight(log, h))

\* Every transaction of a block on the chain is in the T index: put_block
\* says it stores "all the transactions of the block" (chain_db.py:34).
TxIndexComplete ==
    \A h \in Heights(log) :
        \A t \in TxsOf(GetBlockByHeight(log, h)) : Get(log, "T", t) = t

\* Without crashes and failed writes the T index is complete, over any
\* number of clean stops and restarts.
TxIndexCompleteIfNoFault == faults = 0 => TxIndexComplete

\* The places of the transactions of the chain: a height, and one in its block
TxPlaces(l) ==
    UNION {{h} \X DOMAIN body[GetBlockByHeight(l, h)] : h \in Heights(l)}

\* The counter /api/blockchain/info reports never exceeds the transactions
\* of the chain: add_block counts a block only once all of it is stored
\* (blockchain.py:37-38).
TotalBounded == total <= Cardinality(TxPlaces(log))

\* A height that has a block keeps that block as long as it has one
\* (there is no reorganisation: put_block only ever writes a new height).
HeightsStable ==
    [][\A h \in Heights(log) \cap Heights(log') :
          GetBlockByHeight(log', h) = GetBlockByHeight(log, h)]_vars

-----------------------------------------------------------------------------
(* The chain the database holds, and the specification it implements *)

StoredChain(l) == [n \in 1 .. GetHeight(l) + 1 |-> GetBlockByHeight(l, n - 1)]

Abs == INSTANCE ChainSpec WITH chain <- StoredChain(log)

\* The store implements the chain of ChainSpec: puts that a failure or a
\* crash cuts short are a whole block of the chain or nothing.
ImplementsChain == Abs!Spec
=============================================================================
