----------------------------- MODULE NodeProofs -----------------------------
(***************************************************************************)
(* Proofs about Node, for every set of blocks and transactions, every      *)
(* number of mining coroutines and both values of auto_mine.               *)
(***************************************************************************)
EXTENDS Node, TLAPS

\* The chain is a chain of heights while it is open; a halt may cut it back
\* to nothing, and then the next start puts a genesis block there.
ChainGood ==
    /\ up => chain # <<>>
    /\ \A i \in DOMAIN chain : header[chain[i]].height = i - 1

NodeInv ==
    /\ NodeTypeOK
    /\ stop # "no" => start # "no"
    /\ ChainGood
    /\ CandidateOnChain

-----------------------------------------------------------------------------
(* The mempool under the handlers *)

LEMMA PoolNext == Pool!PoolTypeOK /\ [Next]_vars => Pool!PoolTypeOK'
<1> SUFFICES ASSUME Pool!PoolTypeOK, [Next]_vars PROVE Pool!PoolTypeOK'
  OBVIOUS
<1>1. ASSUME NEW t \in Tx, NEW S \in SUBSET txs, Pool!Insert(t, S) PROVE Pool!PoolTypeOK'
  BY <1>1 DEF Pool!Insert, Pool!InsertedIn, Pool!Among, Pool!PoolTypeOK
<1>2. ASSUME NEW t \in Tx, Pool!AddTransaction(t) PROVE Pool!PoolTypeOK'
  BY <1>1, <1>2 DEF Pool!AddTransaction
<1>3. ASSUME UNCHANGED <<txs, before>> PROVE Pool!PoolTypeOK'
  BY <1>3 DEF Pool!PoolTypeOK
<1>4. ASSUME NEW t \in Tx, SubmitTransaction(t) \/ OnNewTransaction(t)
      PROVE  Pool!PoolTypeOK'
  BY <1>2, <1>4 DEF SubmitTransaction, OnNewTransaction, TakeTransaction
<1>5. CASE Exit
  BY <1>5 DEF Exit, Pool!PoolTypeOK
<1>6. CASE Construct \/ Start \/ StartReturns \/ Stop \/ StopReturns
  BY <1>3, <1>6 DEF Construct, Start, StartReturns, Stop, StopReturns
<1>7. CASE \E b \in Block : OnNewBlock(b)
  BY <1>3, <1>7 DEF OnNewBlock
<1>8. CASE \E force \in Forced : MineBlock(force)
  BY <1>3, <1>8 DEF MineBlock
<1>9. CASE \E m \in Task : MiningStep(m)
  BY <1>3, <1>9 DEF MiningStep, BeginMining, ContinueMining, SearchSucceeds, SearchFails
<1>10. CASE UNCHANGED vars
  BY <1>3, <1>10 DEF vars
<1> QED
  BY <1>4, <1>5, <1>6, <1>7, <1>8, <1>9, <1>10 DEF Next

-----------------------------------------------------------------------------
(* The chain under the handlers *)

\* Every action is a step of ChainSpec or leaves the chain alone.
LEMMA StepIsChainStep == NodeInv /\ [Next]_vars => [Chain!Next]_(Chain!vars)
<1> SUFFICES ASSUME NodeInv, [Next]_vars PROVE Chain!Next \/ UNCHANGED <<chain, up>>
  BY DEF Chain!vars
<1>1. CASE Construct
  BY <1>1 DEF Construct, Chain!Next
<1>2. CASE Exit
  <2>1. up \in BOOLEAN
    BY DEF NodeInv, NodeTypeOK
  <2>2. up' = FALSE /\ (IF up THEN Chain!Halt ELSE UNCHANGED chain)
    BY <1>2 DEF Exit, Life!Exit
  <2> QED
    BY <2>1, <2>2 DEF Chain!Next
<1>3. CASE StopReturns
  <2>1. up' = FALSE /\ UNCHANGED chain /\ up
    BY <1>3 DEF StopReturns, Life!StopReturns, NodeInv, NodeTypeOK
  <2>2. chain \in Seq(Block)
    BY DEF NodeInv, NodeTypeOK
  <2>3. Len(chain) \in 0 .. Len(chain) /\ chain = SubSeq(chain, 1, Len(chain))
    BY <2>2
  <2>4. Chain!Halt
    BY <2>1, <2>3 DEF Chain!Halt
  <2> QED
    BY <2>4 DEF Chain!Next
<1>4. ASSUME NEW t \in Tx, SubmitTransaction(t) \/ OnNewTransaction(t)
      PROVE  UNCHANGED <<chain, up>>
  BY <1>4 DEF SubmitTransaction, OnNewTransaction, TakeTransaction
<1>5. CASE Start \/ StartReturns \/ Stop
  BY <1>5 DEF Start, StartReturns, Stop, Life!Start, Life!StartReturns, Life!Stop
<1>6. CASE \E b \in Block : OnNewBlock(b)
  BY <1>6 DEF OnNewBlock, Chain!Next
<1>7. CASE \E force \in Forced : MineBlock(force)
  BY <1>7 DEF MineBlock
<1>8. CASE \E m \in Task : MiningStep(m)
  BY <1>8 DEF MiningStep, BeginMining, ContinueMining, SearchSucceeds, SearchFails
<1>9. CASE UNCHANGED vars
  BY <1>9 DEF vars
<1> QED
  BY <1>1, <1>2, <1>3, <1>4, <1>5, <1>6, <1>7, <1>8, <1>9 DEF Next

\* The heights stay in order, and an open chain has a block.
LEMMA ChainGoodNext ==
    ASSUME chain \in Seq(Block), ChainGood, Chain!Next
    PROVE  ChainGood' /\ chain' \in Seq(Block)
<1>1. /\ up => chain # <<>>
      /\ \A i \in DOMAIN chain : header[chain[i]].height = i - 1
      /\ DOMAIN chain = 1 .. Len(chain) /\ Len(chain) \in Nat
  BY DEF ChainGood
<1>2. CASE Chain!Boot
  <2>1. CASE chain # <<>> /\ UNCHANGED chain
    BY <1>1, <2>1 DEF ChainGood
  <2>2. ASSUME NEW g \in Genesis, chain' = <<g>> PROVE ChainGood' /\ chain' \in Seq(Block)
    <3>1. g \in Block /\ header[g].height = 0
      BY BlocksAssumption, GenesisAssumption DEF IsGenesis
    <3>2. DOMAIN chain' = 1 .. 1 /\ chain'[1] = g /\ chain' # <<>>
      BY <2>2
    <3>3. chain' \in Seq(Block)
      BY <2>2, <3>1
    <3>4. ASSUME NEW i \in DOMAIN chain' PROVE header[chain'[i]].height = i - 1
      BY <3>1, <3>2
    <3> QED
      BY <3>2, <3>3, <3>4 DEF ChainGood
  <2> QED
    BY <1>2, <2>1, <2>2 DEF Chain!Boot
<1>3. ASSUME NEW b \in Block, Chain!Extend(b) PROVE ChainGood' /\ chain' \in Seq(Block)
  <2>1. up /\ chain # <<>> /\ chain' = Append(chain, b)
    BY <1>1, <1>3 DEF Chain!Extend
  <2>2. Len(chain) \in DOMAIN chain
    BY <1>1, <2>1
  <2>3. header[b].height = Len(chain)
    <3>1. header[b].height = header[chain[Len(chain)]].height + 1
      BY <1>3 DEF Chain!Extend, Chain!Tip, Chain!Validate
    <3>2. header[chain[Len(chain)]].height = Len(chain) - 1
      BY <1>1, <2>2
    <3> QED
      BY <1>1, <3>1, <3>2
  <2>4. chain' \in Seq(Block) /\ DOMAIN chain' = 1 .. Len(chain) + 1
    BY <2>1
  <2>5. ASSUME NEW i \in DOMAIN chain' PROVE header[chain'[i]].height = i - 1
    <3>1. CASE i = Len(chain) + 1
      BY <1>1, <2>1, <2>3, <3>1
    <3>2. CASE i \in DOMAIN chain
      BY <1>1, <2>1, <3>2
    <3> QED
      BY <1>1, <2>4, <3>1, <3>2
  <2>6. chain' # <<>>
    BY <2>1
  <2> QED
    BY <2>4, <2>5, <2>6 DEF ChainGood
<1>4. CASE Chain!Halt
  <2>1. PICK n \in 0 .. Len(chain) : chain' = SubSeq(chain, 1, n)
    BY <1>4 DEF Chain!Halt
  <2>2. chain' \in Seq(Block) /\ DOMAIN chain' = 1 .. n
    BY <2>1
  <2>3. \A i \in 1 .. n : chain'[i] = chain[i]
    BY <2>1
  <2>4. ASSUME NEW i \in DOMAIN chain' PROVE header[chain'[i]].height = i - 1
    BY <1>1, <2>2, <2>3
  <2>5. ~up'
    BY <1>4 DEF Chain!Halt
  <2> QED
    BY <2>2, <2>4, <2>5 DEF ChainGood
<1> QED
  BY <1>2, <1>3, <1>4 DEF Chain!Next

-----------------------------------------------------------------------------
(* The inductive invariant *)

\* Outside Exit no block leaves the chain.
LEMMA CandidateKept ==
    ASSUME chain \in Seq(Block), CandidateOnChain, UNCHANGED task,
           \A i \in DOMAIN chain : i \in DOMAIN chain' /\ chain'[i] = chain[i]
    PROVE  CandidateOnChain'
<1> SUFFICES ASSUME NEW m \in Task, task[m].pc = "search"
             PROVE  \E i \in DOMAIN chain' : chain'[i] = task[m].prev /\ task[m].height = i
  BY DEF CandidateOnChain
<1>1. PICK i \in DOMAIN chain : chain[i] = task[m].prev /\ task[m].height = i
  BY DEF CandidateOnChain
<1> QED
  BY <1>1

\* An iteration of the loop builds on the tip.
LEMMA IterationFacts ==
    ASSUME NodeInv, NEW m \in Task, NEW flag \in BOOLEAN, Iteration(m, flag), UNCHANGED chain
    PROVE  task' \in [Task -> TaskState] /\ CandidateOnChain'
<1>1. task \in [Task -> TaskState] /\ chain \in Seq(Block)
  BY DEF NodeInv, NodeTypeOK
<1>2. NoTask \in TaskState /\ Idle \in TaskState /\ Yielding \in TaskState
  BY DEF TaskState
<1>3. NoTask.pc # "search" /\ Idle.pc # "search" /\ Yielding.pc # "search"
  BY DEF NoTask, Idle, Yielding
<1>4. ASSUME NEW c \in TaskState, c.pc # "search", task' = [task EXCEPT ![m] = c]
      PROVE  task' \in [Task -> TaskState] /\ CandidateOnChain'
  BY <1>1, <1>4 DEF NodeInv, CandidateOnChain
<1>5. ASSUME up, task' = [task EXCEPT ![m] = Searching(Chain!Tip, Pool!Pending(2000))]
      PROVE  task' \in [Task -> TaskState] /\ CandidateOnChain'
  <2> DEFINE c == Searching(Chain!Tip, Pool!Pending(2000))
  <2>1. chain # <<>> /\ DOMAIN chain = 1 .. Len(chain) /\ Len(chain) \in DOMAIN chain
    BY <1>1, <1>5 DEF NodeInv, ChainGood
  <2>2. Chain!Tip = chain[Len(chain)] /\ Chain!Tip \in Block
    BY <1>1, <2>1 DEF Chain!Tip
  <2>3. header[Chain!Tip].height + 1 = Len(chain)
    <3>1. header[Chain!Tip].height = Len(chain) - 1
      BY <2>1, <2>2 DEF NodeInv, ChainGood
    <3> QED
      BY <1>1, <3>1
  <2>4. Pool!Pending(2000) \in SUBSET Tx
    BY DEF Pool!Pending, NodeInv, NodeTypeOK, Pool!PoolTypeOK
  <2>5. c.pc = "search" /\ c.prev = Chain!Tip /\ c.height = Len(chain)
    BY <2>3 DEF Searching
  <2>6. c \in TaskState
    BY <1>1, <2>2, <2>3, <2>4 DEF TaskState, Searching
  <2>7. task' = [task EXCEPT ![m] = c]
    BY <1>5
  <2> HIDE DEF c
  <2>8. task' \in [Task -> TaskState]
    BY <1>1, <2>6, <2>7
  <2>9. ASSUME NEW n \in Task, task'[n].pc = "search"
        PROVE  \E i \in DOMAIN chain' : chain'[i] = task'[n].prev /\ task'[n].height = i
    <3>1. CASE n = m
      BY <1>1, <2>1, <2>2, <2>5, <2>7, <3>1
    <3>2. CASE n # m
      BY <1>1, <2>7, <2>9, <3>2 DEF NodeInv, CandidateOnChain
    <3> QED
      BY <3>1, <3>2
  <2> QED
    BY <2>8, <2>9 DEF CandidateOnChain
<1> QED
  BY <1>2, <1>3, <1>4, <1>5 DEF Iteration

LEMMA NodeInvInit == Init => NodeInv
<1> SUFFICES ASSUME Init PROVE NodeInv
  OBVIOUS
<1>1. chain = <<>> /\ up = FALSE /\ txs = {} /\ before = {}
  BY DEF Init, Chain!Init, Pool!Init
<1>3. \A m \in Task : task[m] = NoTask /\ NoTask.pc # "search"
  BY DEF Init, NoTask
<1>4. CandidateOnChain
  BY <1>3 DEF CandidateOnChain
<1>5. NodeTypeOK
  <2>1. task \in [Task -> TaskState]
    BY DEF Init, TaskState
  <2>2. chain \in Seq(Block)
    BY <1>1
  <2> QED
    BY <1>1, <2>1, <2>2 DEF Init, Life!Init, NodeTypeOK, Pool!PoolTypeOK
<1>6. ChainGood /\ (stop # "no" => start # "no")
  BY <1>1 DEF Init, Life!Init, ChainGood
<1> QED
  BY <1>4, <1>5, <1>6 DEF NodeInv

\* The flags of the process.
LEMMA FlagsNext ==
    ASSUME NodeInv, [Next]_vars
    PROVE  /\ alive' \in BOOLEAN
           /\ start' \in {"no", "network", "done"}
           /\ stop' \in {"no", "network", "done"}
           /\ up' = (alive' /\ stop' # "done")
           /\ start' # "no" => alive'
           /\ stop' # "no" => start' # "no"
           /\ api' => start' = "done"
           /\ running' \in BOOLEAN
<1> DEFINE F == /\ alive' \in BOOLEAN
                /\ start' \in {"no", "network", "done"}
                /\ stop' \in {"no", "network", "done"}
                /\ up' = (alive' /\ stop' # "done")
                /\ start' # "no" => alive'
                /\ stop' # "no" => start' # "no"
                /\ api' => start' = "done"
                /\ running' \in BOOLEAN
<1>1. /\ alive \in BOOLEAN
      /\ start \in {"no", "network", "done"}
      /\ stop \in {"no", "network", "done"}
      /\ up = (alive /\ stop # "done")
      /\ start # "no" => alive
      /\ stop # "no" => start # "no"
      /\ api => start = "done"
      /\ running \in BOOLEAN
  BY DEF NodeInv, NodeTypeOK
<1>2. CASE UNCHANGED <<up, alive, start, stop, api>> /\ running' \in BOOLEAN
  BY <1>1, <1>2
<1>3. CASE Construct
  BY <1>1, <1>3 DEF Construct, Life!Construct
<1>4. CASE Start
  BY <1>1, <1>4 DEF Start, Life!Start
<1>5. CASE StartReturns
  BY <1>1, <1>5 DEF StartReturns, Life!StartReturns
<1>6. CASE Stop
  BY <1>1, <1>6 DEF Stop, Life!Stop, Life!NodeRunning
<1>7. CASE StopReturns
  BY <1>1, <1>7 DEF StopReturns, Life!StopReturns
<1>8. CASE Exit
  BY <1>1, <1>8 DEF Exit, Life!Exit
<1>9. ASSUME NEW t \in Tx, SubmitTransaction(t) \/ OnNewTransaction(t) PROVE F
  BY <1>1, <1>2, <1>9 DEF SubmitTransaction, OnNewTransaction, TakeTransaction
<1>10. ASSUME NEW b \in Block, OnNewBlock(b) PROVE F
  BY <1>1, <1>2, <1>10 DEF OnNewBlock, Chain!Extend
<1>11. ASSUME NEW force \in Forced, MineBlock(force) PROVE F
  BY <1>1, <1>2, <1>11 DEF MineBlock
<1>12. ASSUME NEW m \in Task, MiningStep(m) PROVE F
  BY <1>1, <1>2, <1>12
  DEF MiningStep, BeginMining, ContinueMining, SearchSucceeds, SearchFails
<1>13. CASE UNCHANGED vars
  BY <1>1, <1>2, <1>13 DEF vars
<1> QED
  BY <1>3, <1>4, <1>5, <1>6, <1>7, <1>8, <1>9, <1>10, <1>11, <1>12, <1>13 DEF Next

\* The coroutines and their candidates.
LEMMA TasksNext ==
    ASSUME NodeInv, [Next]_vars
    PROVE  task' \in [Task -> TaskState] /\ CandidateOnChain'
<1> DEFINE G == task' \in [Task -> TaskState] /\ CandidateOnChain'
<1>1. task \in [Task -> TaskState] /\ chain \in Seq(Block) /\ CandidateOnChain
  BY DEF NodeInv, NodeTypeOK
<1>2. /\ NoTask \in TaskState /\ Yielding \in TaskState
      /\ NoTask.pc # "search" /\ Yielding.pc # "search"
      /\ \A by \in {"start", "request"} :
            Created(by) \in TaskState /\ Created(by).pc # "search"
  BY DEF TaskState, NoTask, Created, Yielding
<1>3. ASSUME UNCHANGED <<chain, task>> PROVE G
  BY <1>1, <1>3 DEF CandidateOnChain
<1>4. ASSUME NEW m \in Task, NEW c \in TaskState, c.pc # "search",
             task' = [task EXCEPT ![m] = c], UNCHANGED chain
      PROVE  G
  BY <1>1, <1>4 DEF CandidateOnChain
<1>5. ASSUME NEW by \in {"start", "request"}, Spawn(by), UNCHANGED chain PROVE G
  BY <1>2, <1>4, <1>5 DEF Spawn
<1>6. CASE Construct
  <2>1. CASE UNCHANGED chain
    BY <1>3, <1>6, <2>1 DEF Construct
  <2>2. CASE chain = <<>>
    <3>1. DOMAIN chain = {}
      BY <2>2
    <3>2. \A i \in DOMAIN chain : i \in DOMAIN chain' /\ chain'[i] = chain[i]
      BY <3>1
    <3> QED
      BY <1>1, <1>6, <3>2, CandidateKept DEF Construct
  <2> QED
    BY <1>6, <2>1, <2>2 DEF Construct, Chain!Boot
<1>7. CASE Exit
  <2>1. task' = [m \in Task |-> NoTask]
    BY <1>7 DEF Exit
  <2> QED
    BY <1>2, <2>1 DEF CandidateOnChain
<1>8. CASE StartReturns
  BY <1>3, <1>5, <1>8 DEF StartReturns
<1>9. CASE Start \/ Stop \/ StopReturns
  BY <1>3, <1>9 DEF Start, Stop, StopReturns
<1>10. ASSUME NEW t \in Tx, SubmitTransaction(t) \/ OnNewTransaction(t) PROVE G
  BY <1>3, <1>10 DEF SubmitTransaction, OnNewTransaction, TakeTransaction
<1>11. ASSUME NEW b \in Block, OnNewBlock(b) PROVE G
  <2>1. chain' = Append(chain, b) /\ UNCHANGED task
    BY <1>11 DEF OnNewBlock, Chain!Extend
  <2>2. \A i \in DOMAIN chain : i \in DOMAIN chain' /\ chain'[i] = chain[i]
    BY <1>1, <2>1
  <2> QED
    BY <1>1, <2>1, <2>2, CandidateKept
<1>12. ASSUME NEW force \in Forced, MineBlock(force) PROVE G
  BY <1>5, <1>12 DEF MineBlock
<1>13. ASSUME NEW m \in Task, MiningStep(m) PROVE G
  <2>1. CASE BeginMining(m)
    BY <2>1, IterationFacts DEF BeginMining
  <2>2. CASE ContinueMining(m)
    <3>1. running \in BOOLEAN
      BY DEF NodeInv, NodeTypeOK
    <3> QED
      BY <2>2, <3>1, IterationFacts DEF ContinueMining
  <2>3. CASE SearchSucceeds(m)
    BY <1>2, <1>4, <2>3 DEF SearchSucceeds
  <2>4. CASE SearchFails(m)
    BY <1>2, <1>4, <2>4 DEF SearchFails
  <2> QED
    BY <1>13, <2>1, <2>2, <2>3, <2>4 DEF MiningStep
<1>14. CASE UNCHANGED vars
  BY <1>3, <1>14 DEF vars
<1> QED
  BY <1>6, <1>7, <1>8, <1>9, <1>10, <1>11, <1>12, <1>13, <1>14 DEF Next

LEMMA NodeInvNext == NodeInv /\ [Next]_vars => NodeInv'
<1> SUFFICES ASSUME NodeInv, [Next]_vars PROVE NodeInv'
  OBVIOUS
<1>1. ChainGood' /\ chain' \in Seq(Block)
  <2>1. CASE Chain!Next
    BY <2>1, ChainGoodNext DEF NodeInv, NodeTypeOK
  <2>2. CASE UNCHANGED <<chain, up>>
    BY <2>2 DEF NodeInv, NodeTypeOK, ChainGood
  <2> QED
    BY <2>1, <2>2, StepIsChainStep DEF Chain!vars
<1>3. Pool!PoolTypeOK'
  BY PoolNext DEF NodeInv, NodeTypeOK
<1>4. NodeTypeOK'
  BY <1>1, <1>3, FlagsNext, TasksNext DEF NodeTypeOK
<1> QED
  BY <1>1, <1>4, FlagsNext, TasksNext DEF NodeInv

-----------------------------------------------------------------------------
(* Theorems *)

THEOREM NodeInvariance == Spec => []NodeInv
BY NodeInvInit, NodeInvNext, PTL DEF Spec

\* The database is open exactly while a node lives that has not stopped, and
\* requests are taken only after start (node.py:193-240).
THEOREM NodeTypeCorrect == Spec => []NodeTypeOK
<1>1. NodeInv => NodeTypeOK
  BY DEF NodeInv
<1> QED
  BY <1>1, NodeInvariance, PTL

\* A candidate builds on a block of the chain, whatever happens during the
\* search (curvetime_base.py:45-51).
THEOREM CandidatesAlwaysOnChain == Spec => []CandidateOnChain
<1>1. NodeInv => CandidateOnChain
  BY DEF NodeInv
<1> QED
  BY <1>1, NodeInvariance, PTL
=============================================================================
