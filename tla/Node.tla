-------------------------------- MODULE Node --------------------------------
(***************************************************************************)
(* One node: its chain, its mempool, the consensus engine's mining loops   *)
(* and the handlers that use them (curvetime/node.py,                      *)
(* consensus/curvetime_base.py, api/routes.py, api/jsonrpc.py).            *)
(*                                                                         *)
(* Everything runs on one asyncio loop: an action is what runs from one    *)
(* await to the next.  The chain is that of ChainSpec, which ChainStore    *)
(* implements; the mempool is that of Mempool, and the life cycle is that  *)
(* of Life, which Lifecycle implements.                                    *)
(***************************************************************************)
EXTENDS Blocks

CONSTANTS
    SignedTx,  \* transactions validate_transaction accepts as they arrive
    MaxSize,   \* storage.mempool_size
    AutoMine,  \* consensus.auto_mine
    Forced,    \* the values of bc_mineBlock's parameter
    Task       \* bound: mining coroutines that exist at a time

ASSUME NodeAssumption ==
    /\ SignedTx \subseteq Tx
    /\ MaxSize \in Nat \ {0}
    /\ AutoMine \in BOOLEAN
    /\ Forced \subseteq BOOLEAN

VARIABLES
    chain, up,    \* the chain and whether the database is open (ChainSpec)
    txs, before,  \* the mempool (Mempool)
    alive,        \* a process with a CurveTimeNode
    start, stop,  \* how far CurveTimeNode.start and stop are
    api,          \* the REST and JSON-RPC servers take requests
    running,      \* consensus.running
    task          \* the start_mining coroutines

vars == <<chain, up, txs, before, alive, start, stop, api, running, task>>

Chain == INSTANCE ChainSpec
Pool == INSTANCE Mempool
Life == INSTANCE Life

NoTask == [pc |-> "none"]
Created(by) == [pc |-> "created", by |-> by]  \* by start or by a request; not run yet
Idle == [pc |-> "idle"]         \* in sleep(0.1): the mempool was empty
Yielding == [pc |-> "yield"]    \* in the sleep(0) at the end of the loop

\* In _pow_search's sleep(0), with a candidate on top of prev.
Searching(prev, S) ==
    [pc |-> "search", prev |-> prev, height |-> header[prev].height + 1, txs |-> S]

Looping(m) == task[m].pc \notin {"none", "created"}

Init ==
    /\ Chain!Init
    /\ Pool!Init
    /\ Life!Init
    /\ running = FALSE
    /\ task = [m \in Task |-> NoTask]

-----------------------------------------------------------------------------
(* The process *)

Construct ==
    /\ Life!Construct
    /\ Chain!Boot
    /\ UNCHANGED <<txs, before, running, task>>

\* asyncio.create_task(start_mining)
Spawn(by) == \E m \in Task : task[m] = NoTask /\ task' = [task EXCEPT ![m] = Created(by)]

Start ==
    /\ Life!Start
    /\ UNCHANGED <<chain, txs, before, running, task>>

\* network.start has raised, or the miner is created and then the servers
\* are, also after a stop.
StartReturns ==
    /\ Life!StartReturns
    /\ \/ ~api' /\ UNCHANGED task
       \/ IF AutoMine THEN Spawn("start") ELSE UNCHANGED task
    /\ UNCHANGED <<chain, txs, before, running>>

Stop ==
    /\ Life!Stop
    /\ running' = FALSE
    /\ UNCHANGED <<chain, txs, before, task>>

\* Faulty: the database stays open.
StopReturnsOpen ==
    /\ stop = "network"
    /\ stop' = "done"
    /\ api' = FALSE
    /\ UNCHANGED <<chain, up, txs, before, alive, start, running, task>>

StopReturns ==
    /\ Life!StopReturns
    /\ UNCHANGED <<chain, txs, before, running, task>>

\* The process ends: after stop, or by a crash that may lose recent blocks.
Exit ==
    /\ Life!Exit
    /\ IF up THEN Chain!Halt ELSE UNCHANGED chain
    /\ txs' = {} /\ before' = {}
    /\ running' = FALSE
    /\ task' = [m \in Task |-> NoTask]

-----------------------------------------------------------------------------
(* Handlers *)

\* validate_transaction: get_balance is always 100 and is_double_spend always
\* False, so the transaction alone decides, whatever pool and chain hold.
ValidateTransaction(t) == t \in SignedTx

TakeTransaction(t) ==
    /\ ValidateTransaction(t)
    /\ Pool!AddTransaction(t)
    /\ UNCHANGED <<chain, up, alive, start, stop, api, running, task>>

\* A server takes requests.  Its task is younger than that of the automatic
\* miner, which has run for the first time by then.
Serves == api /\ \A m \in Task : task[m] # Created("start")

\* POST /api/transaction.  bc_sendTransaction raises a NameError instead:
\* jsonrpc.py does not import Transaction.
SubmitTransaction(t) == Serves /\ TakeTransaction(t)

\* The callback for NEW_TRANSACTION.  The network is stopped before the
\* database is closed, but what its receive loops had read comes through.
OnNewTransaction(t) == start # "no" /\ TakeTransaction(t)

\* Faulty: a competing block takes the place of the tip.
OnNewBlockReplaces(b) ==
    /\ start # "no"
    /\ \/ Chain!Extend(b)
       \/ /\ up
          /\ header[b].prev = header[Chain!Tip].prev
          /\ header[b].height = header[Chain!Tip].height
          /\ chain' = [chain EXCEPT ![Len(chain)] = b]
          /\ UNCHANGED up
    /\ UNCHANGED <<txs, before, alive, start, stop, api, running, task>>

\* on_new_block: `await self.blockchain.add_block(block)` awaits a bool.
\* The block is on the chain by then; the TypeError skips the removal of its
\* transactions from the mempool and is caught by _deliver_to_local.
OnNewBlock(b) ==
    /\ start # "no"
    /\ Chain!Extend(b)
    /\ UNCHANGED <<txs, before, alive, start, stop, api, running, task>>

\* bc_mineBlock.  The loop sets `running` itself, when it first runs.
\* POST /api/block/mine raises a NameError: routes.py does not import asyncio.
MineBlock(force) ==
    /\ Serves
    /\ ~running \/ force
    /\ Spawn("request")
    /\ UNCHANGED <<chain, up, txs, before, alive, start, stop, api, running>>

-----------------------------------------------------------------------------
(* The mining loop *)

\* Faulty: `while True`.
IterationForever(m, flag) ==
    \/ txs = {} /\ task' = [task EXCEPT ![m] = Idle]
    \/ txs # {} /\ ~up /\ task' = [task EXCEPT ![m] = NoTask]
    \/ txs # {} /\ up /\ task' = [task EXCEPT ![m] = Yielding]

\* Faulty: the loop goes on after the exception.
IterationRetries(m, flag) ==
    \/ ~flag /\ task' = [task EXCEPT ![m] = NoTask]
    \/ flag /\ (txs = {} \/ ~up) /\ task' = [task EXCEPT ![m] = Idle]
    \/ /\ flag /\ txs # {} /\ up
       /\ \E c \in {Yielding, Searching(Chain!Tip, Pool!Pending(2000))} :
             task' = [task EXCEPT ![m] = c]

\* One iteration, from the test of `running` to the first await.  On a closed
\* database get_last_block raises, which ends the coroutine.  If nonce 0
\* already solves the block, `if solution:` takes it for no solution.
Iteration(m, flag) ==
    \/ ~flag /\ task' = [task EXCEPT ![m] = NoTask]
    \/ flag /\ txs = {} /\ task' = [task EXCEPT ![m] = Idle]
    \/ flag /\ txs # {} /\ ~up /\ task' = [task EXCEPT ![m] = NoTask]
    \/ /\ flag /\ txs # {} /\ up
       /\ \E c \in {Yielding, Searching(Chain!Tip, Pool!Pending(2000))} :
             task' = [task EXCEPT ![m] = c]

BeginMining(m) ==
    /\ task[m].pc = "created"
    /\ running' = TRUE
    /\ Iteration(m, TRUE)
    /\ UNCHANGED <<chain, up, txs, before, alive, start, stop, api>>

ContinueMining(m) ==
    /\ task[m].pc \in {"idle", "yield"}
    /\ Iteration(m, running)
    /\ UNCHANGED <<chain, up, txs, before, alive, start, stop, api, running>>

\* _pow_search returns a nonce above 0 and _submit_block(candidate.block)
\* raises, since the candidate is the Block: the coroutine ends.  Nothing
\* in between tests `running`.
SearchSucceeds(m) ==
    /\ task[m].pc = "search"
    /\ task' = [task EXCEPT ![m] = NoTask]
    /\ UNCHANGED <<chain, up, txs, before, alive, start, stop, api, running>>

\* _pow_search has tried all 2^32 nonces.
SearchFails(m) ==
    /\ task[m].pc = "search"
    /\ task' = [task EXCEPT ![m] = Yielding]
    /\ UNCHANGED <<chain, up, txs, before, alive, start, stop, api, running>>

MiningStep(m) ==
    \/ BeginMining(m)
    \/ ContinueMining(m)
    \/ SearchSucceeds(m)
    \/ SearchFails(m)

Next ==
    \/ Construct
    \/ Start
    \/ StartReturns
    \/ Stop
    \/ StopReturns
    \/ Exit
    \/ \E t \in Tx : SubmitTransaction(t)
    \/ \E t \in Tx : OnNewTransaction(t)
    \/ \E b \in Block : OnNewBlock(b)
    \/ \E force \in Forced : MineBlock(force)
    \/ \E m \in Task : MiningStep(m)

Spec == Init /\ [][Next]_vars

\* The event loop resumes every coroutine that is ready; a search is a
\* finite loop over the nonces.
FairSpec == Spec /\ \A m \in Task : WF_vars(MiningStep(m))

-----------------------------------------------------------------------------
(* Properties *)

TaskState ==
    {NoTask, Created("start"), Created("request"), Idle, Yielding} \cup
        [pc : {"search"}, prev : Block, height : Nat, txs : SUBSET Tx]

\* The database is open from the construction of the node to the end of
\* stop or of the process.
NodeTypeOK ==
    /\ chain \in Seq(Block)
    /\ Pool!PoolTypeOK
    /\ alive \in BOOLEAN
    /\ start \in {"no", "network", "done"}
    /\ stop \in {"no", "network", "done"}
    /\ up = (alive /\ stop # "done")
    /\ start # "no" => alive
    /\ api => start = "done"
    /\ running \in BOOLEAN
    /\ task \in [Task -> TaskState]

\* A candidate builds on a block of the chain at the height above it, even
\* when blocks arrived, or the node was stopped, since the search began
\* (curvetime_base.py:45-51): there is no reorganisation, so the block below
\* a candidate never leaves the chain while its process lives.
CandidateOnChain ==
    \A m \in Task : task[m].pc = "search" =>
        \E i \in DOMAIN chain : chain[i] = task[m].prev /\ task[m].height = i

\* If nobody mines again, stopping the engine ends every mining loop
\* (node.py:221, curvetime_base.py:45): the flag is read in each iteration
\* and every wait in between ends.
MinersEnd == <>[]~running => <>[](\A m \in Task : ~Looping(m))

\* After stop a loop that still has something to mine ends as well, though
\* one that starts late sets `running` again: it fails on the closed
\* database (node.py:172-173, node.py:221, curvetime_base.py:44-45).
ClosedEndsMining ==
    \A m \in Task : (stop = "done" /\ txs # {} /\ Looping(m)) ~> ~Looping(m)

\* There is one mining loop at most unless it is forced: both endpoints test
\* `running` first (routes.py:103-104, jsonrpc.py:89).
OneMiningLoop == \A m, n \in Task : Looping(m) /\ Looping(n) => m = n
=============================================================================
