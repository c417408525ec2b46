# CurveTime in TLA+

Specifications, model checks and proofs for the CurveTime blockchain node
(`src/`): the block store, the mempool and the candidate blocks made from it,
the node with its mining coroutines and handlers, its start and stop under
signals, its connections, and the gossip network between nodes. The specifications are
translated from the Python source; names follow it where TLA+ allows, and
`PROJECT.json` maps every definition to the lines it stands for.

## 1. The system

A node is one Python process with one asyncio event loop. `CurveTimeNode`
(`node.py`) owns the parts below and connects them: handlers of the REST API
(`api/routes.py`), of JSON-RPC (`api/jsonrpc.py`) and of the gossip layer
(callbacks registered in `_setup_network_handlers`) run on that loop, next to
the mining coroutine(s) and the workers of the network layer. Two pieces of that
code interleave only where one of them awaits something that really suspends.
That decides what is one action in every module. One thing leaves the loop: the
background task of `POST /api/ai/train` is a plain function, `train_step`, which
Starlette runs on a thread of its pool. It touches nothing but the DQN agent,
which is not modelled; the background task of `POST /api/transaction` is a
coroutine and stays on the loop.

| component | state | operations | used by | correct when |
|---|---|---|---|---|
| blocks (`core/block.py`) | none | genesis, validation, PoW target | blockchain, miner | only blocks that extend the tip are accepted |
| block store (`storage/chain_db.py`, `core/blockchain.py`) | LevelDB keys `B`, `H`, `T`; `total_transactions` | open, `put_block`, reads, `add_block`, close | node callbacks, API, miner | the indexes describe one linked chain through crashes and failed writes; the chain only grows |
| mempool (`storage/mempool.py`) | an insertion-ordered dict, `max_size` | add with eviction, remove, pending | API, callbacks, miner | bounded; first come, first mined |
| node (`node.py`) | `_running`, tasks | construct, start, stop, callbacks | `main`, signals | no part used before it is open or after it is closed |
| consensus (`consensus/curvetime_base.py`) | `running`, a candidate per coroutine | start mining, search | `start`, `bc_mineBlock` | one loop; the flag tells the truth; stop ends it; candidates extend the chain |
| gossip (`network/gossip.py`) | `seen_messages`, `pending_broadcast` | inject, worker, receive, clean up | `broadcast_message`, receive loops | bounded flooding, each node in reach gets each message |
| start and stop (`node.py`: `main`, `start`, `stop`) | where `main`, a call of `stop` and `asyncio.run` are | construct, start, signal, stop, cancel | the process | a signal ends the process; the parts close in order |
| connections (`network/p2p_node.py`) | `active_connections`, receive loops, temporary callbacks | accept, connect, send, receive, stop | gossip, discovery | an entry is a live connection; an open connection is listed; loops and stop end |
| discovery (`network/peer_discovery.py`) | `peers` | add, ping, announce, exchange, evict | receive loops | reachable peers are kept, others leave |
| DQN agent (`consensus/dqn_agent.py`) | weights, `current_version` | train, aggregate | callbacks, API | an update is applied whole |
| merkle tree (`core/merkle.py`) | none | root of a list of hashes | blocks, candidates | the root commits to the list |
| the rest | none that matters | placeholders and helpers | | |

The hard behaviours, with their lines, are the `hazards` of `PROJECT.json`:
crashes and failed writes inside `put_block` (a loop of separate puts), flags
tested in one task and set in another, work that goes on after stop, exceptions
half-way through a handler, copies of a message that overtake each other, ttl
arithmetic, expiring deduplication entries, breaking connections, several
connections under one key, two callers of stop, cancellation in the middle of
a stop, levels of odd length in the Merkle tree.

### Names the repository does not have

Some code the modelled parts rely on is missing from the repository or is a
library. The convention: *what is missing is an assumption about the outside;
what is present is modelled as it is written*, mistakes included.

- `TransactionValidator` (imported by `block.py`), `Block.serialize` and
  `Block.deserialize` do not exist. `ValidTx` is the set of transactions the
  first accepts; the others are taken to be inverse to each other and to fail
  at most with an exception. A block is named by its hash, and its body is the
  one that was stored under that hash; `Candidate` shows which bodies one hash
  allows.
- A block's stated `block_hash` and a transaction's stated `hash` are taken to be
  the computed ones. Nobody recomputes them on receipt, so this is an assumption
  about what arrives, and `ChainLinked` and the Merkle properties rest on it.
- The relative imports of `network/*` reach one package too far and `node` and
  `api` import each other; the modules are read as if their imports resolved.
- `run_api_server` is a plain function that calls `uvicorn.run` inside the
  running loop, which raises in `start` (`node.py:177`): as it is written the
  process shuts itself down as soon as the network is up. `Lifecycle` is checked
  under both readings, this one and the intended one, in which the API runs as a
  task (constant `Serves`); `Node` contains both (`StartReturns` leaves open
  whether requests are taken). What is shown about requests, the two mining loops
  among it, is about a server that does start. The JSON-RPC server needs `rpc.enabled`, which the
  shipped configuration does not set.
- `Message.timestamp` has no default, and the factory methods of `Protocol`
  (`protocol.py:131-157`) leave it out: each raises `TypeError`. So no ping, no
  announcement and no request of discovery is ever sent, and what answers one
  raises in the receive loop that read it. `PeerDiscovery` models the code with
  these exceptions.
- Calls on names that do not exist *inside* modelled code do what Python does:
  `asyncio` in `POST /api/block/mine` and `Transaction` in
  `bc_sendTransaction` raise `NameError` before anything is changed;
  `candidate.block` raises `AttributeError` and ends the mining coroutine;
  `await` of the bool that `add_block` returns raises `TypeError` after the
  block was stored.

## 2. The modules

| module | what it is |
|---|---|
| `Blocks` | headers, targets and validation; constants with their assumptions |
| `ChainSpec` | abstract: one chain that grows block by block and may lose recent blocks in a halt |
| `ChainStore` | the LevelDB puts, crashes, failed writes, restarts, the counter; implements `ChainSpec` |
| `ChainStoreProofs` | theorems about `ChainStore`, the refinement among them |
| `Mempool`, `MempoolProofs` | the pool and its theorems |
| `Merkle` | the Merkle root, and a reference definition of what it commits to |
| `Candidate`, `CandidateProofs` | composes `Mempool` and `Merkle`: the transactions of a candidate block, and the bodies another node takes for them |
| `Life` | abstract: how far start and stop are, when the database is open and requests are taken |
| `Lifecycle`, `LifecycleProofs` | `main`, signals, each await of stop, `asyncio.run`; implements `Life` |
| `Node`, `NodeProofs` | composes `ChainSpec`, `Mempool` and `Life` with the handlers and the mining coroutines |
| `PeerDiscovery` | the addresses a node knows |
| `Connections`, `ConnectionsProofs` | the connection table of one node, composed with `PeerDiscovery` |
| `Gossip`, `GossipProofs` | several nodes, their connections and the flooding of messages |
| `Iteration` | two facts the proofs about recursive functions rest on: induction over a set of numbers, and that a step can be iterated |
| `MCChainStore`, `MCNode`, `MCGossip`, `MCCandidate` | instances for TLC; the other modules are checked with model values only |

Two abstract specifications keep the composition small, and each is a promise
that the detailed module is shown to keep. `Node` is composed of steps of
`ChainSpec` instead of puts: `ChainStore` shows (TLC) and proves (TLAPS) that the
store, cut short at any put, makes no others (`ImplementsChain`). And `Node` is
composed of steps of `Life`: `Lifecycle` shows and proves that `main`, the signal
handlers and `asyncio.run` use start and stop in no other way (`ImplementsLife`).
That `Node` in its turn only takes such steps needs no check, its actions are
written with them. The mempool's operations are used as they are, through
`INSTANCE Mempool`.

### Blocks and ChainStore

`header[b]` and `body[b]` are the fields and transactions under the hash `b`.
A header keeps what validation tells apart: previous hash, height, `bits`,
`work` (the hash as a number, on `HashBits` bits) and whether the merkle root
is that of the body. `log` is the sequence of puts that reached LevelDB. Reads
are defined over it: `Get` is the last put under a key, `GetHeight` the last
`H` key of a reverse scan.

| action | code |
|---|---|
| `Start` | `Blockchain.__init__`: genesis on an empty database; the counter restarts |
| `AddBlock` | `add_block` of an accepted block, all its puts |
| `AddBlockFails` | the same with an exception after some puts, swallowed by the caller |
| `Close` | `stop` |
| `Crash` | the process or machine dies: any prefix of the log survives (no put is synchronous) |

`put_block` never awaits, so no handler runs inside it; only a crash or an
exception can cut it short. A block that is rejected changes nothing and is not
an action.

### Mempool

The dict is the set of its keys with the order of insertion, so that an
eviction, a removal and a second assignment to a present key do to the order
what Python does. `AddTransaction` evicts *before* it looks whether the
transaction is there: resubmitting into a full pool drops one, perhaps itself.

### Merkle and Candidate

`_prepare_candidate` takes the first `Limit` transactions of the pool in the
order of the dict, puts a coinbase before them and computes the root; nothing
suspends in between, so `PrepareCandidate` is one action. `ReceiveBody` is the
root test of `Block.validate` at a node that gets the header with some body: any
sequence of transactions at all in `Candidate`, which the proofs are about, and
those that can have the root in `MCCandidate`, which TLC runs. A hash names what
it is the hash of: that of a transaction (`Leaf`) is a tuple of one, `HashPair`
the pair. `Level` is what `_build` is called with at each depth of its recursion,
and `Top` the depth at which one node is left.

`Merkle` repeats the last node of a level of odd length, so two lists can share
a root. The reference definition `Padded` is the list whose complete tree has
the root: round by round, as the levels are built, the last run of an odd number
of runs is written out once more.

### Life and Lifecycle

| action | code |
|---|---|
| `Construct`, `Start` | `main` up to `await websockets.serve` |
| `Listens`, `ListenFails` | the server is up, or the port is taken |
| `Connects` | the bootstrap peers are done with; the API is started, or raises |
| `Poll` | the loop of `main` finds `_running` false |
| `Finally` | `finally: await node.stop()`: the whole stop, or nothing |
| `Signal`, `SignalStops` | `create_task(node.stop())`, and the task's first step |
| `CloseConnection`, `AllClosed` | `P2PNode.stop`: the snapshot, closed one by one |
| `ComponentsStop` | gossip and discovery have been stopped; the server is closed |
| `ServerStops`, `TaskEnds` | the rest of stop up to `db.close()` |
| `Cancel`, `Exit` | `asyncio.run` after `main`: each task is cancelled once, and waited for |
| `Crash` | the process is killed |

An await that does not suspend gives nobody a turn: `Suspends` says for each of
them when it does (`wait_closed` of a closed server, a `gather` of cancelled
tasks, a connection to close), and `RunsOn` keeps the others out until then. A
`stop` that is cancelled while it closes a connection or waits for the API task
swallows the cancellation, because a bare `except` or `except CancelledError`
stands around that await; at the other two it ends there with the database open
(`phase = "cut"`).

### PeerDiscovery and Connections

`conn` is the connections with their receive loops (`open`; `lost`, closed but
the loop not aware of it; gone), `table` is `active_connections`, `at` where
each task that may wait in `send_to_peer` or `connect_to_peer` is: the gossip
worker, `start` with its bootstrap peers, and each receive loop, which relays
between two messages it reads. An inbound connection's key is the remote host
with the node's *own* port, so several connections can have one key.

| action | code |
|---|---|
| `Accept` | `_handle_client`: refused at `max_peers`, otherwise registered |
| `Bootstrap`, `Send` | `send_to_peer` and `connect_to_peer` up to their first await |
| `ConnectSucceeds`, `ConnectFails` | `websockets.connect` returns; the entry is overwritten without a second look |
| `Sends`, `SendFails`, `TimesOut` | the send returns; raises, and the key is popped; the keepalive closes the connection |
| `Lose` | the other end closes |
| `LoopEnds`, `LoopRaises` | the `finally` of a receive loop, after a close or an exception of a handler |
| `Learn` | an address comes in: `add_peer` |
| `StopBegins`, `CloseOne`, `Clear`, `StopEnds` | `P2PNode.stop` from await to await |
| `Exit` | the process ends |

`shared` and `late` are history variables: the connections that met another one
under their key (or a send waiting for one), and those registered since stop
began. They name the two ways in which an open connection can be missing from
the table.

### Node

State: the chain, the pool, the life cycle of `Life`, `consensus.running`, and per mining coroutine where it is
suspended. An action runs from one await that suspends to the next:

| action | code |
|---|---|
| `Construct` | `__init__`, with the database opened and a genesis block if there is none |
| `Start`, `StartReturns` | `start` up to and after `await self.network.start()`, which may raise; otherwise the miner and the servers are created, without another look whether stop was called |
| `Stop`, `StopReturns` | `stop` up to and after `await self.network.stop()` |
| `Exit` | the process ends, after stop or in a crash |
| `SubmitTransaction`, `OnNewTransaction` | REST and gossip: validate, put into the pool |
| `OnNewBlock` | the block is stored, then the `TypeError` |
| `MineBlock` | `bc_mineBlock`; with `auto_mine` the automatic coroutine, whose task is older than the servers', has run once before a request is read (`Serves`) |
| `BeginMining`, `ContinueMining` | an iteration of `start_mining` up to the next suspension |
| `SearchSucceeds`, `SearchFails` | `_pow_search` resumes and ends |

A search suspends after nonce 0 at the latest. If nonce 0 is the solution
`if solution:` takes it for none; any other solution ends the coroutine in
`candidate.block`. So no block ever enters the chain by mining, and the model
has no action for it.

### Gossip

Each node has its own `active`, the table `active_connections`, its own receive
loops, and its own `seen` and `pending`. A connection `c`, made by `from[c]` to
`to[c]`, is entered, read and taken out by each end for itself: it is in one table
and not yet in the other, or no more, and an end that has not noticed the break
goes on sending. `open` is the connections that carry messages, `dial` how far
`connect_to_peer` is, `stream[<<c, n>>]` what is under way over `c` to `n`.

A wire message keeps the identity of the message, its `_gossip_ttl` and, as a
history field, the hops it has made. The hash that deduplication compares is the
pair of identity and ttl, because `compute_hash` runs before `_gossip_ttl` is
taken out of the payload; the origin records the hash without one. A relay takes
one off the ttl in `handle_incoming_message` and another in `_broadcast_to_peers`.

| action | code |
|---|---|
| `GossipMessage` | `broadcast_message`, `gossip_message`: record, deliver, queue |
| `GossipWorker` | one message off the queue, sent to a sample of the peers, to nobody if there are none |
| `HandleIncoming` | receive: drop a duplicate, or record, deliver and relay |
| `Cleanup` | entries of `seen_messages` expire |
| `ConnectToPeer` | `connect_to_peer` up to its await |
| `HandleClient` | the other end takes the connection: closed at `max_peers`, otherwise entered and read |
| `Connected`, `ConnectFails` | `websockets.connect` returns, also when the connection is closed again by then, and the first end enters it; or it raises |
| `Break`, `Lose` | the connection is no more; of what was under way the last is lost |
| `LoopEnds` | the `finally` of one end: it has read what came and takes the entry of the peer out, whichever connection stands there |
| `Restart` | one process is replaced: its table, queue and memory are gone; what it had sent may still arrive, and the others find out by themselves |

A send over a connection that is no more fails and takes the entry out, or is
lost because the node does not know yet (`Broadcast`).

To receive and to relay is one action: nothing suspends before the first send,
and by then the targets are chosen; a send that happens later is time spent in
the stream. `faults`, `calm`, `delivered` and the hops are history variables.

What is left out: every node has a host of its own and all listen on one port, so
the key of an inbound connection is the peer's address (`Connections` has the
shared keys of one host). A send that finds no entry at its turn connects again
(`p2p_node.py:231-237`); a later send of one broadcast over such a connection is
not in `Gossip`, it is in `Connections` (`Send`).

## 3. What TLC checks

Passing runs (each property has a mutant, an operator marked "Faulty" next to
the definition it changes, under which TLC refutes the property):

| run | properties | what it shows |
|---|---|---|
| `chain_store` | `TypeOK` | every record has the shape its prefix says |
| | `TipResolves` | the top height always leads to a stored block: `get_last_block()` is never `None` on an open store, which its callers rely on |
| | `ChainLinked` | every height up to the top has a block that validates against the one below |
| | `TxIndexSound` | what the `T` index returns is in a block of the chain |
| | `TxIndexCompleteIfNoFault` | and it is complete if no crash or failed write happened |
| | `TotalBounded` | the counter never exceeds the chain |
| | `HeightsStable` | a height keeps its block while it has one |
| | `ImplementsChain` | the store implements `ChainSpec` |
| `candidate` | `PoolTypeOK`, `PoolBounded`, `PoolKeepsOrder` | bounded, and the order of two transactions changes only if a full pool's oldest is resubmitted |
| | `RootNamesBody` | a body without repetitions that has the candidate's root is the candidate's |
| | `OnlyTailRepeats` | every other body with that root repeats transactions at its end |
| `node` | `NodeTypeOK` | the database is open exactly from construction to the end of stop |
| | `CandidateOnChain` | a search is always on a block of the chain, at the height above it, however old |
| | `MinersEnd` | if the engine stays off, all mining loops end |
| | `ClosedEndsMining` | after stop, a loop with something to mine ends as well, though one that started late has set the flag again: the closed database ends it |
| `lifecycle` | `LifecycleTypeOK` | the database is open from construction until a stop is done |
| | `OnlySignalStopsAreCut` | a stop of `main` always runs to its end |
| | `ServedOnlyToTheEnd` | requests meet a closed database only once `main` is at its end |
| | `DatabaseClosedLast` | the network is down and its connections closed before the database |
| | `SignalEnds` | a signal ends the process, at whatever await it comes |
| | `ImplementsLife` | start and stop happen as `Life`, and so `Node`, says |
| `connections` | `ConnTypeOK`, `EntriesAlive` | no dead entry stays in the table |
| | `ListedUnlessShared` | an open connection is missing only if it shared its key or came late |
| | `StopClosesListed` | what is open after stop is outbound, and was not listed when stop looked |
| | `LoopsEnd` | the loop of a closed connection ends, even if it relays to a peer that does not read |
| | `StopCompletes` | stop ends although connections come meanwhile |
| `gossip` | `Coverage` | in a calm network exactly the nodes within reach get a message |
| | `Settles` | queues drain and floods die out although connections come and go |
| `gossip_faults` | `GossipTypeOK` | an entry of a table is a connection to the peer it stands under |
| | `Attended` | what is under way to a node has a loop that will read it, and a node lists only what it reads, though each end connects, breaks and restarts by itself |
| | `HopsBounded`, `DeliveriesBounded` | with faults: hops at most `ttl div 2 + 1`, deliveries per node bounded |

Runs that TLC refutes, each a place where code and its own words differ, found
only in an interleaving or after a failure (`findings` of `PROJECT.json` quotes
the words):

| run | the code |
|---|---|
| `tx_index_complete` | a crash or failed put inside `put_block` leaves transactions of a block out of the index for good |
| `one_mining_loop` | the flag is set when the coroutine first runs, not when it is created: two requests in a row start two loops |
| `pops_own_entry` | a receive loop that ends takes another, live connection out of the table |
| `exit_closes_database` | `main` ends while a signal's stop waits for the network; `asyncio.run` cancels that stop before it closes the database |
| `delivered_once` | copies with different ttls count as different messages |

`Coverage` and `delivered_once` belong together: its mutant, the hash of the
message without the ttl, is the obvious repair of the duplicates, and TLC shows
that it makes nodes in reach miss messages, because a node that gets the copy
of the longer way first then drops the one that would have gone further.

Other differences met while reading, too plain for a run or seen in one step of
the model:

- the genesis block's `bits` (0x1d00ffff) put it below no target, against
  `tests/test_block.py:9`; `total_transactions` restarts from 0 with the
  process; `is_double_spend` and `get_balance` are placeholders;
- `Transaction.to_dict` drops signature and data, so a broadcast transaction is
  rejected where it arrives; `broadcast_block` is never called;
- the mining coroutine dies at its first solved block with `running` set, and
  no request starts mining again; a coroutine that first runs after `stop` sets
  the flag again; the bool that is awaited in the block callback leaves the
  transactions of a stored block in the pool (all three are in `Node`);
- the ttl is taken down twice per relay, so a ttl of `t` reaches `t div 2 + 1`
  hops (`HopsBounded`);
- `max_peers`, the "maximum of connections kept" of `p2p_node.py:37`, refuses
  inbound connections only; an outbound one is opened however many there are, and
  connections under one key count once;
- no peer is ever learned, against `peer_discovery.py:15-20` and line 88, since no
  ping can be built; and a full table evicts its oldest entry (line 98, "the oldest
  one that does not answer" in line 97, which is not tested) for a newcomer that is
  then not added, so the known peers only get fewer (`PeerDiscovery!AddPeer`);
- a connection that is open and not listed when stop begins stays open until
  the process ends (`StopClosesListed` says which these are);
- a PING, or an empty PEER_LIST, ends the connection it came over; the seed
  nodes never become peers; the announce loop ends with the `TypeError` at its
  first turn, since the node itself is in `peers`; with `max_peers` 1 an
  announced address evicts the node itself and is not added.

### Bounds

- `chain_store`: 14 blocks (two genesis blocks, forks at heights 1 and 2, each
  way to be invalid, shared transactions, an empty body), `HashBits = 3`,
  `MaxFaults = 3`. Three faults allow a failed write, a crash that removes a
  part of it, and a crash on what was rebuilt. Chains have at most three
  blocks: every property relates neighbours or the tip.
- `candidate`: five transactions, room for four, one coinbase: a full pool,
  evictions in a row, resubmission of each position, and candidates of up to
  five transactions, which is the first length with two odd levels. Bodies
  (`Spliced`) are a prefix of the list followed by any run of it up to three
  times, which contains every body that shares a root with such a candidate; the
  theorems need no bound on them. Transactions are symmetric.
- `lifecycle`: up to two connections to close, both readings of the API start,
  a task of a signal at a time and any number in a row.
- `connections`: two connections at a time, named anew when they are gone, over
  two keys; `max_peers` 1; two tasks at a time inside a connect or a send. Two
  of each are what it takes to have one key for two connections, an entry that
  another loop pops, and a send waiting while that happens. The safety
  properties are proved for any number.
- `node`: two coroutines (the double start), three transactions for a pool of
  two, five blocks, both values of `force`. Life cycles repeat without bound.
- `gossip`: four nodes and four connections, a triangle with a tail, the smallest
  network with two ways of different length to a node that has another behind it,
  and with one connection missing a line three hops long; two messages with the
  ttls of transactions and blocks; `max_peers` 2, so that a connect can be refused;
  one fault (a break, restart or cleanup). Connections are asked for, come up, are
  refused and fail in any order, before the first message and during the floods;
  the set bounds how many there are at a time.
- `gossip_faults`: three nodes and four connections, two of them between the same
  two nodes in both directions, so that one entry stands for two connections and
  the end of one takes the other's; the default ttl 5; one fault.
- In both the fanout is no smaller than the number of peers: random sampling does
  not happen in the runs. The theorems cover every fanout, `Coverage` with the
  premise that it suffices.

The `gossip` runs do not check deadlock: a network in which everything was
delivered has nothing to do. All other passing runs do.

### Fairness

`Node`: weak fairness of each coroutine's next step. The event loop resumes
what is ready, `sleep` ends, and a search is a finite loop over the nonces;
requests, messages and the life cycle owe nothing. `Gossip`: weak fairness of
the worker of each node, of each receive loop that has a message to read, and of
the return of `websockets.connect`, which has a timeout: without it, what was sent
to an end that never returns from its connect would stay unread. Injection, new
connections, faults, cleanups and the end of loops are not fair. `ChainStore` and `Candidate`
have no liveness property: they only answer calls.

`Lifecycle`: weak fairness of each next step of `main`, of a task created by a
signal, of the call of stop and of `asyncio.run`. Every await of start and stop
ends by itself: `websockets.connect` and `close` have default timeouts, the
other awaits are for tasks that were cancelled and hold no `except` that goes
on, or for a server that closes its connections. Signals and crashes are not
fair. `Connections`: weak fairness of what ends a connect or a send, *without*
the successful send, because a peer may never read; what ends such a send is
the keepalive (`ping_interval=20`, `ping_timeout=60`). Strong fairness of
`LoopEnds`: a receive loop first works off the messages that had arrived, each
of which may make it relay and so disable the step again, but of these a closed
connection has only finitely many. Weak fairness of stop. The timeouts are
those of the legacy `websockets` interface the code imports. Two things about that
library are assumed here: that the keepalive notices a peer that does not read even
while the write buffer is full (its ping goes through the same buffer), which
`LoopsEnd` rests on; and that the handlers `wait_closed` waits for end once their
connections are closed, which lets `StopEnds` be one step. Handlers that relay at
that moment end as `LoopsEnd` says.

## 4. What TLAPS proves

For every value of the constants that satisfies the `ASSUME`s:

| theorem | says |
|---|---|
| `ChainStoreProofs!TypeCorrect`, `TipAlwaysResolves`, `ChainAlwaysLinked`, `TxIndexAlwaysSound`, `TxIndexCompleteUnlessFault`, `TotalAlwaysBounded`, `HeightsAlwaysStable` | the run's invariants and `HeightsStable`, for any block tree, any number of faults |
| `ChainStoreProofs!Refinement` | `ChainStore` implements `ChainSpec` |
| `MempoolProofs!PoolTypeCorrect`, `PoolAlwaysBounded`, `PoolAlwaysKeepsOrder` | the pool's properties for any size and set of transactions |
| `LifecycleProofs!LifecycleTypeCorrect`, `OnlySignalStopsEverCut`, `AlwaysServedOnlyToTheEnd`, `DatabaseAlwaysClosedLast` | the safety properties of the run `lifecycle`, for any number of connections and both readings of the API start |
| `LifecycleProofs!LifecycleRefinesLife` | `Lifecycle` implements `Life` |
| `ConnectionsProofs!ConnTypeCorrect`, `EntriesAlwaysAlive`, `AlwaysListedUnlessShared`, `StopAlwaysClosesListed` | the invariants of the run `connections`, for any number of connections, keys and tasks |
| `NodeProofs!NodeTypeCorrect`, `CandidatesAlwaysOnChain` | the invariants of the run `node`, for any number of coroutines, blocks and transactions |
| `GossipProofs!GossipTypeCorrect`, `AlwaysAttended`, `HopsAlwaysBounded`, `DeliveriesAlwaysBounded` | tables, readers, hops and deliveries on any network, with any faults |
| `GossipProofs!CoverageAlways` | in a calm network within the fanout, a flood that has died out reached exactly the nodes within its reach, for any finite network and any ttl |
| `CandidateProofs!RootAlwaysNamesBody` | a body that repeats nothing and has the root of the header is the candidate's list |
| `CandidateProofs!BodiesOnlyRepeatTails` | any other body with that root is the list, with repetitions that its odd levels make |
| `CandidateProofs!CandidatePoolSafe` | the pool's bound and order, for the composition that the run checks |

**ChainStore.** The properties speak of reads, and a read depends on the whole
log. The inductive invariant `IInv` describes the log instead of its reads:
heights are written in order, a height is written only by the block that
belongs there and after the block itself, a transaction is written
only after the height of a block it is in, and the block of a height validates
against the one below. The log need not be tidy: a `put_block` that failed stays
cut short in the middle of it when the next one succeeds. Cutting the log anywhere
keeps all of this, which is why crashes need no separate argument; from it the values of the reads follow, and
with them each property. For the refinement, the stored chain is the blocks by
height: appending a `put_block` cut before its second put leaves it alone, and
cut anywhere later appends one block. Two properties need a little more:
`Complete` (every transaction of a height has its entry) holds until the first
fault, because only a whole `put_block` is appended before it; and the counter
is compared with the places of the transactions, `TxPlaces`, a finite set that a
stored block extends by as many places as it has transactions, that a failed
one can only extend, and that is cut only when the counter starts anew.

**Mempool.** `PoolInv` joins type and bound with finiteness of the pool and with
`PoolOrdered`: `before` stands for the order of a dict, so it is strict and total.
The bound needs that the evicted transaction is in the pool; `PoolKeepsOrder`
that the oldest is before every other, so that only its eviction can undo an order.

**Node.** A candidate is on the chain because nothing but `Exit` cuts the chain,
and `Exit` ends the coroutines; its height needs that the blocks of the chain
have their heights in order and that an open chain is not empty (`ChainGood`).
That stop closes an open database needs that only a started node stops. `NodeInv`
joins these.

**Lifecycle.** Besides the types, the invariant relates `main` and the call of
stop (`OneStop`): there is at most one that does the work, a stop of `main` is
at work exactly while `main` waits for it, and `main` ends only after somebody
has called it. And it relates both to the parts (`InOrder`): neither server nor
API is there before `main` has come so far, and a stop that has passed the
connections and the server has left none of them open. The refinement maps `main` and `phase` to how far start
and stop are; most steps stutter there.

**Connections.** `ConnInv` adds to the properties the facts that make them
inductive. `SharedKeys`: two live connections with one key are both in
`shared`. `HeldKeys`: a live connection with the key of a send that waits on
another connection is in `shared`. So a pop by key, from a `finally` or a failed
send, hits an entry that is either its own or of a connection in `shared`, which
is what `ListedUnlessShared` needs. `StopTakesRest`: after the snapshot every
open connection is in it, or in the table, shared or late. The steps are
classified once (they leave the table alone, register, pop, or belong to stop)
and each part of the invariant is proved per class.

**Gossip.** The invariant is put into the type of the streams: every message in
one satisfies `ttl = Ttl + 1 - 2 * hops` and `hops <= Reach`. A first send and a
relay build such a message (the relay because it needs a ttl above 0), and
taking out and cutting keep them. `DeliveryInv` counts: a delivery records a hash
that was not recorded, the hashes a node can record of one message are its own
and one per distance, and a fault, which may take all records away, is paid for
with a full set of them. That the origin records its own only once needs that a
message is broadcast once.

`Attended` is inductive with the types: whatever end registers, breaks or restarts
first, an open connection keeps a loop at each end (or a connect that has yet to
return), only an open one takes messages, and a loop is gone only after it has
read everything. An entry is overwritten by a connection that is read and taken
out when a loop ends, so no entry outlives its loop; that is where the two
connections under one key matter, since the end of one takes the other's entry.

`Coverage` is about distance, `Ball(n, k)`, a recursive function. `CoverageInv`
says what each copy means. In one direction nothing is ever too far: a copy
under way, and a record of one, is at a node as many hops from the origin as it
has made (`CopiesNear`, `RecordsNear`), and a delivery implies a record
(`DeliveredRecorded`, `OwnRecorded`). In the other nothing is forgotten: once a
message has left its origin, each peer of it has recorded the first hop or has
that copy coming (`SentToAll`), and a node that recorded the copy of `h` hops,
`h` below the reach, has passed the copy of `h + 1` to each of its peers, which
have it or will get it (`PassedToAll`). This is where the ttl in the hash is
needed: a record of another ttl would not do. When nothing is under way,
what is coming has come, and an induction over the distance carries the
delivery from the origin to the edge of its reach. `calm` allows no loss and no
change of the connections after the first message, but the tables may be as they
are, one end knowing a connection and the other not: `Ball` follows the tables.
The two last parts hold when the tables are `Sound`, no more peers than the fanout
(a sample leaves some out) and no entry of a connection that is no more. The
network has to be finite, since the fanout is compared with a number of peers.

**Merkle and Candidate.** Functions that are defined by recursion exist because a
step can be iterated (`Iteration!Iterates`); of `Level` and `Rounds` the proofs
then use only the first value and the step (`LevelFacts`, `RoundsFacts`), and an
induction is a set of numbers that holds 0 and each successor (`NatBySteps`).
A level of `n` nodes is followed by one of `(n + 1) \div 2`, so one node is left
after at most `n` steps (`Halving`). Let two lists have one root.

- They have as many levels (`SameTop`): the first node of a level holds the first
  node of the level below, so going down both trees along the left edge the
  nodes stay equal, until one tree ends in the hash of a transaction; the
  other ends there too, for that is not the hash of a pair.
- If neither repeats an element, no level of theirs does, and then a level is
  determined by the one above it (`NextLevelOneToOne`): lengths can differ by one
  only where one of them ends in a pair of equal nodes. So the lists are equal.
- In any case, equal nodes, wherever they are in their levels, stand for equal
  runs of the padded lists (`LevelsAlike`): a round puts two runs together as a
  level does two nodes, and writes the last one twice where the level pairs the
  last node with itself (`RoundFacts`). There are as many rounds as levels
  (`LastRoundIsTop`), and at the top the run is the whole list.

The invariant `CandidateInv` only says that the root is that of the list and of
the body, and that the list repeats nothing. The latter is what `PoolOrdered`
is for: in a strict order the numbers of predecessors are all different, so by
counting they are 0, 1, 2 and so on (`RankFacts`), and `PendingList` takes every
pending transaction once; the coinbase is not one of them.

## 5. Only model-checked

The liveness properties `MinersEnd`, `ClosedEndsMining`, `SignalEnds`, `LoopsEnd`,
`StopCompletes` and `Settles`: TLAPS has no rules for fairness and ENABLED here. Of `Settles`,
`DeliveriesAlwaysBounded` is the part that is safety: a copy is relayed only
together with a delivery, so a flood has finitely many.

All invariants and safety properties of the passing runs are theorems.

## 6. Not modelled

- Cryptography and JSON (abstracted); the HTTP, RPC and WebSocket libraries.
- The DQN agent: its arithmetic is out of reach, and no caller changes a
  parameter. `get_training_data` is a placeholder that returns an empty list,
  for which `train_step` returns at once; `aggregate_models` is given JSON lists
  and raises at the first of them (`torch.stack`) before a parameter is copied.
  What is left is one counter: an empty update through
  `POST /api/ai/model/update` raises `current_version`, and is reported as
  "failed" because `aggregate_models` returns nothing.
- `IndexDB` (opened and closed, never used); the UTXO functions of
  `BlockchainDB` and `UTXOManager` (never called); `direct_send_to_all` (never
  called); the temporary callbacks of `P2PNode` (their only client raises
  before it registers one); `_submit_block` (start_mining raises before it).
- Smart contracts, rewards, the AI package, middleware and utilities:
  placeholders without state the rest uses.
- Whether a block's stated hash is the hash of its header is not checked by the
  code and is part of the assumption on `Block.deserialize`.

## 7. Running

`tlc -config MCNode.cfg MCNode.tla` and so on, see `runs` in `PROJECT.json`;
`tlapm ChainStoreProofs.tla` and the other `...Proofs` modules. `gossip`
(1115827 distinct states) takes about three minutes, `connections` (300303),
`candidate` and `gossip_faults` (2398332) one to two each, the other runs
seconds; the proofs take some minutes each.

## 8. What is left

- The library assumptions of section 3 (keepalive, `wait_closed`) could become a
  module of their own, with the write buffers of a connection.
- A composition of several `Node`s over `Gossip` has little to say as long as
  `Transaction.to_dict` drops the signature: every transaction that arrives is
  rejected, and no block is ever sent.
- When the factory methods of `Protocol` are repaired, `PeerDiscovery` has to
  be split at its awaits (a ping waits up to its timeout between the test and
  the insertion), and the temporary callbacks become live.
