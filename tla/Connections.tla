---------------------------- MODULE Connections ----------------------------
(***************************************************************************)
(* The connections of one node (curvetime/network/p2p_node.py): the table  *)
(* active_connections, the receive loop of each connection, and the tasks  *)
(* that connect and send.                                                  *)
(*                                                                         *)
(* The table has one entry per key, and an inbound connection's key is not *)
(* its address but the remote host with the own port.  Several connections *)
(* can have one key, and whoever removes an entry does it by key.          *)
(***************************************************************************)
EXTENDS Integers, FiniteSets

CONSTANTS
    Conn,       \* bound: connections at a time
    Key,        \* keys of the table: addresses, host:own-port of those who connect
    NoConn,     \* no entry
    Worker,     \* the gossip worker, which sends
    Boot,       \* start, which connects to the bootstrap peers
    Self,       \* node_id
    MaxPeers,   \* max_peers
    MaxBusy     \* bound: connects and sends under way at a time

ASSUME ConnectionsAssumption ==
    /\ NoConn \notin Conn
    /\ Worker \notin Conn /\ Boot \notin Conn /\ Worker # Boot
    /\ Self \notin Key
    /\ MaxPeers \in Nat
    /\ MaxBusy \in Nat
    /\ IsFiniteSet(Key)

VARIABLES
    conn,      \* the connections with their receive loops
    table,     \* active_connections
    at,        \* where a receive loop, the worker and start are
    stop,      \* how far P2PNode.stop is
    snapshot,  \* the connections stop has still to close
    peers,     \* PeerDiscovery
    shared,    \* history: connections that met another one, or a send that
               \* another one left, under their key
    late       \* history: connections registered since stop began

vars == <<conn, table, at, stop, snapshot, peers, shared, late>>

Discovery == INSTANCE PeerDiscovery WITH Address <- Key

\* Who may be at an await of send_to_peer or connect_to_peer.  The receive
\* loop of c is c itself: it relays between two messages it reads.
Actor == Conn \cup {Worker, Boot}

Gone == [st |-> "gone"]
Connection(k, d) == [st |-> "open", key |-> k, dir |-> d]
Lost(c) == [conn[c] EXCEPT !.st = "lost"]  \* closed, and its loop not aware yet

Idle == [pc |-> "idle"]
Connecting(k) == [pc |-> "connect", key |-> k]
Sending(k, c) == [pc |-> "send", key |-> k, conn |-> c]

Alive(c) == conn[c].st # "gone"
HasKey(c, k) == Alive(c) /\ conn[c].key = k
Holds(a, c) == at[a].pc = "send" /\ at[a].conn = c

\* A name for a new connection: nobody refers to it any more.
Unused(c) == ~Alive(c) /\ c \notin snapshot /\ \A a \in Actor : ~Holds(a, c)

Begins(a, state) ==
    /\ at[a] = Idle
    /\ Cardinality({b \in Actor : at[b] # Idle}) < MaxBusy
    /\ at' = [at EXCEPT ![a] = state]

Listed == {k \in Key : table[k] # NoConn}

Init ==
    /\ conn = [c \in Conn |-> Gone]
    /\ table = [k \in Key |-> NoConn]
    /\ at = [a \in Actor |-> Idle]
    /\ stop = "none"
    /\ snapshot = {}
    /\ Discovery!Init
    /\ shared = {} /\ late = {}

\* start, up to the bootstrap peers
Start ==
    /\ stop = "none"
    /\ stop' = "no"
    /\ Discovery!Start
    /\ UNCHANGED <<conn, table, at, snapshot, shared, late>>

-----------------------------------------------------------------------------
(* The table *)

\* active_connections[k] = c, whatever was there
Register(c, k, d) ==
    LET others == {o \in Conn : HasKey(o, k)}
        left == \E a \in Actor : at[a].pc = "send" /\ at[a].key = k
    IN /\ conn' = [conn EXCEPT ![c] = Connection(k, d)]
       /\ table' = [table EXCEPT ![k] = c]
       /\ shared' = IF others # {} \/ left THEN shared \cup others \cup {c} ELSE shared
       /\ late' = IF stop # "no" THEN late \cup {c} ELSE late

\* active_connections.pop(k, None)
Pop(k) == table' = [table EXCEPT ![k] = NoConn]

\* _handle_client: the server takes connections until it is closed.
Accept(c, k) ==
    /\ stop \in {"no", "closing", "cleared"}
    /\ Cardinality(Listed) < MaxPeers
    /\ Unused(c)
    /\ Register(c, k, "in")
    /\ UNCHANGED <<at, stop, snapshot, peers>>

-----------------------------------------------------------------------------
(* Connecting and sending *)

\* Boot connects to a bootstrap peer it has no connection to.
Bootstrap(k) ==
    /\ stop # "none"
    /\ table[k] = NoConn
    /\ Begins(Boot, Connecting(k))
    /\ UNCHANGED <<conn, table, stop, snapshot, peers, shared, late>>

\* send_to_peer, up to its first await.  The worker and a loop that relays
\* send to several keys in a row: a key may have lost its entry by its turn.
Send(a, k) ==
    /\ IF a = Worker THEN stop \in {"no", "closing"} ELSE Alive(a)
    /\ Begins(a, IF table[k] = NoConn THEN Connecting(k) ELSE Sending(k, table[k]))
    /\ UNCHANGED <<conn, table, stop, snapshot, peers, shared, late>>

\* connect_to_peer registers what it got without a second look at the table;
\* send_to_peer goes on to send.
ConnectSucceeds(a, c) ==
    /\ at[a].pc = "connect"
    /\ Unused(c)
    /\ Register(c, at[a].key, "out")
    /\ at' = [at EXCEPT ![a] = IF a = Boot THEN Idle ELSE Sending(at[a].key, c)]
    /\ UNCHANGED <<stop, snapshot, peers>>

ConnectFails(a) ==
    /\ at[a].pc = "connect"
    /\ at' = [at EXCEPT ![a] = Idle]
    /\ UNCHANGED <<conn, table, stop, snapshot, peers, shared, late>>

\* Faulty: a connection is used once.
SendsAndPops(a) ==
    /\ at[a].pc = "send"
    /\ conn[at[a].conn].st = "open"
    /\ Pop(at[a].key)
    /\ at' = [at EXCEPT ![a] = Idle]
    /\ UNCHANGED <<conn, stop, snapshot, peers, shared, late>>

Sends(a) ==
    /\ at[a].pc = "send"
    /\ conn[at[a].conn].st = "open"
    /\ at' = [at EXCEPT ![a] = Idle]
    /\ UNCHANGED <<conn, table, stop, snapshot, peers, shared, late>>

\* The connection is closed before the data is out: pop whatever has its key.
SendFails(a) ==
    /\ at[a].pc = "send"
    /\ conn[at[a].conn].st # "open"
    /\ Pop(at[a].key)
    /\ at' = [at EXCEPT ![a] = Idle]
    /\ UNCHANGED <<conn, stop, snapshot, peers, shared, late>>

\* Faulty: the connections have no keepalive.
TimesOutNever(a) == FALSE

\* The other end does not read: its pong does not come either, and the
\* keepalive (ping_interval, ping_timeout) closes the connection.
TimesOut(a) ==
    /\ at[a].pc = "send"
    /\ conn[at[a].conn].st = "open"
    /\ conn' = [conn EXCEPT ![at[a].conn] = Lost(at[a].conn)]
    /\ UNCHANGED <<table, at, stop, snapshot, peers, shared, late>>

-----------------------------------------------------------------------------
(* The receive loop of a connection *)

\* The other end or the network closes it.
Lose(c) ==
    /\ conn[c].st = "open"
    /\ conn' = [conn EXCEPT ![c] = Lost(c)]
    /\ UNCHANGED <<table, at, stop, snapshot, peers, shared, late>>

\* `finally`: pop the key, and the connection is closed if it was not.
Finally(c) ==
    /\ conn' = [conn EXCEPT ![c] = Gone]
    /\ Pop(conn[c].key)
    /\ shared' = shared \ {c} /\ late' = late \ {c}
    /\ UNCHANGED <<at, stop, snapshot, peers>>

\* Faulty: the loop ends without its `finally`.
LoopEndsQuietly(c) ==
    /\ conn[c].st = "lost"
    /\ at[c] = Idle
    /\ conn' = [conn EXCEPT ![c] = Gone]
    /\ shared' = shared \ {c} /\ late' = late \ {c}
    /\ UNCHANGED <<table, at, stop, snapshot, peers>>

\* The loop, back from what it was sending and with no message left to read,
\* finds the connection closed.
LoopEnds(c) ==
    /\ conn[c].st = "lost"
    /\ at[c] = Idle
    /\ Finally(c)

\* A message that discovery cannot answer: the exception ends the loop.
LoopRaises(c, type) ==
    /\ Alive(c)
    /\ at[c] = Idle
    /\ Discovery!Raises(type)
    /\ Finally(c)

\* Addresses come in a PEER_ANNOUNCE or a PEER_LIST.
Learn(c, addr) ==
    /\ Alive(c)
    /\ at[c] = Idle
    /\ Discovery!HandleAddress(addr)
    /\ UNCHANGED <<conn, table, at, stop, snapshot, shared, late>>

-----------------------------------------------------------------------------
(* stop *)

\* Faulty: keys without a connection are taken too.
StopBeginsWithAll ==
    /\ stop = "no"
    /\ stop' = "closing"
    /\ snapshot' = {table[k] : k \in Key}
    /\ UNCHANGED <<conn, table, at, peers, shared, late>>

StopBegins ==
    /\ stop = "no"
    /\ stop' = "closing"
    /\ snapshot' = {table[k] : k \in Listed}
    /\ UNCHANGED <<conn, table, at, peers, shared, late>>

\* Faulty: the loop is over the table itself.
CloseOneLive(c) ==
    /\ stop = "closing"
    /\ c \in snapshot
    /\ snapshot' = {table[k] : k \in Listed}
    /\ conn' = [conn EXCEPT ![c] = IF Alive(c) THEN Lost(c) ELSE Gone]
    /\ UNCHANGED <<table, at, stop, peers, shared, late>>

\* `await ws.close()`; its loop goes on when it finds out.
CloseOne(c) ==
    /\ stop = "closing"
    /\ c \in snapshot
    /\ snapshot' = snapshot \ {c}
    /\ conn' = [conn EXCEPT ![c] = IF Alive(c) THEN Lost(c) ELSE Gone]
    /\ UNCHANGED <<table, at, stop, peers, shared, late>>

\* The table is emptied and, with no await in between, the worker cancelled.
Clear ==
    /\ stop = "closing"
    /\ snapshot = {}
    /\ stop' = "cleared"
    /\ table' = [k \in Key |-> NoConn]
    /\ at' = [at EXCEPT ![Worker] = Idle]
    /\ UNCHANGED <<conn, snapshot, peers, shared, late>>

\* Faulty: the server is left as it is.
StopEndsOpen ==
    /\ stop = "cleared"
    /\ stop' = "done"
    /\ UNCHANGED <<conn, table, at, snapshot, peers, shared, late>>

\* The server closes its connections.
StopEnds ==
    /\ stop = "cleared"
    /\ stop' = "done"
    /\ conn' = [c \in Conn |->
                  IF Alive(c) /\ conn[c].dir = "in" THEN Lost(c) ELSE conn[c]]
    /\ UNCHANGED <<table, at, snapshot, peers, shared, late>>

\* The process ends, after stop or without.
Exit ==
    /\ stop # "none"
    /\ conn' = [c \in Conn |-> Gone]
    /\ table' = [k \in Key |-> NoConn]
    /\ at' = [a \in Actor |-> Idle]
    /\ stop' = "none"
    /\ peers' = {}
    /\ snapshot' = {} /\ shared' = {} /\ late' = {}

-----------------------------------------------------------------------------

\* A connect and a send come to an end: both have a timeout.
Settles(a) ==
    \/ \E c \in Conn : ConnectSucceeds(a, c)
    \/ ConnectFails(a)
    \/ SendFails(a)
    \/ TimesOut(a)

StopStep == (\E c \in Conn : CloseOne(c)) \/ Clear \/ StopEnds

Next ==
    \/ Start
    \/ \E c \in Conn, k \in Key : Accept(c, k)
    \/ \E k \in Key : Bootstrap(k)
    \/ \E a \in Actor \ {Boot}, k \in Key : Send(a, k)
    \/ \E a \in Actor : Settles(a)
    \/ \E a \in Actor : Sends(a)
    \/ \E c \in Conn : Lose(c)
    \/ \E c \in Conn : LoopEnds(c)
    \/ \E c \in Conn, type \in {"ping", "request"} : LoopRaises(c, type)
    \/ \E c \in Conn, addr \in Key : Learn(c, addr)
    \/ StopBegins
    \/ StopStep
    \/ Exit

Spec == Init /\ [][Next]_vars

\* The loop resumes what is ready.  That a send gets its data out is not
\* assumed.  A closed connection has finitely many messages left to read, so
\* its loop comes back to find it closed (SF).
FairSpec ==
    /\ Spec
    /\ \A a \in Actor : WF_vars(Settles(a))
    /\ \A c \in Conn : SF_vars(LoopEnds(c))
    /\ WF_vars(StopStep)

-----------------------------------------------------------------------------
(* Properties *)

ConnState ==
    {Gone} \cup [st : {"open", "lost"}, key : Key, dir : {"in", "out"}]

ActorState ==
    {Idle} \cup [pc : {"connect"}, key : Key]
           \cup [pc : {"send"}, key : Key, conn : Conn]

ConnTypeOK ==
    /\ conn \in [Conn -> ConnState]
    /\ table \in [Key -> Conn \cup {NoConn}]
    /\ at \in [Actor -> ActorState]
    /\ stop \in {"none", "no", "closing", "cleared", "done"}
    /\ snapshot \subseteq Conn
    /\ peers \subseteq Key \cup {Self}
    /\ shared \subseteq Conn /\ late \subseteq Conn

\* An entry is a connection whose receive loop will still remove it: however
\* connects, sends, ends and stops interleave, no dead entry stays behind
\* (p2p_node.py:149-162, 179-200, 244).
EntriesAlive == \A k \in Key : table[k] # NoConn => HasKey(table[k], k)

\* The other way round, an open connection is missing from the table only
\* after it met another one under its key, or if it was registered while stop
\* was at work; stop itself leaves no other open connection behind when it
\* empties the table (p2p_node.py:111-116, 149, 162, 179, 200, 244).
ListedUnlessShared ==
    \A c \in Conn : conn[c].st = "open" =>
        table[conn[c].key] = c \/ c \in shared \cup late

\* What is open after stop is an outbound connection that stop did not see:
\* it lost its entry to another one before, or was registered since
\* (p2p_node.py:111-116, 123-125).
StopClosesListed ==
    \A c \in Conn : stop = "done" /\ conn[c].st = "open" =>
        conn[c].dir = "out" /\ c \in shared \cup late

\* A receive loop whose connection is closed ends and takes its entry away,
\* even if it relays to a peer that does not read: two nodes that wait for
\* each other's buffers are parted by the keepalive (p2p_node.py:151-162,
\* 191-201, 239).
LoopsEnd == \A c \in Conn : conn[c].st = "lost" ~> ~Alive(c)

\* stop ends although peers connect and relays connect meanwhile
\* (p2p_node.py:105-134).
StopCompletes == stop = "closing" ~> stop \in {"none", "done"}

\* A loop that ends removes its own, broken connection from the table and no
\* other (p2p_node.py:161-162).
PopsOwnEntry ==
    [][\A c \in Conn : conn[c].st = "lost" /\ ~Alive(c)' /\ stop' # "none" =>
          \A k \in Key : table[k] # table'[k] => table[k] = c]_vars
=============================================================================
