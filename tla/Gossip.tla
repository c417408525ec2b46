------------------------------- MODULE Gossip -------------------------------
(***************************************************************************)
(* The flooding of messages over the peer-to-peer network                  *)
(* (curvetime/network/gossip.py and, of p2p_node.py, the connections).     *)
(*                                                                         *)
(* A connection is a WebSocket: two FIFO streams that lose nothing while   *)
(* it is open.  Each of its ends enters it into a table of its own, under  *)
(* the address of the other end, and takes the entry out by itself.  Every *)
(* node has a host of its own and all listen on one port, so the key of an *)
(* inbound connection, remote host and own port, is the peer's address.    *)
(*                                                                         *)
(* A handler runs without a pause up to its first send, and has chosen the *)
(* peers by then: to receive and to relay is one action, and a send that   *)
(* comes later is time spent in the stream.                                *)
(***************************************************************************)
EXTENDS Integers, Sequences, FiniteSets

CONSTANTS
    Node,
    Conn,        \* bound: the connections there can be at a time
    from, to,    \* the node that connects, the node it connects to
    NoConn,      \* no entry in active_connections
    MaxPeers,    \* max_peers
    Msg,         \* the messages that are broadcast, each a new Message
    origin,      \* the node that broadcasts a message
    ttlArg,      \* the ttl it gives gossip_message: 3 for a transaction
    DefaultTtl,  \* Gossip.default_ttl: 5
    Fanout,      \* Gossip.fanout: network.gossip_fanout
    NoTtl,       \* no _gossip_ttl in the payload
    MaxFaults    \* bound: broken connections, restarts and cleanups

ASSUME GossipAssumption ==
    /\ IsFiniteSet(Node)
    /\ from \in [Conn -> Node]
    /\ to \in [Conn -> Node]
    /\ NoConn \notin Conn
    /\ MaxPeers \in Nat
    /\ origin \in [Msg -> Node]
    /\ ttlArg \in [Msg -> Nat]
    /\ DefaultTtl \in Nat \ {0}
    /\ Fanout \in Nat
    /\ NoTtl \notin Int
    /\ MaxFaults \in Nat

VARIABLES
    active,     \* active_connections, per node: peer -> connection
    dial,       \* how far connect_to_peer is with a connection
    open,       \* the connections that carry messages both ways
    loops,      \* the receive loops: <<c, n>> reads at n what c brings
    stream,     \* what is under way: stream[<<c, n>>] goes over c to n
    seen,       \* the keys of seen_messages, per node
    pending,    \* pending_broadcast, per node
    injected,   \* the messages broadcast so far
    delivered,  \* history: how often a node's callback got a message
    calm,       \* history: no connection has changed since the first broadcast
                \* and nothing was lost or forgotten
    faults      \* history: how often a fault occurred

gossipVars == <<active, dial, open, loops, stream,
                seen, pending, injected, delivered, calm, faults>>
connVars == <<active, dial, open, loops>>

\* `ttl or self.default_ttl`
Ttl(m) == IF ttlArg[m] = 0 THEN DefaultTtl ELSE ttlArg[m]

\* A serialized message.  `ttl` is its _gossip_ttl, `hops` a history field:
\* the connections it has crossed.
Wire == [id : Msg, ttl : Int, hops : Nat \ {0}]

\* Faulty: the hash is the one of the original payload.
HashOfOriginal(m, ttl) == <<m, NoTtl>>

\* compute_hash, taken before _gossip_ttl is removed from the payload
Hash(m, ttl) == <<m, ttl>>

\* The callback for the type of the message; no callback awaits anything.
Deliver(n, m) == delivered' = [delivered EXCEPT ![n][m] = @ + 1]

Ends(c) == {from[c], to[c]}

\* The end of c that n is not
Other(c, n) == IF n = from[c] THEN to[c] ELSE from[c]

\* get_peers
Peers(n) == {p \in Node : active[n][p] # NoConn}

\* The choices of _broadcast_to_peers
Targets(n) ==
    IF Cardinality(Peers(n)) > Fanout
    THEN {T \in SUBSET Peers(n) : Cardinality(T) = Fanout}
    ELSE {Peers(n)}

\* The streams after n sent w to the peers T: only an open connection takes it.
Sent(n, T, w, s) ==
    [l \in Conn \X Node |->
        IF l[2] \in T /\ l[1] = active[n][l[2]] /\ l[1] \in open
        THEN Append(s[l], w)
        ELSE s[l]]

\* _broadcast_to_peers and send_to_peer: a send over a connection that is no
\* more fails, and takes the entry out, or is lost if n does not know yet.
Broadcast(n, w, s) ==
    \E T \in Targets(n) : \E failed \in SUBSET {p \in T : active[n][p] \notin open} :
       /\ stream' = Sent(n, T, w, s)
       /\ active' = [active EXCEPT ![n] =
                        [p \in Node |-> IF p \in failed THEN NoConn ELSE @[p]]]
       /\ calm' = (calm /\ failed = {})

\* What a change of a connection, and whatever loses something, does to calm
Disturb == calm' = (calm /\ injected = {})

Init ==
    /\ active = [n \in Node |-> [p \in Node |-> NoConn]]
    /\ dial = [c \in Conn |-> "no"]
    /\ open = {}
    /\ loops = {}
    /\ stream = [l \in Conn \X Node |-> <<>>]
    /\ seen = [n \in Node |-> {}]
    /\ pending = [n \in Node |-> <<>>]
    /\ injected = {}
    /\ delivered = [n \in Node |-> [m \in Msg |-> 0]]
    /\ calm = TRUE
    /\ faults = 0

-----------------------------------------------------------------------------
(* Gossip *)

\* broadcast_message and gossip_message
GossipMessage(m) ==
    LET n == origin[m] IN
    /\ m \notin injected
    /\ injected' = injected \cup {m}
    /\ seen' = [seen EXCEPT ![n] = @ \cup {Hash(m, NoTtl)}]
    /\ Deliver(n, m)
    /\ pending' = [pending EXCEPT ![n] = Append(@, m)]
    /\ UNCHANGED <<connVars, stream, calm, faults>>

\* Faulty: a message stays in the queue as long as there is nobody to send
\* it to.
GossipWorkerWaits(n) ==
    /\ pending[n] # <<>>
    /\ LET m == Head(pending[n]) IN
       \/ /\ Peers(n) = {}
          /\ UNCHANGED <<active, stream, pending, calm>>
       \/ /\ Peers(n) # {}
          /\ pending' = [pending EXCEPT ![n] = Tail(@)]
          /\ Broadcast(n, [id |-> m, ttl |-> Ttl(m) - 1, hops |-> 1], stream)
    /\ UNCHANGED <<dial, open, loops, seen, injected, delivered, faults>>

\* One turn of _gossip_worker: the message leaves the queue even when there
\* is nobody to send it to.
GossipWorker(n) ==
    /\ pending[n] # <<>>
    /\ pending' = [pending EXCEPT ![n] = Tail(@)]
    /\ LET m == Head(pending[n]) IN
       Broadcast(n, [id |-> m, ttl |-> Ttl(m) - 1, hops |-> 1], stream)
    /\ UNCHANGED <<dial, open, loops, seen, injected, delivered, faults>>

\* n, which took w out of the streams s, relays it if it may:
\* handle_incoming_message puts ttl - 1 into the payload and passes ttl - 1
\* to _broadcast_to_peers, which puts ttl - 2 there.
\* Faulty: relayed whatever the ttl.
RelayAlways(n, w, s) ==
    Broadcast(n, [id |-> w.id, ttl |-> w.ttl - 2, hops |-> w.hops + 1], s)

Relay(n, w, s) ==
    IF w.ttl > 0
    THEN Broadcast(n, [id |-> w.id, ttl |-> w.ttl - 2, hops |-> w.hops + 1], s)
    ELSE stream' = s /\ UNCHANGED <<active, calm>>

\* Faulty: no test against seen_messages.
HandleIncomingTwice(c, n) ==
    /\ <<c, n>> \in loops
    /\ stream[<<c, n>>] # <<>>
    /\ LET w == Head(stream[<<c, n>>])
           rest == [stream EXCEPT ![<<c, n>>] = Tail(@)]
       IN  /\ seen' = [seen EXCEPT ![n] = @ \cup {Hash(w.id, w.ttl)}]
           /\ Deliver(n, w.id)
           /\ Relay(n, w, rest)
    /\ UNCHANGED <<dial, open, loops, pending, injected, faults>>

\* handle_incoming_message for the next message that c brings to n
HandleIncoming(c, n) ==
    /\ <<c, n>> \in loops
    /\ stream[<<c, n>>] # <<>>
    /\ LET w == Head(stream[<<c, n>>])
           rest == [stream EXCEPT ![<<c, n>>] = Tail(@)]
       IN  \/ /\ Hash(w.id, w.ttl) \in seen[n]
              /\ stream' = rest
              /\ UNCHANGED <<active, seen, delivered, calm>>
           \/ /\ Hash(w.id, w.ttl) \notin seen[n]
              /\ seen' = [seen EXCEPT ![n] = @ \cup {Hash(w.id, w.ttl)}]
              /\ Deliver(n, w.id)
              /\ Relay(n, w, rest)
    /\ UNCHANGED <<dial, open, loops, pending, injected, faults>>

\* One pass of _cleanup_worker over the entries that have expired
Cleanup(n, expired) ==
    /\ faults < MaxFaults
    /\ expired \in SUBSET seen[n] \ {{}}
    /\ seen' = [seen EXCEPT ![n] = @ \ expired]
    /\ faults' = faults + 1
    /\ Disturb
    /\ UNCHANGED <<connVars, pending, stream, injected, delivered>>

-----------------------------------------------------------------------------
(* Connections *)

\* connect_to_peer up to its await
ConnectToPeer(c) ==
    /\ dial[c] = "no" /\ \A n \in Node : <<c, n>> \notin loops
    /\ active[from[c]][to[c]] = NoConn
    /\ from[c] # to[c]
    /\ dial' = [dial EXCEPT ![c] = "asked"]
    /\ UNCHANGED <<active, open, loops, stream,
                   seen, pending, injected, delivered, calm, faults>>

\* Faulty: under the address of the node itself.
HandleClientOwnId(c) ==
    LET n == to[c] IN
    /\ dial[c] = "asked"
    /\ dial' = [dial EXCEPT ![c] = "answered"]
    /\ \/ /\ Cardinality(Peers(n)) >= MaxPeers
          /\ UNCHANGED <<active, open, loops>>
       \/ /\ Cardinality(Peers(n)) < MaxPeers
          /\ active' = [active EXCEPT ![n][n] = c]
          /\ open' = open \cup {c}
          /\ loops' = loops \cup {<<c, n>>}
    /\ Disturb
    /\ UNCHANGED <<stream, seen, pending, injected, delivered, faults>>

\* _handle_client, once the connection is made: closed again when the table
\* is full, entered, and read from now on, otherwise.
HandleClient(c) ==
    LET n == to[c] IN
    /\ dial[c] = "asked"
    /\ dial' = [dial EXCEPT ![c] = "answered"]
    /\ \/ /\ Cardinality(Peers(n)) >= MaxPeers
          /\ UNCHANGED <<active, open, loops>>
       \/ /\ Cardinality(Peers(n)) < MaxPeers
          /\ active' = [active EXCEPT ![n][from[c]] = c]
          /\ open' = open \cup {c}
          /\ loops' = loops \cup {<<c, n>>}
    /\ Disturb
    /\ UNCHANGED <<stream, seen, pending, injected, delivered, faults>>

\* websockets.connect returns, whatever has become of the connection since.
Connected(c) ==
    LET n == from[c] IN
    /\ dial[c] = "answered"
    /\ dial' = [dial EXCEPT ![c] = "no"]
    /\ active' = [active EXCEPT ![n][to[c]] = c]
    /\ loops' = loops \cup {<<c, n>>}
    /\ Disturb
    /\ UNCHANGED <<open, stream, seen, pending, injected, delivered, faults>>

\* websockets.connect raises: nobody answers, or not in time.
ConnectFails(c) ==
    /\ dial[c] # "no"
    /\ dial' = [dial EXCEPT ![c] = "no"]
    /\ open' = open \ {c}
    /\ stream' = [stream EXCEPT ![<<c, from[c]>>] = <<>>]
    /\ Disturb
    /\ UNCHANGED <<active, loops, seen, pending, injected, delivered, faults>>

\* A connection breaks.
Break(c) ==
    /\ faults < MaxFaults
    /\ c \in open
    /\ open' = open \ {c}
    /\ faults' = faults + 1
    /\ Disturb
    /\ UNCHANGED <<active, dial, loops, stream, seen, pending, injected, delivered>>

\* Of what is under way on a connection that is no more, the last is lost.
Lose(c, n) ==
    LET s == stream[<<c, n>>] IN
    /\ c \notin open
    /\ s # <<>>
    /\ stream' = [stream EXCEPT ![<<c, n>>] = SubSeq(s, 1, Len(s) - 1)]
    /\ Disturb
    /\ UNCHANGED <<connVars, seen, pending, injected, delivered, faults>>

\* Faulty: the loop stops at the end of the connection, whatever has come.
LoopEndsUnread(c, n) ==
    /\ <<c, n>> \in loops
    /\ c \notin open
    /\ loops' = loops \ {<<c, n>>}
    /\ active' = [active EXCEPT ![n][Other(c, n)] = NoConn]
    /\ Disturb
    /\ UNCHANGED <<dial, open, stream, seen, pending, injected, delivered, faults>>

\* A receive loop has read what there was.  Its `finally` takes out the entry
\* of the peer, for whichever connection it is.
LoopEnds(c, n) ==
    /\ <<c, n>> \in loops
    /\ c \notin open
    /\ stream[<<c, n>>] = <<>>
    /\ loops' = loops \ {<<c, n>>}
    /\ active' = [active EXCEPT ![n][Other(c, n)] = NoConn]
    /\ Disturb
    /\ UNCHANGED <<dial, open, stream, seen, pending, injected, delivered, faults>>

\* The process ends and another one takes its place.  What it sent may still
\* arrive; the other ends find out by themselves.
Restart(n) ==
    /\ faults < MaxFaults
    /\ active' = [active EXCEPT ![n] = [p \in Node |-> NoConn]]
    /\ dial' = [c \in Conn |-> IF from[c] = n THEN "no" ELSE dial[c]]
    /\ open' = {c \in open : n \notin Ends(c)}
    /\ loops' = {l \in loops : l[2] # n}
    /\ stream' = [l \in Conn \X Node |-> IF l[2] = n THEN <<>> ELSE stream[l]]
    /\ seen' = [seen EXCEPT ![n] = {}]
    /\ pending' = [pending EXCEPT ![n] = <<>>]
    /\ faults' = faults + 1
    /\ Disturb
    /\ UNCHANGED <<injected, delivered>>

Next ==
    \/ \E m \in Msg : GossipMessage(m)
    \/ \E n \in Node : GossipWorker(n)
    \/ \E c \in Conn, n \in Node : HandleIncoming(c, n)
    \/ \E n \in Node : \E expired \in SUBSET seen[n] : Cleanup(n, expired)
    \/ \E c \in Conn : ConnectToPeer(c)
    \/ \E c \in Conn : HandleClient(c)
    \/ \E c \in Conn : Connected(c)
    \/ \E c \in Conn : ConnectFails(c)
    \/ \E c \in Conn : Break(c)
    \/ \E c \in Conn, n \in Node : Lose(c, n)
    \/ \E c \in Conn, n \in Node : LoopEnds(c, n)
    \/ \E n \in Node : Restart(n)

Spec == Init /\ [][Next]_gossipVars

\* The worker and the receive loops run, and a connect comes back, if only by
\* its timeout; nothing else needs to happen.
FairSpec ==
    /\ Spec
    /\ \A n \in Node : WF_gossipVars(GossipWorker(n))
    /\ \A c \in Conn, n \in Node : WF_gossipVars(HandleIncoming(c, n))
    /\ \A c \in Conn : WF_gossipVars(Connected(c) \/ ConnectFails(c))

-----------------------------------------------------------------------------
(* Properties *)

\* An entry of a table is a connection between the node and the peer it is
\* entered under (p2p_node.py:149, 179).
GossipTypeOK ==
    /\ active \in [Node -> [Node -> Conn \cup {NoConn}]]
    /\ dial \in [Conn -> {"no", "asked", "answered"}]
    /\ open \subseteq Conn
    /\ loops \subseteq Conn \X Node
    /\ stream \in [Conn \X Node -> Seq(Wire)]
    /\ seen \in [Node -> SUBSET (Msg \X (Int \cup {NoTtl}))]
    /\ pending \in [Node -> Seq(Msg)]
    /\ injected \subseteq Msg
    /\ calm \in BOOLEAN
    /\ delivered \in [Node -> [Msg -> Nat]]
    /\ faults \in 0 .. MaxFaults
    /\ \A n, p \in Node : active[n][p] # NoConn => n # p /\ Ends(active[n][p]) = {n, p}

\* What comes finds a reader: while a connection is open each of its ends has
\* a loop on it, but for the end whose connect has yet to return, and a loop
\* outlives the connection until it has read what has come; and no node lists
\* a connection it does not read (p2p_node.py:149-163, 178-201, 244).
Attended ==
    /\ \A c \in Conn, n \in Node :
          (c \in open /\ n \in Ends(c)) \/ stream[<<c, n>>] # <<>> =>
              <<c, n>> \in loops \/ (n = from[c] /\ dial[c] = "answered")
    /\ \A n, p \in Node : active[n][p] # NoConn => <<active[n][p], n>> \in loops

\* How far a message goes: a ttl of t buys t \div 2 + 1 hops.
Reach(m) == Ttl(m) \div 2 + 1

\* The _gossip_ttl of a message under way tells the hops it has made: the
\* origin takes one off, each relay two (gossip.py:141, 218, 229), so no copy
\* outlives Reach hops, whatever connections break and whoever forgets it.
HopsBounded ==
    \A l \in Conn \X Node : \A i \in DOMAIN stream[l] :
        LET w == stream[l][i] IN
        /\ w.ttl = Ttl(w.id) + 1 - 2 * w.hops
        /\ w.hops <= Reach(w.id)

\* The deduplication leaves a node one delivery per distance the copies have
\* come, and the origin its own; only a cleanup or a restart lets them
\* through again (gossip.py:207-212).
DeliveriesBounded ==
    \A n \in Node, m \in Msg :
        delivered[n][m] <=
            (faults + 1) * (Reach(m) + (IF n = origin[m] THEN 1 ELSE 0))

Quiet ==
    /\ \A n \in Node : pending[n] = <<>>
    /\ \A l \in Conn \X Node : stream[l] = <<>>

\* No node has more peers than the fanout, or lists a connection that is no
\* more.
Sound ==
    \A n \in Node :
        /\ Cardinality(Peers(n)) <= Fanout
        /\ \A p \in Peers(n) : active[n][p] \in open

\* The nodes at most k connections away from n, as the tables have it
Ball(n, k) ==
    LET ball[i \in Nat] ==
            IF i = 0 THEN {n}
            ELSE ball[i - 1] \cup UNION {Peers(p) : p \in ball[i - 1]}
    IN  ball[k]

\* In a calm and sound network, a message reaches the nodes within Reach hops
\* of its origin, all of them and no others, though a node may list a peer
\* that does not list it: the deduplication never stops a copy that would
\* have gone further than the one that came first, because the hash that is
\* compared contains the ttl (gossip.py:191-209).
Coverage ==
    Quiet /\ calm /\ Sound =>
        \A m \in injected, p \in Node :
            delivered[p][m] > 0 <=> p \in Ball(origin[m], Reach(m))

\* Every flood dies out and every queue drains, whatever connections come and
\* go (gossip.py:97-110, 218).
Settles == <>[]Quiet

\* gossip.py:17 promises deduplication by hash: in a calm network a node is
\* given a message once.
DeliveredOnce ==
    calm => \A n \in Node, m \in Msg : delivered[n][m] <= 1
=============================================================================
