---------------------------- MODULE GossipProofs ----------------------------
(***************************************************************************)
(* Theorems about Gossip, for every network, every fanout and every number *)
(* of messages and faults.                                                 *)
(*                                                                         *)
(* HopsBounded speaks of the messages under way.  Its inductive form puts  *)
(* it into the type of the streams: a stream is a sequence of messages     *)
(* whose ttl tells their hops.  Append, Tail and SubSeq keep that type.    *)
(*                                                                         *)
(* A step either broadcasts, and BroadcastFacts says what that does to the *)
(* streams and to the sender's table, or changes a connection, and nothing *)
(* comes under way.                                                        *)
(*                                                                         *)
(* Coverage speaks of the moment when nothing is under way.  Its inductive *)
(* form says of every other moment where the copies that are still owed to *)
(* a node are: in the origin's queue, in a stream, or already recorded.    *)
(***************************************************************************)
EXTENDS Gossip, TLAPS, Functions, FiniteSetTheorems, Iteration

WireOK(w) ==
    /\ w.ttl = Ttl(w.id) + 1 - 2 * w.hops
    /\ w.hops <= Reach(w.id)

GoodWire == {w \in Wire : WireOK(w)}

Streams == [Conn \X Node -> Seq(GoodWire)]

\* connect_to_peer does not connect a node to itself.
DialsOther == \A c \in Conn : dial[c] # "no" => from[c] # to[c]

\* The inductive invariant
GossipInv == GossipTypeOK /\ stream \in Streams /\ DialsOther

-----------------------------------------------------------------------------

\* The ttl gossip_message works with is at least 1 (gossip.py:86).
LEMMA TtlPositive ==
    ASSUME NEW m \in Msg
    PROVE  Ttl(m) \in Nat \ {0} /\ Reach(m) \in Nat /\ 2 * Reach(m) >= Ttl(m) + 1
BY GossipAssumption, SMT DEF Ttl, Reach

\* What a worker sends has made one hop and lost one of its ttl.
LEMMA FirstHopGood ==
    ASSUME NEW m \in Msg
    PROVE  [id |-> m, ttl |-> Ttl(m) - 1, hops |-> 1] \in GoodWire
<1> DEFINE w == [id |-> m, ttl |-> Ttl(m) - 1, hops |-> 1]
<1>1. Ttl(m) \in Nat \ {0}
  BY TtlPositive
<1>2. w \in Wire
  BY <1>1 DEF Wire
<1>3. w.id = m /\ w.ttl = Ttl(m) - 1 /\ w.hops = 1
  OBVIOUS
<1>4. WireOK(w)
  BY <1>1, <1>3, SMT DEF WireOK, Reach
<1> QED
  BY <1>2, <1>4 DEF GoodWire

\* What is relayed with a ttl above 0 has one hop more and is in its bound.
LEMMA NextHopGood ==
    ASSUME NEW w \in GoodWire, w.ttl > 0
    PROVE  [id |-> w.id, ttl |-> w.ttl - 2, hops |-> w.hops + 1] \in GoodWire
<1> DEFINE r == [id |-> w.id, ttl |-> w.ttl - 2, hops |-> w.hops + 1]
<1>1. w \in Wire /\ WireOK(w)
  BY DEF GoodWire
<1>2. w.id \in Msg /\ w.ttl \in Int /\ w.hops \in Nat \ {0}
  BY <1>1 DEF Wire
<1>3. Ttl(w.id) \in Nat \ {0} /\ Reach(w.id) \in Nat /\ 2 * Reach(w.id) >= Ttl(w.id) + 1
  BY <1>2, TtlPositive
<1>4. w.ttl = Ttl(w.id) + 1 - 2 * w.hops
  BY <1>1 DEF WireOK
<1>5. r.id = w.id /\ r.ttl = w.ttl - 2 /\ r.hops = w.hops + 1
  OBVIOUS
<1>6. r \in Wire
  BY <1>2 DEF Wire
<1>7. r.ttl = Ttl(r.id) + 1 - 2 * r.hops
  BY <1>2, <1>3, <1>4, <1>5, SMT
<1>8. r.hops <= Reach(r.id)
  BY <1>2, <1>3, <1>4, <1>5, SMT DEF Reach
<1> QED
  BY <1>6, <1>7, <1>8 DEF GoodWire, WireOK
\* Sending a good message keeps the streams good.
LEMMA SentGood ==
    ASSUME NEW s \in Streams, NEW n \in Node, NEW T, NEW w \in GoodWire
    PROVE  Sent(n, T, w, s) \in Streams
<1>1. ASSUME NEW l \in Conn \X Node
      PROVE  s[l] \in Seq(GoodWire) /\ Append(s[l], w) \in Seq(GoodWire)
  <2>1. s[l] \in Seq(GoodWire)
    BY <1>1 DEF Streams
  <2> QED
    BY <2>1
<1> QED
  BY <1>1 DEF Sent, Streams

\* The streams after n took the next message that c brought
Rest(s, c, n) == [s EXCEPT ![<<c, n>>] = Tail(@)]

\* Taking a message out of a stream keeps the streams good.
LEMMA RestGood ==
    ASSUME NEW s \in Streams, NEW c \in Conn, NEW n \in Node, s[<<c, n>>] # <<>>
    PROVE  /\ Head(s[<<c, n>>]) \in GoodWire
           /\ Rest(s, c, n) \in Streams
<1>1. s[<<c, n>>] \in Seq(GoodWire)
  BY DEF Streams
<1>2. Head(s[<<c, n>>]) \in GoodWire /\ Tail(s[<<c, n>>]) \in Seq(GoodWire)
  BY <1>1
<1> QED
  BY <1>2 DEF Streams, Rest

\* Good streams are streams of messages.
LEMMA GoodIsTyped ==
    ASSUME NEW s \in Streams
    PROVE  s \in [Conn \X Node -> Seq(Wire)]
<1>1. ASSUME NEW l \in Conn \X Node PROVE s[l] \in Seq(Wire)
  <2>1. s[l] \in Seq(GoodWire)
    BY <1>1 DEF Streams
  <2> QED
    BY <2>1 DEF GoodWire
<1> QED
  BY <1>1 DEF Streams

-----------------------------------------------------------------------------
(* What is in a stream                                                     *)

\* A copy of m that has made h hops is in the stream s.
InStream(s, m, h) == \E i \in DOMAIN s : s[i].id = m /\ s[i].hops = h

LEMMA InAppend ==
    ASSUME NEW s \in Seq(GoodWire), NEW w \in GoodWire, NEW m, NEW h
    PROVE  InStream(Append(s, w), m, h) <=> InStream(s, m, h) \/ (w.id = m /\ w.hops = h)
<1> DEFINE t == Append(s, w)
<1>1. /\ Len(s) \in Nat /\ DOMAIN s = 1 .. Len(s) /\ DOMAIN t = 1 .. Len(s) + 1
      /\ \A i \in 1 .. Len(s) : t[i] = s[i]
      /\ t[Len(s) + 1] = w
  OBVIOUS
<1> HIDE DEF t
<1>2. InStream(t, m, h) <=> InStream(s, m, h) \/ (w.id = m /\ w.hops = h)
  <2>1. \A i \in 1 .. Len(s) + 1 : i \in 1 .. Len(s) \/ i = Len(s) + 1
    BY <1>1
  <2>2. 1 .. Len(s) \subseteq 1 .. Len(s) + 1 /\ Len(s) + 1 \in 1 .. Len(s) + 1
    BY <1>1
  <2> QED BY <1>1, <2>1, <2>2 DEF InStream
<1> QED BY <1>2 DEF t

LEMMA InTail ==
    ASSUME NEW s \in Seq(GoodWire), s # <<>>, NEW m, NEW h
    PROVE  InStream(s, m, h) <=>
              InStream(Tail(s), m, h) \/ (Head(s).id = m /\ Head(s).hops = h)
<1> DEFINE t == Tail(s)
<1>1. /\ Len(s) \in Nat \ {0} /\ DOMAIN s = 1 .. Len(s) /\ DOMAIN t = 1 .. Len(s) - 1
      /\ \A i \in 1 .. Len(s) - 1 : t[i] = s[i + 1]
      /\ Head(s) = s[1]
  OBVIOUS
<1> HIDE DEF t
<1>2. ASSUME NEW i \in DOMAIN s, s[i].id = m, s[i].hops = h, i # 1
      PROVE  InStream(t, m, h)
  <2>1. i - 1 \in DOMAIN t /\ t[i - 1] = s[i]
    BY <1>1, <1>2
  <2> QED BY <1>2, <2>1 DEF InStream
<1>3. ASSUME NEW i \in DOMAIN t, t[i].id = m, t[i].hops = h
      PROVE  InStream(s, m, h)
  <2>1. i + 1 \in DOMAIN s /\ t[i] = s[i + 1]
    BY <1>1, <1>3
  <2> QED BY <1>3, <2>1 DEF InStream
<1>4. 1 \in DOMAIN s
  BY <1>1
<1>5. InStream(s, m, h) <=> InStream(t, m, h) \/ (Head(s).id = m /\ Head(s).hops = h)
  <2>1. ASSUME InStream(s, m, h) PROVE InStream(t, m, h) \/ (Head(s).id = m /\ Head(s).hops = h)
    BY <1>1, <1>2, <2>1 DEF InStream
  <2>2. ASSUME InStream(t, m, h) PROVE InStream(s, m, h)
    BY <1>3, <2>2 DEF InStream
  <2>3. ASSUME Head(s).id = m, Head(s).hops = h PROVE InStream(s, m, h)
    BY <1>1, <1>4, <2>3 DEF InStream
  <2> QED BY <2>1, <2>2, <2>3
<1> QED BY <1>5 DEF t
\* What is in the streams after n sent w to T: the copy is in the stream of
\* each connection to T that is open.
LEMMA InSent ==
    ASSUME NEW s \in Streams, NEW n \in Node, NEW T, NEW w \in GoodWire,
           NEW c \in Conn, NEW b \in Node, NEW m, NEW h
    PROVE  InStream(Sent(n, T, w, s)[<<c, b>>], m, h) <=>
              \/ InStream(s[<<c, b>>], m, h)
              \/ b \in T /\ c = active[n][b] /\ c \in open /\ w.id = m /\ w.hops = h
<1>1. s[<<c, b>>] \in Seq(GoodWire)
  BY DEF Streams
<1>2. Sent(n, T, w, s)[<<c, b>>] =
        IF b \in T /\ c = active[n][b] /\ c \in open THEN Append(s[<<c, b>>], w)
        ELSE s[<<c, b>>]
  BY DEF Sent
<1> QED BY <1>1, <1>2, InAppend

\* What is in the streams after n took the next message that c brought
LEMMA InRest ==
    ASSUME NEW s \in Streams, NEW c \in Conn, NEW n \in Node, s[<<c, n>>] # <<>>,
           NEW d \in Conn, NEW b \in Node, NEW m, NEW h
    PROVE  InStream(s[<<d, b>>], m, h) <=>
              \/ InStream(Rest(s, c, n)[<<d, b>>], m, h)
              \/ /\ d = c /\ b = n
                 /\ Head(s[<<c, n>>]).id = m /\ Head(s[<<c, n>>]).hops = h
<1>1. s[<<d, b>>] \in Seq(GoodWire) /\ s[<<c, n>>] \in Seq(GoodWire)
  BY DEF Streams
<1>2. Rest(s, c, n)[<<d, b>>] = IF d = c /\ b = n THEN Tail(s[<<c, n>>]) ELSE s[<<d, b>>]
  BY DEF Streams, Rest
<1> QED BY <1>1, <1>2, InTail

\* With as many peers as the fanout or fewer, everyone is sent to.
LEMMA TargetFacts ==
    ASSUME NEW n \in Node, NEW T \in Targets(n)
    PROVE  T \subseteq Peers(n) /\ (Sound => T = Peers(n))
<1>1. Peers(n) \in SUBSET Node /\ IsFiniteSet(Node) /\ Fanout \in Nat
  BY GossipAssumption DEF Peers
<1>2. Cardinality(Peers(n)) \in Nat
  BY <1>1, FS_Subset, FS_CardinalityType
<1> QED BY <1>1, <1>2 DEF Targets, Sound

\* What a broadcast does: the copies go to peers of n over open connections,
\* to all of them if the network is sound, and n's table only loses entries.
Carries(n, b, c) == b \in Peers(n) /\ c = active[n][b] /\ c \in open

Tables == [Node -> [Node -> Conn \cup {NoConn}]]

LEMMA BroadcastFacts ==
    ASSUME GossipTypeOK, NEW n \in Node, NEW w \in GoodWire, NEW s \in Streams,
           Broadcast(n, w, s)
    PROVE  /\ stream' \in Streams
           /\ active' \in Tables
           /\ \A a, p \in Node : active'[a][p] = active[a][p] \/ active'[a][p] = NoConn
           /\ calm' \in BOOLEAN
           /\ calm' => calm /\ active' = active
           /\ \A c \in Conn, b \in Node :
                 stream'[<<c, b>>] = s[<<c, b>>] \/ Carries(n, b, c)
           /\ \A c \in Conn, b \in Node : \A m, h :
                 InStream(s[<<c, b>>], m, h) => InStream(stream'[<<c, b>>], m, h)
           /\ \A c \in Conn, b \in Node : \A m, h :
                 InStream(stream'[<<c, b>>], m, h) =>
                    \/ InStream(s[<<c, b>>], m, h)
                    \/ Carries(n, b, c) /\ w.id = m /\ w.hops = h
           /\ Sound => \A b \in Peers(n) :
                          InStream(stream'[<<active[n][b], b>>], w.id, w.hops)
<1>1. PICK T \in Targets(n) : \E failed \in SUBSET {p \in T : active[n][p] \notin open} :
         /\ stream' = Sent(n, T, w, s)
         /\ active' = [active EXCEPT ![n] =
                          [p \in Node |-> IF p \in failed THEN NoConn ELSE @[p]]]
         /\ calm' = (calm /\ failed = {})
  BY DEF Broadcast
<1>2. PICK failed : /\ stream' = Sent(n, T, w, s)
                    /\ active' = [active EXCEPT ![n] =
                                     [p \in Node |-> IF p \in failed THEN NoConn ELSE @[p]]]
                    /\ calm' = (calm /\ failed = {})
  BY <1>1
<1>3. T \subseteq Peers(n) /\ (Sound => T = Peers(n))
  BY TargetFacts
<1>4. active \in Tables /\ calm \in BOOLEAN /\ open \subseteq Conn
  BY DEF GossipTypeOK, Tables
<1>5. stream' \in Streams
  BY <1>2, SentGood
<1>6. active' \in Tables
  BY <1>2, <1>4 DEF Tables
<1>7. \A a, p \in Node : active'[a][p] = active[a][p] \/ active'[a][p] = NoConn
  BY <1>2, <1>4 DEF Tables
<1>8. calm' \in BOOLEAN /\ (calm' => calm /\ active' = active)
  <2>1. ASSUME failed = {} PROVE active' = active
    <3>1. \A a, p \in Node : active'[a][p] = active[a][p]
      BY <1>2, <1>4, <2>1 DEF Tables
    <3>2. \A a \in Node : active'[a] = active[a]
      <4> SUFFICES ASSUME NEW a \in Node PROVE active'[a] = active[a]
        OBVIOUS
      <4>1. active'[a] \in [Node -> Conn \cup {NoConn}] /\ active[a] \in [Node -> Conn \cup {NoConn}]
        BY <1>4, <1>6 DEF Tables
      <4> QED BY <3>1, <4>1
    <3> QED BY <1>4, <1>6, <3>2 DEF Tables
  <2> QED BY <1>2, <1>4, <2>1
<1>9. ASSUME NEW c \in Conn, NEW b \in Node
      PROVE  stream'[<<c, b>>] = s[<<c, b>>] \/ Carries(n, b, c)
  BY <1>2, <1>3 DEF Sent, Carries
<1>10. ASSUME NEW c \in Conn, NEW b \in Node, NEW m, NEW h
       PROVE  InStream(stream'[<<c, b>>], m, h) <=>
                 \/ InStream(s[<<c, b>>], m, h)
                 \/ b \in T /\ c = active[n][b] /\ c \in open /\ w.id = m /\ w.hops = h
  <2>1. InStream(Sent(n, T, w, s)[<<c, b>>], m, h) <=>
           \/ InStream(s[<<c, b>>], m, h)
           \/ b \in T /\ c = active[n][b] /\ c \in open /\ w.id = m /\ w.hops = h
    BY InSent
  <2> QED BY <1>2, <2>1
<1>11. ASSUME Sound, NEW b \in Peers(n)
       PROVE  InStream(stream'[<<active[n][b], b>>], w.id, w.hops)
  <2>1. b \in Node /\ b \in T /\ active[n][b] \in open /\ active[n][b] \in Conn
    BY <1>3, <1>4, <1>11 DEF Sound, Peers
  <2> QED BY <1>10, <2>1
<1>12. \A c \in Conn, b \in Node : \A m, h :
          InStream(s[<<c, b>>], m, h) => InStream(stream'[<<c, b>>], m, h)
  BY <1>10
<1>13. \A c \in Conn, b \in Node : \A m, h :
          InStream(stream'[<<c, b>>], m, h) =>
             \/ InStream(s[<<c, b>>], m, h)
             \/ Carries(n, b, c) /\ w.id = m /\ w.hops = h
  BY <1>3, <1>10 DEF Carries
<1> QED BY <1>5, <1>6, <1>7, <1>8, <1>9, <1>11, <1>12, <1>13

-----------------------------------------------------------------------------

\* Nothing is under way at first.
LEMMA GossipInvInit == Init => GossipInv
<1> SUFFICES ASSUME Init PROVE GossipInv
  OBVIOUS
<1>1. stream \in Streams
  BY DEF Init, Streams
<1>2. GossipTypeOK
  BY <1>1, GoodIsTyped, GossipAssumption DEF Init, GossipTypeOK
<1>3. DialsOther
  BY DEF Init, DialsOther
<1> QED
  BY <1>1, <1>2, <1>3 DEF GossipInv

Seens == [Node -> SUBSET (Msg \X (Int \cup {NoTtl}))]

\* An entry is a connection between the node and its peer.
Entries == \A n, p \in Node : active[n][p] # NoConn => n # p /\ Ends(active[n][p]) = {n, p}

\* The parts of the invariant
LEMMA InvFacts ==
    GossipInv <=>
        /\ active \in Tables
        /\ dial \in [Conn -> {"no", "asked", "answered"}]
        /\ open \subseteq Conn
        /\ loops \subseteq Conn \X Node
        /\ stream \in Streams
        /\ seen \in Seens
        /\ pending \in [Node -> Seq(Msg)]
        /\ injected \subseteq Msg
        /\ calm \in BOOLEAN
        /\ delivered \in [Node -> [Msg -> Nat]]
        /\ faults \in 0 .. MaxFaults
        /\ Entries
        /\ DialsOther
<1>1. stream \in Streams => stream \in [Conn \X Node -> Seq(Wire)]
  BY GoodIsTyped
<1> QED BY <1>1 DEF GossipInv, GossipTypeOK, Entries, Tables, Seens

\* The next message that c brings to n is taken out and, if it is new,
\* recorded, given to the callback and relayed as far as its ttl allows.
Relayed(w) == [id |-> w.id, ttl |-> w.ttl - 2, hops |-> w.hops + 1]

IsNew(n, w) ==
    /\ <<w.id, w.ttl>> \notin seen[n]
    /\ seen' = [seen EXCEPT ![n] = @ \cup {<<w.id, w.ttl>>}]
    /\ Deliver(n, w.id)

LEMMA HandleIncomingFacts ==
    ASSUME GossipInv, NEW c \in Conn, NEW n \in Node, HandleIncoming(c, n)
    PROVE  /\ stream[<<c, n>>] # <<>> /\ <<c, n>> \in loops
           /\ UNCHANGED <<dial, open, loops, pending, injected, faults>>
           /\ Rest(stream, c, n) \in Streams
           /\ \E w \in GoodWire :
                 /\ w = Head(stream[<<c, n>>])
                 /\ w.id \in Msg /\ w.ttl \in Int /\ w.hops \in Nat \ {0}
                 /\ \/ /\ <<w.id, w.ttl>> \in seen[n]
                       /\ stream' = Rest(stream, c, n)
                       /\ UNCHANGED <<active, seen, delivered, calm>>
                    \/ /\ IsNew(n, w) /\ ~(w.ttl > 0)
                       /\ stream' = Rest(stream, c, n)
                       /\ UNCHANGED <<active, calm>>
                    \/ /\ IsNew(n, w) /\ w.ttl > 0
                       /\ Relayed(w) \in GoodWire
                       /\ Broadcast(n, Relayed(w), Rest(stream, c, n))
<1>1. stream \in Streams
  BY DEF GossipInv
<1>2. /\ stream[<<c, n>>] # <<>> /\ <<c, n>> \in loops
      /\ UNCHANGED <<dial, open, loops, pending, injected, faults>>
  BY DEF HandleIncoming
<1>3. Head(stream[<<c, n>>]) \in GoodWire /\ Rest(stream, c, n) \in Streams
  BY <1>1, <1>2, RestGood
<1>4. PICK w \in GoodWire : w = Head(stream[<<c, n>>])
  BY <1>3
<1>5. w.id \in Msg /\ w.ttl \in Int /\ w.hops \in Nat \ {0}
  BY DEF GoodWire, Wire
<1>6. w.ttl > 0 => Relayed(w) \in GoodWire
  BY NextHopGood DEF Relayed
<1>7. \/ /\ <<w.id, w.ttl>> \in seen[n]
         /\ stream' = Rest(stream, c, n)
         /\ UNCHANGED <<active, seen, delivered, calm>>
      \/ IsNew(n, w) /\ Relay(n, w, Rest(stream, c, n))
  BY <1>4 DEF HandleIncoming, Hash, Rest, IsNew
<1>8. Relay(n, w, Rest(stream, c, n)) =>
         \/ ~(w.ttl > 0) /\ stream' = Rest(stream, c, n) /\ UNCHANGED <<active, calm>>
         \/ w.ttl > 0 /\ Broadcast(n, Relayed(w), Rest(stream, c, n))
  BY DEF Relay, Relayed
<1> QED BY <1>2, <1>3, <1>4, <1>5, <1>6, <1>7, <1>8

\* A turn of the worker
LEMMA GossipWorkerFacts ==
    ASSUME GossipInv, NEW n \in Node, GossipWorker(n)
    PROVE  /\ UNCHANGED <<dial, open, loops, seen, injected, delivered, faults>>
           /\ pending[n] \in Seq(Msg) /\ pending[n] # <<>>
           /\ pending' = [pending EXCEPT ![n] = Tail(@)]
           /\ \E m \in Msg, w \in GoodWire :
                 /\ m = Head(pending[n]) /\ w.id = m /\ w.hops = 1
                 /\ Broadcast(n, w, stream)
<1>1. /\ UNCHANGED <<dial, open, loops, seen, injected, delivered, faults>>
      /\ pending[n] # <<>>
      /\ pending' = [pending EXCEPT ![n] = Tail(@)]
      /\ Broadcast(n, [id |-> Head(pending[n]), ttl |-> Ttl(Head(pending[n])) - 1, hops |-> 1],
                   stream)
  BY DEF GossipWorker
<1>2. pending[n] \in Seq(Msg)
  BY InvFacts
<1>3. PICK m \in Msg : m = Head(pending[n])
  BY <1>1, <1>2
<1>4. [id |-> m, ttl |-> Ttl(m) - 1, hops |-> 1] \in GoodWire
  BY FirstHopGood
<1>5. PICK w \in GoodWire : w = [id |-> m, ttl |-> Ttl(m) - 1, hops |-> 1]
  BY <1>4
<1>6. w.id = m /\ w.hops = 1 /\ Broadcast(n, w, stream)
  BY <1>1, <1>3, <1>5
<1> QED BY <1>1, <1>2, <1>3, <1>6

\* A table that only loses entries
LEMMA FewerEntries ==
    ASSUME Entries, \A a, p \in Node : active'[a][p] = active[a][p] \/ active'[a][p] = NoConn
    PROVE  Entries'
<1> SUFFICES ASSUME NEW a \in Node, NEW p \in Node, active'[a][p] # NoConn
             PROVE  a # p /\ Ends(active'[a][p]) = {a, p}
  BY DEF Entries, Ends
<1>1. active'[a][p] = active[a][p] /\ active[a][p] # NoConn
  OBVIOUS
<1> QED BY <1>1 DEF Entries

\* A table that gets c as the entry for its other end
LEMMA NewEntry ==
    ASSUME Entries, active \in Tables, NEW c \in Conn, NEW n \in Node, NEW p \in Node,
           n # p, Ends(c) = {n, p}, active' = [active EXCEPT ![n][p] = c]
    PROVE  Entries' /\ active' \in Tables
<1>1. active' \in Tables
  BY DEF Tables
<1>2. \A a, b \in Node : active'[a][b] = IF a = n /\ b = p THEN c ELSE active[a][b]
  BY DEF Tables
<1> SUFFICES ASSUME NEW a \in Node, NEW b \in Node, active'[a][b] # NoConn
             PROVE  a # b /\ Ends(active'[a][b]) = {a, b}
  BY <1>1 DEF Entries, Ends
<1> QED BY <1>2 DEF Entries

\* Every step keeps the invariant.
LEMMA GossipInvNext == GossipInv /\ [Next]_gossipVars => GossipInv'
<1> SUFFICES ASSUME GossipInv, [Next]_gossipVars PROVE GossipInv'
  OBVIOUS
<1>0. /\ active \in Tables
      /\ dial \in [Conn -> {"no", "asked", "answered"}]
      /\ open \subseteq Conn
      /\ loops \subseteq Conn \X Node
      /\ stream \in Streams
      /\ seen \in Seens
      /\ pending \in [Node -> Seq(Msg)]
      /\ injected \subseteq Msg
      /\ calm \in BOOLEAN
      /\ delivered \in [Node -> [Msg -> Nat]]
      /\ faults \in 0 .. MaxFaults
      /\ Entries
      /\ DialsOther
  BY InvFacts
<1>t. GossipTypeOK
  BY DEF GossipInv
<1>a. from \in [Conn -> Node] /\ to \in [Conn -> Node] /\ MaxFaults \in Nat
      /\ origin \in [Msg -> Node]
  BY GossipAssumption
<1>e. UNCHANGED active => Entries'
  BY <1>0 DEF Entries, Ends
<1>d. UNCHANGED dial => DialsOther'
  BY <1>0 DEF DialsOther
<1>c. Disturb => calm' \in BOOLEAN
  BY <1>0 DEF Disturb
<1>f. faults < MaxFaults /\ faults' = faults + 1 => faults' \in 0 .. MaxFaults
  BY <1>0, <1>a
<1>i. ASSUME /\ active' \in Tables
             /\ dial' \in [Conn -> {"no", "asked", "answered"}]
             /\ open' \subseteq Conn
             /\ loops' \subseteq Conn \X Node
             /\ stream' \in Streams
             /\ seen' \in Seens
             /\ pending' \in [Node -> Seq(Msg)]
             /\ injected' \subseteq Msg
             /\ calm' \in BOOLEAN
             /\ delivered' \in [Node -> [Msg -> Nat]]
             /\ faults' \in 0 .. MaxFaults
             /\ Entries'
             /\ DialsOther'
      PROVE  GossipInv'
  <2>1. stream' \in [Conn \X Node -> Seq(Wire)]
    BY <1>i, GoodIsTyped
  <2> QED BY <1>i, <2>1 DEF GossipInv, GossipTypeOK, Entries, Tables, Seens
<1>1. ASSUME NEW m \in Msg, GossipMessage(m) PROVE GossipInv'
  <2>1. /\ injected' = injected \cup {m}
        /\ seen' = [seen EXCEPT ![origin[m]] = @ \cup {<<m, NoTtl>>}]
        /\ delivered' = [delivered EXCEPT ![origin[m]][m] = @ + 1]
        /\ pending' = [pending EXCEPT ![origin[m]] = Append(@, m)]
        /\ UNCHANGED <<active, dial, open, loops, stream, calm, faults>>
    BY <1>1 DEF GossipMessage, Hash, Deliver, connVars
  <2>2. seen' \in Seens
    BY <1>0, <1>a, <2>1 DEF Seens
  <2>3. delivered' \in [Node -> [Msg -> Nat]]
    BY <1>0, <1>a, <2>1
  <2>4. pending' \in [Node -> Seq(Msg)]
    BY <1>0, <1>a, <2>1
  <2> QED BY <1>0, <1>d, <1>e, <1>i, <2>1, <2>2, <2>3, <2>4
<1>2. ASSUME NEW n \in Node, GossipWorker(n) PROVE GossipInv'
  <2>1. /\ UNCHANGED <<dial, open, loops, seen, injected, delivered, faults>>
        /\ pending[n] \in Seq(Msg) /\ pending[n] # <<>>
        /\ pending' = [pending EXCEPT ![n] = Tail(@)]
        /\ \E w \in GoodWire : Broadcast(n, w, stream)
    BY <1>2, GossipWorkerFacts
  <2>2. PICK w \in GoodWire : Broadcast(n, w, stream)
    BY <2>1
  <2>3. /\ stream' \in Streams /\ active' \in Tables /\ calm' \in BOOLEAN
        /\ \A a, p \in Node : active'[a][p] = active[a][p] \/ active'[a][p] = NoConn
    BY <1>0, <1>t, <2>2, BroadcastFacts
  <2>4. Entries'
    BY <1>0, <2>3, FewerEntries
  <2>5. pending' \in [Node -> Seq(Msg)]
    <3>1. Tail(pending[n]) \in Seq(Msg)
      BY <2>1
    <3> QED BY <1>0, <2>1, <3>1
  <2> QED BY <1>0, <1>d, <1>i, <2>1, <2>3, <2>4, <2>5
<1>3. ASSUME NEW c \in Conn, NEW n \in Node, HandleIncoming(c, n) PROVE GossipInv'
  <2>1. /\ UNCHANGED <<dial, open, loops, pending, injected, faults>>
        /\ Rest(stream, c, n) \in Streams
    BY <1>3, HandleIncomingFacts
  <2>2. PICK w \in GoodWire :
           /\ w.id \in Msg /\ w.ttl \in Int
           /\ UNCHANGED <<seen, delivered>> \/ IsNew(n, w)
           /\ \/ stream' = Rest(stream, c, n) /\ UNCHANGED <<active, calm>>
              \/ /\ Relayed(w) \in GoodWire
                 /\ Broadcast(n, Relayed(w), Rest(stream, c, n))
    BY <1>3, HandleIncomingFacts
  <2>3. seen' \in Seens /\ delivered' \in [Node -> [Msg -> Nat]]
    <3>1. CASE UNCHANGED <<seen, delivered>>
      BY <1>0, <3>1
    <3>2. CASE IsNew(n, w)
      <4>1. seen' = [seen EXCEPT ![n] = @ \cup {<<w.id, w.ttl>>}]
            /\ delivered' = [delivered EXCEPT ![n][w.id] = @ + 1]
        BY <3>2 DEF IsNew, Deliver
      <4>2. seen' \in Seens
        BY <1>0, <2>2, <4>1 DEF Seens
      <4>3. delivered' \in [Node -> [Msg -> Nat]]
        BY <1>0, <2>2, <4>1
      <4> QED BY <4>2, <4>3
    <3> QED BY <2>2, <3>1, <3>2
  <2>4. stream' \in Streams /\ active' \in Tables /\ calm' \in BOOLEAN /\ Entries'
    <3>1. CASE stream' = Rest(stream, c, n) /\ UNCHANGED <<active, calm>>
      BY <1>0, <1>e, <2>1, <3>1
    <3>2. CASE Relayed(w) \in GoodWire /\ Broadcast(n, Relayed(w), Rest(stream, c, n))
      <4>1. /\ stream' \in Streams /\ active' \in Tables /\ calm' \in BOOLEAN
            /\ \A a, p \in Node : active'[a][p] = active[a][p] \/ active'[a][p] = NoConn
        BY <1>t, <2>1, <3>2, BroadcastFacts
      <4> QED BY <1>0, <4>1, FewerEntries
    <3> QED BY <2>2, <3>1, <3>2
  <2> QED BY <1>0, <1>d, <1>i, <2>1, <2>3, <2>4
<1>4. ASSUME NEW n \in Node, NEW expired \in SUBSET seen[n], Cleanup(n, expired) PROVE GossipInv'
  <2>1. /\ UNCHANGED <<active, dial, open, loops, pending, stream, injected, delivered>>
        /\ seen' = [seen EXCEPT ![n] = @ \ expired] /\ Disturb
        /\ faults < MaxFaults /\ faults' = faults + 1
    BY <1>4 DEF Cleanup, connVars
  <2>2. seen' \in Seens
    BY <1>0, <2>1 DEF Seens
  <2> QED BY <1>0, <1>c, <1>d, <1>e, <1>f, <1>i, <2>1, <2>2
<1>5. ASSUME NEW c \in Conn, ConnectToPeer(c) PROVE GossipInv'
  <2>1. /\ UNCHANGED <<active, open, loops, stream, seen, pending, injected, delivered,
                       calm, faults>>
        /\ from[c] # to[c] /\ dial' = [dial EXCEPT ![c] = "asked"]
    BY <1>5 DEF ConnectToPeer
  <2>2. dial' \in [Conn -> {"no", "asked", "answered"}] /\ DialsOther'
    BY <1>0, <2>1 DEF DialsOther
  <2> QED BY <1>0, <1>e, <1>i, <2>1, <2>2
<1>6. ASSUME NEW c \in Conn, HandleClient(c) PROVE GossipInv'
  <2>1. /\ UNCHANGED <<stream, seen, pending, injected, delivered, faults>>
        /\ dial[c] = "asked" /\ dial' = [dial EXCEPT ![c] = "answered"] /\ Disturb
        /\ \/ UNCHANGED <<active, open, loops>>
           \/ /\ active' = [active EXCEPT ![to[c]][from[c]] = c]
              /\ open' = open \cup {c}
              /\ loops' = loops \cup {<<c, to[c]>>}
    BY <1>6 DEF HandleClient
  <2>2. dial' \in [Conn -> {"no", "asked", "answered"}] /\ DialsOther'
    BY <1>0, <2>1 DEF DialsOther
  <2>3. /\ from[c] \in Node /\ to[c] \in Node /\ from[c] # to[c]
        /\ Ends(c) = {to[c], from[c]}
    BY <1>0, <1>a, <2>1 DEF DialsOther, Ends
  <2>4. active' \in Tables /\ open' \subseteq Conn /\ loops' \subseteq Conn \X Node /\ Entries'
    <3>1. CASE UNCHANGED <<active, open, loops>>
      BY <1>0, <1>e, <3>1
    <3>2. CASE /\ active' = [active EXCEPT ![to[c]][from[c]] = c]
               /\ open' = open \cup {c}
               /\ loops' = loops \cup {<<c, to[c]>>}
      <4>1. active' \in Tables /\ Entries'
        BY <1>0, <2>3, <3>2, NewEntry
      <4>2. open' \subseteq Conn /\ loops' \subseteq Conn \X Node
        BY <1>0, <2>3, <3>2
      <4> QED BY <4>1, <4>2
    <3> QED BY <2>1, <3>1, <3>2
  <2> QED BY <1>0, <1>c, <1>i, <2>1, <2>2, <2>4
<1>7. ASSUME NEW c \in Conn, Connected(c) PROVE GossipInv'
  <2>1. /\ UNCHANGED <<open, stream, seen, pending, injected, delivered, faults>>
        /\ dial[c] = "answered" /\ dial' = [dial EXCEPT ![c] = "no"] /\ Disturb
        /\ active' = [active EXCEPT ![from[c]][to[c]] = c]
        /\ loops' = loops \cup {<<c, from[c]>>}
    BY <1>7 DEF Connected
  <2>2. dial' \in [Conn -> {"no", "asked", "answered"}] /\ DialsOther'
    BY <1>0, <2>1 DEF DialsOther
  <2>3. /\ from[c] \in Node /\ to[c] \in Node /\ from[c] # to[c]
        /\ Ends(c) = {from[c], to[c]}
    BY <1>0, <1>a, <2>1 DEF DialsOther, Ends
  <2>4. active' \in Tables /\ Entries'
    BY <1>0, <2>1, <2>3, NewEntry
  <2>5. loops' \subseteq Conn \X Node
    BY <1>0, <2>1, <2>3
  <2> QED BY <1>0, <1>c, <1>i, <2>1, <2>2, <2>4, <2>5
<1>8. ASSUME NEW c \in Conn, ConnectFails(c) PROVE GossipInv'
  <2>1. /\ UNCHANGED <<active, loops, seen, pending, injected, delivered, faults>>
        /\ dial' = [dial EXCEPT ![c] = "no"] /\ Disturb /\ open' = open \ {c}
        /\ stream' = [stream EXCEPT ![<<c, from[c]>>] = <<>>]
    BY <1>8 DEF ConnectFails
  <2>2. dial' \in [Conn -> {"no", "asked", "answered"}] /\ DialsOther'
    BY <1>0, <2>1 DEF DialsOther
  <2>3. stream' \in Streams
    BY <1>0, <1>a, <2>1 DEF Streams
  <2> QED BY <1>0, <1>c, <1>e, <1>i, <2>1, <2>2, <2>3
<1>9. ASSUME NEW c \in Conn, Break(c) PROVE GossipInv'
  BY <1>0, <1>c, <1>d, <1>e, <1>f, <1>i, <1>9 DEF Break
<1>10. ASSUME NEW c \in Conn, NEW n \in Node, Lose(c, n) PROVE GossipInv'
  <2>1. /\ UNCHANGED <<active, dial, open, loops, seen, pending, injected, delivered, faults>>
        /\ stream[<<c, n>>] # <<>> /\ Disturb
        /\ stream' = [stream EXCEPT ![<<c, n>>] =
                         SubSeq(stream[<<c, n>>], 1, Len(stream[<<c, n>>]) - 1)]
    BY <1>10 DEF Lose, connVars
  <2>2. stream[<<c, n>>] \in Seq(GoodWire)
    BY <1>0 DEF Streams
  <2>3. SubSeq(stream[<<c, n>>], 1, Len(stream[<<c, n>>]) - 1) \in Seq(GoodWire)
    BY <2>1, <2>2
  <2>4. stream' \in Streams
    BY <1>0, <2>1, <2>3 DEF Streams
  <2> QED BY <1>0, <1>c, <1>d, <1>e, <1>i, <2>1, <2>4
<1>11. ASSUME NEW c \in Conn, NEW n \in Node, LoopEnds(c, n) PROVE GossipInv'
  <2>1. /\ UNCHANGED <<dial, open, stream, seen, pending, injected, delivered, faults>>
        /\ loops' = loops \ {<<c, n>>} /\ Disturb
        /\ active' = [active EXCEPT ![n][Other(c, n)] = NoConn]
    BY <1>11 DEF LoopEnds
  <2>2. /\ active' \in Tables
        /\ \A a, p \in Node : active'[a][p] = active[a][p] \/ active'[a][p] = NoConn
    BY <1>0, <2>1 DEF Tables
  <2>3. Entries'
    BY <1>0, <2>2, FewerEntries
  <2> QED BY <1>0, <1>c, <1>d, <1>i, <2>1, <2>2, <2>3
<1>12. ASSUME NEW n \in Node, Restart(n) PROVE GossipInv'
  <2>1. /\ active' = [active EXCEPT ![n] = [p \in Node |-> NoConn]]
        /\ dial' = [c \in Conn |-> IF from[c] = n THEN "no" ELSE dial[c]]
        /\ open' \subseteq open /\ loops' \subseteq loops
        /\ stream' = [l \in Conn \X Node |-> IF l[2] = n THEN <<>> ELSE stream[l]]
        /\ seen' = [seen EXCEPT ![n] = {}]
        /\ pending' = [pending EXCEPT ![n] = <<>>]
        /\ faults < MaxFaults /\ faults' = faults + 1 /\ Disturb
        /\ UNCHANGED <<injected, delivered>>
    BY <1>12 DEF Restart
  <2>2. /\ active' \in Tables
        /\ \A a, p \in Node : active'[a][p] = active[a][p] \/ active'[a][p] = NoConn
    BY <1>0, <2>1 DEF Tables
  <2>3. Entries'
    BY <1>0, <2>2, FewerEntries
  <2>4. dial' \in [Conn -> {"no", "asked", "answered"}] /\ DialsOther'
    BY <1>0, <2>1 DEF DialsOther
  <2>5. stream' \in Streams
    BY <1>0, <2>1 DEF Streams
  <2>6. seen' \in Seens /\ pending' \in [Node -> Seq(Msg)]
    BY <1>0, <2>1 DEF Seens
  <2> QED BY <1>0, <1>c, <1>f, <1>i, <2>1, <2>2, <2>3, <2>4, <2>5, <2>6
<1>13. CASE UNCHANGED gossipVars
  BY <1>0, <1>d, <1>e, <1>i, <1>13 DEF gossipVars
<1> QED
  BY <1>1, <1>2, <1>3, <1>4, <1>5, <1>6, <1>7, <1>8, <1>9, <1>10, <1>11, <1>12, <1>13 DEF Next

\* The streams only ever hold messages whose ttl tells their hops.
THEOREM GossipInvariance == Spec => []GossipInv
<1>1. Init => GossipInv
  BY GossipInvInit
<1>2. GossipInv /\ [Next]_gossipVars => GossipInv'
  BY GossipInvNext
<1> QED
  BY <1>1, <1>2, PTL DEF Spec

\* Every variable has its type, and whatever is entered, taken out or
\* overwritten, an entry is a connection between the node and the peer it is
\* entered under (p2p_node.py:149, 179).
THEOREM GossipTypeCorrect == Spec => []GossipTypeOK
<1>1. GossipInv => GossipTypeOK
  BY DEF GossipInv
<1> QED
  BY <1>1, GossipInvariance, PTL

\* However the network changes and whoever forgets what it saw, no copy of a
\* message goes further than Reach, and its ttl tells how far it has come
\* (gossip.py:141, 218, 229).
THEOREM HopsAlwaysBounded == Spec => []HopsBounded
<1>1. GossipInv => HopsBounded
  <2> SUFFICES ASSUME GossipInv, NEW l \in Conn \X Node, NEW i \in DOMAIN stream[l]
               PROVE  /\ stream[l][i].ttl = Ttl(stream[l][i].id) + 1 - 2 * stream[l][i].hops
                      /\ stream[l][i].hops <= Reach(stream[l][i].id)
    BY DEF HopsBounded
  <2>1. stream[l] \in Seq(GoodWire)
    BY DEF GossipInv, Streams
  <2>2. stream[l][i] \in GoodWire
    BY <2>1
  <2> QED
    BY <2>2 DEF GoodWire, WireOK
<1> QED
  BY <1>1, GossipInvariance, PTL

-----------------------------------------------------------------------------
(* What comes finds a reader.                                              *)

\* n reads c, or will once its connect returns.
Reads(c, n) == <<c, n>> \in loops \/ (n = from[c] /\ dial[c] = "answered")

Served(c, n) == (c \in open /\ n \in Ends(c)) \/ stream[<<c, n>>] # <<>> => Reads(c, n)

ListedRead == \A n, p \in Node : active[n][p] # NoConn => <<active[n][p], n>> \in loops

LEMMA AttendedParts == Attended <=> ListedRead /\ \A c \in Conn, n \in Node : Served(c, n)
BY DEF Attended, ListedRead, Served, Reads

\* A broadcast puts copies only where they are read.
LEMMA BroadcastServed ==
    ASSUME GossipInv, Attended, NEW n \in Node, NEW w \in GoodWire, NEW s \in Streams,
           Broadcast(n, w, s), UNCHANGED <<dial, open, loops>>,
           \A c \in Conn, b \in Node : stream[<<c, b>>] = <<>> => s[<<c, b>>] = <<>>
    PROVE  Attended'
<1>1. /\ GossipTypeOK /\ Entries
      /\ ListedRead /\ \A c \in Conn, b \in Node : Served(c, b)
  BY AttendedParts, InvFacts DEF GossipInv
<1>2. /\ \A a, p \in Node : active'[a][p] = active[a][p] \/ active'[a][p] = NoConn
      /\ \A c \in Conn, b \in Node : stream'[<<c, b>>] = s[<<c, b>>] \/ Carries(n, b, c)
  BY <1>1, BroadcastFacts
<1>3. ListedRead'
  BY <1>1, <1>2 DEF ListedRead
<1>4. ASSUME NEW c \in Conn, NEW b \in Node PROVE Served(c, b)'
  <2>1. Reads(c, b)' <=> Reads(c, b)
    BY DEF Reads
  <2>2. CASE Carries(n, b, c)
    <3>1. c \in open /\ b \in Ends(c)
      BY <1>1, <2>2 DEF Carries, Peers, Entries
    <3>2. Reads(c, b)
      BY <1>1, <3>1 DEF Served
    <3> QED BY <2>1, <3>2 DEF Served
  <2>3. CASE stream'[<<c, b>>] = s[<<c, b>>]
    BY <1>1, <2>1, <2>3 DEF Served, Ends
  <2> QED BY <1>2, <2>2, <2>3
<1> QED BY <1>3, <1>4, AttendedParts DEF Attended, ListedRead, Served, Reads, Ends

LEMMA AttendedNext == GossipInv /\ Attended /\ [Next]_gossipVars => Attended'
<1> SUFFICES ASSUME GossipInv, Attended, [Next]_gossipVars PROVE Attended'
  OBVIOUS
<1>0. /\ active \in Tables /\ dial \in [Conn -> {"no", "asked", "answered"}]
      /\ stream \in Streams /\ Entries
      /\ ListedRead /\ \A c \in Conn, b \in Node : Served(c, b)
  BY InvFacts, AttendedParts
<1>a. from \in [Conn -> Node] /\ to \in [Conn -> Node] /\ NoConn \notin Conn
  BY GossipAssumption
<1>p. ASSUME ListedRead', \A c \in Conn, n \in Node : Served(c, n)' PROVE Attended'
  BY <1>p DEF Attended, ListedRead, Served, Reads
<1>1. ASSUME UNCHANGED <<active, dial, open, loops, stream>> PROVE Attended'
  BY <1>1 DEF Attended, Ends
<1>2. ASSUME NEW n \in Node, GossipWorker(n) PROVE Attended'
  <2>1. UNCHANGED <<dial, open, loops>> /\ \E w \in GoodWire : Broadcast(n, w, stream)
    BY <1>2, GossipWorkerFacts
  <2> QED BY <1>0, <2>1, BroadcastServed
<1>3. ASSUME NEW c \in Conn, NEW n \in Node, HandleIncoming(c, n) PROVE Attended'
  <2>1. /\ UNCHANGED <<dial, open, loops>>
        /\ stream[<<c, n>>] # <<>>
        /\ Rest(stream, c, n) \in Streams
        /\ \/ stream' = Rest(stream, c, n) /\ UNCHANGED active
           \/ \E w \in GoodWire : Broadcast(n, w, Rest(stream, c, n))
    BY <1>3, HandleIncomingFacts
  <2>2. \A d \in Conn, b \in Node :
           stream[<<d, b>>] = <<>> => Rest(stream, c, n)[<<d, b>>] = <<>>
    BY <1>0, <2>1 DEF Rest, Streams
  <2>3. CASE stream' = Rest(stream, c, n) /\ UNCHANGED active
    <3>1. ListedRead'
      BY <1>0, <2>1, <2>3 DEF ListedRead
    <3>2. ASSUME NEW d \in Conn, NEW b \in Node PROVE Served(d, b)'
      BY <1>0, <2>1, <2>2, <2>3 DEF Served, Reads, Ends
    <3> QED BY <1>p, <3>1, <3>2
  <2>4. CASE \E w \in GoodWire : Broadcast(n, w, Rest(stream, c, n))
    BY <2>1, <2>2, <2>4, BroadcastServed
  <2> QED BY <2>1, <2>3, <2>4
<1>5. ASSUME NEW c \in Conn, ConnectToPeer(c) PROVE Attended'
  <2>1. /\ UNCHANGED <<active, open, loops, stream>>
        /\ dial[c] = "no" /\ dial' = [dial EXCEPT ![c] = "asked"]
    BY <1>5 DEF ConnectToPeer
  <2>2. ListedRead'
    BY <1>0, <2>1 DEF ListedRead
  <2>3. ASSUME NEW d \in Conn, NEW b \in Node PROVE Served(d, b)'
    <3>1. Reads(d, b) => Reads(d, b)'
      BY <1>0, <2>1 DEF Reads
    <3> QED BY <1>0, <2>1, <3>1 DEF Served, Ends
  <2> QED BY <1>p, <2>2, <2>3
<1>6. ASSUME NEW c \in Conn, HandleClient(c) PROVE Attended'
  <2>1. /\ UNCHANGED stream
        /\ dial[c] = "asked" /\ dial' = [dial EXCEPT ![c] = "answered"]
        /\ \/ UNCHANGED <<active, open, loops>>
           \/ /\ active' = [active EXCEPT ![to[c]][from[c]] = c]
              /\ open' = open \cup {c}
              /\ loops' = loops \cup {<<c, to[c]>>}
    BY <1>6 DEF HandleClient
  <2>2. ListedRead'
    <3> SUFFICES ASSUME NEW n \in Node, NEW p \in Node, active'[n][p] # NoConn
                 PROVE  <<active'[n][p], n>> \in loops'
      BY DEF ListedRead
    <3>1. active'[n][p] = active[n][p] \/ (n = to[c] /\ active'[n][p] = c /\ <<c, n>> \in loops')
      BY <1>0, <1>a, <2>1 DEF Tables
    <3> QED BY <1>0, <2>1, <3>1 DEF ListedRead
  <2>3. ASSUME NEW d \in Conn, NEW b \in Node PROVE Served(d, b)'
    <3>1. Reads(d, b) => Reads(d, b)'
      BY <1>0, <2>1 DEF Reads
    <3>2. d \in open' => d \in open \/ (d = c /\ <<c, to[c]>> \in loops')
      BY <2>1
    <3>3. b \in Ends(d) => b = from[d] \/ b = to[d]
      BY DEF Ends
    <3>4. dial'[c] = "answered"
      BY <1>0, <2>1
    <3> QED BY <1>0, <2>1, <3>1, <3>2, <3>3, <3>4 DEF Served, Reads, Ends
  <2> QED BY <1>p, <2>2, <2>3
<1>7. ASSUME NEW c \in Conn, Connected(c) PROVE Attended'
  <2>1. /\ UNCHANGED <<open, stream>>
        /\ dial' = [dial EXCEPT ![c] = "no"]
        /\ active' = [active EXCEPT ![from[c]][to[c]] = c]
        /\ loops' = loops \cup {<<c, from[c]>>}
    BY <1>7 DEF Connected
  <2>2. ListedRead'
    <3> SUFFICES ASSUME NEW n \in Node, NEW p \in Node, active'[n][p] # NoConn
                 PROVE  <<active'[n][p], n>> \in loops'
      BY DEF ListedRead
    <3>1. active'[n][p] = active[n][p] \/ (n = from[c] /\ active'[n][p] = c)
      BY <1>0, <1>a, <2>1 DEF Tables
    <3> QED BY <1>0, <2>1, <3>1 DEF ListedRead
  <2>3. ASSUME NEW d \in Conn, NEW b \in Node PROVE Served(d, b)'
    <3>1. Reads(d, b) => Reads(d, b)'
      BY <1>0, <2>1 DEF Reads
    <3> QED BY <1>0, <2>1, <3>1 DEF Served, Ends
  <2> QED BY <1>p, <2>2, <2>3
<1>8. ASSUME NEW c \in Conn, ConnectFails(c) PROVE Attended'
  <2>1. /\ UNCHANGED <<active, loops>>
        /\ dial' = [dial EXCEPT ![c] = "no"] /\ open' = open \ {c}
        /\ stream' = [stream EXCEPT ![<<c, from[c]>>] = <<>>]
    BY <1>8 DEF ConnectFails
  <2>2. ListedRead'
    BY <1>0, <2>1 DEF ListedRead
  <2>3. ASSUME NEW d \in Conn, NEW b \in Node PROVE Served(d, b)'
    <3>1. CASE d = c /\ b = from[c]
      <4>1. d \notin open' /\ stream'[<<d, b>>] = <<>>
        BY <1>0, <1>a, <2>1, <3>1 DEF Streams
      <4> QED BY <4>1 DEF Served
    <3>2. CASE ~(d = c /\ b = from[c])
      <4>1. Reads(d, b) => Reads(d, b)'
        BY <1>0, <2>1, <3>2 DEF Reads
      <4>2. stream'[<<d, b>>] = stream[<<d, b>>]
        BY <1>0, <1>a, <2>1, <3>2 DEF Streams
      <4> QED BY <1>0, <2>1, <4>1, <4>2 DEF Served, Ends
    <3> QED BY <3>1, <3>2
  <2> QED BY <1>p, <2>2, <2>3
<1>9. ASSUME NEW c \in Conn, Break(c) PROVE Attended'
  <2>1. UNCHANGED <<active, dial, loops, stream>> /\ open' = open \ {c}
    BY <1>9 DEF Break
  <2>2. ListedRead'
    BY <1>0, <2>1 DEF ListedRead
  <2>3. ASSUME NEW d \in Conn, NEW b \in Node PROVE Served(d, b)'
    BY <1>0, <2>1 DEF Served, Reads, Ends
  <2> QED BY <1>p, <2>2, <2>3
<1>10. ASSUME NEW c \in Conn, NEW n \in Node, Lose(c, n) PROVE Attended'
  <2>1. /\ UNCHANGED <<active, dial, open, loops>> /\ stream[<<c, n>>] # <<>>
        /\ \E t : stream' = [stream EXCEPT ![<<c, n>>] = t]
    BY <1>10 DEF Lose, connVars
  <2>2. ListedRead'
    BY <1>0, <2>1 DEF ListedRead
  <2>3. ASSUME NEW d \in Conn, NEW b \in Node PROVE Served(d, b)'
    <3>1. stream'[<<d, b>>] = stream[<<d, b>>] \/ (d = c /\ b = n)
      BY <1>0, <2>1 DEF Streams
    <3> QED BY <1>0, <2>1, <3>1 DEF Served, Reads, Ends
  <2> QED BY <1>p, <2>2, <2>3
<1>11. ASSUME NEW c \in Conn, NEW n \in Node, LoopEnds(c, n) PROVE Attended'
  <2>1. /\ UNCHANGED <<dial, open, stream>>
        /\ c \notin open /\ stream[<<c, n>>] = <<>>
        /\ loops' = loops \ {<<c, n>>}
        /\ active' = [active EXCEPT ![n][Other(c, n)] = NoConn]
    BY <1>11 DEF LoopEnds
  <2>2. ListedRead'
    <3> SUFFICES ASSUME NEW a \in Node, NEW p \in Node, active'[a][p] # NoConn
                 PROVE  <<active'[a][p], a>> \in loops'
      BY DEF ListedRead
    <3>1. active'[a][p] = active[a][p] /\ ~(a = n /\ p = Other(c, n))
      BY <1>0, <2>1 DEF Tables
    <3>2. ~(a = n /\ active[a][p] = c)
      <4>1. SUFFICES ASSUME a = n, active[a][p] = c PROVE FALSE
        OBVIOUS
      <4>2. n # p /\ {from[c], to[c]} = {n, p}
        BY <1>0, <1>a, <4>1 DEF Entries, Ends
      <4>3. p = Other(c, n)
        BY <4>2 DEF Other
      <4> QED BY <3>1, <4>1, <4>3
    <3> QED BY <1>0, <2>1, <3>1, <3>2 DEF ListedRead
  <2>3. ASSUME NEW d \in Conn, NEW b \in Node PROVE Served(d, b)'
    <3>1. CASE d = c /\ b = n
      BY <2>1, <3>1 DEF Served, Ends
    <3>2. CASE ~(d = c /\ b = n)
      BY <1>0, <2>1, <3>2 DEF Served, Reads, Ends
    <3> QED BY <3>1, <3>2
  <2> QED BY <1>p, <2>2, <2>3
<1>12. ASSUME NEW n \in Node, Restart(n) PROVE Attended'
  <2>1. /\ active' = [active EXCEPT ![n] = [p \in Node |-> NoConn]]
        /\ dial' = [c \in Conn |-> IF from[c] = n THEN "no" ELSE dial[c]]
        /\ open' = {c \in open : n \notin Ends(c)}
        /\ loops' = {l \in loops : l[2] # n}
        /\ stream' = [l \in Conn \X Node |-> IF l[2] = n THEN <<>> ELSE stream[l]]
    BY <1>12 DEF Restart
  <2>2. ListedRead'
    <3> SUFFICES ASSUME NEW a \in Node, NEW p \in Node, active'[a][p] # NoConn
                 PROVE  <<active'[a][p], a>> \in loops'
      BY DEF ListedRead
    <3>1. a # n /\ active'[a][p] = active[a][p]
      BY <1>0, <2>1 DEF Tables
    <3> QED BY <1>0, <2>1, <3>1 DEF ListedRead
  <2>3. ASSUME NEW d \in Conn, NEW b \in Node PROVE Served(d, b)'
    <3>1. CASE b = n
      <4>1. stream'[<<d, b>>] = <<>> /\ ~(d \in open' /\ b \in Ends(d))
        BY <2>1, <3>1
      <4> QED BY <4>1 DEF Served, Ends
    <3>2. CASE b # n
      <4>1. Reads(d, b) => Reads(d, b)'
        BY <1>0, <2>1, <3>2 DEF Reads
      <4>2. stream'[<<d, b>>] = stream[<<d, b>>]
        BY <2>1, <3>2
      <4> QED BY <1>0, <2>1, <4>1, <4>2 DEF Served, Ends
    <3> QED BY <3>1, <3>2
  <2> QED BY <1>p, <2>2, <2>3
<1>13. CASE \E m \in Msg : GossipMessage(m)
  BY <1>1, <1>13 DEF GossipMessage, connVars
<1>14. CASE \E n \in Node : \E expired \in SUBSET seen[n] : Cleanup(n, expired)
  BY <1>1, <1>14 DEF Cleanup, connVars
<1>15. CASE UNCHANGED gossipVars
  BY <1>1, <1>15 DEF gossipVars
<1> QED
  BY <1>2, <1>3, <1>5, <1>6, <1>7, <1>8, <1>9, <1>10, <1>11, <1>12, <1>13, <1>14, <1>15 DEF Next

\* Whichever end is first to register, to notice or to go, an open connection
\* is read at both ends, nothing comes that nobody reads, and what a node
\* lists it reads (p2p_node.py:149-163, 178-201).
THEOREM AlwaysAttended == Spec => []Attended
<1>1. Init => Attended
  BY DEF Init, Attended
<1>2. GossipInv /\ Attended /\ [Next]_gossipVars => Attended'
  BY AttendedNext
<1> QED BY <1>1, <1>2, GossipInvariance, PTL DEF Spec

-----------------------------------------------------------------------------
(* How often a message is delivered.  A delivery records a hash that was   *)
(* not there, and the hashes a node can record of one message are few.     *)

\* The ttls under which n may record m: its own, and those that arrive
Ttls(n, m) ==
    {Ttl(m) + 1 - 2 * h : h \in 1 .. Reach(m)}
        \cup (IF n = origin[m] THEN {NoTtl} ELSE {})

\* and those it has recorded
Recorded(n, m) == {t \in Int \cup {NoTtl} : <<m, t>> \in seen[n]}

MaxRecords(n, m) == Reach(m) + (IF n = origin[m] THEN 1 ELSE 0)

RecordsOK == \A n \in Node, m \in Msg : Recorded(n, m) \subseteq Ttls(n, m)

OwnOnceInjected == \A n \in Node, m \in Msg : <<m, NoTtl>> \in seen[n] => m \in injected

DeliveriesCounted ==
    \A n \in Node, m \in Msg :
        delivered[n][m] <= faults * MaxRecords(n, m) + Cardinality(Recorded(n, m))

DeliveryInv == GossipInv /\ RecordsOK /\ OwnOnceInjected /\ DeliveriesCounted

LEMMA TtlsFinite ==
    ASSUME NEW n \in Node, NEW m \in Msg
    PROVE  /\ MaxRecords(n, m) \in Nat
           /\ IsFiniteSet(Ttls(n, m))
           /\ Cardinality(Ttls(n, m)) <= MaxRecords(n, m)
<1> DEFINE R == Reach(m)
           T == {Ttl(m) + 1 - 2 * h : h \in 1 .. R}
           own == IF n = origin[m] THEN {NoTtl} ELSE {}
           f == [h \in 1 .. R |-> Ttl(m) + 1 - 2 * h]
<1>1. R \in Nat /\ Ttl(m) \in Nat
  BY TtlPositive
<1>2. f \in Surjection(1 .. R, T)
  BY DEF Surjection
<1>3. IsFiniteSet(1 .. R) /\ Cardinality(1 .. R) = R
  BY <1>1, FS_Interval
<1>4. IsFiniteSet(T) /\ Cardinality(T) <= R /\ Cardinality(T) \in Nat
  <2> HIDE DEF T, f, R
  <2> QED BY <1>2, <1>3, FS_Surjection, FS_CardinalityType
<1>5. /\ IsFiniteSet(own) /\ Cardinality(own) \in Nat
      /\ Cardinality(own) = IF n = origin[m] THEN 1 ELSE 0
  BY FS_Singleton, FS_EmptySet
<1>6. /\ IsFiniteSet(T \cup own)
      /\ Cardinality(T \cup own) = Cardinality(T) + Cardinality(own) - Cardinality(T \cap own)
      /\ Cardinality(T \cap own) \in Nat
  <2> HIDE DEF T, own
  <2>1. IsFiniteSet(T \cap own)
    BY <1>4, FS_Subset
  <2> QED BY <1>4, <1>5, <2>1, FS_Union, FS_CardinalityType
<1>7. Ttls(n, m) = T \cup own
  BY DEF Ttls
<1> HIDE DEF T, own, R, f
<1>8. MaxRecords(n, m) = R + Cardinality(own)
  BY <1>5 DEF MaxRecords, R
<1> QED BY <1>1, <1>4, <1>5, <1>6, <1>7, <1>8

LEMMA RecordedBounded ==
    ASSUME RecordsOK, NEW n \in Node, NEW m \in Msg
    PROVE  /\ IsFiniteSet(Recorded(n, m))
           /\ Cardinality(Recorded(n, m)) \in Nat
           /\ Cardinality(Recorded(n, m)) <= MaxRecords(n, m)
           /\ MaxRecords(n, m) \in Nat
<1>1. Recorded(n, m) \in SUBSET Ttls(n, m)
  BY DEF RecordsOK
<1>2. /\ IsFiniteSet(Ttls(n, m)) /\ MaxRecords(n, m) \in Nat
      /\ Cardinality(Ttls(n, m)) <= MaxRecords(n, m) /\ Cardinality(Ttls(n, m)) \in Nat
  BY TtlsFinite, FS_CardinalityType
<1>3. IsFiniteSet(Recorded(n, m)) /\ Cardinality(Recorded(n, m)) <= Cardinality(Ttls(n, m))
  BY <1>1, <1>2, FS_Subset
<1>4. Cardinality(Recorded(n, m)) \in Nat
  BY <1>3, FS_CardinalityType
<1> QED BY <1>2, <1>3, <1>4

(* What a step does to the records and the counts *)

Keeps == UNCHANGED <<seen, delivered, faults>> /\ injected \subseteq injected'

Records(n, m, t) ==
    /\ t \in Ttls(n, m) /\ <<m, t>> \notin seen[n]
    /\ t = NoTtl => m \in injected'
    /\ seen' = [seen EXCEPT ![n] = @ \cup {<<m, t>>}]
    /\ Deliver(n, m)
    /\ faults' = faults
    /\ injected \subseteq injected'

Forgets ==
    /\ \A n \in Node : seen'[n] \subseteq seen[n]
    /\ faults' = faults + 1
    /\ UNCHANGED <<injected, delivered>>

\* A message that comes in has a ttl that may be recorded.
LEMMA WireTtl ==
    ASSUME NEW w \in GoodWire, NEW n \in Node
    PROVE  w.id \in Msg /\ w.ttl \in Ttls(n, w.id) /\ w.ttl \in Int
<1>1. w \in Wire /\ WireOK(w)
  BY DEF GoodWire
<1>2. w.id \in Msg /\ w.hops \in Nat \ {0} /\ w.ttl \in Int
  BY <1>1 DEF Wire
<1>3. Reach(w.id) \in Nat
  BY <1>2, TtlPositive
<1>4. w.hops \in 1 .. Reach(w.id) /\ w.ttl = Ttl(w.id) + 1 - 2 * w.hops
  BY <1>1, <1>2, <1>3 DEF WireOK
<1> QED BY <1>2, <1>4 DEF Ttls
\* A step records one hash, or forgets some, or leaves the records alone, as
\* the changes of a connection do.
LEMMA DeliveryStep ==
    ASSUME GossipInv, OwnOnceInjected, [Next]_gossipVars
    PROVE  \/ Keeps
           \/ \E n \in Node, m \in Msg, t \in Int \cup {NoTtl} : Records(n, m, t)
           \/ Forgets
<1>1. GossipInv /\ seen \in Seens
  BY InvFacts
<1>3. ASSUME NEW m \in Msg, GossipMessage(m)
      PROVE  Records(origin[m], m, NoTtl) /\ origin[m] \in Node
  <2>1. origin[m] \in Node
    BY GossipAssumption
  <2>2. NoTtl \in Ttls(origin[m], m)
    BY DEF Ttls
  <2>3. <<m, NoTtl>> \notin seen[origin[m]]
    BY <1>3, <2>1 DEF GossipMessage, OwnOnceInjected
  <2> QED BY <1>3, <2>1, <2>2, <2>3 DEF GossipMessage, Records, Hash
<1>4. ASSUME NEW c \in Conn, NEW n \in Node, HandleIncoming(c, n)
      PROVE  Keeps \/ \E m \in Msg, t \in Int : Records(n, m, t)
  <2>1. UNCHANGED <<injected, faults>>
    BY <1>4, HandleIncomingFacts
  <2>2. PICK w \in GoodWire : UNCHANGED <<seen, delivered>> \/ IsNew(n, w)
    BY <1>4, HandleIncomingFacts
  <2>3. w.id \in Msg /\ w.ttl \in Ttls(n, w.id) /\ w.ttl \in Int /\ w.ttl # NoTtl
    BY WireTtl, GossipAssumption
  <2>4. Records(n, w.id, w.ttl) \/ Keeps
    BY <2>1, <2>2, <2>3 DEF Records, Keeps, IsNew
  <2> QED BY <2>3, <2>4
<1>5. ASSUME \/ \E n \in Node : GossipWorker(n)
             \/ \E c \in Conn : ConnectToPeer(c)
             \/ \E c \in Conn : HandleClient(c)
             \/ \E c \in Conn : Connected(c)
             \/ \E c \in Conn : ConnectFails(c)
             \/ \E c \in Conn, n \in Node : Lose(c, n)
             \/ \E c \in Conn, n \in Node : LoopEnds(c, n)
             \/ UNCHANGED gossipVars
      PROVE  Keeps
  BY <1>5 DEF GossipWorker, ConnectToPeer, HandleClient, Connected, ConnectFails, Lose,
              LoopEnds, gossipVars, Keeps
<1>6. ASSUME \/ \E n \in Node : \E expired \in SUBSET seen[n] : Cleanup(n, expired)
             \/ \E c \in Conn : Break(c)
             \/ \E n \in Node : Restart(n)
      PROVE  Forgets
  <2>1. CASE \E n \in Node : \E expired \in SUBSET seen[n] : Cleanup(n, expired)
    BY <1>1, <2>1 DEF Cleanup, Forgets, Seens
  <2>2. CASE \E c \in Conn : Break(c)
    BY <2>2 DEF Break, Forgets
  <2>3. CASE \E n \in Node : Restart(n)
    BY <1>1, <2>3 DEF Restart, Forgets, Seens
  <2> QED BY <1>6, <2>1, <2>2, <2>3
<1>7. CASE \E m \in Msg : GossipMessage(m)
  BY <1>3, <1>7
<1>8. CASE \E c \in Conn, n \in Node : HandleIncoming(c, n)
  BY <1>4, <1>8
<1> QED BY <1>5, <1>6, <1>7, <1>8 DEF Next

LEMMA DeliveryNext == DeliveryInv /\ [Next]_gossipVars => DeliveryInv'
<1> SUFFICES ASSUME DeliveryInv, [Next]_gossipVars PROVE DeliveryInv'
  OBVIOUS
<1>1. GossipInv /\ GossipInv' /\ RecordsOK /\ OwnOnceInjected /\ DeliveriesCounted
  BY GossipInvNext DEF DeliveryInv
<1>2. /\ seen \in [Node -> SUBSET (Msg \X (Int \cup {NoTtl}))]
      /\ delivered \in [Node -> [Msg -> Nat]]
      /\ faults \in Nat
  BY <1>1, GossipAssumption DEF GossipInv, GossipTypeOK
<1>3. CASE Keeps
  <2>1. \A n, m : Recorded(n, m)' = Recorded(n, m)
    BY <1>3 DEF Keeps, Recorded
  <2>2. RecordsOK' /\ OwnOnceInjected'
    BY <1>1, <1>3, <2>1 DEF Keeps, RecordsOK, OwnOnceInjected
  <2>3. DeliveriesCounted'
    BY <1>1, <1>3, <2>1 DEF Keeps, DeliveriesCounted
  <2> QED BY <1>1, <2>2, <2>3 DEF DeliveryInv
<1>4. ASSUME NEW a \in Node, NEW b \in Msg, NEW t \in Int \cup {NoTtl}, Records(a, b, t)
      PROVE  DeliveryInv'
  <2>1. ASSUME NEW n \in Node, NEW m \in Msg
        PROVE  Recorded(n, m)' = IF n = a /\ m = b THEN Recorded(n, m) \cup {t}
                                 ELSE Recorded(n, m)
    <3>1. seen'[n] = IF n = a THEN seen[n] \cup {<<b, t>>} ELSE seen[n]
      BY <1>2, <1>4 DEF Records
    <3>2. \A u \in Int \cup {NoTtl} :
             <<m, u>> \in seen'[n] <=> <<m, u>> \in seen[n] \/ (n = a /\ m = b /\ u = t)
      BY <3>1
    <3> QED BY <3>2 DEF Recorded
  <2>2. RecordsOK'
    BY <1>1, <1>4, <2>1 DEF RecordsOK, Records
  <2>3. OwnOnceInjected'
    <3> SUFFICES ASSUME NEW n \in Node, NEW m \in Msg, <<m, NoTtl>> \in seen'[n]
                 PROVE  m \in injected'
      BY DEF OwnOnceInjected
    <3>1. <<m, NoTtl>> \in seen[n] \/ (m = b /\ t = NoTtl)
      BY <1>2, <1>4 DEF Records
    <3> QED BY <1>1, <1>4, <3>1 DEF Records, OwnOnceInjected
  <2>4. DeliveriesCounted'
    <3> SUFFICES ASSUME NEW n \in Node, NEW m \in Msg
                 PROVE  delivered'[n][m] <=
                            faults' * MaxRecords(n, m) + Cardinality(Recorded(n, m)')
      BY DEF DeliveriesCounted
    <3>1. /\ delivered[n][m] \in Nat
          /\ delivered[n][m] <= faults * MaxRecords(n, m) + Cardinality(Recorded(n, m))
          /\ faults' = faults
      BY <1>1, <1>2, <1>4 DEF DeliveriesCounted, Records
    <3>2. /\ IsFiniteSet(Recorded(n, m)) /\ Cardinality(Recorded(n, m)) \in Nat
          /\ MaxRecords(n, m) \in Nat /\ faults * MaxRecords(n, m) \in Nat
      BY <1>1, <1>2, RecordedBounded
    <3>3. CASE n = a /\ m = b
      <4>1. delivered'[n][m] = delivered[n][m] + 1
        BY <1>2, <1>4, <3>3 DEF Records, Deliver
      <4>2. t \notin Recorded(n, m) /\ Recorded(n, m)' = Recorded(n, m) \cup {t}
        BY <1>4, <2>1, <3>3 DEF Records, Recorded
      <4>3. Cardinality(Recorded(n, m)') = Cardinality(Recorded(n, m)) + 1
        BY <3>2, <4>2, FS_AddElement
      <4> QED BY <3>1, <3>2, <4>1, <4>3
    <3>4. CASE ~(n = a /\ m = b)
      <4>1. delivered'[n][m] = delivered[n][m]
        BY <1>2, <1>4, <3>4 DEF Records, Deliver
      <4>2. Recorded(n, m)' = Recorded(n, m)
        BY <2>1, <3>4
      <4> QED BY <3>1, <4>1, <4>2
    <3> QED BY <3>3, <3>4
  <2> QED BY <1>1, <2>2, <2>3, <2>4 DEF DeliveryInv
<1>5. CASE Forgets
  <2>1. ASSUME NEW n \in Node, NEW m \in Msg
        PROVE  Recorded(n, m)' \subseteq Recorded(n, m)
    BY <1>5 DEF Forgets, Recorded
  <2>2. RecordsOK' /\ OwnOnceInjected'
    BY <1>1, <1>5, <2>1 DEF Forgets, RecordsOK, OwnOnceInjected
  <2>3. DeliveriesCounted'
    <3> SUFFICES ASSUME NEW n \in Node, NEW m \in Msg
                 PROVE  delivered'[n][m] <=
                            faults' * MaxRecords(n, m) + Cardinality(Recorded(n, m)')
      BY DEF DeliveriesCounted
    <3>1. /\ IsFiniteSet(Recorded(n, m)) /\ Cardinality(Recorded(n, m)) \in Nat
          /\ Cardinality(Recorded(n, m)) <= MaxRecords(n, m)
          /\ MaxRecords(n, m) \in Nat
      BY <1>1, RecordedBounded
    <3>2. Cardinality(Recorded(n, m)') \in Nat
      BY <2>1, <3>1, FS_Subset, FS_CardinalityType
    <3>3. /\ delivered'[n][m] = delivered[n][m] /\ delivered[n][m] \in Nat
          /\ delivered[n][m] <= faults * MaxRecords(n, m) + Cardinality(Recorded(n, m))
          /\ faults' = faults + 1
      BY <1>1, <1>2, <1>5 DEF DeliveriesCounted, Forgets
    <3>4. /\ (faults + 1) * MaxRecords(n, m) = faults * MaxRecords(n, m) + MaxRecords(n, m)
          /\ faults * MaxRecords(n, m) \in Nat
      BY <1>2, <3>1
    <3>5. delivered[n][m] <= (faults + 1) * MaxRecords(n, m)
      BY <3>1, <3>3, <3>4
    <3> QED BY <3>1, <3>2, <3>3, <3>4, <3>5
  <2> QED BY <1>1, <2>2, <2>3 DEF DeliveryInv
<1> QED BY <1>1, <1>3, <1>4, <1>5, DeliveryStep

\* At first nothing is recorded and nothing is delivered.
LEMMA DeliveryInvInit == Init => DeliveryInv
<1> SUFFICES ASSUME Init PROVE DeliveryInv
  OBVIOUS
<1>1. GossipInv
  BY GossipInvInit
<1>2. \A n \in Node, m \in Msg : Recorded(n, m) = {} /\ delivered[n][m] = 0 /\ seen[n] = {}
  BY DEF Init, Recorded
<1>3. RecordsOK /\ OwnOnceInjected
  BY <1>2 DEF RecordsOK, OwnOnceInjected
<1>4. ASSUME NEW n \in Node, NEW m \in Msg
      PROVE  0 <= faults * MaxRecords(n, m) + Cardinality(Recorded(n, m))
  <2>1. faults = 0 /\ Cardinality(Recorded(n, m)) = 0 /\ MaxRecords(n, m) \in Nat
    BY <1>2, FS_EmptySet, TtlsFinite DEF Init
  <2> QED BY <2>1
<1> QED BY <1>1, <1>2, <1>3, <1>4 DEF DeliveryInv, DeliveriesCounted

\* However often connections break, nodes restart and entries expire, each
\* fault lets a message through at most once more per way it can arrive
\* (gossip.py:169-176, 207-212).
THEOREM DeliveriesAlwaysBounded == Spec => []DeliveriesBounded
<1>1. Init => DeliveryInv
  BY DeliveryInvInit
<1>2. DeliveryInv => DeliveriesBounded
  <2> SUFFICES ASSUME DeliveryInv, NEW n \in Node, NEW m \in Msg
               PROVE  delivered[n][m] <= (faults + 1) * MaxRecords(n, m)
    BY DEF DeliveriesBounded, MaxRecords
  <2>1. /\ delivered[n][m] \in Nat /\ faults \in Nat
        /\ delivered[n][m] <= faults * MaxRecords(n, m) + Cardinality(Recorded(n, m))
    BY DEF DeliveryInv, DeliveriesCounted, GossipInv, GossipTypeOK
  <2>2. /\ Cardinality(Recorded(n, m)) \in Nat /\ MaxRecords(n, m) \in Nat
        /\ Cardinality(Recorded(n, m)) <= MaxRecords(n, m)
    BY RecordedBounded DEF DeliveryInv
  <2>3. /\ (faults + 1) * MaxRecords(n, m) = faults * MaxRecords(n, m) + MaxRecords(n, m)
        /\ faults * MaxRecords(n, m) \in Nat
    BY <2>1, <2>2
  <2> QED BY <2>1, <2>2, <2>3
<1> QED BY <1>1, <1>2, DeliveryNext, PTL DEF Spec

-----------------------------------------------------------------------------
(* How far a message goes in a calm network.                               *)

\* The distances from n grow one entry at a time.
LEMMA BallFacts ==
    ASSUME NEW n \in Node
    PROVE  /\ Ball(n, 0) = {n}
           /\ \A k \in Nat :
                 /\ Ball(n, k) \subseteq Node
                 /\ Ball(n, k + 1) = Ball(n, k) \cup UNION {Peers(p) : p \in Ball(n, k)}
<1> DEFINE step == [B \in SUBSET Node |-> B \cup UNION {Peers(p) : p \in B}]
           Eq(f) == f = [i \in Nat |-> IF i = 0 THEN {n}
                                       ELSE f[i - 1] \cup UNION {Peers(p) : p \in f[i - 1]}]
           ball == CHOOSE f : Eq(f)
<1>1. step \in [SUBSET Node -> SUBSET Node]
  BY DEF Peers
<1>2. PICK f \in [Nat -> SUBSET Node] : f[0] = {n} /\ \A k \in Nat : f[k + 1] = step[f[k]]
  <2> DEFINE S == SUBSET Node
             s0 == {n}
  <2>1. s0 \in S /\ step \in [S -> S]
    BY <1>1
  <2> HIDE DEF step, S, s0
  <2>2. \E f : Iterated(f, S, s0, step)
    BY <2>1, Iterates
  <2> QED BY <2>2 DEF S, s0, Iterated
<1>3. \A k \in Nat : f[k] \in SUBSET Node
                     /\ f[k + 1] = f[k] \cup UNION {Peers(p) : p \in f[k]}
  BY <1>2
<1>4. Eq(f)
  <2>1. ASSUME NEW i \in Nat
        PROVE  f[i] = IF i = 0 THEN {n} ELSE f[i - 1] \cup UNION {Peers(p) : p \in f[i - 1]}
    <3>1. CASE i = 0
      BY <1>2, <3>1
    <3>2. CASE i # 0
      <4>1. i - 1 \in Nat /\ (i - 1) + 1 = i
        BY <3>2
      <4> QED BY <1>3, <3>2, <4>1
    <3> QED BY <3>1, <3>2
  <2> QED BY <1>2, <2>1
<1>5. Eq(ball)
  <2> HIDE DEF Eq
  <2> QED BY <1>4
<1>6. \A k : Ball(n, k) = ball[k]
  BY DEF Ball
<1>7. /\ ball[0] = {n}
      /\ \A k \in Nat : ball[k + 1] = ball[k] \cup UNION {Peers(p) : p \in ball[k]}
  <2>1. \A i \in Nat : ball[i] = IF i = 0 THEN {n}
                                 ELSE ball[i - 1] \cup UNION {Peers(p) : p \in ball[i - 1]}
    <3> HIDE DEF ball
    <3> QED BY <1>5
  <2> HIDE DEF ball
  <2>2. ASSUME NEW k \in Nat
        PROVE  ball[k + 1] = ball[k] \cup UNION {Peers(p) : p \in ball[k]}
    <3>1. k + 1 \in Nat /\ k + 1 # 0 /\ (k + 1) - 1 = k
      OBVIOUS
    <3> QED BY <2>1, <3>1
  <2> QED BY <2>1, <2>2
<1> DEFINE N == {k \in Nat : ball[k] \subseteq Node}
<1>8. \A k \in Nat : k \in N
  <2> HIDE DEF ball
  <2>1. 0 \in N
    BY <1>7
  <2>2. ASSUME NEW k \in Nat, k \in N PROVE k + 1 \in N
    <3>1. ball[k + 1] = ball[k] \cup UNION {Peers(p) : p \in ball[k]} /\ ball[k] \subseteq Node
      BY <1>7, <2>2
    <3>2. \A p \in ball[k] : Peers(p) \subseteq Node
      BY <3>1 DEF Peers
    <3> QED BY <3>1, <3>2
  <2> HIDE DEF N
  <2> QED BY <2>1, <2>2, NatBySteps
<1> QED BY <1>6, <1>7, <1>8

LEMMA BallGrows ==
    ASSUME NEW n \in Node, NEW j \in Nat, NEW k \in Nat, j <= k
    PROVE  Ball(n, j) \subseteq Ball(n, k)
<1> DEFINE N == {i \in Nat : j <= i => Ball(n, j) \subseteq Ball(n, i)}
<1>1. 0 \in N
  BY BallFacts
<1>2. ASSUME NEW i \in Nat, i \in N PROVE i + 1 \in N
  <2>1. Ball(n, i) \subseteq Ball(n, i + 1)
    BY BallFacts
  <2>2. CASE j <= i
    BY <1>2, <2>1, <2>2
  <2>3. CASE ~(j <= i)
    BY <2>3
  <2> QED BY <2>2, <2>3
<1> HIDE DEF N
<1>3. k \in N
  BY <1>1, <1>2, NatBySteps
<1> QED BY <1>3 DEF N
\* A copy of m that has made h hops is under way on c to b.
UnderWay(c, b, m, h) == InStream(stream[<<c, b>>], m, h)

\* n has had a copy of m that had made h hops.
HasCome(n, m, h) == <<m, Ttl(m) + 1 - 2 * h>> \in seen[n]

\* What a sent to its peer b has come or will.
Arrives(a, b, m, h) == UnderWay(active[a][b], b, m, h) \/ HasCome(b, m, h)

InQueue(q, m) == \E i \in DOMAIN q : q[i] = m

Waiting(m) == InQueue(pending[origin[m]], m)

\* Nobody has heard of a message that has not been broadcast.
Fresh ==
    \A m \in Msg \ injected, n \in Node :
        /\ ~InQueue(pending[n], m)
        /\ Recorded(n, m) = {}
        /\ delivered[n][m] = 0
        /\ \A c \in Conn, h \in Nat \ {0} : ~UnderWay(c, n, m, h)

\* Only the origin's worker has messages to send.
OwnPending == \A n \in Node, m \in Msg : InQueue(pending[n], m) => origin[m] = n

\* A copy under way comes from a node that lists the one it goes to, and is
\* no farther from its origin than the hops it has made.
CopiesNear ==
    \A c \in Conn, b \in Node, m \in Msg, h \in Nat \ {0} :
        UnderWay(c, b, m, h) => \E a \in Ball(origin[m], h - 1) : b \in Peers(a)

RecordsNear ==
    \A n \in Node, m \in Msg : \A h \in 1 .. Reach(m) :
        HasCome(n, m, h) => n \in Ball(origin[m], h)

DeliveredRecorded ==
    \A n \in Node, m \in Msg : delivered[n][m] > 0 <=> Recorded(n, m) # {}

OwnRecorded == \A m \in injected : <<m, NoTtl>> \in seen[origin[m]]

\* What the origin no longer has to send is with its peers or on its way.
SentToAll ==
    \A m \in injected : Waiting(m) \/ \A p \in Peers(origin[m]) : Arrives(origin[m], p, m, 1)

\* Who has had a copy that may go further has passed it on to every peer.
PassedToAll ==
    \A n \in Node, m \in Msg : \A h \in Nat \ {0} :
        h < Reach(m) /\ HasCome(n, m, h) => \A p \in Peers(n) : Arrives(n, p, m, h + 1)

CalmInv ==
    /\ CopiesNear /\ RecordsNear /\ DeliveredRecorded /\ OwnRecorded
    /\ Sound => SentToAll /\ PassedToAll

CoverageInv == DeliveryInv /\ Fresh /\ OwnPending /\ (calm => CalmInv)

\* In a sound network the entry of a peer is an open connection.
LEMMA SoundEntries ==
    ASSUME GossipTypeOK, Sound, NEW n \in Node, NEW p \in Peers(n)
    PROVE  p \in Node /\ active[n][p] \in Conn /\ active[n][p] \in open
BY DEF GossipTypeOK, Sound, Peers

\* When nothing is under way, the copies have reached the nodes within Reach
\* and no others.
LEMMA CoverageHolds == CoverageInv => Coverage
<1> SUFFICES ASSUME CoverageInv, Quiet, calm, Sound,
                    NEW m \in injected, NEW p \in Node
             PROVE  delivered[p][m] > 0 <=> p \in Ball(origin[m], Reach(m))
  BY DEF Coverage
<1> DEFINE o == origin[m]
           R == Reach(m)
<1>1. /\ GossipTypeOK /\ RecordsOK /\ CalmInv /\ SentToAll /\ PassedToAll
      /\ m \in Msg /\ o \in Node /\ R \in Nat
  BY TtlPositive, GossipAssumption
     DEF CoverageInv, DeliveryInv, GossipInv, GossipTypeOK, CalmInv
<1>2. \A a \in Node : \A b \in Peers(a), h \in Nat : Arrives(a, b, m, h) => HasCome(b, m, h)
  <2> SUFFICES ASSUME NEW a \in Node, NEW b \in Peers(a), NEW h \in Nat,
                      UnderWay(active[a][b], b, m, h)
               PROVE  FALSE
    BY DEF Arrives
  <2>1. stream[<<active[a][b], b>>] = <<>>
    BY <1>1, SoundEntries DEF Quiet
  <2> QED BY <2>1 DEF UnderWay, InStream
<1>3. ~Waiting(m)
  <2>1. pending[o] = <<>>
    BY <1>1 DEF Quiet
  <2> QED BY <2>1 DEF Waiting, InQueue
<1>4. delivered[p][m] > 0 <=> Recorded(p, m) # {}
  BY <1>1 DEF CalmInv, DeliveredRecorded
<1>5. ASSUME NEW t \in Recorded(p, m) PROVE p \in Ball(o, R)
  <2>1. t \in Ttls(p, m) /\ <<m, t>> \in seen[p]
    BY <1>1, <1>5 DEF RecordsOK, Recorded
  <2>2. CASE p = o
    <3>1. Ball(o, 0) \subseteq Ball(o, R) /\ Ball(o, 0) = {o}
      <4> HIDE DEF o, R
      <4> QED BY <1>1, BallGrows, BallFacts
    <3> QED BY <2>2, <3>1
  <2>3. CASE p # o
    <3>1. PICK h \in 1 .. R : t = Ttl(m) + 1 - 2 * h
      BY <2>1, <2>3 DEF Ttls
    <3>2. p \in Ball(o, h)
      BY <1>1, <2>1, <3>1 DEF CalmInv, RecordsNear, HasCome
    <3>3. Ball(o, h) \subseteq Ball(o, R)
      <4>1. h \in Nat /\ h <= R
        BY <1>1, <3>1
      <4> HIDE DEF o, R
      <4> QED BY <1>1, <4>1, BallGrows
    <3> QED BY <3>2, <3>3
  <2> QED BY <2>2, <2>3
<1> DEFINE Got(q, k) == q = o \/ \E h \in 1 .. k : HasCome(q, m, h)
           N == {k \in Nat : k <= R => \A q \in Ball(o, k) : Got(q, k)}
<1>6. 0 \in N
  <2>1. Ball(o, 0) = {o}
    <3> HIDE DEF o
    <3> QED BY <1>1, BallFacts
  <2> QED BY <2>1
<1>7. ASSUME NEW k \in Nat, k \in N PROVE k + 1 \in N
  <2> SUFFICES ASSUME k + 1 <= R, NEW q \in Ball(o, k + 1) PROVE Got(q, k + 1)
    OBVIOUS
  <2>1. k <= R /\ \A r \in Ball(o, k) : Got(r, k)
    BY <1>1, <1>7
  <2>2. /\ Ball(o, k) \subseteq Node
        /\ Ball(o, k + 1) = Ball(o, k) \cup UNION {Peers(r) : r \in Ball(o, k)}
    <3> HIDE DEF o
    <3> QED BY <1>1, BallFacts
  <2>3. CASE q \in Ball(o, k)
    <3>1. \A h \in 1 .. k : h \in 1 .. k + 1
      OBVIOUS
    <3> QED BY <2>1, <2>3, <3>1
  <2>4. ASSUME NEW r \in Ball(o, k), q \in Peers(r) PROVE Got(q, k + 1)
    <3>1. r \in Node /\ q \in Node /\ Got(r, k)
      BY <1>1, <2>1, <2>2, <2>4 DEF Peers
    <3>2. CASE r = o
      <4>1. Arrives(o, q, m, 1)
        BY <1>1, <1>3, <2>4, <3>2 DEF SentToAll
      <4>2. HasCome(q, m, 1) /\ 1 \in 1 .. k + 1
        BY <1>1, <1>2, <2>4, <3>1, <3>2, <4>1
      <4> QED BY <4>2
    <3>3. ASSUME NEW h \in 1 .. k, HasCome(r, m, h) PROVE Got(q, k + 1)
      <4>1. h \in Nat \ {0} /\ h < R /\ h + 1 \in 1 .. k + 1 /\ h + 1 \in Nat
        BY <1>1
      <4>2. Arrives(r, q, m, h + 1)
        BY <1>1, <2>4, <3>1, <3>3, <4>1 DEF PassedToAll
      <4>3. HasCome(q, m, h + 1)
        BY <1>2, <2>4, <3>1, <4>1, <4>2
      <4> QED BY <4>1, <4>3
    <3> QED BY <3>1, <3>2, <3>3
  <2> QED BY <2>2, <2>3, <2>4
<1>8. \A k \in Nat : k \in N
  <2> HIDE DEF N
  <2> QED BY <1>6, <1>7, NatBySteps
<1>9. ASSUME p \in Ball(o, R) PROVE Recorded(p, m) # {}
  <2>1. Got(p, R)
    BY <1>1, <1>8, <1>9
  <2>2. CASE p = o
    <3>1. <<m, NoTtl>> \in seen[p]
      BY <1>1, <2>2 DEF CalmInv, OwnRecorded
    <3> QED BY <3>1 DEF Recorded
  <2>3. ASSUME NEW h \in 1 .. R, HasCome(p, m, h) PROVE Recorded(p, m) # {}
    <3>1. Ttl(m) + 1 - 2 * h \in Int
      BY <1>1, TtlPositive
    <3> QED BY <2>3, <3>1 DEF HasCome, Recorded
  <2> QED BY <2>1, <2>2, <2>3
<1> QED BY <1>4, <1>5, <1>9


-----------------------------------------------------------------------------
(* Every step keeps the coverage invariant.                                *)

\* What the proofs below use of the invariant
LEMMA CoverageFacts ==
    ASSUME CoverageInv
    PROVE  /\ GossipInv /\ RecordsOK /\ Fresh /\ OwnPending
           /\ stream \in Streams
           /\ seen \in Seens
           /\ delivered \in [Node -> [Msg -> Nat]]
           /\ pending \in [Node -> Seq(Msg)]
           /\ active \in Tables
           /\ open \subseteq Conn
           /\ injected \subseteq Msg
           /\ origin \in [Msg -> Node]
           /\ calm => CalmInv
<1>1. GossipInv /\ RecordsOK /\ Fresh /\ OwnPending /\ (calm => CalmInv)
  BY DEF CoverageInv, DeliveryInv
<1> QED BY <1>1, InvFacts, GossipAssumption

\* With the tables and the connections as they were, so are the distances.
LEMMA SameNetwork ==
    ASSUME UNCHANGED <<active, open>>
    PROVE  /\ \A n : Peers(n)' = Peers(n)
           /\ \A n, k : Ball(n, k)' = Ball(n, k)
           /\ Sound' <=> Sound
<1>1. \A n : Peers(n)' = Peers(n)
  BY DEF Peers
<1>2. \A n, k : Ball(n, k)' = Ball(n, k)
  BY DEF Peers, Ball
<1>3. Sound' <=> Sound
  BY <1>1 DEF Sound
<1> QED BY <1>1, <1>2, <1>3

\* The entry of a peer
LEMMA PeerEntry ==
    ASSUME active \in Tables, NEW a \in Node, NEW b \in Peers(a)
    PROVE  b \in Node /\ active[a][b] \in Conn
<1>1. b \in Node /\ active[a][b] # NoConn
  BY DEF Peers
<1> QED BY <1>1 DEF Tables

\* A queue that grows, and one that shrinks
LEMMA QueueAppend ==
    ASSUME NEW s \in Seq(Msg), NEW x \in Msg, NEW m
    PROVE  InQueue(Append(s, x), m) <=> InQueue(s, m) \/ m = x
<1> DEFINE t == Append(s, x)
<1>1. /\ Len(s) \in Nat /\ DOMAIN s = 1 .. Len(s) /\ DOMAIN t = 1 .. Len(s) + 1
      /\ \A i \in 1 .. Len(s) : t[i] = s[i]
      /\ t[Len(s) + 1] = x
  OBVIOUS
<1> HIDE DEF t
<1>2. \A i \in DOMAIN t : i \in DOMAIN s \/ i = Len(s) + 1
  BY <1>1
<1>3. DOMAIN s \subseteq DOMAIN t /\ Len(s) + 1 \in DOMAIN t
  BY <1>1
<1>4. InQueue(t, m) <=> InQueue(s, m) \/ m = x
  BY <1>1, <1>2, <1>3 DEF InQueue
<1> QED BY <1>4 DEF t

LEMMA QueueTail ==
    ASSUME NEW s \in Seq(Msg), s # <<>>, NEW m
    PROVE  Head(s) \in Msg /\ (InQueue(s, m) <=> InQueue(Tail(s), m) \/ m = Head(s))
<1> DEFINE t == Tail(s)
<1>1. /\ Len(s) \in Nat \ {0} /\ DOMAIN s = 1 .. Len(s) /\ DOMAIN t = 1 .. Len(s) - 1
      /\ \A i \in 1 .. Len(s) - 1 : t[i] = s[i + 1]
      /\ Head(s) = s[1] /\ Head(s) \in Msg
  OBVIOUS
<1> HIDE DEF t
<1>2. \A i \in DOMAIN t : i + 1 \in DOMAIN s /\ s[i + 1] = t[i]
  BY <1>1
<1>3. \A i \in DOMAIN s : i = 1 \/ (i - 1 \in DOMAIN t /\ t[i - 1] = s[i])
  BY <1>1
<1>4. 1 \in DOMAIN s
  BY <1>1
<1>5. InQueue(s, m) => InQueue(t, m) \/ m = Head(s)
  BY <1>1, <1>3 DEF InQueue
<1>6. InQueue(t, m) \/ m = Head(s) => InQueue(s, m)
  BY <1>1, <1>2, <1>4 DEF InQueue
<1> QED BY <1>1, <1>5, <1>6 DEF t

\* gossip_message
LEMMA CoverageGossipMessage ==
    ASSUME CoverageInv, NEW x \in Msg, GossipMessage(x)
    PROVE  Fresh' /\ OwnPending' /\ (calm' => CalmInv')
<1> DEFINE o == origin[x]
<1>0. /\ Fresh /\ OwnPending /\ (calm => CalmInv)
      /\ seen \in Seens
      /\ delivered \in [Node -> [Msg -> Nat]]
      /\ pending \in [Node -> Seq(Msg)]
      /\ active \in Tables
      /\ injected \subseteq Msg
      /\ origin \in [Msg -> Node]
  BY CoverageFacts
<1>1. /\ o \in Node /\ x \notin injected /\ injected' = injected \cup {x}
      /\ UNCHANGED <<active, open, stream, calm, faults>>
  BY <1>0 DEF GossipMessage, connVars
<1>2. \A n \in Node, m \in Msg, t \in Int \cup {NoTtl} : <<m, t>> \in seen'[n] <=>
          <<m, t>> \in seen[n] \/ (n = o /\ m = x /\ t = NoTtl)
  <2>1. \A n \in Node : seen'[n] = IF n = o THEN seen[n] \cup {<<x, NoTtl>>} ELSE seen[n]
    BY <1>0 DEF GossipMessage, Hash, Seens
  <2> SUFFICES ASSUME NEW n \in Node, NEW m \in Msg, NEW t \in Int \cup {NoTtl}
               PROVE  <<m, t>> \in seen'[n] <=>
                         <<m, t>> \in seen[n] \/ (n = o /\ m = x /\ t = NoTtl)
    OBVIOUS
  <2>2. <<m, t>> = <<x, NoTtl>> <=> m = x /\ t = NoTtl
    OBVIOUS
  <2> QED BY <2>1, <2>2
<1>3. \A n \in Node, m \in Msg : delivered'[n][m] =
          IF n = o /\ m = x THEN delivered[n][m] + 1 ELSE delivered[n][m]
  BY <1>0 DEF GossipMessage, Deliver
<1>4. \A n \in Node : pending'[n] = IF n = o THEN Append(pending[n], x) ELSE pending[n]
  BY <1>0 DEF GossipMessage
<1>q. \A n \in Node, m \in Msg : InQueue(pending'[n], m) <=>
          InQueue(pending[n], m) \/ (n = o /\ m = x)
  <2> SUFFICES ASSUME NEW n \in Node, NEW m \in Msg
               PROVE  InQueue(pending'[n], m) <=> InQueue(pending[n], m) \/ (n = o /\ m = x)
    OBVIOUS
  <2>1. pending[n] \in Seq(Msg)
    BY <1>0
  <2>2. CASE n = o
    BY <1>4, <2>1, <2>2, QueueAppend
  <2>3. CASE n # o
    BY <1>4, <2>3
  <2> QED BY <2>2, <2>3
<1>5. /\ \A n \in Node, m \in Msg, h \in Nat : HasCome(n, m, h)' <=> HasCome(n, m, h)
      /\ \A c \in Conn, b \in Node, m \in Msg, h \in Nat : UnderWay(c, b, m, h)' <=> UnderWay(c, b, m, h)
      /\ \A a, b \in Node, m \in Msg, h \in Nat : Arrives(a, b, m, h)' <=> Arrives(a, b, m, h)
  <2>1. ASSUME NEW m \in Msg, NEW h \in Nat PROVE Ttl(m) + 1 - 2 * h \in Int
    BY TtlPositive
  <2>2. ASSUME NEW n \in Node, NEW m \in Msg, NEW h \in Nat
        PROVE  HasCome(n, m, h)' <=> HasCome(n, m, h)
    <3> DEFINE t == Ttl(m) + 1 - 2 * h
    <3>1. t \in Int /\ t # NoTtl
      BY <2>1, GossipAssumption
    <3>2. (HasCome(n, m, h)' <=> <<m, t>> \in seen'[n]) /\ (HasCome(n, m, h) <=> <<m, t>> \in seen[n])
      BY DEF HasCome
    <3> HIDE DEF t
    <3> QED BY <1>2, <3>1, <3>2
  <2>3. \A c, b, m, h : UnderWay(c, b, m, h)' <=> UnderWay(c, b, m, h)
    BY <1>1 DEF UnderWay
  <2>4. \A a, b, m, h : UnderWay(active[a][b], b, m, h)' <=> UnderWay(active[a][b], b, m, h)
    BY <1>1 DEF UnderWay
  <2> QED BY <2>2, <2>3, <2>4 DEF Arrives
<1>6. \A n \in Node, m \in Msg : \A t \in Int \cup {NoTtl} :
          t \in Recorded(n, m)' <=> t \in Recorded(n, m) \/ (n = o /\ m = x /\ t = NoTtl)
  BY <1>0, <1>2 DEF Recorded
<1>7. Fresh'
  <2> SUFFICES ASSUME NEW m \in Msg \ injected', NEW n \in Node
               PROVE  /\ ~InQueue(pending'[n], m)
                      /\ Recorded(n, m)' = {}
                      /\ delivered'[n][m] = 0
                      /\ \A c \in Conn, h \in Nat \ {0} : ~UnderWay(c, n, m, h)'
    BY DEF Fresh
  <2>1. m \in Msg \ injected /\ m # x
    BY <1>0, <1>1
  <2>2. ~InQueue(pending'[n], m)
    BY <1>0, <1>4, <1>q, <2>1 DEF Fresh
  <2>3. Recorded(n, m)' = {}
    <3>1. Recorded(n, m) = {}
      BY <1>0, <2>1 DEF Fresh
    <3>2. \A t : t \in Recorded(n, m)' => t \in Int \cup {NoTtl}
      BY DEF Recorded
    <3> QED BY <1>0, <1>6, <2>1, <3>1, <3>2
  <2>4. delivered'[n][m] = 0
    BY <1>0, <1>3, <2>1 DEF Fresh
  <2>5. \A c \in Conn, h \in Nat \ {0} : ~UnderWay(c, n, m, h)'
    BY <1>0, <1>5, <2>1 DEF Fresh
  <2> QED BY <1>0, <2>2, <2>3, <2>4, <2>5
<1>8. OwnPending'
  BY <1>0, <1>4, <1>q DEF OwnPending
<1>n. /\ \A n : Peers(n)' = Peers(n)
      /\ \A n, k : Ball(n, k)' = Ball(n, k)
      /\ Sound' <=> Sound
  BY <1>1, SameNetwork
<1>9. ASSUME calm' PROVE CalmInv'
  <2>1. CalmInv
    BY <1>0, <1>1, <1>9
  <2>3. CopiesNear'
    BY <1>5, <1>n, <2>1 DEF CalmInv, CopiesNear
  <2>4. RecordsNear'
    <3> SUFFICES ASSUME NEW n \in Node, NEW m \in Msg, NEW h \in 1 .. Reach(m), HasCome(n, m, h)'
                 PROVE  n \in Ball(origin[m], h)
      BY <1>n DEF RecordsNear
    <3>1. h \in Nat
      BY TtlPositive
    <3> QED BY <1>5, <2>1, <3>1 DEF CalmInv, RecordsNear
  <2>5. DeliveredRecorded'
    <3> SUFFICES ASSUME NEW n \in Node, NEW m \in Msg
                 PROVE  delivered'[n][m] > 0 <=> Recorded(n, m)' # {}
      BY DEF DeliveredRecorded
    <3>1. delivered[n][m] \in Nat /\ (delivered[n][m] > 0 <=> Recorded(n, m) # {})
      BY <1>0, <2>1 DEF CalmInv, DeliveredRecorded
    <3>2. \A t : t \in Recorded(n, m) \/ t \in Recorded(n, m)' => t \in Int \cup {NoTtl}
      BY DEF Recorded
    <3>3. CASE n = o /\ m = x
      <4>1. NoTtl \in Recorded(n, m)' /\ delivered'[n][m] = delivered[n][m] + 1
        BY <1>3, <1>6, <3>3
      <4> QED BY <3>1, <4>1
    <3>4. CASE ~(n = o /\ m = x)
      <4>1. \A t : t \in Recorded(n, m)' <=> t \in Recorded(n, m)
        BY <1>6, <3>2, <3>4
      <4>2. delivered'[n][m] = delivered[n][m]
        BY <1>3, <3>4
      <4> QED BY <3>1, <4>1, <4>2
    <3> QED BY <3>3, <3>4
  <2>6. OwnRecorded'
    BY <1>0, <1>1, <1>2, <2>1 DEF CalmInv, OwnRecorded
  <2>7. ASSUME Sound' PROVE SentToAll' /\ PassedToAll'
    <3>1. SentToAll /\ PassedToAll
      BY <1>n, <2>1, <2>7 DEF CalmInv
    <3>2. ASSUME NEW m \in injected'
          PROVE  Waiting(m)' \/ \A p \in Peers(origin[m])' : Arrives(origin[m], p, m, 1)'
      <4>1. CASE m = x
        BY <1>0, <1>1, <4>1, <1>q DEF Waiting
      <4>2. CASE m # x
        <5>1. m \in injected /\ m \in Msg /\ origin[m] \in Node
          BY <1>0, <1>1, <3>2, <4>2
        <5>2. Waiting(m) => Waiting(m)'
          BY <1>0, <5>1, <1>q DEF Waiting
        <5>3. \A p \in Peers(origin[m]) : p \in Node
          BY DEF Peers
        <5>4. Peers(origin[m])' = Peers(origin[m])
          BY <1>n
        <5> QED BY <1>5, <3>1, <5>1, <5>2, <5>3, <5>4 DEF SentToAll
      <4> QED BY <4>1, <4>2
    <3>3. ASSUME NEW n \in Node, NEW m \in Msg, NEW h \in Nat \ {0}, h < Reach(m),
                 HasCome(n, m, h)', NEW p \in Peers(n)
          PROVE  Arrives(n, p, m, h + 1)'
      <4>1. p \in Node /\ h \in Nat /\ h + 1 \in Nat
        BY <3>3 DEF Peers
      <4>2. HasCome(n, m, h)
        BY <1>5, <3>3
      <4>3. Arrives(n, p, m, h + 1)
        BY <3>1, <3>3, <4>1, <4>2 DEF PassedToAll
      <4> QED BY <1>5, <4>1, <4>3
    <3>4. PassedToAll'
      BY <1>n, <3>3 DEF PassedToAll
    <3> QED BY <3>2, <3>4 DEF SentToAll
  <2> QED BY <2>3, <2>4, <2>5, <2>6, <2>7 DEF CalmInv
<1> QED BY <1>7, <1>8, <1>9

\* A turn of _gossip_worker
LEMMA CoverageGossipWorker ==
    ASSUME CoverageInv, NEW n \in Node, GossipWorker(n)
    PROVE  Fresh' /\ OwnPending' /\ (calm' => CalmInv')
<1>0. /\ GossipInv /\ GossipTypeOK /\ Fresh /\ OwnPending /\ (calm => CalmInv)
      /\ stream \in Streams
      /\ pending \in [Node -> Seq(Msg)]
      /\ active \in Tables
      /\ injected \subseteq Msg
      /\ origin \in [Msg -> Node]
  BY CoverageFacts DEF GossipInv
<1>1. /\ UNCHANGED <<open, seen, injected, delivered>>
      /\ pending[n] \in Seq(Msg) /\ pending[n] # <<>>
      /\ pending' = [pending EXCEPT ![n] = Tail(@)]
  BY <1>0, GossipWorkerFacts
<1>2. PICK x \in Msg, w \in GoodWire : /\ x = Head(pending[n]) /\ w.id = x /\ w.hops = 1
                                       /\ Broadcast(n, w, stream)
  BY <1>0, GossipWorkerFacts
<1>3. /\ calm' => calm /\ active' = active
      /\ \A c \in Conn, b \in Node : \A m, h :
            InStream(stream[<<c, b>>], m, h) => InStream(stream'[<<c, b>>], m, h)
      /\ \A c \in Conn, b \in Node : \A m, h :
            InStream(stream'[<<c, b>>], m, h) =>
               \/ InStream(stream[<<c, b>>], m, h)
               \/ Carries(n, b, c) /\ w.id = m /\ w.hops = h
      /\ Sound => \A b \in Peers(n) :
                     InStream(stream'[<<active[n][b], b>>], w.id, w.hops)
  <2>1. GossipTypeOK /\ Broadcast(n, w, stream) /\ stream \in Streams
    BY <1>0, <1>2
  <2>2. calm' => calm /\ active' = active
    BY <2>1, BroadcastFacts
  <2>3. \A c \in Conn, b \in Node : \A m, h :
            InStream(stream[<<c, b>>], m, h) => InStream(stream'[<<c, b>>], m, h)
    BY <2>1, BroadcastFacts
  <2>4. \A c \in Conn, b \in Node : \A m, h :
            InStream(stream'[<<c, b>>], m, h) =>
               \/ InStream(stream[<<c, b>>], m, h)
               \/ Carries(n, b, c) /\ w.id = m /\ w.hops = h
    BY <2>1, BroadcastFacts
  <2>5. Sound => \A b \in Peers(n) :
                     InStream(stream'[<<active[n][b], b>>], w.id, w.hops)
    BY <2>1, BroadcastFacts
  <2> QED BY <2>2, <2>3, <2>4, <2>5
<1>4. \A m \in Msg : InQueue(pending[n], m) <=> InQueue(Tail(pending[n]), m) \/ m = x
  BY <1>1, <1>2, QueueTail
<1>5. \A a \in Node, m \in Msg : InQueue(pending[a], m) <=>
          InQueue(pending'[a], m) \/ (a = n /\ m = x)
  <2> SUFFICES ASSUME NEW a \in Node, NEW m \in Msg
               PROVE  InQueue(pending[a], m) <=> InQueue(pending'[a], m) \/ (a = n /\ m = x)
    OBVIOUS
  <2>1. pending'[a] = IF a = n THEN Tail(pending[n]) ELSE pending[a]
    BY <1>0, <1>1
  <2>2. CASE a = n
    BY <1>4, <2>1, <2>2
  <2>3. CASE a # n
    BY <2>1, <2>3
  <2> QED BY <2>2, <2>3
<1>6. x \in injected /\ origin[x] = n
  BY <1>0, <1>5 DEF Fresh, OwnPending
<1>7. /\ \A c \in Conn, b \in Node, m \in Msg, h \in Nat :
            /\ UnderWay(c, b, m, h) => UnderWay(c, b, m, h)'
            /\ UnderWay(c, b, m, h)' =>
                  UnderWay(c, b, m, h) \/ (Carries(n, b, c) /\ m = x /\ h = 1)
  BY <1>2, <1>3 DEF UnderWay
<1>8. /\ \A a \in Node, m \in Msg : Recorded(a, m)' = Recorded(a, m)
      /\ \A a \in Node, m \in Msg, h \in Nat : HasCome(a, m, h)' <=> HasCome(a, m, h)
  BY <1>1 DEF Recorded, HasCome
<1>10. Fresh'
  BY <1>0, <1>1, <1>5, <1>6, <1>7, <1>8 DEF Fresh
<1>11. OwnPending'
  BY <1>0, <1>5 DEF OwnPending
<1>12. ASSUME calm' PROVE CalmInv'
  <2>1. CalmInv /\ active' = active
    BY <1>0, <1>3, <1>12
  <2>n. /\ \A a : Peers(a)' = Peers(a)
        /\ \A a, k : Ball(a, k)' = Ball(a, k)
        /\ Sound' <=> Sound
    BY <1>1, <2>1, SameNetwork
  <2>a. ASSUME NEW a \in Node, NEW b \in Peers(a), NEW m \in Msg, NEW h \in Nat,
               Arrives(a, b, m, h)
        PROVE  Arrives(a, b, m, h)'
    <3>1. b \in Node /\ active[a][b] \in Conn
      BY <1>0, PeerEntry
    <3>2. InStream(stream[<<active[a][b], b>>], m, h) => InStream(stream'[<<active[a][b], b>>], m, h)
      BY <1>3, <3>1
    <3>3. UnderWay(active[a][b], b, m, h) => UnderWay(active[a][b], b, m, h)'
      BY <2>1, <3>2 DEF UnderWay, InStream
    <3> QED BY <1>8, <2>a, <3>1, <3>3 DEF Arrives
  <2>2. CopiesNear'
    <3> SUFFICES ASSUME NEW c \in Conn, NEW b \in Node, NEW m \in Msg, NEW h \in Nat \ {0},
                        UnderWay(c, b, m, h)'
                 PROVE  \E a \in Ball(origin[m], h - 1) : b \in Peers(a)
      BY <2>n DEF CopiesNear
    <3>1. CASE UnderWay(c, b, m, h)
      BY <2>1, <3>1 DEF CalmInv, CopiesNear
    <3>2. CASE Carries(n, b, c) /\ m = x /\ h = 1
      <4>1. Ball(n, 0) = {n}
        BY <1>0, BallFacts
      <4> QED BY <1>6, <3>2, <4>1 DEF Carries
    <3> QED BY <1>7, <3>1, <3>2
  <2>3. RecordsNear'
    <3> SUFFICES ASSUME NEW a \in Node, NEW m \in Msg, NEW h \in 1 .. Reach(m), HasCome(a, m, h)'
                 PROVE  a \in Ball(origin[m], h)
      BY <2>n DEF RecordsNear
    <3>1. h \in Nat
      BY TtlPositive
    <3> QED BY <1>8, <2>1, <3>1 DEF CalmInv, RecordsNear
  <2>4. DeliveredRecorded' /\ OwnRecorded'
    BY <1>1, <1>8, <2>1 DEF CalmInv, DeliveredRecorded, OwnRecorded
  <2>5. ASSUME Sound' PROVE SentToAll' /\ PassedToAll'
    <3>1. Sound /\ SentToAll /\ PassedToAll
      BY <2>1, <2>5, <2>n DEF CalmInv
    <3>2. ASSUME NEW m \in injected', ~Waiting(m)', NEW p \in Peers(origin[m])
          PROVE  Arrives(origin[m], p, m, 1)'
      <4>1. m \in injected /\ m \in Msg /\ origin[m] \in Node
        BY <1>0, <1>1, <3>2
      <4>2. CASE Waiting(m)
        <5>1. m = x
          BY <1>5, <3>2, <4>1, <4>2 DEF Waiting
        <5>2. InStream(stream'[<<active[n][p], p>>], x, 1)
          BY <1>2, <1>3, <1>6, <3>1, <3>2, <5>1
        <5>3. UnderWay(active[origin[m]][p], p, m, 1)'
          BY <1>6, <2>1, <5>1, <5>2 DEF UnderWay, InStream
        <5> QED BY <5>3 DEF Arrives
      <4>3. CASE ~Waiting(m)
        BY <2>a, <3>1, <3>2, <4>1, <4>3 DEF SentToAll
      <4> QED BY <4>2, <4>3
    <3>3. ASSUME NEW a \in Node, NEW m \in Msg, NEW h \in Nat \ {0}, h < Reach(m),
                 HasCome(a, m, h)', NEW p \in Peers(a)
          PROVE  Arrives(a, p, m, h + 1)'
      <4>1. h \in Nat /\ h + 1 \in Nat
        BY <3>3
      <4>2. HasCome(a, m, h)
        BY <1>8, <3>3, <4>1
      <4>3. Arrives(a, p, m, h + 1)
        BY <3>1, <3>3, <4>1, <4>2 DEF PassedToAll
      <4> QED BY <2>a, <4>1, <4>3
    <3>4. SentToAll'
      BY <2>n, <3>2 DEF SentToAll
    <3>5. PassedToAll'
      BY <2>n, <3>3 DEF PassedToAll
    <3> QED BY <3>4, <3>5
  <2> QED BY <2>2, <2>3, <2>4, <2>5 DEF CalmInv
<1> QED BY <1>10, <1>11, <1>12

\* What a node learns when c brings it the message w
Learns(c, n, w) ==
    /\ UnderWay(c, n, w.id, w.hops)
    /\ \A a \in Node, m \in Msg, t \in Int \cup {NoTtl} : <<m, t>> \in seen'[a] <=>
          <<m, t>> \in seen[a] \/ (a = n /\ m = w.id /\ t = w.ttl)
    /\ \A a \in Node, m \in Msg :
          \/ delivered'[a][m] = delivered[a][m] /\ (a = n /\ m = w.id => <<m, w.ttl>> \in seen[a])
          \/ a = n /\ m = w.id /\ delivered'[a][m] = delivered[a][m] + 1

\* What becomes of the copies on the way
Moves(c, n, w) ==
    /\ \A d \in Conn, b \in Node, m \in Msg, h \in Nat :
          UnderWay(d, b, m, h) => \/ InStream(stream'[<<d, b>>], m, h)
                                  \/ d = c /\ b = n /\ m = w.id /\ h = w.hops
    /\ \A d \in Conn, b \in Node, m \in Msg, h \in Nat :
          InStream(stream'[<<d, b>>], m, h) =>
             \/ UnderWay(d, b, m, h)
             \/ Carries(n, b, d) /\ m = w.id /\ h = w.hops + 1

\* To whom it goes on
Passes(n, w) ==
    /\ calm' => calm /\ active' = active
    /\ Sound /\ w.ttl > 0 =>
          \/ <<w.id, w.ttl>> \in seen[n]
          \/ \A b \in Peers(n) : InStream(stream'[<<active[n][b], b>>], w.id, w.hops + 1)

LEMMA HandleIncomingEffect ==
    ASSUME CoverageInv, NEW c \in Conn, NEW n \in Node, HandleIncoming(c, n)
    PROVE  /\ UNCHANGED <<open, pending, injected>>
           /\ \E w \in GoodWire : Learns(c, n, w) /\ Moves(c, n, w) /\ Passes(n, w)
<1>0. /\ GossipInv /\ GossipTypeOK /\ stream \in Streams
      /\ seen \in Seens
      /\ delivered \in [Node -> [Msg -> Nat]]
  BY CoverageFacts DEF GossipInv
<1>1. /\ stream[<<c, n>>] # <<>> /\ UNCHANGED <<open, pending, injected>>
      /\ Rest(stream, c, n) \in Streams
  BY <1>0, HandleIncomingFacts
<1>2. PICK w \in GoodWire :
         /\ w = Head(stream[<<c, n>>])
         /\ w.id \in Msg /\ w.ttl \in Int /\ w.hops \in Nat \ {0}
         /\ \/ /\ <<w.id, w.ttl>> \in seen[n]
               /\ stream' = Rest(stream, c, n)
               /\ UNCHANGED <<active, seen, delivered, calm>>
            \/ /\ IsNew(n, w) /\ ~(w.ttl > 0)
               /\ stream' = Rest(stream, c, n)
               /\ UNCHANGED <<active, calm>>
            \/ /\ IsNew(n, w) /\ w.ttl > 0
               /\ Relayed(w) \in GoodWire
               /\ Broadcast(n, Relayed(w), Rest(stream, c, n))
  BY <1>0, HandleIncomingFacts
<1>r. PICK rest \in Streams : rest = Rest(stream, c, n)
  BY <1>1
<1>3. \A d \in Conn, b \in Node, m \in Msg, h \in Nat : UnderWay(d, b, m, h) <=>
          InStream(rest[<<d, b>>], m, h) \/ (d = c /\ b = n /\ m = w.id /\ h = w.hops)
  <2>1. ASSUME NEW s \in Streams, s[<<c, n>>] # <<>>,
               NEW d \in Conn, NEW b \in Node, NEW m, NEW h
        PROVE  InStream(s[<<d, b>>], m, h) <=>
                  \/ InStream(Rest(s, c, n)[<<d, b>>], m, h)
                  \/ /\ d = c /\ b = n
                     /\ Head(s[<<c, n>>]).id = m /\ Head(s[<<c, n>>]).hops = h
    BY <2>1, InRest
  <2>2. stream \in Streams /\ stream[<<c, n>>] # <<>>
    BY <1>0, <1>1
  <2>3. ASSUME NEW d \in Conn, NEW b \in Node, NEW m \in Msg, NEW h \in Nat
        PROVE  InStream(stream[<<d, b>>], m, h) <=>
                  \/ InStream(rest[<<d, b>>], m, h)
                  \/ d = c /\ b = n /\ m = w.id /\ h = w.hops
    BY <1>2, <1>r, <2>1, <2>2
  <2> QED BY <2>3 DEF UnderWay
<1>4. Learns(c, n, w)
  <2>1. UnderWay(c, n, w.id, w.hops)
    BY <1>2, <1>3
  <2>2. ASSUME NEW a \in Node
        PROVE  seen'[a] = IF a = n THEN seen[a] \cup {<<w.id, w.ttl>>} ELSE seen[a]
    <3>1. CASE UNCHANGED seen /\ <<w.id, w.ttl>> \in seen[n]
      BY <3>1
    <3>2. CASE IsNew(n, w)
      BY <1>0, <3>2 DEF IsNew, Seens
    <3> QED BY <1>2, <3>1, <3>2
  <2>3. ASSUME NEW a \in Node, NEW m \in Msg, NEW t \in Int \cup {NoTtl}
        PROVE  <<m, t>> \in seen'[a] <=>
                  <<m, t>> \in seen[a] \/ (a = n /\ m = w.id /\ t = w.ttl)
    <3>1. <<m, t>> = <<w.id, w.ttl>> <=> m = w.id /\ t = w.ttl
      OBVIOUS
    <3> QED BY <2>2, <3>1
  <2>4. ASSUME NEW a \in Node, NEW m \in Msg
        PROVE  \/ /\ delivered'[a][m] = delivered[a][m]
                  /\ a = n /\ m = w.id => <<m, w.ttl>> \in seen[a]
               \/ a = n /\ m = w.id /\ delivered'[a][m] = delivered[a][m] + 1
    <3>1. CASE UNCHANGED delivered /\ <<w.id, w.ttl>> \in seen[n]
      BY <3>1
    <3>2. CASE IsNew(n, w)
      BY <1>0, <1>2, <3>2 DEF IsNew, Deliver
    <3> QED BY <1>2, <3>1, <3>2
  <2> QED BY <2>1, <2>3, <2>4 DEF Learns
<1>5. Moves(c, n, w) /\ Passes(n, w)
  <2>1. CASE stream' = rest /\ UNCHANGED <<active, calm>> /\ (w.ttl > 0 => <<w.id, w.ttl>> \in seen[n])
    BY <1>3, <2>1 DEF Moves, Passes
  <2>2. ASSUME Relayed(w) \in GoodWire, Broadcast(n, Relayed(w), rest)
        PROVE  Moves(c, n, w) /\ Passes(n, w)
    <3>r. PICK r \in GoodWire : r = Relayed(w)
      BY <2>2
    <3>w. r.id = w.id /\ r.hops = w.hops + 1
      BY <3>r DEF Relayed
    <3>b. GossipTypeOK /\ Broadcast(n, r, rest) /\ rest \in Streams
      BY <1>0, <2>2, <3>r
    <3>1. \A d \in Conn, b \in Node : \A m, h :
              InStream(rest[<<d, b>>], m, h) => InStream(stream'[<<d, b>>], m, h)
      BY <3>b, BroadcastFacts
    <3>2. \A d \in Conn, b \in Node : \A m, h :
              InStream(stream'[<<d, b>>], m, h) =>
                 \/ InStream(rest[<<d, b>>], m, h)
                 \/ Carries(n, b, d) /\ r.id = m /\ r.hops = h
      BY <3>b, BroadcastFacts
    <3>3. calm' => calm /\ active' = active
      BY <3>b, BroadcastFacts
    <3>4. Sound => \A b \in Peers(n) : InStream(stream'[<<active[n][b], b>>], r.id, r.hops)
      BY <3>b, BroadcastFacts
    <3>5. Moves(c, n, w)
      BY <1>3, <3>w, <3>1, <3>2 DEF Moves
    <3>6. Passes(n, w)
      BY <3>w, <3>3, <3>4 DEF Passes
    <3> QED BY <3>5, <3>6
  <2> QED BY <1>2, <1>r, <2>1, <2>2
<1> QED BY <1>1, <1>4, <1>5

\* handle_incoming_message
LEMMA CoverageHandleIncoming ==
    ASSUME CoverageInv, NEW c \in Conn, NEW n \in Node, HandleIncoming(c, n)
    PROVE  Fresh' /\ OwnPending' /\ (calm' => CalmInv')
<1>2. UNCHANGED <<open, pending, injected>>
  BY HandleIncomingEffect
<1>1. PICK w \in GoodWire : Learns(c, n, w) /\ Moves(c, n, w) /\ Passes(n, w)
  BY HandleIncomingEffect
<1> DEFINE x == w.id
           k == w.hops
<1>0. /\ Fresh /\ OwnPending /\ (calm => CalmInv)
      /\ delivered \in [Node -> [Msg -> Nat]]
      /\ active \in Tables
      /\ injected \subseteq Msg
      /\ origin \in [Msg -> Node]
  BY CoverageFacts
<1>3. /\ x \in Msg /\ k \in Nat \ {0} /\ k + 1 \in Nat /\ k - 1 \in Nat /\ w.ttl \in Int
      /\ w.ttl = Ttl(x) + 1 - 2 * k /\ k <= Reach(x) /\ Reach(x) \in Nat
      /\ origin[x] \in Node /\ Ttl(x) \in Nat
  <2>1. w \in Wire /\ WireOK(w)
    BY DEF GoodWire
  <2>2. x \in Msg /\ k \in Nat \ {0} /\ w.ttl \in Int
    BY <2>1 DEF Wire
  <2> QED BY <1>0, <2>1, <2>2, TtlPositive DEF WireOK
<1>4. k < Reach(x) => w.ttl > 0
  BY <1>3, SMT DEF Reach
<1>5. UnderWay(c, n, x, k)
  BY <1>1 DEF Learns
<1>6. x \in injected
  BY <1>0, <1>3, <1>5 DEF Fresh
<1>7. \A a \in Node, m \in Msg, t \in Int \cup {NoTtl} : <<m, t>> \in seen'[a] <=>
          <<m, t>> \in seen[a] \/ (a = n /\ m = x /\ t = w.ttl)
  BY <1>1 DEF Learns
<1>8. \A a \in Node, m \in Msg, h \in Nat :
          HasCome(a, m, h)' <=> HasCome(a, m, h) \/ (a = n /\ m = x /\ h = k)
  <2> SUFFICES ASSUME NEW a \in Node, NEW m \in Msg, NEW h \in Nat
               PROVE  HasCome(a, m, h)' <=> HasCome(a, m, h) \/ (a = n /\ m = x /\ h = k)
    OBVIOUS
  <2> DEFINE t == Ttl(m) + 1 - 2 * h
  <2>1. t \in Int
    BY TtlPositive
  <2>2. m = x => (t = w.ttl <=> h = k)
    BY <1>3
  <2>3. (HasCome(a, m, h)' <=> <<m, t>> \in seen'[a]) /\ (HasCome(a, m, h) <=> <<m, t>> \in seen[a])
    BY DEF HasCome
  <2> HIDE DEF t
  <2> QED BY <1>7, <2>1, <2>2, <2>3
<1>9. \A a \in Node, m \in Msg : \A t :
          t \in Recorded(a, m)' <=> t \in Recorded(a, m) \/ (a = n /\ m = x /\ t = w.ttl)
  BY <1>3, <1>7 DEF Recorded
<1>10. \A d \in Conn, b \in Node, m \in Msg, h \in Nat :
           UnderWay(d, b, m, h) => \/ InStream(stream'[<<d, b>>], m, h)
                                   \/ d = c /\ b = n /\ m = x /\ h = k
  BY <1>1 DEF Moves
<1>11. \A d \in Conn, b \in Node, m \in Msg, h \in Nat :
           UnderWay(d, b, m, h)' => \/ UnderWay(d, b, m, h)
                                    \/ Carries(n, b, d) /\ m = x /\ h = k + 1
  <2>1. \A d, b, m, h : UnderWay(d, b, m, h)' <=> InStream(stream'[<<d, b>>], m, h)
    BY DEF UnderWay, InStream
  <2> QED BY <1>1, <2>1 DEF Moves
<1>14. \A a \in Node, m \in Msg :
           \/ delivered'[a][m] = delivered[a][m] /\ (a = n /\ m = x => <<m, w.ttl>> \in seen[a])
           \/ a = n /\ m = x /\ delivered'[a][m] = delivered[a][m] + 1
  BY <1>1 DEF Learns
<1>15. Sound /\ w.ttl > 0 =>
           \/ <<x, w.ttl>> \in seen[n]
           \/ \A b \in Peers(n) : InStream(stream'[<<active[n][b], b>>], x, k + 1)
  BY <1>1 DEF Passes
<1> HIDE DEF x, k
<1>16. Fresh'
  <2> SUFFICES ASSUME NEW m \in Msg \ injected, NEW a \in Node
               PROVE  /\ ~InQueue(pending[a], m)
                      /\ Recorded(a, m)' = {}
                      /\ delivered'[a][m] = 0
                      /\ \A d \in Conn, h \in Nat \ {0} : ~UnderWay(d, a, m, h)'
    BY <1>2 DEF Fresh
  <2>1. m # x
    BY <1>6
  <2>2. /\ ~InQueue(pending[a], m) /\ Recorded(a, m) = {} /\ delivered[a][m] = 0
        /\ \A d \in Conn, h \in Nat \ {0} : ~UnderWay(d, a, m, h)
    BY <1>0 DEF Fresh
  <2>3. Recorded(a, m)' = {}
    BY <1>9, <2>1, <2>2
  <2>4. delivered'[a][m] = 0
    BY <1>14, <2>1, <2>2
  <2>5. \A d \in Conn, h \in Nat \ {0} : ~UnderWay(d, a, m, h)'
    BY <1>11, <2>1, <2>2
  <2> QED BY <2>2, <2>3, <2>4, <2>5
<1>17. OwnPending'
  BY <1>0, <1>2 DEF OwnPending
<1>18. ASSUME calm' PROVE CalmInv'
  <2>1. CalmInv /\ active' = active
    BY <1>0, <1>1, <1>18 DEF Passes
  <2>p. /\ \A a : Peers(a)' = Peers(a)
        /\ \A a, j : Ball(a, j)' = Ball(a, j)
        /\ Sound' <=> Sound
    BY <1>2, <2>1, SameNetwork
  <2>a. ASSUME NEW a \in Node, NEW b \in Peers(a), NEW m \in Msg, NEW h \in Nat,
               Arrives(a, b, m, h)
        PROVE  Arrives(a, b, m, h)'
    <3>1. b \in Node /\ active[a][b] \in Conn
      BY <1>0, PeerEntry
    <3>2. InStream(stream'[<<active[a][b], b>>], m, h) => UnderWay(active[a][b], b, m, h)'
      BY <2>1 DEF UnderWay, InStream
    <3>3. CASE UnderWay(active[a][b], b, m, h)
      BY <1>8, <1>10, <3>1, <3>2, <3>3 DEF Arrives
    <3>4. CASE HasCome(b, m, h)
      BY <1>8, <3>1, <3>4 DEF Arrives
    <3> QED BY <2>a, <3>3, <3>4 DEF Arrives
  <2>3. n \in Ball(origin[x], k)
    <3>1. PICK a \in Ball(origin[x], k - 1) : n \in Peers(a)
      BY <1>3, <1>5, <2>1 DEF CalmInv, CopiesNear
    <3>2. Ball(origin[x], (k - 1) + 1) =
             Ball(origin[x], k - 1) \cup UNION {Peers(q) : q \in Ball(origin[x], k - 1)}
      BY <1>3, BallFacts
    <3>3. (k - 1) + 1 = k
      BY <1>3
    <3> QED BY <3>1, <3>2, <3>3
  <2>4. CopiesNear'
    <3> SUFFICES ASSUME NEW d \in Conn, NEW b \in Node, NEW m \in Msg, NEW h \in Nat \ {0},
                        UnderWay(d, b, m, h)'
                 PROVE  \E a \in Ball(origin[m], h - 1) : b \in Peers(a)
      BY <2>p DEF CopiesNear
    <3>1. CASE UnderWay(d, b, m, h)
      BY <2>1, <3>1 DEF CalmInv, CopiesNear
    <3>2. CASE Carries(n, b, d) /\ m = x /\ h = k + 1
      <4>1. h - 1 = k
        BY <1>3, <3>2
      <4> QED BY <2>3, <3>2, <4>1 DEF Carries
    <3> QED BY <1>11, <3>1, <3>2
  <2>5. RecordsNear'
    <3> SUFFICES ASSUME NEW a \in Node, NEW m \in Msg, NEW h \in 1 .. Reach(m), HasCome(a, m, h)'
                 PROVE  a \in Ball(origin[m], h)
      BY <2>p DEF RecordsNear
    <3>1. h \in Nat
      BY TtlPositive
    <3> QED BY <1>8, <2>1, <2>3, <3>1 DEF CalmInv, RecordsNear
  <2>6. DeliveredRecorded'
    <3> SUFFICES ASSUME NEW a \in Node, NEW m \in Msg
                 PROVE  delivered'[a][m] > 0 <=> Recorded(a, m)' # {}
      BY DEF DeliveredRecorded
    <3>1. delivered[a][m] \in Nat /\ (delivered[a][m] > 0 <=> Recorded(a, m) # {})
      BY <1>0, <2>1 DEF CalmInv, DeliveredRecorded
    <3>2. CASE a = n /\ m = x
      <4>1. w.ttl \in Recorded(a, m)'
        BY <1>9, <3>2
      <4>2. <<m, w.ttl>> \in seen[a] => Recorded(a, m) # {}
        BY <1>3 DEF Recorded
      <4> QED BY <1>14, <3>1, <3>2, <4>1, <4>2
    <3>3. CASE ~(a = n /\ m = x)
      <4>1. \A t : t \in Recorded(a, m)' <=> t \in Recorded(a, m)
        BY <1>9, <3>3
      <4>2. delivered'[a][m] = delivered[a][m]
        BY <1>14, <3>3
      <4> QED BY <3>1, <4>1, <4>2
    <3> QED BY <3>2, <3>3
  <2>7. OwnRecorded'
    BY <1>0, <1>2, <1>7, <2>1 DEF CalmInv, OwnRecorded
  <2>8. ASSUME Sound' PROVE SentToAll' /\ PassedToAll'
    <3>1. Sound /\ SentToAll /\ PassedToAll
      BY <2>1, <2>8, <2>p DEF CalmInv
    <3>2. ASSUME NEW m \in injected', ~Waiting(m)', NEW b \in Peers(origin[m])
          PROVE  Arrives(origin[m], b, m, 1)'
      <4>1. m \in injected /\ m \in Msg /\ origin[m] \in Node
        BY <1>0, <1>2, <3>2
      <4>2. ~Waiting(m)
        BY <1>2, <3>2 DEF Waiting
      <4> QED BY <2>a, <3>1, <3>2, <4>1, <4>2 DEF SentToAll
    <3>3. ASSUME NEW a \in Node, NEW m \in Msg, NEW h \in Nat \ {0}, h < Reach(m),
                 HasCome(a, m, h)', NEW b \in Peers(a)
          PROVE  Arrives(a, b, m, h + 1)'
      <4>1. h \in Nat /\ h + 1 \in Nat
        BY <3>3
      <4>2. CASE HasCome(a, m, h)
        BY <2>a, <3>1, <3>3, <4>1, <4>2 DEF PassedToAll
      <4>3. CASE ~HasCome(a, m, h)
        <5>1. a = n /\ m = x /\ h = k
          BY <1>8, <3>3, <4>1, <4>3
        <5>2. <<x, w.ttl>> \notin seen[n]
          BY <1>3, <4>3, <5>1 DEF HasCome
        <5>3. InStream(stream'[<<active[n][b], b>>], x, k + 1)
          BY <1>4, <1>15, <3>1, <3>3, <5>1, <5>2
        <5>4. UnderWay(active[a][b], b, m, h + 1)'
          BY <2>1, <5>1, <5>3 DEF UnderWay, InStream
        <5> QED BY <5>4 DEF Arrives
      <4> QED BY <4>2, <4>3
    <3>4. SentToAll'
      BY <2>p, <3>2 DEF SentToAll
    <3>5. PassedToAll'
      BY <2>p, <3>3 DEF PassedToAll
    <3> QED BY <3>4, <3>5
  <2> QED BY <2>4, <2>5, <2>6, <2>7, <2>8 DEF CalmInv
<1> QED BY <1>16, <1>17, <1>18

\* What disturbs the network before the first broadcast changes nothing that
\* counts, and afterwards it ends the calm; nobody hears of anything new.
Disturbs ==
    /\ Disturb
    /\ UNCHANGED <<injected, delivered>>
    /\ \A a \in Node : seen'[a] \subseteq seen[a] /\ pending'[a] \in {pending[a], <<>>}
    /\ \A d \in Conn, b \in Node : stream'[<<d, b>>] = stream[<<d, b>>] \/
          \A m, h : InStream(stream'[<<d, b>>], m, h) => InStream(stream[<<d, b>>], m, h)

LEMMA CoverageDisturbed ==
    ASSUME CoverageInv, Disturbs
    PROVE  Fresh' /\ OwnPending' /\ (calm' => CalmInv')
<1>0. Fresh /\ OwnPending /\ (calm => CalmInv)
  BY CoverageFacts
<1>1. \A a \in Node : \A m : Recorded(a, m)' \subseteq Recorded(a, m)
  BY DEF Disturbs, Recorded
<1>2. \A a \in Node : \A m : InQueue(pending'[a], m) => InQueue(pending[a], m)
  BY DEF Disturbs, InQueue
<1>3. \A d \in Conn, b \in Node : \A m, h : UnderWay(d, b, m, h)' => UnderWay(d, b, m, h)
  <2>1. \A d \in Conn, b \in Node : \A m, h :
            InStream(stream'[<<d, b>>], m, h) => InStream(stream[<<d, b>>], m, h)
    BY DEF Disturbs
  <2>2. \A d, b, m, h : UnderWay(d, b, m, h)' <=> InStream(stream'[<<d, b>>], m, h)
    BY DEF UnderWay, InStream
  <2> QED BY <2>1, <2>2 DEF UnderWay
<1>4. Fresh'
  BY <1>0, <1>1, <1>2, <1>3 DEF Disturbs, Fresh
<1>5. OwnPending'
  BY <1>0, <1>2 DEF OwnPending
<1>6. ASSUME calm' PROVE CalmInv'
  <2>1. CalmInv /\ injected = {} /\ injected' = {} /\ delivered' = delivered
    BY <1>0, <1>6 DEF Disturbs, Disturb
  <2>2. ASSUME NEW a \in Node, NEW m \in Msg
        PROVE  /\ Recorded(a, m)' = {} /\ delivered[a][m] = 0
               /\ \A d \in Conn, h \in Nat \ {0} : ~UnderWay(d, a, m, h)'
    BY <1>4, <2>1 DEF Fresh
  <2>3. ASSUME NEW a \in Node, NEW m \in Msg, NEW h \in Nat PROVE ~HasCome(a, m, h)'
    <3>1. Ttl(m) + 1 - 2 * h \in Int
      BY TtlPositive
    <3>2. Recorded(a, m)' = {}
      BY <2>2
    <3> QED BY <3>1, <3>2 DEF HasCome, Recorded
  <2>4. CopiesNear'
    BY <2>2 DEF CopiesNear
  <2>5. PassedToAll'
    BY <2>3 DEF PassedToAll
  <2>6. RecordsNear'
    <3> SUFFICES ASSUME NEW a \in Node, NEW m \in Msg, NEW h \in 1 .. Reach(m), HasCome(a, m, h)'
                 PROVE  FALSE
      BY DEF RecordsNear
    <3>1. h \in Nat
      BY TtlPositive
    <3> QED BY <2>3, <3>1
  <2>7. DeliveredRecorded'
    BY <2>1, <2>2 DEF DeliveredRecorded
  <2>8. OwnRecorded' /\ SentToAll'
    BY <2>1 DEF OwnRecorded, SentToAll
  <2> QED BY <2>4, <2>5, <2>6, <2>7, <2>8 DEF CalmInv
<1> QED BY <1>4, <1>5, <1>6

\* The steps that disturb
LEMMA StepDisturbs ==
    ASSUME CoverageInv
    PROVE  /\ \A n \in Node : \A expired \in SUBSET seen[n] : Cleanup(n, expired) => Disturbs
           /\ \A c \in Conn : HandleClient(c) \/ Connected(c) \/ Break(c) => Disturbs
           /\ \A c \in Conn : ConnectFails(c) => Disturbs
           /\ \A c \in Conn, n \in Node : Lose(c, n) => Disturbs
           /\ \A c \in Conn, n \in Node : LoopEnds(c, n) => Disturbs
           /\ \A n \in Node : Restart(n) => Disturbs
<1>0. seen \in Seens /\ stream \in Streams /\ pending \in [Node -> Seq(Msg)]
  BY CoverageFacts
<1>1. ASSUME NEW n \in Node, NEW expired \in SUBSET seen[n], Cleanup(n, expired) PROVE Disturbs
  BY <1>0, <1>1 DEF Cleanup, Disturbs, Seens
<1>2. ASSUME NEW c \in Conn, HandleClient(c) \/ Connected(c) \/ Break(c) PROVE Disturbs
  BY <1>2 DEF HandleClient, Connected, Break, Disturbs
<1>3. ASSUME NEW c \in Conn, ConnectFails(c) PROVE Disturbs
  <2>1. /\ Disturb /\ UNCHANGED <<seen, pending, injected, delivered>>
        /\ stream' = [stream EXCEPT ![<<c, from[c]>>] = <<>>]
    BY <1>3 DEF ConnectFails
  <2>2. \A d \in Conn, b \in Node : stream'[<<d, b>>] \in {stream[<<d, b>>], <<>>}
    BY <1>0, <2>1 DEF Streams
  <2>3. \A m, h : ~InStream(<<>>, m, h)
    BY DEF InStream
  <2> QED BY <2>1, <2>2, <2>3 DEF Disturbs
<1>4. ASSUME NEW c \in Conn, NEW n \in Node, Lose(c, n) PROVE Disturbs
  <2> DEFINE s == stream[<<c, n>>]
             t == SubSeq(s, 1, Len(s) - 1)
  <2>1. /\ Disturb /\ UNCHANGED <<seen, pending, injected, delivered>>
        /\ s # <<>> /\ stream' = [stream EXCEPT ![<<c, n>>] = t]
    BY <1>4 DEF Lose
  <2>2. s \in Seq(GoodWire)
    BY <1>0 DEF Streams
  <2>3. \A m, h : InStream(t, m, h) => InStream(s, m, h)
    <3> HIDE DEF s
    <3>1. DOMAIN t = 1 .. Len(s) - 1 /\ \A i \in 1 .. Len(s) - 1 : i \in DOMAIN s /\ t[i] = s[i]
      BY <2>1, <2>2
    <3> HIDE DEF t
    <3> QED BY <3>1 DEF InStream
  <2>4. \A d \in Conn, b \in Node :
           stream'[<<d, b>>] = IF d = c /\ b = n THEN t ELSE stream[<<d, b>>]
    <3> HIDE DEF t
    <3> QED BY <1>0, <2>1 DEF Streams
  <2> HIDE DEF t
  <2> QED BY <2>1, <2>3, <2>4 DEF Disturbs
<1>5. ASSUME NEW c \in Conn, NEW n \in Node, LoopEnds(c, n) PROVE Disturbs
  BY <1>5 DEF LoopEnds, Disturbs
<1>6. ASSUME NEW n \in Node, Restart(n) PROVE Disturbs
  <2>1. /\ Disturb /\ UNCHANGED <<injected, delivered>>
        /\ \A a \in Node : seen'[a] \subseteq seen[a] /\ pending'[a] \in {pending[a], <<>>}
    BY <1>0, <1>6 DEF Restart, Seens
  <2>2. \A d \in Conn, b \in Node : stream'[<<d, b>>] \in {stream[<<d, b>>], <<>>}
    BY <1>6 DEF Restart
  <2>3. \A m, h : ~InStream(<<>>, m, h)
    BY DEF InStream
  <2> QED BY <2>1, <2>2, <2>3 DEF Disturbs
<1> QED BY <1>1, <1>2, <1>3, <1>4, <1>5, <1>6

\* A step that leaves alone what counts
LEMMA CoverageSame ==
    ASSUME CoverageInv,
           UNCHANGED <<active, open, stream, seen, pending, injected, delivered, calm>>
    PROVE  Fresh' /\ OwnPending' /\ (calm' => CalmInv')
<1>1. /\ \A a, m : Recorded(a, m)' = Recorded(a, m)
      /\ \A a, m, h : HasCome(a, m, h)' <=> HasCome(a, m, h)
      /\ \A d, b, m, h : UnderWay(d, b, m, h)' <=> UnderWay(d, b, m, h)
      /\ \A a, b, m, h : UnderWay(active[a][b], b, m, h)' <=> UnderWay(active[a][b], b, m, h)
      /\ \A m : Waiting(m)' <=> Waiting(m)
  BY DEF Recorded, HasCome, UnderWay, Waiting
<1>2. \A a, b, m, h : Arrives(a, b, m, h)' <=> Arrives(a, b, m, h)
  BY <1>1 DEF Arrives
<1>3. /\ \A a : Peers(a)' = Peers(a)
      /\ \A a, k : Ball(a, k)' = Ball(a, k)
      /\ Sound' <=> Sound
  BY SameNetwork
<1>4. Fresh /\ OwnPending /\ (calm => CalmInv)
  BY CoverageFacts
<1>5. Fresh' /\ OwnPending'
  BY <1>1, <1>4 DEF Fresh, OwnPending
<1>6. CopiesNear' = CopiesNear /\ RecordsNear' = RecordsNear
  BY <1>1, <1>3 DEF CopiesNear, RecordsNear
<1>7. DeliveredRecorded' = DeliveredRecorded /\ OwnRecorded' = OwnRecorded
  BY <1>1 DEF DeliveredRecorded, OwnRecorded
<1>8. SentToAll' = SentToAll /\ PassedToAll' = PassedToAll
  BY <1>1, <1>2, <1>3 DEF SentToAll, PassedToAll
<1> QED BY <1>3, <1>4, <1>5, <1>6, <1>7, <1>8 DEF CalmInv

LEMMA CoverageInvNext == CoverageInv /\ [Next]_gossipVars => CoverageInv'
<1> SUFFICES ASSUME CoverageInv, [Next]_gossipVars PROVE CoverageInv'
  OBVIOUS
<1>1. DeliveryInv'
  BY DeliveryNext DEF CoverageInv
<1>2. ASSUME Fresh', OwnPending', calm' => CalmInv' PROVE CoverageInv'
  BY <1>1, <1>2 DEF CoverageInv
<1>3. CASE UNCHANGED gossipVars
  BY <1>2, <1>3, CoverageSame DEF gossipVars
<1>4. CASE \E m \in Msg : GossipMessage(m)
  BY <1>2, <1>4, CoverageGossipMessage
<1>5. CASE \E n \in Node : GossipWorker(n)
  BY <1>2, <1>5, CoverageGossipWorker
<1>6. CASE \E c \in Conn, n \in Node : HandleIncoming(c, n)
  BY <1>2, <1>6, CoverageHandleIncoming
<1>7. CASE \E c \in Conn : ConnectToPeer(c)
  BY <1>2, <1>7, CoverageSame DEF ConnectToPeer
<1>8. CASE \E n \in Node : \E expired \in SUBSET seen[n] : Cleanup(n, expired)
  BY <1>2, <1>8, StepDisturbs, CoverageDisturbed
<1>9. CASE \/ \E c \in Conn : HandleClient(c)
           \/ \E c \in Conn : Connected(c)
           \/ \E c \in Conn : Break(c)
           \/ \E c \in Conn : ConnectFails(c)
  BY <1>2, <1>9, StepDisturbs, CoverageDisturbed
<1>10. CASE \/ \E c \in Conn, n \in Node : Lose(c, n)
            \/ \E c \in Conn, n \in Node : LoopEnds(c, n)
            \/ \E n \in Node : Restart(n)
  BY <1>2, <1>10, StepDisturbs, CoverageDisturbed
<1> QED BY <1>3, <1>4, <1>5, <1>6, <1>7, <1>8, <1>9, <1>10 DEF Next

LEMMA CoverageInvInit == Init => CoverageInv
<1> SUFFICES ASSUME Init PROVE CoverageInv
  OBVIOUS
<1>1. DeliveryInv
  BY DeliveryInvInit
<1>2. /\ injected = {}
      /\ \A n \in Node, m \in Msg : Recorded(n, m) = {} /\ delivered[n][m] = 0
      /\ \A n \in Node : seen[n] = {} /\ pending[n] = <<>>
      /\ \A d \in Conn, b \in Node : stream[<<d, b>>] = <<>>
  BY DEF Init, Recorded
<1>3. /\ \A d \in Conn, b \in Node, m \in Msg, h \in Nat : ~UnderWay(d, b, m, h)
      /\ \A n \in Node, m \in Msg : ~InQueue(pending[n], m)
      /\ \A n \in Node, m \in Msg : \A h : ~HasCome(n, m, h)
  BY <1>2 DEF UnderWay, InStream, InQueue, HasCome
<1>4. Fresh /\ OwnPending
  BY <1>2, <1>3 DEF Fresh, OwnPending
<1>5. CopiesNear /\ RecordsNear /\ SentToAll /\ PassedToAll
  BY <1>2, <1>3 DEF CopiesNear, RecordsNear, SentToAll, PassedToAll
<1>6. DeliveredRecorded /\ OwnRecorded
  BY <1>2 DEF DeliveredRecorded, OwnRecorded
<1> QED BY <1>1, <1>4, <1>5, <1>6 DEF CoverageInv, CalmInv

THEOREM CoverageInvariance == Spec => []CoverageInv
<1>1. Init => CoverageInv
  BY CoverageInvInit
<1>2. CoverageInv /\ [Next]_gossipVars => CoverageInv'
  BY CoverageInvNext
<1> QED BY <1>1, <1>2, PTL DEF Spec

\* Whatever the connections of a calm network, known to both ends or to one,
\* once nothing is under way a message has been given to the nodes within
\* Reach hops of its origin and to no others, if nobody has more peers than
\* the fanout or lists a connection that is no more: no copy that came first
\* by a longer way ever stopped one that would have gone further
\* (gossip.py:191-209).
THEOREM CoverageAlways == Spec => []Coverage
<1>1. CoverageInv => Coverage
  BY CoverageHolds
<1> QED BY <1>1, CoverageInvariance, PTL
=============================================================================
