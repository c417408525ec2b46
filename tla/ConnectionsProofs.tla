------------------------- MODULE ConnectionsProofs -------------------------
(***************************************************************************)
(* Proofs about Connections, for any number of connections, keys and tasks *)
(* at work at a time, and every max_peers.                                 *)
(***************************************************************************)
EXTENDS Connections, TLAPS, FiniteSetTheorems

\* Two connections with one key at a time have met.
SharedKeys ==
    \A c, o \in Conn :
        c # o /\ Alive(c) /\ Alive(o) /\ conn[c].key = conn[o].key => c \in shared

\* So has a connection with the one that a send to its key still holds.
HeldKeys ==
    \A a \in Actor, o \in Conn :
        at[a].pc = "send" /\ HasKey(o, at[a].key) /\ at[a].conn # o => o \in shared

\* What stop has not to close met another connection or came late, and after
\* the table was emptied that is all there is.
StopTakesRest ==
    /\ \A c \in Conn :
          stop = "closing" /\ conn[c].st = "open" => c \in snapshot \cup shared \cup late
    /\ \A c \in Conn :
          stop \in {"cleared", "done"} /\ conn[c].st = "open" => c \in shared \cup late
    /\ \A c \in Conn : stop = "done" /\ conn[c].st = "open" => conn[c].dir = "out"

ConnInv ==
    /\ ConnTypeOK
    /\ EntriesAlive
    /\ SharedKeys
    /\ HeldKeys
    /\ ListedUnlessShared
    /\ StopTakesRest

-----------------------------------------------------------------------------
(* Connections and their states *)

LEMMA StateFacts ==
    ASSUME ConnTypeOK
    PROVE  /\ \A c \in Conn : conn[c].st \in {"gone", "open", "lost"}
           /\ \A c \in Conn : Alive(c) => /\ conn[c].key \in Key
                                          /\ conn[c].dir \in {"in", "out"}
           /\ \A a \in Actor : at[a].pc \in {"idle", "connect", "send"}
           /\ \A a \in Actor : at[a].pc # "idle" => at[a].key \in Key
           /\ \A a \in Actor : at[a].pc = "send" => at[a].conn \in Conn
BY DEF ConnTypeOK, ConnState, ActorState, Gone, Idle, Alive

LEMMA LostFacts ==
    ASSUME ConnTypeOK, NEW c \in Conn, Alive(c)
    PROVE  /\ Lost(c) \in ConnState
           /\ Lost(c).st = "lost"
           /\ Lost(c).key = conn[c].key
           /\ Lost(c).dir = conn[c].dir
<1>1. conn[c] \in [st : {"open", "lost"}, key : Key, dir : {"in", "out"}]
  BY DEF ConnTypeOK, ConnState, Gone, Alive
<1> QED
  BY <1>1 DEF Lost, ConnState

LEMMA ConnectionFacts ==
    ASSUME NEW k \in Key, NEW d \in {"in", "out"}
    PROVE  /\ Connection(k, d) \in ConnState
           /\ Connection(k, d).st = "open"
           /\ Connection(k, d).key = k
           /\ Connection(k, d).dir = d
BY DEF Connection, ConnState

LEMMA ActorFacts ==
    /\ Idle \in ActorState /\ Idle.pc = "idle"
    /\ \A k \in Key : /\ Connecting(k) \in ActorState
                      /\ Connecting(k).pc = "connect"
    /\ \A k \in Key, c \in Conn : /\ Sending(k, c) \in ActorState
                                  /\ Sending(k, c).pc = "send"
                                  /\ Sending(k, c).key = k
                                  /\ Sending(k, c).conn = c
BY DEF Idle, Connecting, Sending, ActorState

\* Connections close, and nothing else happens to them.
OnlyClose ==
    /\ conn' \in [Conn -> ConnState]
    /\ \A c \in Conn : /\ Alive(c)' <=> Alive(c)
                       /\ Alive(c) => conn'[c].key = conn[c].key /\ conn'[c].dir = conn[c].dir
                       /\ conn'[c].st = "open" => conn[c].st = "open"

LEMMA CloseFacts ==
    ASSUME ConnTypeOK, NEW S \in SUBSET Conn,
           conn' = [c \in Conn |-> conn'[c]],
           \A c \in Conn : conn'[c] = IF c \in S /\ Alive(c) THEN Lost(c) ELSE conn[c]
    PROVE  OnlyClose
<1>1. conn \in [Conn -> ConnState]
  BY DEF ConnTypeOK
<1>2. ASSUME NEW c \in Conn, c \in S, Alive(c)
      PROVE  /\ conn'[c] \in ConnState
             /\ conn'[c].st = "lost"
             /\ conn'[c].key = conn[c].key /\ conn'[c].dir = conn[c].dir
  BY <1>2, LostFacts
<1>3. ASSUME NEW c \in Conn, ~(c \in S /\ Alive(c)) PROVE conn'[c] = conn[c]
  BY <1>3
<1>4. conn' \in [Conn -> ConnState]
  <2>1. ASSUME NEW c \in Conn PROVE conn'[c] \in ConnState
    BY <1>1, <1>2, <1>3
  <2> QED
    BY <2>1
<1> QED
  BY <1>2, <1>3, <1>4 DEF OnlyClose, Alive

LEMMA UnchangedCloses == ConnTypeOK /\ UNCHANGED conn => OnlyClose
BY DEF ConnTypeOK, OnlyClose, Alive

-----------------------------------------------------------------------------
(* The table and the histories, by what a step does to them *)

Matches ==
    /\ EntriesAlive
    /\ SharedKeys
    /\ HeldKeys
    /\ ListedUnlessShared

\* Sends go on, end, or begin on the connection of the table.
LEMMA CloseKeepsMatches ==
    ASSUME ConnTypeOK, Matches, OnlyClose, UNCHANGED <<table, shared, late>>,
           \A a \in Actor : at'[a].pc = "send" =>
               \/ at'[a] = at[a]
               \/ at'[a].conn \in Conn /\ HasKey(at'[a].conn, at'[a].key)
    PROVE  Matches'
<1> USE DEF Matches, OnlyClose, HasKey
<1>1. EntriesAlive'
  BY DEF EntriesAlive, ConnTypeOK
<1>2. SharedKeys'
  BY DEF SharedKeys
<1>3. HeldKeys'
  <2> SUFFICES ASSUME NEW a \in Actor, NEW o \in Conn,
                      at'[a].pc = "send", conn'[o].st # "gone", conn'[o].key = at'[a].key,
                      at'[a].conn # o
               PROVE  o \in shared
    BY DEF HeldKeys, Alive
  <2>1. Alive(o) /\ conn[o].key = at'[a].key
    BY DEF Alive
  <2>2. CASE at'[a] = at[a]
    BY <2>1, <2>2 DEF HeldKeys
  <2>3. CASE at'[a].conn \in Conn /\ HasKey(at'[a].conn, at'[a].key)
    BY <2>1, <2>3 DEF SharedKeys
  <2> QED
    BY <2>2, <2>3
<1>4. ListedUnlessShared'
  BY DEF ListedUnlessShared, Alive
<1> QED
  BY <1>1, <1>2, <1>3, <1>4

\* A connection is registered, and at most its own actor begins to send on it.
LEMMA RegisterKeepsMatches ==
    ASSUME ConnTypeOK, Matches, NEW c \in Conn, NEW k \in Key, NEW d \in {"in", "out"},
           Unused(c), Register(c, k, d),
           \A a \in Actor : at'[a].pc = "send" =>
               \/ at'[a] = at[a]
               \/ at'[a].conn = c /\ at'[a].key = k
    PROVE  Matches'
<1> DEFINE others == {o \in Conn : HasKey(o, k)}
<1>1. /\ conn'[c].st = "open" /\ conn'[c].key = k
      /\ \A o \in Conn : o # c => conn'[o] = conn[o]
  BY ConnectionFacts DEF ConnTypeOK, Register
<1>2. table'[k] = c /\ \A j \in Key : j # k => table'[j] = table[j]
  BY DEF ConnTypeOK, Register
<1>3. /\ shared \subseteq shared' /\ late \subseteq late'
      /\ others # {} => others \cup {c} \subseteq shared'
      /\ (\E a \in Actor : at[a].pc = "send" /\ at[a].key = k) => c \in shared'
  BY DEF Register
<1>4. ~Alive(c)
  BY DEF Unused
<1>5. EntriesAlive'
  <2> SUFFICES ASSUME NEW j \in Key, table'[j] # NoConn
               PROVE  conn'[table'[j]].st # "gone" /\ conn'[table'[j]].key = j
    BY DEF EntriesAlive, HasKey, Alive
  <2>1. CASE j = k
    BY <1>1, <1>2, <2>1 DEF HasKey, Alive
  <2>2. CASE j # k
    <3>1. table'[j] = table[j] /\ HasKey(table[j], j) /\ table[j] \in Conn
      BY <1>2, <2>2 DEF Matches, EntriesAlive, ConnTypeOK
    <3>2. table[j] # c
      BY <1>4, <3>1 DEF HasKey
    <3> QED
      BY <1>1, <3>1, <3>2 DEF HasKey, Alive
  <2> QED
    BY <2>1, <2>2
<1>6. SharedKeys'
  <2> SUFFICES ASSUME NEW o \in Conn, NEW q \in Conn, o # q, Alive(o)', Alive(q)',
                      conn'[o].key = conn'[q].key
               PROVE  o \in shared'
    BY DEF SharedKeys
  <2>1. CASE o = c
    <3>1. q \in others
      BY <1>1, <2>1 DEF HasKey, Alive
    <3> QED
      BY <1>3, <2>1, <3>1
  <2>2. CASE q = c
    <3>1. o \in others
      BY <1>1, <2>2 DEF HasKey, Alive
    <3> QED
      BY <1>3, <3>1
  <2>3. CASE o # c /\ q # c
    BY <1>1, <1>3, <2>3 DEF Matches, SharedKeys, Alive
  <2> QED
    BY <2>1, <2>2, <2>3
<1>7. HeldKeys'
  <2> SUFFICES ASSUME NEW a \in Actor, NEW o \in Conn,
                      at'[a].pc = "send", conn'[o].st # "gone", conn'[o].key = at'[a].key,
                      at'[a].conn # o
               PROVE  o \in shared'
    BY DEF HeldKeys, HasKey, Alive
  <2>1. CASE at'[a].conn = c /\ at'[a].key = k
    <3>1. o \in others
      BY <1>1, <2>1 DEF HasKey, Alive
    <3> QED
      BY <1>3, <3>1
  <2>2. CASE at'[a] = at[a] /\ o = c
    <3>1. at[a].key = k
      BY <1>1, <2>2 DEF HasKey
    <3> QED
      BY <1>3, <2>2, <3>1
  <2>3. CASE at'[a] = at[a] /\ o # c
    BY <1>1, <1>3, <2>3 DEF Matches, HeldKeys, HasKey, Alive
  <2> QED
    BY <2>1, <2>2, <2>3
<1>8. ListedUnlessShared'
  <2> SUFFICES ASSUME NEW o \in Conn, conn'[o].st = "open"
               PROVE  table'[conn'[o].key] = o \/ o \in shared' \cup late'
    BY DEF ListedUnlessShared
  <2>1. CASE o = c
    BY <1>1, <1>2, <2>1
  <2>2. CASE o # c /\ conn[o].key = k
    <3>1. o \in others
      BY <1>1, <2>2 DEF HasKey, Alive
    <3> QED
      BY <1>3, <3>1
  <2>3. CASE o # c /\ conn[o].key # k
    <3>1. conn[o].st = "open" /\ conn[o].key \in Key
      BY <1>1, <2>3, StateFacts DEF Alive
    <3> QED
      BY <1>1, <1>2, <1>3, <2>3, <3>1 DEF Matches, ListedUnlessShared
  <2> QED
    BY <2>1, <2>2, <2>3
<1> QED
  BY <1>5, <1>6, <1>7, <1>8 DEF Matches

\* A key is popped: an open connection that loses its entry had met another,
\* be it the one whose loop ends or the one a send has failed on.
LEMMA FinallyKeepsMatches ==
    ASSUME ConnTypeOK, Matches, NEW c \in Conn, Alive(c), Finally(c)
    PROVE  Matches'
<1>1. conn[c].key \in Key
  BY StateFacts
<1>2. ~Alive(c)' /\ \A o \in Conn : o # c => conn'[o] = conn[o]
  BY DEF Finally, ConnTypeOK, Alive, Gone
<1>3. /\ table'[conn[c].key] = NoConn
      /\ \A j \in Key : j # conn[c].key => table'[j] = table[j]
  BY <1>1 DEF Finally, Pop, ConnTypeOK
<1>4. shared' = shared \ {c} /\ late' = late \ {c} /\ at' = at
  BY DEF Finally
<1>5. EntriesAlive'
  <2> SUFFICES ASSUME NEW j \in Key, table'[j] # NoConn
               PROVE  conn'[table'[j]].st # "gone" /\ conn'[table'[j]].key = j
    BY DEF EntriesAlive, HasKey, Alive
  <2>1. j # conn[c].key /\ table'[j] = table[j]
    BY <1>3
  <2>2. HasKey(table[j], j) /\ table[j] \in Conn
    BY <2>1 DEF Matches, EntriesAlive, ConnTypeOK
  <2>3. table[j] # c
    BY <2>1, <2>2 DEF HasKey
  <2> QED
    BY <1>2, <2>1, <2>2, <2>3 DEF HasKey, Alive
<1>6. SharedKeys'
  BY <1>2, <1>4 DEF Matches, SharedKeys, Alive
<1>7. HeldKeys'
  BY <1>2, <1>4 DEF Matches, HeldKeys, HasKey, Alive
<1>8. ListedUnlessShared'
  <2> SUFFICES ASSUME NEW o \in Conn, conn'[o].st = "open"
               PROVE  table'[conn'[o].key] = o \/ o \in shared' \cup late'
    BY DEF ListedUnlessShared
  <2>1. o # c /\ conn'[o] = conn[o] /\ Alive(o) /\ conn[o].key \in Key
    BY <1>2, StateFacts DEF Alive
  <2>2. CASE conn[o].key = conn[c].key
    BY <1>4, <2>1, <2>2 DEF Matches, SharedKeys
  <2>3. CASE conn[o].key # conn[c].key
    BY <1>3, <1>4, <2>1, <2>3 DEF Matches, ListedUnlessShared
  <2> QED
    BY <2>2, <2>3
<1> QED
  BY <1>5, <1>6, <1>7, <1>8 DEF Matches

LEMMA SendFailsKeepsMatches ==
    ASSUME ConnTypeOK, Matches, NEW a \in Actor, SendFails(a)
    PROVE  Matches'
<1> DEFINE k == at[a].key
<1>1. at[a].pc = "send" /\ k \in Key /\ at[a].conn \in Conn /\ conn[at[a].conn].st # "open"
  BY StateFacts DEF SendFails
<1>2. UNCHANGED <<conn, shared, late>>
  BY DEF SendFails
<1>3. table'[k] = NoConn /\ \A j \in Key : j # k => table'[j] = table[j]
  BY <1>1 DEF SendFails, Pop, ConnTypeOK
<1>4. \A b \in Actor : at'[b].pc = "send" => at'[b] = at[b]
  BY ActorFacts DEF SendFails, ConnTypeOK
<1>5. EntriesAlive'
  BY <1>2, <1>3 DEF Matches, EntriesAlive, HasKey, Alive
<1>6. SharedKeys'
  BY <1>2 DEF Matches, SharedKeys, Alive
<1>7. HeldKeys'
  BY <1>2, <1>4 DEF Matches, HeldKeys, HasKey, Alive
<1>8. ListedUnlessShared'
  <2> SUFFICES ASSUME NEW o \in Conn, conn[o].st = "open"
               PROVE  table'[conn[o].key] = o \/ o \in shared \cup late
    BY <1>2 DEF ListedUnlessShared
  <2>1. Alive(o) /\ conn[o].key \in Key /\ at[a].conn # o
    BY <1>1, StateFacts DEF Alive
  <2>2. CASE conn[o].key = k
    BY <1>1, <2>1, <2>2 DEF Matches, HeldKeys, HasKey
  <2>3. CASE conn[o].key # k
    BY <1>3, <2>1, <2>3 DEF Matches, ListedUnlessShared
  <2> QED
    BY <2>2, <2>3
<1> QED
  BY <1>5, <1>6, <1>7, <1>8 DEF Matches

-----------------------------------------------------------------------------
(* The type invariant *)

LEMMA RegisterType ==
    ASSUME ConnTypeOK, NEW c \in Conn, NEW k \in Key, NEW d \in {"in", "out"},
           Register(c, k, d)
    PROVE  /\ conn' \in [Conn -> ConnState]
           /\ table' \in [Key -> Conn \cup {NoConn}]
           /\ shared' \subseteq Conn /\ late' \subseteq Conn
<1>1. Connection(k, d) \in ConnState
  BY ConnectionFacts
<1>2. conn' \in [Conn -> ConnState]
  BY <1>1 DEF ConnTypeOK, Register
<1>3. table' \in [Key -> Conn \cup {NoConn}]
  BY DEF ConnTypeOK, Register
<1>4. shared' \subseteq Conn /\ late' \subseteq Conn
  BY DEF ConnTypeOK, Register
<1> QED
  BY <1>2, <1>3, <1>4

LEMMA FinallyType ==
    ASSUME ConnTypeOK, NEW c \in Conn, Alive(c), Finally(c)
    PROVE  ConnTypeOK'
<1>1. Gone \in ConnState /\ conn[c].key \in Key
  BY StateFacts DEF ConnState
<1> QED
  BY <1>1 DEF ConnTypeOK, Finally, Pop

\* A closing connection is taken down one way or the other.
LEMMA LoseFacts ==
    ASSUME ConnTypeOK, NEW c \in Conn,
           conn' = [conn EXCEPT ![c] = IF Alive(c) THEN Lost(c) ELSE Gone]
    PROVE  OnlyClose
<1>1. conn \in [Conn -> ConnState] /\ (~Alive(c) => conn[c] = Gone)
  BY DEF ConnTypeOK, ConnState, Alive, Gone
<1>2. ASSUME NEW o \in Conn
      PROVE  conn'[o] = IF o \in {c} /\ Alive(o) THEN Lost(o) ELSE conn[o]
  BY <1>1
<1>3. conn' = [o \in Conn |-> conn'[o]]
  BY <1>1
<1> QED
  BY <1>2, <1>3, CloseFacts

-----------------------------------------------------------------------------
(* The steps by what they do to the table *)

\* Nothing is registered or removed.
Quiet ==
    /\ OnlyClose
    /\ UNCHANGED <<table, shared, late>>
    /\ at' \in [Actor -> ActorState]
    /\ \A a \in Actor : at'[a].pc = "send" =>
          \/ at'[a] = at[a]
          \/ at'[a].conn \in Conn /\ HasKey(at'[a].conn, at'[a].key)

LEMMA IdleQuiet ==
    ASSUME ConnTypeOK, OnlyClose, UNCHANGED <<table, shared, late>>, NEW a \in Actor,
           at' = [at EXCEPT ![a] = Idle]
    PROVE  Quiet
BY ActorFacts DEF ConnTypeOK, Quiet

LEMMA SameQuiet ==
    ASSUME ConnTypeOK, OnlyClose, UNCHANGED <<table, shared, late, at>>
    PROVE  Quiet
BY DEF ConnTypeOK, Quiet

LEMMA BootstrapQuiet ==
    ASSUME ConnTypeOK, NEW k \in Key, Bootstrap(k)
    PROVE  Quiet
<1>1. Connecting(k) \in ActorState /\ Connecting(k).pc = "connect" /\ Boot \in Actor
  BY ActorFacts DEF Actor
<1>2. OnlyClose
  BY UnchangedCloses DEF Bootstrap
<1> QED
  BY <1>1, <1>2 DEF Bootstrap, Begins, ConnTypeOK, Quiet

LEMMA SendQuiet ==
    ASSUME ConnTypeOK, EntriesAlive, NEW a \in Actor, NEW k \in Key, Send(a, k)
    PROVE  Quiet
<1>1. OnlyClose
  BY UnchangedCloses DEF Send
<1>2. CASE table[k] = NoConn
  <2>1. at' = [at EXCEPT ![a] = Connecting(k)]
    BY <1>2 DEF Send, Begins
  <2>2. Connecting(k) \in ActorState /\ Connecting(k).pc = "connect"
    BY ActorFacts
  <2> QED
    BY <1>1, <2>1, <2>2 DEF Send, ConnTypeOK, Quiet
<1>3. CASE table[k] # NoConn
  <2>1. at' = [at EXCEPT ![a] = Sending(k, table[k])]
    BY <1>3 DEF Send, Begins
  <2>2. table[k] \in Conn /\ HasKey(table[k], k)
    BY <1>3 DEF ConnTypeOK, EntriesAlive
  <2>3. /\ Sending(k, table[k]) \in ActorState
        /\ Sending(k, table[k]).key = k /\ Sending(k, table[k]).conn = table[k]
    BY <2>2, ActorFacts
  <2> QED
    BY <1>1, <2>1, <2>2, <2>3 DEF Send, ConnTypeOK, Quiet
<1> QED
  BY <1>2, <1>3

LEMMA LoseQuiet ==
    ASSUME ConnTypeOK, NEW c \in Conn, conn[c].st = "open",
           conn' = [conn EXCEPT ![c] = Lost(c)],
           UNCHANGED <<table, shared, late, at>>
    PROVE  Quiet
<1>1. OnlyClose
  BY LoseFacts DEF Alive
<1> QED
  BY <1>1, SameQuiet

LEMMA StopEndsQuiet ==
    ASSUME ConnTypeOK, StopEnds
    PROVE  Quiet
<1> DEFINE S == {c \in Conn : conn[c].dir = "in"}
<1>1. conn' = [c \in Conn |-> IF c \in S /\ Alive(c) THEN Lost(c) ELSE conn[c]]
  BY DEF StopEnds
<1>2. OnlyClose
  BY <1>1, CloseFacts
<1> QED
  BY <1>2, SameQuiet DEF StopEnds

\* The steps that register a connection, which its own actor may then use,
\* and those that take one away.
Registers ==
    \E c \in Conn, k \in Key, d \in {"in", "out"} :
        /\ Unused(c)
        /\ Register(c, k, d)
        /\ at' \in [Actor -> ActorState]
        /\ \A a \in Actor : at'[a].pc = "send" =>
              at'[a] = at[a] \/ (at'[a].conn = c /\ at'[a].key = k)
        /\ d = "in" => Cardinality(Listed) < MaxPeers /\ stop # "done"

LEMMA AcceptRegisters ==
    ASSUME ConnTypeOK, NEW c \in Conn, NEW k \in Key, Accept(c, k)
    PROVE  Registers
<1>1. Register(c, k, "in") /\ Unused(c) /\ at' = at
  BY DEF Accept
<1>2. Cardinality(Listed) < MaxPeers /\ stop # "done"
  BY DEF Accept
<1> QED
  BY <1>1, <1>2 DEF Registers, ConnTypeOK

LEMMA ConnectRegisters ==
    ASSUME ConnTypeOK, NEW a \in Actor, NEW c \in Conn, ConnectSucceeds(a, c)
    PROVE  Registers
<1> DEFINE k == at[a].key
           next == IF a = Boot THEN Idle ELSE Sending(k, c)
<1>1. k \in Key
  BY StateFacts DEF ConnectSucceeds
<1>2. Unused(c) /\ Register(c, k, "out") /\ at' = [at EXCEPT ![a] = next]
  BY DEF ConnectSucceeds
<1>3. next \in ActorState /\ (next.pc = "send" => next.conn = c /\ next.key = k)
  BY <1>1, ActorFacts
<1> HIDE DEF k, next
<1>4. at' \in [Actor -> ActorState]
  BY <1>2, <1>3 DEF ConnTypeOK
<1>5. \A b \in Actor : at'[b].pc = "send" =>
         at'[b] = at[b] \/ (at'[b].conn = c /\ at'[b].key = k)
  BY <1>2, <1>3 DEF ConnTypeOK
<1> QED
  BY <1>1, <1>2, <1>4, <1>5 DEF Registers

\* The steps that leave stop where it is, by what they do to the table.
TableStep ==
    \/ Quiet
    \/ Registers
    \/ \E c \in Conn : Alive(c) /\ Finally(c)
    \/ \E a \in Actor : SendFails(a)

StopKept == UNCHANGED <<stop, snapshot>>

StopMoves == Start \/ StopBegins \/ (\E c \in Conn : CloseOne(c)) \/ Clear \/ StopEnds \/ Exit

LEMMA SettlesStep ==
    ASSUME ConnTypeOK, NEW a \in Actor, Settles(a)
    PROVE  TableStep /\ StopKept
<1>1. CASE \E c \in Conn : ConnectSucceeds(a, c)
  BY <1>1, ConnectRegisters DEF ConnectSucceeds, TableStep, StopKept
<1>2. CASE ConnectFails(a)
  BY <1>2, UnchangedCloses, IdleQuiet DEF ConnectFails, TableStep, StopKept
<1>3. CASE SendFails(a)
  BY <1>3 DEF SendFails, TableStep, StopKept
<1>4. CASE TimesOut(a)
  <2>1. at[a].conn \in Conn
    BY <1>4, StateFacts DEF TimesOut
  <2> QED
    BY <1>4, <2>1, LoseQuiet DEF TimesOut, TableStep, StopKept
<1> QED
  BY <1>1, <1>2, <1>3, <1>4 DEF Settles

LEMMA Steps ==
    ASSUME ConnTypeOK, EntriesAlive, [Next]_vars
    PROVE  (TableStep /\ StopKept) \/ StopMoves
<1>1. ASSUME NEW c \in Conn, NEW k \in Key, Accept(c, k) PROVE TableStep /\ StopKept
  BY <1>1, AcceptRegisters DEF Accept, TableStep, StopKept
<1>2. ASSUME NEW k \in Key, Bootstrap(k) PROVE TableStep /\ StopKept
  BY <1>2, BootstrapQuiet DEF Bootstrap, TableStep, StopKept
<1>3. ASSUME NEW a \in Actor, NEW k \in Key, Send(a, k) PROVE TableStep /\ StopKept
  BY <1>3, SendQuiet DEF Send, TableStep, StopKept
<1>4. ASSUME NEW a \in Actor, Sends(a) PROVE TableStep /\ StopKept
  BY <1>4, UnchangedCloses, IdleQuiet DEF Sends, TableStep, StopKept
<1>5. ASSUME NEW c \in Conn, Lose(c) PROVE TableStep /\ StopKept
  BY <1>5, LoseQuiet DEF Lose, TableStep, StopKept
<1>6. ASSUME NEW c \in Conn, LoopEnds(c) PROVE TableStep /\ StopKept
  BY <1>6 DEF LoopEnds, Finally, Alive, TableStep, StopKept
<1>7. ASSUME NEW c \in Conn, NEW type, LoopRaises(c, type) PROVE TableStep /\ StopKept
  BY <1>7 DEF LoopRaises, Finally, TableStep, StopKept
<1>8. ASSUME NEW c \in Conn, NEW addr \in Key, Learn(c, addr) PROVE TableStep /\ StopKept
  BY <1>8, UnchangedCloses, SameQuiet DEF Learn, TableStep, StopKept
<1>9. CASE UNCHANGED vars
  BY <1>9, UnchangedCloses, SameQuiet DEF vars, TableStep, StopKept
<1> QED
  BY <1>1, <1>2, <1>3, <1>4, <1>5, <1>6, <1>7, <1>8, <1>9, SettlesStep
  DEF Next, StopStep, StopMoves

\* Whatever discovery does, it knows addresses.
LEMMA PeersNext ==
    ASSUME ConnTypeOK, [Next]_vars
    PROVE  peers' \subseteq Key \cup {Self}
<1>0. peers \subseteq Key \cup {Self}
  BY DEF ConnTypeOK
<1>1. ASSUME NEW c \in Conn, NEW addr \in Key, Learn(c, addr)
      PROVE  peers' \subseteq Key \cup {Self}
  BY <1>0, <1>1 DEF Learn, Discovery!HandleAddress, Discovery!AddPeer,
                    Discovery!PingPeer, Discovery!Evicted
<1>2. CASE Start
  BY <1>2 DEF Start, Discovery!Start
<1>3. CASE Exit
  BY <1>3 DEF Exit
<1>4. CASE UNCHANGED peers
  BY <1>0, <1>4
<1> QED
  BY <1>1, <1>2, <1>3, <1>4
  DEF Next, Settles, StopStep, vars, Accept, Bootstrap, Send, ConnectSucceeds, ConnectFails,
      Sends, SendFails, TimesOut, Lose, LoopEnds, LoopRaises, Finally, StopBegins,
      CloseOne, Clear, StopEnds

LEMMA TypeNext ==
    ASSUME ConnTypeOK, EntriesAlive, [Next]_vars
    PROVE  ConnTypeOK'
<1>0. peers' \subseteq Key \cup {Self}
  BY PeersNext
<1>1. ASSUME TableStep, StopKept PROVE ConnTypeOK'
  <2>1. CASE Quiet
    BY <1>0, <1>1, <2>1 DEF Quiet, OnlyClose, StopKept, ConnTypeOK
  <2>2. CASE Registers
    BY <1>0, <1>1, <2>2, RegisterType DEF Registers, StopKept, ConnTypeOK
  <2>3. ASSUME NEW c \in Conn, Alive(c), Finally(c) PROVE ConnTypeOK'
    BY <2>3, FinallyType
  <2>4. ASSUME NEW a \in Actor, SendFails(a) PROVE ConnTypeOK'
    BY <1>0, <2>4, ActorFacts DEF SendFails, Pop, ConnTypeOK
  <2> QED
    BY <1>1, <2>1, <2>2, <2>3, <2>4 DEF TableStep
<1>2. CASE Start
  BY <1>0, <1>2 DEF Start, ConnTypeOK
<1>3. CASE StopBegins
  BY <1>0, <1>3 DEF StopBegins, Listed, ConnTypeOK
<1>4. ASSUME NEW c \in Conn, CloseOne(c) PROVE ConnTypeOK'
  BY <1>0, <1>4, LoseFacts DEF CloseOne, OnlyClose, ConnTypeOK
<1>5. CASE Clear
  <2>1. at' \in [Actor -> ActorState]
    BY <1>5, ActorFacts DEF Clear, ConnTypeOK
  <2> QED
    BY <1>0, <1>5, <2>1 DEF Clear, ConnTypeOK
<1>6. CASE StopEnds
  BY <1>0, <1>6, StopEndsQuiet DEF StopEnds, Quiet, OnlyClose, ConnTypeOK
<1>7. CASE Exit
  BY <1>0, <1>7, ActorFacts DEF Exit, ConnTypeOK, ConnState
<1> QED
  BY <1>1, <1>2, <1>3, <1>4, <1>5, <1>6, <1>7, Steps DEF StopMoves

-----------------------------------------------------------------------------
(* The other invariants *)

LEMMA MatchesNext ==
    ASSUME ConnInv, [Next]_vars
    PROVE  Matches'
<1>0. ConnTypeOK /\ Matches /\ EntriesAlive
  BY DEF ConnInv, Matches
<1>1. CASE Quiet
  BY <1>0, <1>1, CloseKeepsMatches DEF Quiet
<1>2. CASE Registers
  BY <1>0, <1>2, RegisterKeepsMatches DEF Registers
<1>3. ASSUME NEW c \in Conn, Alive(c), Finally(c) PROVE Matches'
  BY <1>0, <1>3, FinallyKeepsMatches
<1>4. ASSUME NEW a \in Actor, SendFails(a) PROVE Matches'
  BY <1>0, <1>4, SendFailsKeepsMatches
<1>5. ASSUME Start \/ StopBegins PROVE Matches'
  BY <1>0, <1>1, <1>5, UnchangedCloses, SameQuiet DEF Start, StopBegins
<1>6. ASSUME NEW c \in Conn, CloseOne(c) PROVE Matches'
  BY <1>0, <1>1, <1>6, LoseFacts, SameQuiet DEF CloseOne
<1>7. CASE Clear
  <2>1. EntriesAlive'
    BY <1>7 DEF Clear, EntriesAlive
  <2>2. SharedKeys'
    BY <1>0, <1>7 DEF Clear, Matches, SharedKeys, Alive
  <2>3. \A a \in Actor : at'[a].pc = "send" => at'[a] = at[a]
    BY <1>0, <1>7, ActorFacts DEF Clear, ConnTypeOK
  <2>4. HeldKeys'
    BY <1>0, <1>7, <2>3 DEF Clear, Matches, HeldKeys, HasKey, Alive
  <2>5. ListedUnlessShared'
    BY <1>7 DEF Clear, ConnInv, StopTakesRest, ListedUnlessShared
  <2> QED
    BY <2>1, <2>2, <2>4, <2>5 DEF Matches
<1>8. CASE StopEnds
  BY <1>0, <1>1, <1>8, StopEndsQuiet
<1>9. CASE Exit
  BY <1>9 DEF Exit, Gone, Matches, EntriesAlive, SharedKeys, HeldKeys, HasKey, Alive,
              ListedUnlessShared
<1> QED
  BY <1>0, <1>1, <1>2, <1>3, <1>4, <1>5, <1>6, <1>7, <1>8, <1>9, Steps
  DEF TableStep, StopMoves

LEMMA RestNext ==
    ASSUME ConnInv, [Next]_vars
    PROVE  StopTakesRest'
<1>0. ConnTypeOK /\ EntriesAlive /\ ListedUnlessShared /\ StopTakesRest
  BY DEF ConnInv
<1>1. ASSUME StopKept, Quiet PROVE StopTakesRest'
  BY <1>0, <1>1 DEF StopKept, Quiet, OnlyClose, StopTakesRest, Alive
<1>2. ASSUME StopKept, Registers PROVE StopTakesRest'
  <2>1. PICK c \in Conn, k \in Key, d \in {"in", "out"} :
           /\ Register(c, k, d)
           /\ d = "in" => stop # "done"
    BY <1>2 DEF Registers
  <2>2. conn'[c].dir = d /\ \A o \in Conn : o # c => conn'[o] = conn[o]
    BY <1>0, <2>1, ConnectionFacts DEF Register, ConnTypeOK
  <2>3. shared \subseteq shared' /\ late \subseteq late' /\ (stop # "no" => c \in late')
    BY <2>1 DEF Register
  <2> QED
    BY <1>0, <1>2, <2>1, <2>2, <2>3 DEF StopKept, StopTakesRest
<1>3. ASSUME StopKept, NEW c \in Conn, Finally(c) PROVE StopTakesRest'
  <2>1. conn'[c].st # "open" /\ \A o \in Conn : o # c => conn'[o] = conn[o]
    BY <1>0, <1>3 DEF Finally, Gone, ConnTypeOK
  <2> QED
    BY <1>0, <1>3, <2>1 DEF StopKept, Finally, StopTakesRest
<1>4. ASSUME NEW a \in Actor, SendFails(a) PROVE StopTakesRest'
  BY <1>0, <1>4 DEF SendFails, StopTakesRest
<1>5. CASE Start
  BY <1>5 DEF Start, StopTakesRest
<1>6. CASE StopBegins
  <2> SUFFICES ASSUME NEW c \in Conn, conn[c].st = "open"
               PROVE  c \in snapshot' \cup shared \cup late
    BY <1>6 DEF StopBegins, StopTakesRest
  <2>1. conn[c].key \in Key /\ (table[conn[c].key] = c \/ c \in shared \cup late)
    BY <1>0, StateFacts DEF Alive, ListedUnlessShared
  <2> QED
    BY <1>6, <2>1, ConnectionsAssumption DEF StopBegins, Listed
<1>7. ASSUME NEW c \in Conn, CloseOne(c) PROVE StopTakesRest'
  <2>1. conn'[c].st # "open" /\ \A o \in Conn : o # c => conn'[o] = conn[o]
    BY <1>0, <1>7, LostFacts DEF CloseOne, Gone, ConnTypeOK
  <2> QED
    BY <1>0, <1>7, <2>1 DEF CloseOne, StopTakesRest
<1>8. CASE Clear
  BY <1>0, <1>8 DEF Clear, StopTakesRest
<1>9. CASE StopEnds
  <2> SUFFICES ASSUME NEW c \in Conn, conn'[c].st = "open"
               PROVE  c \in shared \cup late /\ conn'[c].dir = "out"
    BY <1>9 DEF StopEnds, StopTakesRest
  <2>1. conn[c].st = "open" /\ Alive(c) /\ conn'[c].dir = conn[c].dir
    BY <1>0, <1>9, StopEndsQuiet DEF Quiet, OnlyClose, Alive
  <2>2. conn[c].dir # "in"
    BY <1>0, <1>9, <2>1, LostFacts DEF StopEnds
  <2> QED
    BY <1>0, <1>9, <2>1, <2>2, StateFacts DEF StopEnds, StopTakesRest
<1>10. CASE Exit
  BY <1>10 DEF Exit, Gone, StopTakesRest
<1> QED
  BY <1>0, <1>1, <1>2, <1>3, <1>4, <1>5, <1>6, <1>7, <1>8, <1>9, <1>10, Steps
  DEF TableStep, StopMoves

-----------------------------------------------------------------------------
(* Theorems *)

THEOREM ConnInvariance == Spec => []ConnInv
<1>1. Init => ConnInv
  <2> SUFFICES ASSUME Init PROVE ConnInv
    OBVIOUS
  <2>1. ConnTypeOK
    BY ActorFacts DEF Init, Discovery!Init, ConnTypeOK, ConnState
  <2>2. EntriesAlive /\ SharedKeys /\ HeldKeys /\ ListedUnlessShared
    BY DEF Init, Gone, EntriesAlive, SharedKeys, HeldKeys, ListedUnlessShared, Alive, HasKey
  <2>3. StopTakesRest
    BY DEF Init, Gone, StopTakesRest
  <2> QED
    BY <2>1, <2>2, <2>3 DEF ConnInv
<1>2. ConnInv /\ [Next]_vars => ConnInv'
  <2> SUFFICES ASSUME ConnInv, [Next]_vars PROVE ConnInv'
    OBVIOUS
  <2>1. Matches' /\ StopTakesRest'
    BY MatchesNext, RestNext
  <2>2. ConnTypeOK'
    BY TypeNext DEF ConnInv
  <2> QED
    BY <2>1, <2>2 DEF Matches, ConnInv
<1> QED
  BY <1>1, <1>2, PTL DEF Spec

\* Every variable has its type (p2p_node.py:43-70).
THEOREM ConnTypeCorrect == Spec => []ConnTypeOK
BY ConnInvariance, PTL DEF ConnInv

\* An entry of active_connections is a connection whose receive loop will
\* still remove it (p2p_node.py:149-162, 179-200, 244).
THEOREM EntriesAlwaysAlive == Spec => []EntriesAlive
BY ConnInvariance, PTL DEF ConnInv

\* An open connection without an entry has met another one under its key or
\* came while stop was at work (p2p_node.py:111-116, 149, 162, 179, 200, 244).
THEOREM AlwaysListedUnlessShared == Spec => []ListedUnlessShared
BY ConnInvariance, PTL DEF ConnInv

\* What stop leaves open is an outbound connection it did not see
\* (p2p_node.py:111-116, 123-125).
THEOREM StopAlwaysClosesListed == Spec => []StopClosesListed
<1>1. ConnInv => StopClosesListed
  BY DEF ConnInv, StopTakesRest, StopClosesListed
<1> QED
  BY <1>1, ConnInvariance, PTL
=============================================================================
