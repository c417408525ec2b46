--------------------------- MODULE PeerDiscovery ---------------------------
(***************************************************************************)
(* The addresses a node knows (curvetime/network/peer_discovery.py).       *)
(*                                                                         *)
(* As it is written, none of its messages can be built: the factories of   *)
(* Protocol leave out Message's timestamp, which has no default, and raise *)
(* a TypeError.  So no ping is ever sent and nothing waits in here: every  *)
(* operation is one action.                                                *)
(***************************************************************************)
EXTENDS Integers, FiniteSets

CONSTANTS
    Address,   \* "ip:port" of other nodes
    Self,      \* node_id
    MaxPeers   \* max_peers

\* Whoever instantiates this module assumes that Self \notin Address and
\* that MaxPeers \in Nat.

VARIABLE peers  \* the keys of PeerDiscovery.peers

Init == peers = {}

\* _ping_peer: the TypeError of Protocol.ping_msg counts as no answer.
PingPeer(addr) == FALSE

\* _evict_oldest_peer, where the order of last_seen is left open
Evicted(P) == IF P = {} THEN {P} ELSE {P \ {oldest} : oldest \in P}

\* add_peer: the eviction comes before the ping, and the bound spares seeds.
AddPeer(addr, isSeed) ==
    IF addr \in peers \cup {Self}
    THEN UNCHANGED peers
    ELSE \E P \in IF Cardinality(peers) >= MaxPeers /\ ~isSeed
                  THEN Evicted(peers) ELSE {peers} :
            peers' = IF PingPeer(addr) /\ (isSeed \/ Cardinality(P) < MaxPeers)
                     THEN P \cup {addr} ELSE P

\* start: no seed answers its ping, so none is added.  The loops it starts
\* find no peer but the node itself: _ping_loop and _discovery_loop skip it,
\* and _announce_loop ends when it builds its first message.
Start == peers' = {Self}

\* handle_peer_message for PEER_ANNOUNCE and for each of a PEER_LIST
HandleAddress(addr) == AddPeer(addr, FALSE)

\* The other messages: to answer a PING or an empty PEER_LIST raises.
Raises(type) == type \in {"ping", "request"}
=============================================================================
