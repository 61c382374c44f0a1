----------------------------- MODULE Transports -----------------------------
(***************************************************************************)
(* The ways in which a node reaches its peers: the relay, the choice of a  *)
(* route, the tunnel, and the resolution and probing of names.  They share *)
(* no state.                                                               *)
(***************************************************************************)
EXTENDS Naturals, Sequences

CONSTANTS Clients, RoomIds, Outside, MaxRooms, MaxClients, QueueCap, Script
VARIABLES rooms, handler, up, queue, writer, net, session, sent, inbox, cast
Relay == INSTANCE RelayRooms
relayVars == <<rooms, handler, up, queue, writer, net, session, sent, inbox, cast>>
RelaySpec == Relay!Init /\ [][Relay!Next]_relayVars

CONSTANTS Ops, MaxTurns, Concurrent
VARIABLES relay_only, routes, peer, quic, direct, tunnelUp, turns, op, last
Conduit == INSTANCE Routes
routeVars == <<relay_only, routes, peer, quic, direct, tunnelUp, turns, op, last>>
RouteSpec == Conduit!Init /\ [][Conduit!Next]_routeVars

CONSTANTS Starters, Stoppers, Procs, NoProc, Overlap
VARIABLES config, tunnel, process, handle, running, spawned, cmd, watch, stopped
Cloudflared == INSTANCE Tunnel
tunnelVars == <<config, tunnel, process, handle, running, spawned, cmd, watch, stopped>>
TunnelSpec == Cloudflared!Init /\ [][Cloudflared!Next]_tunnelVars

CONSTANTS Resolvers, Names, Servers, Zones, Restricted, Providers, Ttl, TurnTtl, MaxTime, MaxCalls
VARIABLES now, zone, dns_cache, turn_sessions, query, ncalls, probed, said
Mesh == INSTANCE MeshResolver WITH Tasks <- Resolvers, task <- query
resolverVars == <<now, zone, dns_cache, turn_sessions, query, ncalls, probed, said>>
MeshSpec == Mesh!Init /\ [][Mesh!Next]_resolverVars

Frames == UNION {{Script[c][i] : i \in DOMAIN Script[c]} : c \in Clients}

\* A client sends the frames of its script; what it sends as data bears its
\* number, and the data is numbered in order.
ASSUME RelayAssumption ==
    /\ Outside \notin RoomIds
    /\ Script \in [Clients -> Seq(Frames)]
    /\ \A c \in Clients :
          /\ Len(Script[c]) > 0
          /\ \A i \in 1..Len(Script[c]) :
                /\ Script[c][i].frame = "join" => Script[c][i].room \in RoomIds
                /\ Script[c][i].frame = "data" => Script[c][i].from = c /\ Script[c][i].n \in Nat
          /\ \A i, j \in 1..Len(Script[c]) :
                /\ i < j /\ Script[c][i].frame = "data" /\ Script[c][j].frame = "data"
                => Script[c][i].n < Script[c][j].n

ASSUME TransportAssumption ==
    /\ MaxTurns \in Nat
    /\ NoProc \notin Procs \cup Starters /\ Starters \cap Stoppers = {}
    /\ {Ttl, TurnTtl} \subseteq Nat

-----------------------------------------------------------------------------
(* A client is registered in exactly the room its handler believes it is   *)
(* in, and receives a frame only from a member of that room, once and in   *)
(* the sender's order (handle_connection, Rooms).                          *)
RoomKept == Relay!RoomKept

(* A relay-only node opens no direct connection, an attempt yields the     *)
(* best usable route, and at rest no peer is left connecting or listed     *)
(* under a direct route it does not have (Conduit).                        *)
RouteHonest == Conduit!RouteHonest

(* At rest an available tunnel has a supervisor, and a stopped one has     *)
(* neither a supervisor nor a way back (TunnelManager).                    *)
TunnelWatched == Cloudflared!TunnelWatched

(* What is told from the DNS cache some server said less than a TTL ago,   *)
(* no task removes what another has just found, no packet goes to a        *)
(* restricted address, and a TURN session goes only when it has run out    *)
(* (Mesh).                                                                 *)
MeshKept == Mesh!MeshKept
=============================================================================
