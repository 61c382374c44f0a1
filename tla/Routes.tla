------------------------------- MODULE Routes -------------------------------
(***************************************************************************)
(* How a node reaches a peer: the capabilities it finds at start-up        *)
(* (synergos-net/src/promotion.rs, synergos-core/src/daemon.rs) and the    *)
(* choice, change and loss of a route (synergos-net/src/conduit/mod.rs).   *)
(*                                                                         *)
(* One peer.  Operations are suspended while they probe or connect.        *)
(***************************************************************************)
EXTENDS Naturals, FiniteSets

CONSTANTS Ops,        \* operations, each issued once
          MaxTurns,   \* bound: changes of the network
          Concurrent  \* may operations overlap?

VARIABLES relay_only,  \* Conduit.force_relay_only
          routes,      \* PeerEndpoint.routes: kinds the peer advertises
          peer,        \* the ManagedPeer
          quic,        \* is there a QUIC connection to the peer?
          direct, tunnelUp,  \* the network: can it be reached that way?
          turns,
          op,          \* where each operation is
          last         \* history: the route chosen last, and what was best

routeVars == <<relay_only, routes, peer, quic, direct, tunnelUp, turns, op, last>>

Kinds == {"Direct", "Tunnel", "Relay"}
Absent == [state |-> "absent", active |-> "none", detection |-> "none"]

-----------------------------------------------------------------------------
(* Promotion                                                               *)

(* detect: a probe that fails or times out counts as no.                   *)
detect(probe, token) ==
    [ipv6   |-> probe.ipv6 = "yes",
     upnp   |-> probe.upnp = "yes",
     tunnel |-> token /\ probe.cloudflared = "yes"]

recommended_mode(caps) ==
    IF caps.ipv6 \/ caps.upnp \/ caps.tunnel THEN "FullNode" ELSE "RelayOnly"

(* Daemon::new                                                             *)
effective_relay_only(force, auto_promote, caps) ==
    force \/ (auto_promote /\ recommended_mode(caps) = "RelayOnly")

Init ==
    /\ \E force, auto, token \in BOOLEAN,
          probe \in [{"ipv6", "upnp", "cloudflared"} -> {"yes", "no", "timeout"}] :
         relay_only = effective_relay_only(force, auto, detect(probe, token))
    /\ routes \in SUBSET Kinds
    /\ peer = Absent /\ quic = FALSE
    /\ direct \in BOOLEAN /\ tunnelUp \in BOOLEAN /\ turns = 0
    /\ op = [o \in Ops |-> [pc |-> "ready", kind |-> "none", from |-> "none", calm |-> TRUE]]
    /\ last = [route |-> "none", best |-> "none", calm |-> FALSE]

Busy == \E o \in Ops : op[o].pc \notin {"ready", "done"}
Begin(o) == op[o].pc = "ready" /\ (Concurrent \/ ~Busy)
Goto(o, pc) == op' = [op EXCEPT ![o].pc = pc]
Start(o, kind, pc) == op' = [op EXCEPT ![o].pc = pc, ![o].kind = kind]
Present == peer.state # "absent"

route_priority(kind) == CASE kind = "Direct" -> 3 [] kind = "Tunnel" -> 2 [] kind = "Relay" -> 1

(* A reference: the best route the peer advertises and the network has.    *)
Usable == {k \in routes : \/ k = "Relay"
                          \/ k = "Direct" /\ direct /\ ~relay_only
                          \/ k = "Tunnel" /\ tunnelUp /\ ~relay_only}
Best == IF Usable = {} THEN "none"
        ELSE CHOOSE k \in Usable : \A l \in Usable : route_priority(l) <= route_priority(k)

-----------------------------------------------------------------------------
(* detect_route, probe_ipv6_route, probe_tunnel_route: a probe that no     *)
(* ICMP message answers counts as reachable, whether or not it is.         *)
detect_route ==
    IF relay_only THEN {"Relay"}
    ELSE {IF reachable THEN "Direct" ELSE IF tunnelUp THEN "Tunnel" ELSE "Relay" :
            reachable \in {r \in BOOLEAN : /\ r => "Direct" \in routes
                                           /\ direct /\ "Direct" \in routes => r}}

register_peer(o) ==
    /\ Begin(o) /\ Start(o, "register", "detect")
    /\ peer' = [state |-> "Discovered", active |-> "none", detection |-> "none"]
    /\ UNCHANGED <<relay_only, routes, quic, direct, tunnelUp, turns, last>>

detected(o) ==
    /\ op[o].pc = "detect" /\ op[o].kind = "register" /\ Goto(o, "done")
    /\ \E r \in detect_route : peer' = IF Present THEN [peer EXCEPT !.detection = r] ELSE peer
    /\ UNCHANGED <<relay_only, routes, quic, direct, tunnelUp, turns, last>>

connect_peer(o) ==
    /\ Begin(o) /\ Present /\ Start(o, "connect", "direct")
    /\ peer' = [peer EXCEPT !.state = "Connecting"]
    /\ UNCHANGED <<relay_only, routes, quic, direct, tunnelUp, turns, last>>

-----------------------------------------------------------------------------
(* try_connect_routes: what becomes of its result.  A migration that fails *)
(* tries once more and ignores what comes of it.                           *)
Settle(o, route) ==
    /\ last' = [route |-> route, best |-> Best, calm |-> op[o].calm]
    /\ IF op[o].kind = "migrate" /\ route = "none"
       THEN op' = [op EXCEPT ![o].kind = "retry", ![o].pc = "direct"] /\ UNCHANGED peer
       ELSE /\ Goto(o, "done")
            /\ peer' = IF ~Present \/ op[o].kind = "retry" THEN peer
                       ELSE IF route = "none" THEN [peer EXCEPT !.state = "Disconnected"]
                       ELSE [peer EXCEPT !.state = route, !.active = route]

(* Mutant: a relay-only node tries the direct route first.                 *)
try_direct_always(o) ==
    /\ op[o].pc = "direct"
    /\ IF "Direct" \in routes /\ direct
       THEN quic' = TRUE /\ Settle(o, "Direct")
       ELSE Goto(o, "tunnel") /\ UNCHANGED <<peer, quic, last>>
    /\ UNCHANGED <<relay_only, routes, direct, tunnelUp, turns>>

try_direct(o) ==
    /\ op[o].pc = "direct"
    /\ IF ~relay_only /\ "Direct" \in routes /\ direct
       THEN quic' = TRUE /\ Settle(o, "Direct")
       ELSE Goto(o, "tunnel") /\ UNCHANGED <<peer, quic, last>>
    /\ UNCHANGED <<relay_only, routes, direct, tunnelUp, turns>>

try_tunnel_or_relay(o) ==
    /\ op[o].pc = "tunnel"
    /\ Settle(o, IF ~relay_only /\ "Tunnel" \in routes /\ tunnelUp THEN "Tunnel"
                 ELSE IF "Relay" \in routes THEN "Relay" ELSE "none")
    /\ UNCHANGED <<relay_only, routes, quic, direct, tunnelUp, turns>>

(* try_migrate_route: nothing without an active route; a better one that   *)
(* the probes find costs the old connection.                               *)
try_migrate_route(o) ==
    /\ Begin(o) /\ Present /\ peer.active # "none"
    /\ op' = [op EXCEPT ![o].pc = "detect", ![o].kind = "migrate", ![o].from = peer.active]
    /\ UNCHANGED <<relay_only, routes, peer, quic, direct, tunnelUp, turns, last>>

migrate(o) ==
    /\ op[o].pc = "detect" /\ op[o].kind = "migrate"
    /\ \E r \in detect_route :
         IF route_priority(r) > route_priority(op[o].from)
         THEN Goto(o, "direct") /\ quic' = FALSE /\ UNCHANGED peer
         ELSE /\ Goto(o, "done") /\ UNCHANGED quic
              /\ peer' = IF Present THEN [peer EXCEPT !.detection = r] ELSE peer
    /\ UNCHANGED <<relay_only, routes, direct, tunnelUp, turns, last>>

(* disconnect_peer, and shutdown for the only peer                         *)
disconnect_peer(o) ==
    /\ Begin(o) /\ quic' = FALSE
    /\ \E kind \in {"disconnect", "shutdown"} : Start(o, kind, "entry")
    /\ UNCHANGED <<relay_only, routes, peer, direct, tunnelUp, turns, last>>

disconnected(o) ==
    /\ op[o].pc = "entry"
    /\ peer' = IF Present THEN [peer EXCEPT !.state = "Disconnected", !.active = "none"] ELSE peer
    /\ Goto(o, IF op[o].kind = "shutdown" THEN "clear" ELSE "done")
    /\ UNCHANGED <<relay_only, routes, quic, direct, tunnelUp, turns, last>>

shutdown_clear(o) ==
    /\ op[o].pc = "clear" /\ Goto(o, "done")
    /\ peer' = Absent
    /\ UNCHANGED <<relay_only, routes, quic, direct, tunnelUp, turns, last>>

unregister_peer(o) ==
    /\ Begin(o) /\ Start(o, "unregister", "done")
    /\ peer' = Absent
    /\ UNCHANGED <<relay_only, routes, quic, direct, tunnelUp, turns, last>>

(* The network changes under the operations.                               *)
Turn ==
    /\ turns < MaxTurns /\ turns' = turns + 1
    /\ \/ direct' = ~direct /\ UNCHANGED <<tunnelUp, quic>>
       \/ tunnelUp' = ~tunnelUp /\ UNCHANGED <<direct, quic>>
       \/ quic /\ quic' = FALSE /\ UNCHANGED <<direct, tunnelUp>>
    /\ op' = [o \in Ops |-> [op[o] EXCEPT !.calm = FALSE]]
    /\ last' = [last EXCEPT !.calm = FALSE]
    /\ UNCHANGED <<relay_only, routes, peer>>

Next ==
    \/ \E o \in Ops : \/ register_peer(o) \/ detected(o) \/ connect_peer(o) \/ try_direct(o)
                      \/ try_tunnel_or_relay(o) \/ try_migrate_route(o) \/ migrate(o)
                      \/ disconnect_peer(o) \/ disconnected(o) \/ shutdown_clear(o)
                      \/ unregister_peer(o)
    \/ Turn

-----------------------------------------------------------------------------
(* A relay-only node never opens a direct connection nor lists a peer      *)
(* under another route.  In a network that stays as it is, an attempt      *)
(* yields the best route the peer advertises.  When no operation is under  *)
(* way no peer is left connecting, and one listed under the direct route   *)
(* has a connection, unless the network changed (Conduit, Daemon::new).    *)
RouteHonest ==
    /\ relay_only => ~quic /\ peer.active \in {"none", "Relay"}
    /\ last.calm => last.route = last.best
    /\ ~Busy => /\ peer.state # "Connecting"
                /\ peer.state = "Direct" /\ turns = 0 => quic
=============================================================================
