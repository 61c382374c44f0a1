-------------------------- MODULE TransportsProofs --------------------------
(***************************************************************************)
(* The transports of a node, for any sets of clients, rooms, commands,     *)
(* processes, names and servers: what the relay passes on, which route an  *)
(* attempt yields, who watches the tunnel, and what the resolver tells.    *)
(***************************************************************************)
EXTENDS Transports, TLAPS

\* Every leaf without a prover of its own is tried with Zenon, then with SMT.
USE ZenonT(5), SMTT(30)

-----------------------------------------------------------------------------
(* The tunnel                                                              *)

StartPc == {"ready", "starting", "spawn", "error", "active", "handle", "done"}
StopPc == {"ready", "kill", "reset", "done"}

TunnelType ==
    /\ config \in [auto_restart : BOOLEAN, simulate : BOOLEAN]
    /\ process \in Procs \cup {NoProc}
    /\ cmd \in [Starters \cup Stoppers -> StartPc \cup StopPc]
    /\ \A c \in Starters : cmd[c] \in StartPc
    /\ \A c \in Stoppers : cmd[c] \in StopPc
    /\ watch \in [Starters -> [pc : {"none", "take", "wait", "sleep"}, child : Procs \cup {NoProc}]]

Working(c) == cmd[c] \notin {"ready", "done"}
Supervises(w) == watch[w].pc # "none"

\* Commands run one after the other.  The only supervisor is the one whose
\* handle is kept, at rest, or the one the start under way has just made;
\* while there is one the tunnel counts as active, and a child is there for
\* it to take.
TunnelInv ==
    /\ \A c, d \in Starters \cup Stoppers : Working(c) /\ Working(d) => c = d
    /\ \A w \in Starters : Supervises(w) =>
         /\ tunnel = "Active"
         /\ \/ cmd[w] = "handle"
            \/ w = handle /\ \A c \in Starters \cup Stoppers : ~Working(c)
    /\ tunnel = "Active" /\ ~config.simulate =>
         \/ \E w \in Starters : Supervises(w)
         \/ \E c \in Stoppers : Working(c)
    /\ ~config.simulate /\ process = NoProc =>
         /\ \A w \in Starters : watch[w].pc # "take"
         /\ \A c \in Starters : cmd[c] # "active"
    /\ stopped => /\ tunnel # "Active"
                  /\ \A c \in Starters : cmd[c] \in {"ready", "starting", "done"}

LEMMA TunnelInit == Cloudflared!Init => TunnelType /\ TunnelInv
  BY DEF Cloudflared!Init, TunnelType, TunnelInv, StartPc, StopPc, Working, Supervises

LEMMA TunnelTypeStep == TunnelType /\ [Cloudflared!Next]_tunnelVars => TunnelType'
<1> SUFFICES ASSUME TunnelType, [Cloudflared!Next]_tunnelVars PROVE TunnelType'
  OBVIOUS
<1> USE DEF TunnelType
<1>0. ASSUME NEW c \in Starters \cup Stoppers, NEW pc, Cloudflared!Goto(c, pc),
             c \in Starters => pc \in StartPc, c \in Stoppers => pc \in StopPc
      PROVE  /\ cmd' \in [Starters \cup Stoppers -> StartPc \cup StopPc]
             /\ \A d \in Starters : cmd'[d] \in StartPc
             /\ \A d \in Stoppers : cmd'[d] \in StopPc
  BY <1>0 DEF Cloudflared!Goto
<1>a. {"ready", "starting", "spawn", "error", "active", "handle", "done"} \subseteq StartPc
  BY DEF StartPc
<1>b. {"ready", "kill", "reset", "done"} \subseteq StopPc
  BY DEF StopPc
<1>c. ASSUME NEW ok, Cloudflared!spawn_cloudflared(ok) PROVE process' \in Procs \cup {NoProc}
  BY <1>c DEF Cloudflared!spawn_cloudflared
<1>1. ASSUME NEW c \in Starters,
             \/ Cloudflared!start(c) \/ Cloudflared!starting(c) \/ Cloudflared!spawn(c)
             \/ Cloudflared!start_failed(c) \/ Cloudflared!activate(c) \/ Cloudflared!keep_handle(c)
      PROVE  TunnelType'
  <2> c \notin Stoppers
    BY TransportAssumption
  <2>1. CASE Cloudflared!start(c)
    BY <1>0, <1>a, <2>1 DEF Cloudflared!start
  <2>2. CASE Cloudflared!starting(c)
    BY <1>0, <1>a, <2>2 DEF Cloudflared!starting
  <2>3. CASE Cloudflared!spawn(c)
    BY <1>0, <1>a, <1>c, <2>3 DEF Cloudflared!spawn
  <2>4. CASE Cloudflared!start_failed(c)
    BY <1>0, <1>a, <2>4 DEF Cloudflared!start_failed
  <2>5. CASE Cloudflared!activate(c)
    BY <1>0, <1>a, <2>5 DEF Cloudflared!activate
  <2>6. CASE Cloudflared!keep_handle(c)
    BY <1>0, <1>a, <2>6 DEF Cloudflared!keep_handle
  <2> HIDE DEF TunnelType
  <2> QED
    BY <1>1, <2>1, <2>2, <2>3, <2>4, <2>5, <2>6
<1>2. ASSUME NEW c \in Starters,
             Cloudflared!take_child(c) \/ Cloudflared!child_exit(c) \/ Cloudflared!respawn(c)
      PROVE  TunnelType'
  <2>1. CASE Cloudflared!take_child(c)
    BY <2>1 DEF Cloudflared!take_child
  <2>2. CASE Cloudflared!child_exit(c)
    BY <2>2 DEF Cloudflared!child_exit
  <2>3. CASE Cloudflared!respawn(c)
    BY <1>c, <2>3 DEF Cloudflared!respawn
  <2> QED
    BY <1>2, <2>1, <2>2, <2>3
<1>3. ASSUME NEW c \in Stoppers, Cloudflared!stop(c) \/ Cloudflared!kill(c) \/ Cloudflared!reset(c)
      PROVE  TunnelType'
  <2> c \notin Starters
    BY TransportAssumption
  <2>1. CASE Cloudflared!stop(c)
    BY <1>0, <1>b, <2>1 DEF Cloudflared!stop
  <2>2. CASE Cloudflared!kill(c)
    BY <1>0, <1>b, <2>2 DEF Cloudflared!kill
  <2>3. CASE Cloudflared!reset(c)
    BY <1>0, <1>b, <2>3 DEF Cloudflared!reset
  <2> QED
    BY <1>3, <2>1, <2>2, <2>3
<1>4. ASSUME NEW p \in Procs, Cloudflared!Exit(p) PROVE TunnelType'
  BY <1>4 DEF Cloudflared!Exit
<1>5. CASE UNCHANGED tunnelVars
  BY <1>5 DEF tunnelVars
<1> HIDE DEF TunnelType
<1> QED
  BY <1>1, <1>2, <1>3, <1>4, <1>5 DEF Cloudflared!Next

LEMMA TunnelInvStep ==
  ASSUME ~Overlap, TunnelType, TunnelInv, [Cloudflared!Next]_tunnelVars
  PROVE  TunnelInv'
<1> USE DEF TunnelType, TunnelInv, Working, Supervises
<1>0. ASSUME NEW c \in Starters \cup Stoppers, Cloudflared!Begin(c)
      PROVE  cmd[c] = "ready" /\ \A d \in Starters \cup Stoppers : ~Working(d)
  BY <1>0 DEF Cloudflared!Begin, Cloudflared!Busy
<1>d. Starters \cap Stoppers = {} /\ NoProc \notin Procs /\ NoProc \notin Starters
  BY TransportAssumption
<1>1. ASSUME NEW c \in Starters, Cloudflared!start(c) PROVE TunnelInv'
  BY <1>0, <1>1 DEF Cloudflared!start, Cloudflared!Goto
<1>2. ASSUME NEW c \in Starters, Cloudflared!starting(c) PROVE TunnelInv'
  BY <1>d, <1>2 DEF Cloudflared!starting, Cloudflared!Goto
<1>3. ASSUME NEW c \in Starters, Cloudflared!spawn(c) PROVE TunnelInv'
  BY <1>d, <1>3 DEF Cloudflared!spawn, Cloudflared!spawn_cloudflared, Cloudflared!Goto
<1>4. ASSUME NEW c \in Starters, Cloudflared!start_failed(c) PROVE TunnelInv'
  BY <1>d, <1>4 DEF Cloudflared!start_failed, Cloudflared!Goto
<1>5. ASSUME NEW c \in Starters, Cloudflared!activate(c) PROVE TunnelInv'
  BY <1>d, <1>5 DEF Cloudflared!activate, Cloudflared!Goto
<1>6. ASSUME NEW c \in Starters, Cloudflared!keep_handle(c) PROVE TunnelInv'
  BY <1>d, <1>6 DEF Cloudflared!keep_handle, Cloudflared!Goto
<1>7. ASSUME NEW c \in Starters, Cloudflared!take_child(c) PROVE TunnelInv'
  BY <1>d, <1>7 DEF Cloudflared!take_child
<1>8. ASSUME NEW c \in Starters, Cloudflared!child_exit(c) PROVE TunnelInv'
  BY <1>d, <1>8 DEF Cloudflared!child_exit
<1>9. ASSUME NEW c \in Starters, Cloudflared!respawn(c) PROVE TunnelInv'
  BY <1>d, <1>9 DEF Cloudflared!respawn, Cloudflared!spawn_cloudflared
<1>10. ASSUME NEW c \in Stoppers, Cloudflared!stop(c) PROVE TunnelInv'
  BY <1>0, <1>d, <1>10 DEF Cloudflared!stop, Cloudflared!Goto
<1>11. ASSUME NEW c \in Stoppers, Cloudflared!kill(c) PROVE TunnelInv'
  BY <1>d, <1>11 DEF Cloudflared!kill, Cloudflared!Goto
<1>12. ASSUME NEW c \in Stoppers, Cloudflared!reset(c) PROVE TunnelInv'
  BY <1>d, <1>12 DEF Cloudflared!reset, Cloudflared!Goto
<1>13. ASSUME NEW p \in Procs, Cloudflared!Exit(p) PROVE TunnelInv'
  BY <1>13 DEF Cloudflared!Exit
<1>14. CASE UNCHANGED tunnelVars
  BY <1>14 DEF tunnelVars
<1> HIDE DEF TunnelType, TunnelInv
<1> QED
  BY <1>1, <1>2, <1>3, <1>4, <1>5, <1>6, <1>7, <1>8, <1>9, <1>10, <1>11, <1>12, <1>13, <1>14
  DEF Cloudflared!Next

(* The supervision of cloudflared (start, stop, supervise), for commands   *)
(* that are issued one after the other: TunnelWatched in every state.      *)
THEOREM TunnelWatchedTheorem == ASSUME ~Overlap PROVE TunnelSpec => []TunnelWatched
<1>1. TunnelType /\ TunnelInv => TunnelWatched
  BY DEF TunnelType, TunnelInv, Working, Supervises, TunnelWatched, Cloudflared!TunnelWatched,
         Cloudflared!Busy, Cloudflared!is_available, Cloudflared!Watched
<1>2. TunnelType /\ TunnelInv /\ [Cloudflared!Next]_tunnelVars => TunnelInv'
  BY TunnelInvStep
<1> QED
  BY <1>1, <1>2, TunnelInit, TunnelTypeStep, PTL DEF TunnelSpec
-----------------------------------------------------------------------------
(* The resolver                                                            *)

Task == [at : {"idle", "doh", "standard", "probe"}, name : Names \cup {""}, provider : Nat,
         addresses : SUBSET UNION Zones, method : {"none", "Cached", "DoH", "Standard"}]

MeshType ==
    /\ now \in Nat /\ zone \in [Names -> Zones]
    /\ dns_cache \in [Names -> [addresses : SUBSET UNION Zones, cached_at : Nat]]
    /\ turn_sessions \in [Servers -> Nat]
    /\ query \in [Resolvers -> Task]
    /\ \A t \in Resolvers : query[t].at \in {"doh", "standard"} => query[t].name \in Names

\* What the cache holds a server has said at the time the entry bears; a
\* session ends at most one lifetime from now.
MeshInv ==
    /\ \A f \in Names : dns_cache[f] # Mesh!None =>
         \E a \in said : /\ a.name = f /\ a.addresses = dns_cache[f].addresses
                         /\ a.time = dns_cache[f].cached_at
    /\ probed \cap Restricted = {}
    /\ \A s \in Servers : turn_sessions[s] <= now + TurnTtl

LEMMA MeshInit == Mesh!Init => MeshType /\ MeshInv
<1> SUFFICES ASSUME Mesh!Init PROVE MeshType /\ MeshInv
  OBVIOUS
<1>1. Mesh!Resting \in Task
  BY DEF Mesh!Resting, Task
<1>2. Mesh!None \in [addresses : SUBSET UNION Zones, cached_at : Nat]
  BY DEF Mesh!None
<1>3. MeshType
  BY <1>1, <1>2 DEF Mesh!Init, Mesh!new, MeshType, Mesh!Resting
<1>4. MeshInv
  BY TransportAssumption DEF Mesh!Init, Mesh!new, MeshInv
<1> QED
  BY <1>3, <1>4

LEMMA MeshTypeStep == MeshType /\ [Mesh!Next]_resolverVars => MeshType'
<1> SUFFICES ASSUME MeshType, [Mesh!Next]_resolverVars PROVE MeshType'
  OBVIOUS
<1> USE DEF MeshType
<1>0. /\ Mesh!Resting \in Task /\ Mesh!Resting.at = "idle"
      /\ \A f \in Names : LET r == [Mesh!Resting EXCEPT !.at = "doh", !.name = f] IN
            r \in Task /\ r.name = f
  BY Zenon DEF Mesh!Resting, Task
<1>a. Mesh!None \in [addresses : SUBSET UNION Zones, cached_at : Nat]
  BY DEF Mesh!None
<1>b. ASSUME NEW t \in Resolvers, NEW r \in Task, query' = [query EXCEPT ![t] = r],
             r.at \in {"doh", "standard"} => r.name \in Names
      PROVE  /\ query' \in [Resolvers -> Task]
             /\ \A u \in Resolvers : query'[u].at \in {"doh", "standard"} => query'[u].name \in Names
  BY <1>b
<1>1. ASSUME NEW t \in Resolvers, NEW f \in Names, Mesh!resolve_fqdn(t, f) PROVE MeshType'
  <2>1. CASE Mesh!Cached(f) /\ Mesh!Fresh(f)
    <3> DEFINE r == [Mesh!Resting EXCEPT !.at = "probe", !.name = f,
                          !.addresses = dns_cache[f].addresses, !.method = "Cached"]
    <3>1. r \in Task /\ r.at = "probe"
      BY DEF Mesh!Resting, Task
    <3>2. query' = [query EXCEPT ![t] = r] /\ UNCHANGED dns_cache
      BY <1>1, <2>1 DEF Mesh!resolve_fqdn
    <3> HIDE DEF r
    <3> QED
      BY <1>1, <3>1, <3>2 DEF Mesh!resolve_fqdn
  <2>2. CASE ~(Mesh!Cached(f) /\ Mesh!Fresh(f))
    <3> DEFINE r == [Mesh!Resting EXCEPT !.at = "doh", !.name = f]
    <3>1. /\ query' = [query EXCEPT ![t] = r]
          /\ dns_cache' = [dns_cache EXCEPT ![f] = Mesh!None]
      BY <1>1, <2>2 DEF Mesh!resolve_fqdn, Mesh!Ask
    <3>2. r \in Task /\ r.name = f
      BY <1>0
    <3> HIDE DEF r
    <3> QED
      BY <1>a, <1>b, <1>1, <3>1, <3>2 DEF Mesh!resolve_fqdn
  <2> QED
    BY <2>1, <2>2
<1>2. ASSUME NEW t \in Resolvers, NEW m \in {"DoH", "Standard"}, query[t].name \in Names,
             Mesh!Found(t, zone[query[t].name], m), UNCHANGED Mesh!rest
      PROVE  MeshType'
  <2> DEFINE z == zone[query[t].name]
             r == [query[t] EXCEPT !.at = "probe", !.addresses = z, !.method = m]
  <2>1. z \in SUBSET UNION Zones
    BY <1>2
  <2>2. r \in Task /\ r.at = "probe"
    BY <2>1, Zenon DEF Task
  <2>3. query' = [query EXCEPT ![t] = r]
    BY <1>2, Zenon DEF Mesh!Found, Mesh!Answer
  <2>4. dns_cache' = [dns_cache EXCEPT ![query[t].name] = [addresses |-> z, cached_at |-> now]]
    BY <1>2 DEF Mesh!Found
  <2> HIDE DEF r, z
  <2>5. query' \in [Resolvers -> Task] /\ \A u \in Resolvers :
          query'[u].at \in {"doh", "standard"} => query'[u].name \in Names
    BY <1>b, <2>2, <2>3
  <2> QED
    BY <1>2, <2>1, <2>4, <2>5 DEF Mesh!rest
<1>3. ASSUME NEW t \in Resolvers, Mesh!resolve_doh(t) PROVE MeshType'
  <2>1. query[t].name \in Names
    BY <1>3 DEF Mesh!resolve_doh, Mesh!At
  <2>2. CASE Mesh!Found(t, zone[query[t].name], "DoH")
    BY <1>2, <1>3, <2>1, <2>2 DEF Mesh!resolve_doh
  <2>3. CASE ~Mesh!Found(t, zone[query[t].name], "DoH")
    <3> DEFINE p == [query[t] EXCEPT !.provider = @ + 1]
               r == [query[t] EXCEPT !.at = "standard"]
    <3>a. p \in Task /\ p.name = query[t].name
      <4>1. query[t] \in Task
        OBVIOUS
      <4> HIDE DEF MeshType
      <4>2. query[t].provider \in Nat
        BY <4>1 DEF Task
      <4>3. query[t].provider + 1 \in Nat
        BY <4>2
      <4> QED
        BY <4>1, <4>3 DEF Task
    <3>1. r \in Task /\ r.name = query[t].name
      BY Zenon DEF Task
    <3>2. query' = [query EXCEPT ![t] = p] \/ query' = [query EXCEPT ![t] = r]
      BY <1>3, <2>3 DEF Mesh!resolve_doh
    <3> HIDE DEF p, r
    <3> QED
      BY <1>b, <1>3, <2>1, <2>3, <3>a, <3>1, <3>2 DEF Mesh!resolve_doh, Mesh!rest
  <2> QED
    BY <2>2, <2>3
<1>4. ASSUME NEW t \in Resolvers, Mesh!resolve_standard(t) PROVE MeshType'
  <2>1. query[t].name \in Names
    BY <1>4 DEF Mesh!resolve_standard, Mesh!At
  <2>2. CASE Mesh!Found(t, zone[query[t].name], "Standard")
    BY <1>2, <1>4, <2>1, <2>2 DEF Mesh!resolve_standard
  <2>3. CASE Mesh!Answer(t, {}, "Standard") /\ UNCHANGED <<dns_cache, said>>
    <3> DEFINE r == [query[t] EXCEPT !.at = "probe", !.addresses = {}, !.method = "Standard"]
    <3>1. r \in Task /\ r.name = query[t].name
      BY Zenon DEF Task
    <3>2. query' = [query EXCEPT ![t] = r]
      BY <2>3, Zenon DEF Mesh!Answer
    <3> HIDE DEF r
    <3> QED
      BY <1>b, <1>4, <2>1, <2>3, <3>1, <3>2 DEF Mesh!resolve_standard, Mesh!rest
  <2>4. CASE query' = [query EXCEPT ![t] = Mesh!Resting] /\ UNCHANGED <<dns_cache, said>>
    BY <1>0, <1>4, <2>4, Zenon DEF Mesh!resolve_standard, Mesh!rest
  <2> QED
    BY <1>4, <2>2, <2>3, <2>4 DEF Mesh!resolve_standard
<1>5. ASSUME NEW t \in Resolvers, Mesh!probe_fqdn(t) PROVE MeshType'
  <2>1. ASSUME NEW a \in query[t].addresses,
               query' = [query EXCEPT ![t].addresses = @ \ {a}, ![t].method = "none"]
        PROVE  MeshType'
    <3> DEFINE r == [query[t] EXCEPT !.addresses = @ \ {a}, !.method = "none"]
    <3>1. r \in Task /\ r.at = query[t].at
      BY Zenon DEF Task
    <3>2. query' = [query EXCEPT ![t] = r]
      BY <2>1, Zenon
    <3>3. query[t].at = "probe"
      BY <1>5 DEF Mesh!probe_fqdn, Mesh!At
    <3> HIDE DEF r
    <3> QED
      BY <1>b, <1>5, <3>1, <3>2, <3>3, Zenon DEF Mesh!probe_fqdn
  <2>2. CASE query' = [query EXCEPT ![t] = Mesh!Resting]
    BY <1>0, <1>5, <2>2, Zenon DEF Mesh!probe_fqdn
  <2> QED
    BY <1>5, <2>1, <2>2, Zenon DEF Mesh!probe_fqdn
<1>6. ASSUME NEW s \in Servers, Mesh!allocate_turn(s) \/ Mesh!refresh_turn(s) PROVE MeshType'
  BY <1>6, TransportAssumption DEF Mesh!allocate_turn, Mesh!refresh_turn
<1>7. CASE Mesh!clear_dns_cache
  BY <1>a, <1>7 DEF Mesh!clear_dns_cache, Mesh!rest
<1>8. CASE Mesh!cleanup_expired_sessions
  BY <1>8 DEF Mesh!cleanup_expired_sessions
<1>9. CASE Mesh!Tick
  BY <1>9 DEF Mesh!Tick
<1>10. CASE UNCHANGED resolverVars
  BY <1>10 DEF resolverVars
<1> HIDE DEF MeshType
<1> QED
  BY <1>1, <1>3, <1>4, <1>5, <1>6, <1>7, <1>8, <1>9, <1>10 DEF Mesh!Next

LEMMA MeshInvStep == MeshType /\ MeshInv /\ [Mesh!Next]_resolverVars => MeshInv'
<1> SUFFICES ASSUME MeshType, MeshInv, [Mesh!Next]_resolverVars PROVE MeshInv'
  OBVIOUS
<1> USE DEF MeshInv
<1>a. /\ now \in Nat /\ turn_sessions \in [Servers -> Nat] /\ DOMAIN dns_cache = Names
      /\ \A t \in Resolvers : query[t].at \in {"doh", "standard"} => query[t].name \in Names
      /\ TurnTtl \in Nat
  BY TransportAssumption DEF MeshType
<1>1. ASSUME NEW t \in Resolvers, NEW f \in Names, Mesh!resolve_fqdn(t, f) PROVE MeshInv'
  BY <1>a, <1>1 DEF Mesh!resolve_fqdn
<1>2. ASSUME NEW t \in Resolvers, NEW z, NEW m, query[t].name \in Names,
             Mesh!Found(t, z, m), UNCHANGED Mesh!rest
      PROVE  MeshInv'
  <2> DEFINE n == query[t].name
             a == [name |-> n, addresses |-> z, time |-> now]
             e == [addresses |-> z, cached_at |-> now]
  <2>1. dns_cache' = [dns_cache EXCEPT ![n] = e] /\ said' = said \cup {a}
    BY <1>2 DEF Mesh!Found
  <2>2. a.name = n /\ a.addresses = e.addresses /\ a.time = e.cached_at
    OBVIOUS
  <2> HIDE DEF a, e, n
  <2>3. ASSUME NEW f \in Names, dns_cache'[f] # Mesh!None
        PROVE  \E b \in said' : /\ b.name = f /\ b.addresses = dns_cache'[f].addresses
                                /\ b.time = dns_cache'[f].cached_at
    BY <1>a, <1>2, <2>1, <2>2, <2>3 DEF n
  <2> QED
    BY <1>2, <2>3 DEF Mesh!rest, Mesh!None
<1>3. ASSUME NEW t \in Resolvers, Mesh!resolve_doh(t) PROVE MeshInv'
  <2>1. query[t].name \in Names
    BY <1>a, <1>3 DEF Mesh!resolve_doh, Mesh!At
  <2>2. CASE UNCHANGED <<dns_cache, said>>
    BY <1>3, <2>2 DEF Mesh!resolve_doh, Mesh!rest
  <2> QED
    BY <1>2, <1>3, <2>1, <2>2 DEF Mesh!resolve_doh
<1>4. ASSUME NEW t \in Resolvers, Mesh!resolve_standard(t) PROVE MeshInv'
  <2>1. query[t].name \in Names
    BY <1>a, <1>4 DEF Mesh!resolve_standard, Mesh!At
  <2>2. CASE UNCHANGED <<dns_cache, said>>
    BY <1>4, <2>2 DEF Mesh!resolve_standard, Mesh!rest
  <2> QED
    BY <1>2, <1>4, <2>1, <2>2 DEF Mesh!resolve_standard
<1>5. ASSUME NEW t \in Resolvers, Mesh!probe_fqdn(t) PROVE MeshInv'
  BY <1>5, Zenon DEF Mesh!probe_fqdn, Mesh!probe_ipv6
<1>6. ASSUME NEW s \in Servers, Mesh!allocate_turn(s) \/ Mesh!refresh_turn(s) PROVE MeshInv'
  BY <1>a, <1>6 DEF Mesh!allocate_turn, Mesh!refresh_turn
<1>7. CASE Mesh!clear_dns_cache
  BY <1>7 DEF Mesh!clear_dns_cache, Mesh!rest
<1>8. CASE Mesh!cleanup_expired_sessions
  BY <1>a, <1>8 DEF Mesh!cleanup_expired_sessions
<1>9. CASE Mesh!Tick
  BY <1>a, <1>9 DEF Mesh!Tick
<1>10. CASE UNCHANGED resolverVars
  BY <1>10 DEF resolverVars
<1> HIDE DEF MeshInv
<1> QED
  BY <1>1, <1>3, <1>4, <1>5, <1>6, <1>7, <1>8, <1>9, <1>10 DEF Mesh!Next

(* The cache, the probes and the sessions of the resolver (resolve_fqdn,   *)
(* probe_ipv6, cleanup_expired_sessions): every step of every behaviour    *)
(* keeps what MeshKept says.                                               *)
THEOREM MeshKeptTheorem == MeshSpec => MeshKept
<1> DEFINE Kept ==
      /\ \A f \in Names : Mesh!Cached(f) /\ ~Mesh!Cached(f)' => ~Mesh!Fresh(f) \/ Mesh!clear_dns_cache
      /\ \A t \in Resolvers : query'[t].method = "Cached" /\ query[t].method # "Cached" =>
           \E a \in said : /\ a.name = query'[t].name /\ a.addresses = query'[t].addresses
                           /\ now - a.time < Ttl
      /\ probed' \cap Restricted = {}
      /\ \A s \in Servers : turn_sessions'[s] < turn_sessions[s] =>
           turn_sessions'[s] = 0 /\ turn_sessions[s] <= now
<1>1. ASSUME MeshType, MeshInv, MeshInv', Mesh!Next PROVE Kept
  <2>a. /\ now \in Nat /\ turn_sessions \in [Servers -> Nat] /\ DOMAIN dns_cache = Names
        /\ query \in [Resolvers -> Task] /\ TurnTtl \in Nat
    BY <1>1, TransportAssumption DEF MeshType
  <2>b. \A u \in Resolvers : DOMAIN query[u] = {"at", "name", "provider", "addresses", "method"}
    BY <2>a DEF Task
  <2>1. probed' \cap Restricted = {}
    BY <1>1 DEF MeshInv
  <2>2. ASSUME NEW t \in Resolvers, NEW f \in Names, Mesh!resolve_fqdn(t, f) PROVE Kept
    <3>1. CASE Mesh!Cached(f) /\ Mesh!Fresh(f)
      <4> DEFINE r == [Mesh!Resting EXCEPT !.at = "probe", !.name = f,
                          !.addresses = dns_cache[f].addresses, !.method = "Cached"]
      <4>1. query' = [query EXCEPT ![t] = r] /\ UNCHANGED dns_cache
        BY <2>2, <3>1 DEF Mesh!resolve_fqdn
      <4>2. r.name = f /\ r.addresses = dns_cache[f].addresses
        BY DEF Mesh!Resting
      <4> HIDE DEF r
      <4>3. PICK a \in said : /\ a.name = f /\ a.addresses = dns_cache[f].addresses
                              /\ a.time = dns_cache[f].cached_at
        BY <1>1, <3>1 DEF MeshInv, Mesh!Cached
      <4>4. now - a.time < Ttl
        BY <3>1, <4>3 DEF Mesh!Fresh
      <4> QED
        BY <2>a, <2>1, <2>2, <4>1, <4>2, <4>3, <4>4 DEF Mesh!resolve_fqdn, Mesh!Cached
    <3>2. CASE ~(Mesh!Cached(f) /\ Mesh!Fresh(f))
      <4> DEFINE r == [Mesh!Resting EXCEPT !.at = "doh", !.name = f]
      <4>1. query' = [query EXCEPT ![t] = r] /\ dns_cache' = [dns_cache EXCEPT ![f] = Mesh!None]
        BY <2>2, <3>2 DEF Mesh!resolve_fqdn, Mesh!Ask
      <4>2. r.method = "none"
        BY DEF Mesh!Resting
      <4> HIDE DEF r
      <4> QED
        BY <2>a, <2>1, <2>2, <3>2, <4>1, <4>2 DEF Mesh!resolve_fqdn, Mesh!Cached
    <3> QED
      BY <3>1, <3>2
  <2>3. ASSUME NEW t \in Resolvers, NEW z, NEW m \in {"DoH", "Standard"}, z # {},
               Mesh!Found(t, z, m), UNCHANGED Mesh!rest
        PROVE  Kept
    <3> DEFINE r == [query[t] EXCEPT !.at = "probe", !.addresses = z, !.method = m]
               e == [addresses |-> z, cached_at |-> now]
    <3>1. /\ query' = [query EXCEPT ![t] = r]
          /\ dns_cache' = [dns_cache EXCEPT ![query[t].name] = e]
      BY <2>3, Zenon DEF Mesh!Found, Mesh!Answer
    <3>2. r.method # "Cached"
      BY <2>b
    <3>3. e # Mesh!None
      BY <2>3 DEF Mesh!None
    <3> HIDE DEF r, e
    <3> QED
      BY <2>a, <2>1, <2>3, <3>1, <3>2, <3>3 DEF Mesh!rest, Mesh!Cached
  <2>4. ASSUME NEW t \in Resolvers, Mesh!resolve_doh(t) PROVE Kept
    <3>1. CASE UNCHANGED dns_cache
      <4> DEFINE p == [query[t] EXCEPT !.provider = @ + 1]
                 r == [query[t] EXCEPT !.at = "standard"]
      <4>1. CASE query' = [query EXCEPT ![t] = p] \/ query' = [query EXCEPT ![t] = r]
        <5>1. p.method = query[t].method /\ r.method = query[t].method
          BY <2>b
        <5> HIDE DEF p, r
        <5> QED
          BY <2>a, <2>1, <2>4, <3>1, <4>1, <5>1 DEF Mesh!resolve_doh, Mesh!rest, Mesh!Cached
      <4> QED
        BY <2>3, <2>4, <4>1 DEF Mesh!resolve_doh
    <3> QED
      BY <2>3, <2>4, <3>1 DEF Mesh!resolve_doh
  <2>5. ASSUME NEW t \in Resolvers, Mesh!resolve_standard(t) PROVE Kept
    <3> DEFINE r == [query[t] EXCEPT !.at = "probe", !.addresses = {}, !.method = "Standard"]
    <3>1. CASE /\ query' = [query EXCEPT ![t] = r] \/ query' = [query EXCEPT ![t] = Mesh!Resting]
               /\ UNCHANGED dns_cache
      <4>1. r.method # "Cached" /\ Mesh!Resting.method # "Cached"
        BY <2>b DEF Mesh!Resting
      <4> HIDE DEF r
      <4> QED
        BY <2>a, <2>1, <2>5, <3>1, <4>1 DEF Mesh!resolve_standard, Mesh!rest, Mesh!Cached
    <3> QED
      BY <2>3, <2>5, <3>1, Zenon DEF Mesh!resolve_standard, Mesh!Answer
  <2>6. ASSUME NEW t \in Resolvers, Mesh!probe_fqdn(t) PROVE Kept
    <3>1. PICK a : query' = [query EXCEPT ![t] = [query[t] EXCEPT !.addresses = @ \ {a}, !.method = "none"]]
                   \/ query' = [query EXCEPT ![t] = Mesh!Resting]
      BY <2>6, Zenon DEF Mesh!probe_fqdn
    <3> DEFINE r == [query[t] EXCEPT !.addresses = @ \ {a}, !.method = "none"]
    <3>2. r.method # "Cached" /\ Mesh!Resting.method # "Cached"
      BY <2>b DEF Mesh!Resting
    <3>3. query' = [query EXCEPT ![t] = r] \/ query' = [query EXCEPT ![t] = Mesh!Resting]
      BY <3>1
    <3> HIDE DEF r
    <3> QED
      BY <2>a, <2>1, <2>6, <3>2, <3>3 DEF Mesh!probe_fqdn, Mesh!Cached
  <2>7. ASSUME NEW s \in Servers, Mesh!allocate_turn(s) \/ Mesh!refresh_turn(s) PROVE Kept
    BY <1>1, <2>a, <2>1, <2>7 DEF Mesh!allocate_turn, Mesh!refresh_turn, Mesh!Cached, MeshInv
  <2>8. CASE Mesh!clear_dns_cache
    BY <2>a, <2>1, <2>8 DEF Mesh!clear_dns_cache, Mesh!rest
  <2>9. CASE Mesh!cleanup_expired_sessions
    BY <2>a, <2>1, <2>9 DEF Mesh!cleanup_expired_sessions, Mesh!Cached
  <2>10. CASE Mesh!Tick
    BY <2>a, <2>1, <2>10 DEF Mesh!Tick, Mesh!Cached
  <2> HIDE DEF Kept
  <2> QED
    BY <1>1, <2>2, <2>4, <2>5, <2>6, <2>7, <2>8, <2>9, <2>10 DEF Mesh!Next
<1>2. MeshKept <=> [][Kept]_Mesh!meshVars
  BY DEF MeshKept, Mesh!MeshKept
<1> HIDE DEF Kept
<1>3. MeshType /\ MeshInv /\ MeshInv' /\ [Mesh!Next]_resolverVars => [Kept]_Mesh!meshVars
  BY <1>1 DEF Mesh!meshVars, resolverVars
<1> QED
  BY <1>2, <1>3, MeshInit, MeshTypeStep, MeshInvStep, PTL DEF MeshSpec

-----------------------------------------------------------------------------
(* The routes                                                              *)

OpPc == {"ready", "detect", "direct", "tunnel", "entry", "clear", "done"}
OpKind == {"none", "register", "connect", "migrate", "retry", "disconnect", "shutdown", "unregister"}
Route == Conduit!Kinds \cup {"none"}
Peer == [state : Conduit!Kinds \cup {"absent", "Discovered", "Connecting", "Disconnected"},
         active : Route, detection : Route]
Operation == [pc : OpPc, kind : OpKind, from : Route, calm : BOOLEAN]
Attempt == [route : Route, best : Route, calm : BOOLEAN]

RouteType ==
    /\ {relay_only, quic, direct, tunnelUp} \subseteq BOOLEAN
    /\ routes \subseteq Conduit!Kinds /\ turns \in Nat
    /\ peer \in Peer
    /\ op \in [Ops -> Operation]
    /\ last \in Attempt

OnWay(o) == op[o].pc \notin {"ready", "done"}
DirectUsable == ~relay_only /\ "Direct" \in routes /\ direct

\* Operations run one after the other.  An attempt that has passed over the
\* direct route in an unchanged network did so because it is not usable; a
\* peer is connecting only while an operation connects it; a peer listed
\* under the direct route has it, until a disconnection under way takes it;
\* a migration knows the route it wants to improve on.
RouteInv ==
    /\ relay_only => ~quic /\ peer.active \in {"none", "Relay"}
    /\ last.calm => last.route = last.best
    /\ \A o \in Ops : op[o].pc = "tunnel" /\ op[o].calm => ~DirectUsable
    /\ \A o, u \in Ops : OnWay(o) /\ OnWay(u) => o = u
    /\ peer.state = "Connecting" =>
         \E o \in Ops : op[o].kind = "connect" /\ op[o].pc \in {"direct", "tunnel"}
    /\ peer.state = "Direct" => peer.active = "Direct"
    /\ peer.state = "Direct" /\ turns = 0 => quic \/ \E o \in Ops : op[o].pc = "entry"
    /\ \A o \in Ops : op[o].pc = "detect" /\ op[o].kind = "migrate" => op[o].from = peer.active

LEMMA RouteInit == Conduit!Init => RouteType /\ RouteInv
<1> SUFFICES ASSUME Conduit!Init PROVE RouteType /\ RouteInv
  OBVIOUS
<1>1. relay_only \in BOOLEAN
  BY DEF Conduit!Init, Conduit!effective_relay_only
<1>2. RouteType
  BY <1>1, Zenon DEF Conduit!Init, Conduit!Absent, Conduit!Kinds, RouteType, Route, OpPc, OpKind,
         Peer, Operation, Attempt
<1>3. RouteInv
  BY DEF Conduit!Init, Conduit!Absent, RouteInv, OnWay
<1> QED
  BY <1>2, <1>3

\* The best usable route is the one that comes before all others.
LEMMA BestRoute ==
  ASSUME routes \subseteq Conduit!Kinds, NEW k \in Conduit!Usable,
         \A l \in Conduit!Usable : l # k => Conduit!route_priority(l) < Conduit!route_priority(k)
  PROVE  Conduit!Best = k
<1>1. \A l \in Conduit!Usable : Conduit!route_priority(l) \in Nat
  BY DEF Conduit!Usable, Conduit!Kinds, Conduit!route_priority
<1>2. \A l \in Conduit!Usable : Conduit!route_priority(l) <= Conduit!route_priority(k)
  BY <1>1
<1>3. ASSUME NEW j \in Conduit!Usable,
             \A l \in Conduit!Usable : Conduit!route_priority(l) <= Conduit!route_priority(j)
      PROVE  j = k
  BY <1>1, <1>3
<1> HIDE DEF Conduit!Usable, Conduit!route_priority
<1> QED
  BY <1>2, <1>3 DEF Conduit!Best

LEMMA RoutesFound ==
  ASSUME RouteType PROVE Conduit!detect_route \subseteq Conduit!Kinds /\ Conduit!Best \in Route
<1>1. Conduit!detect_route \subseteq Conduit!Kinds
  BY DEF Conduit!detect_route, Conduit!Kinds
<1>2. Conduit!Usable \subseteq Conduit!Kinds
  BY DEF Conduit!Usable, RouteType
<1>3. Conduit!Best \in Route
  <2>1. CASE "Direct" \in Conduit!Usable
    BY <1>2, <2>1, BestRoute DEF RouteType, Conduit!Kinds, Conduit!route_priority, Route
  <2>2. CASE "Direct" \notin Conduit!Usable /\ "Tunnel" \in Conduit!Usable
    BY <1>2, <2>2, BestRoute DEF RouteType, Conduit!Kinds, Conduit!route_priority, Route
  <2>3. CASE Conduit!Usable = {"Relay"}
    BY <1>2, <2>3, BestRoute DEF RouteType, Conduit!Kinds, Conduit!route_priority, Route
  <2>4. CASE Conduit!Usable = {}
    BY <2>4 DEF Conduit!Best, Route
  <2> QED
    BY <1>2, <2>1, <2>2, <2>3, <2>4, Zenon DEF Conduit!Kinds
<1> QED
  BY <1>1, <1>3

\* What comes of an attempt that ends with a route.
LEMMA SettleType ==
  ASSUME RouteType, NEW o \in Ops, NEW r \in Route, Conduit!Settle(o, r)
  PROVE  /\ peer' \in Peer
         /\ op' \in [Ops -> Operation]
         /\ last' \in Attempt
<1>1. last' \in Attempt
  BY RoutesFound DEF Conduit!Settle, RouteType, Attempt, Operation
<1>2. op' \in [Ops -> Operation]
  BY DEF Conduit!Settle, Conduit!Goto, RouteType, OpPc, OpKind, Operation
<1>3. peer' \in Peer
  BY Zenon DEF Conduit!Settle, RouteType, Route, Peer
<1> QED
  BY <1>1, <1>2, <1>3

LEMMA RouteTypeStep == RouteType /\ [Conduit!Next]_routeVars => RouteType'
<1> SUFFICES ASSUME RouteType, [Conduit!Next]_routeVars PROVE RouteType'
  OBVIOUS
<1> USE DEF RouteType
<1>a. ASSUME NEW o \in Ops, NEW pc \in OpPc, Conduit!Goto(o, pc)
      PROVE  op' \in [Ops -> Operation]
  BY <1>a DEF Conduit!Goto, Operation
<1>b. ASSUME NEW o \in Ops, NEW pc \in OpPc, NEW kind \in OpKind, Conduit!Start(o, kind, pc)
      PROVE  op' \in [Ops -> Operation]
  <2> DEFINE r == [op[o] EXCEPT !.pc = pc, !.kind = kind]
  <2>1. r \in Operation
    BY Zenon DEF Operation
  <2>2. op' = [op EXCEPT ![o] = r]
    BY <1>b, Zenon DEF Conduit!Start
  <2> HIDE DEF r
  <2> QED
    BY <2>1, <2>2
<1>c. {"ready", "detect", "direct", "tunnel", "entry", "clear", "done"} \subseteq OpPc
  BY DEF OpPc
<1>d. {"register", "connect", "migrate", "disconnect", "shutdown", "unregister"} \subseteq OpKind
  BY DEF OpKind
<1>e. Conduit!detect_route \subseteq Route
  BY RoutesFound DEF Route
<1>f. Conduit!Absent \in Peer
  BY DEF Conduit!Absent, Route, Peer
<1>1. ASSUME NEW o \in Ops, Conduit!register_peer(o) PROVE RouteType'
  BY <1>b, <1>c, <1>d, <1>1 DEF Conduit!register_peer, Route, Peer
<1>2. ASSUME NEW o \in Ops, Conduit!detected(o) PROVE RouteType'
  BY <1>a, <1>c, <1>e, <1>2 DEF Conduit!detected, Peer
<1>3. ASSUME NEW o \in Ops, Conduit!connect_peer(o) PROVE RouteType'
  BY <1>b, <1>c, <1>d, <1>3 DEF Conduit!connect_peer, Peer
<1>4. ASSUME NEW o \in Ops, Conduit!try_direct(o) PROVE RouteType'
  <2>1. CASE ~relay_only /\ "Direct" \in routes /\ direct
    <3>1. Conduit!Settle(o, "Direct") /\ "Direct" \in Route
      BY <1>4, <2>1 DEF Conduit!try_direct, Route, Conduit!Kinds
    <3> QED
      BY <1>4, <2>1, <3>1, SettleType DEF Conduit!try_direct
  <2>2. CASE ~(~relay_only /\ "Direct" \in routes /\ direct)
    BY <1>a, <1>c, <1>4, <2>2 DEF Conduit!try_direct
  <2> QED
    BY <2>1, <2>2
<1>5. ASSUME NEW o \in Ops, Conduit!try_tunnel_or_relay(o) PROVE RouteType'
  <2>1. PICK r \in Route : Conduit!Settle(o, r)
    BY <1>5 DEF Conduit!try_tunnel_or_relay, Route, Conduit!Kinds
  <2> QED
    BY <1>5, <2>1, SettleType DEF Conduit!try_tunnel_or_relay
<1>6. ASSUME NEW o \in Ops, Conduit!try_migrate_route(o) PROVE RouteType'
  <2> DEFINE r == [op[o] EXCEPT !.pc = "detect", !.kind = "migrate", !.from = peer.active]
  <2>1. r \in Operation
    <3>1. op[o] \in Operation /\ peer.active \in Route
      BY DEF Peer
    <3> HIDE DEF RouteType
    <3> QED
      BY <1>c, <1>d, <3>1, Zenon DEF Operation
  <2>2. op' = [op EXCEPT ![o] = r]
    BY <1>6, Zenon DEF Conduit!try_migrate_route
  <2> HIDE DEF r
  <2> QED
    BY <1>6, <2>1, <2>2, Zenon DEF Conduit!try_migrate_route
<1>7. ASSUME NEW o \in Ops, Conduit!migrate(o) PROVE RouteType'
  BY <1>a, <1>c, <1>e, <1>7, Zenon DEF Conduit!migrate, Peer
<1>8. ASSUME NEW o \in Ops, Conduit!disconnect_peer(o) PROVE RouteType'
  BY <1>b, <1>c, <1>d, <1>8, Zenon DEF Conduit!disconnect_peer
<1>9. ASSUME NEW o \in Ops, Conduit!disconnected(o) PROVE RouteType'
  BY <1>a, <1>c, <1>9, Zenon DEF Conduit!disconnected, Route, Peer
<1>10. ASSUME NEW o \in Ops, Conduit!shutdown_clear(o) PROVE RouteType'
  BY <1>a, <1>c, <1>f, <1>10 DEF Conduit!shutdown_clear
<1>11. ASSUME NEW o \in Ops, Conduit!unregister_peer(o) PROVE RouteType'
  BY <1>b, <1>c, <1>d, <1>f, <1>11 DEF Conduit!unregister_peer
<1>12. CASE Conduit!Turn
  <2>1. op' \in [Ops -> Operation]
    BY <1>12, Zenon DEF Conduit!Turn, Operation
  <2>2. last' \in Attempt
    BY <1>12, Zenon DEF Conduit!Turn, Attempt
  <2>3. direct' \in BOOLEAN /\ tunnelUp' \in BOOLEAN /\ quic' \in BOOLEAN
    BY <1>12, Zenon DEF Conduit!Turn
  <2>4. turns' \in Nat
    BY <1>12 DEF Conduit!Turn
  <2> QED
    BY <1>12, <2>1, <2>2, <2>3, <2>4 DEF Conduit!Turn
<1>13. CASE UNCHANGED routeVars
  BY <1>13 DEF routeVars
<1> HIDE DEF RouteType
<1> QED
  BY <1>1, <1>2, <1>3, <1>4, <1>5, <1>6, <1>7, <1>8, <1>9, <1>10, <1>11, <1>12, <1>13
  DEF Conduit!Next

\* Operation o comes to pc, as an operation of the given kind and origin.
Moves(o, pc, kind, from) ==
    \A u \in Ops : /\ op'[u].pc = IF u = o THEN pc ELSE op[u].pc
                   /\ op'[u].kind = IF u = o THEN kind ELSE op[u].kind
                   /\ op'[u].from = IF u = o THEN from ELSE op[u].from
                   /\ op'[u].calm = op[u].calm

LEMMA OpMoves ==
  ASSUME RouteType, NEW o \in Ops, NEW pc
  PROVE  /\ Conduit!Goto(o, pc) => Moves(o, pc, op[o].kind, op[o].from)
         /\ \A kind : Conduit!Start(o, kind, pc) => Moves(o, pc, kind, op[o].from)
         /\ \A kind, from : op' = [op EXCEPT ![o].pc = pc, ![o].kind = kind, ![o].from = from]
                            => Moves(o, pc, kind, from)
<1>1. \A u \in Ops : DOMAIN op[u] = {"pc", "kind", "from", "calm"} /\ DOMAIN op = Ops
  BY DEF RouteType, Operation
<1>2. Conduit!Goto(o, pc) => Moves(o, pc, op[o].kind, op[o].from)
  BY <1>1 DEF Conduit!Goto, Moves
<1>3. ASSUME NEW kind, Conduit!Start(o, kind, pc) PROVE Moves(o, pc, kind, op[o].from)
  BY <1>1, <1>3 DEF Conduit!Start, Moves
<1>4. ASSUME NEW kind, NEW from,
             op' = [op EXCEPT ![o].pc = pc, ![o].kind = kind, ![o].from = from]
      PROVE  Moves(o, pc, kind, from)
  BY <1>1, <1>4 DEF Moves
<1> QED
  BY <1>2, <1>3, <1>4, Zenon

\* What an attempt leaves behind.
LEMMA SettleEffect ==
  ASSUME RouteType, NEW o \in Ops, NEW r \in Route, Conduit!Settle(o, r)
  PROVE  /\ last'.calm => op[o].calm
         /\ last'.route = r /\ last'.best = Conduit!Best
         /\ \/ Moves(o, "direct", "retry", op[o].from) /\ UNCHANGED peer /\ op[o].kind = "migrate"
            \/ /\ Moves(o, "done", op[o].kind, op[o].from)
               /\ \/ UNCHANGED peer /\ (op[o].kind = "retry" \/ peer.state = "absent")
                  \/ r = "none" /\ peer'.state = "Disconnected" /\ peer'.active = peer.active
                  \/ r # "none" /\ peer'.state = r /\ peer'.active = r
<1>1. last'.calm = op[o].calm /\ last'.route = r /\ last'.best = Conduit!Best
  BY DEF Conduit!Settle
<1>2. DOMAIN peer = {"state", "active", "detection"}
  BY DEF RouteType, Peer
<1>3. CASE op[o].kind = "migrate" /\ r = "none"
  <2>1. op' = [op EXCEPT ![o].kind = "retry", ![o].pc = "direct"] /\ UNCHANGED peer
    BY <1>3 DEF Conduit!Settle
  <2>2. \A u \in Ops : DOMAIN op[u] = {"pc", "kind", "from", "calm"} /\ DOMAIN op = Ops
    BY DEF RouteType, Operation
  <2>3. Moves(o, "direct", "retry", op[o].from)
    BY <2>1, <2>2 DEF Moves
  <2> QED
    BY <1>1, <1>3, <2>1, <2>3
<1>4. CASE ~(op[o].kind = "migrate" /\ r = "none")
  <2>1. Conduit!Goto(o, "done")
    BY <1>4 DEF Conduit!Settle
  <2>2. Moves(o, "done", op[o].kind, op[o].from)
    BY <2>1, OpMoves, Zenon
  <2>3. \/ UNCHANGED peer /\ (op[o].kind = "retry" \/ peer.state = "absent")
        \/ r = "none" /\ peer'.state = "Disconnected" /\ peer'.active = peer.active
        \/ r # "none" /\ peer'.state = r /\ peer'.active = r
    BY <1>2, <1>4, Zenon DEF Conduit!Settle, Conduit!Present
  <2> QED
    BY <1>1, <2>2, <2>3
<1> QED
  BY <1>3, <1>4

LEMMA RouteInvStep ==
  ASSUME ~Concurrent, RouteType, RouteInv, [Conduit!Next]_routeVars
  PROVE  RouteInv'
<1> USE DEF RouteInv, OnWay, DirectUsable
<1>a. ASSUME NEW o \in Ops, Conduit!Begin(o)
      PROVE  op[o].pc = "ready" /\ \A u \in Ops : ~OnWay(u)
  BY <1>a DEF Conduit!Begin, Conduit!Busy
<1>b. DOMAIN peer = {"state", "active", "detection"} /\ peer.active \in Route
  BY DEF RouteType, Peer
<1>c. Conduit!detect_route \subseteq Conduit!Kinds
  BY RoutesFound
<1>1. ASSUME NEW o \in Ops, Conduit!register_peer(o) PROVE RouteInv'
  <2>1. Moves(o, "detect", "register", op[o].from)
    BY <1>1, OpMoves, Zenon DEF Conduit!register_peer
  <2> QED
    BY <1>a, <1>1, <2>1 DEF Conduit!register_peer, Moves
<1>2. ASSUME NEW o \in Ops, Conduit!detected(o) PROVE RouteInv'
  <2>1. Moves(o, "done", op[o].kind, op[o].from)
    BY <1>2, OpMoves, Zenon DEF Conduit!detected
  <2>2. peer'.state = peer.state /\ peer'.active = peer.active
    BY <1>b, <1>2 DEF Conduit!detected
  <2> QED
    BY <1>2, <2>1, <2>2 DEF Conduit!detected, Moves
<1>3. ASSUME NEW o \in Ops, Conduit!connect_peer(o) PROVE RouteInv'
  <2>1. Moves(o, "direct", "connect", op[o].from)
    BY <1>3, OpMoves, Zenon DEF Conduit!connect_peer
  <2>2. peer'.state = "Connecting" /\ peer'.active = peer.active
    BY <1>b, <1>3 DEF Conduit!connect_peer
  <2> QED
    BY <1>a, <1>3, <2>1, <2>2 DEF Conduit!connect_peer, Moves
<1>4. ASSUME NEW o \in Ops, Conduit!try_direct(o) PROVE RouteInv'
  <2>1. CASE DirectUsable
    <3>1. Conduit!Settle(o, "Direct") /\ "Direct" \in Route /\ quic'
      BY <1>4, <2>1 DEF Conduit!try_direct, Route, Conduit!Kinds
    <3>2. Conduit!Best = "Direct"
      <4>1. "Direct" \in Conduit!Usable /\ Conduit!Usable \subseteq Conduit!Kinds
        BY <2>1 DEF Conduit!Usable, RouteType
      <4> QED
        BY <4>1, BestRoute DEF RouteType, Conduit!Kinds, Conduit!route_priority
    <3> QED
      BY <1>4, <2>1, <3>1, <3>2, SettleEffect DEF Conduit!try_direct, Moves
  <2>2. CASE ~DirectUsable
    <3>1. Moves(o, "tunnel", op[o].kind, op[o].from)
      BY <1>4, <2>2, OpMoves, Zenon DEF Conduit!try_direct
    <3> QED
      BY <1>4, <2>2, <3>1 DEF Conduit!try_direct, Moves
  <2> QED
    BY <2>1, <2>2
<1>5. ASSUME NEW o \in Ops, Conduit!try_tunnel_or_relay(o) PROVE RouteInv'
  <2> DEFINE r == IF ~relay_only /\ "Tunnel" \in routes /\ tunnelUp THEN "Tunnel"
                  ELSE IF "Relay" \in routes THEN "Relay" ELSE "none"
  <2>1. Conduit!Settle(o, r) /\ r \in Route \ {"Direct"} /\ (relay_only => r \in {"none", "Relay"})
    BY <1>5 DEF Conduit!try_tunnel_or_relay, Route, Conduit!Kinds
  <2>2. ~DirectUsable => r = Conduit!Best
    <3>1. ~DirectUsable => "Direct" \notin Conduit!Usable
      BY DEF Conduit!Usable
    <3>2. Conduit!Usable \subseteq Conduit!Kinds
      BY DEF Conduit!Usable, RouteType
    <3>3. CASE "Direct" \notin Conduit!Usable /\ "Tunnel" \in Conduit!Usable
      <4>1. Conduit!Best = "Tunnel"
        BY <3>2, <3>3, BestRoute DEF RouteType, Conduit!Kinds, Conduit!route_priority
      <4> QED
        BY <3>3, <4>1 DEF Conduit!Usable
    <3>4. CASE Conduit!Usable = {"Relay"}
      <4>1. Conduit!Best = "Relay"
        BY <3>4, BestRoute DEF RouteType
      <4> QED
        BY <3>4, <4>1 DEF Conduit!Usable
    <3>5. CASE Conduit!Usable = {}
      BY <3>5 DEF Conduit!Usable, Conduit!Best
    <3> QED
      BY <3>1, <3>2, <3>3, <3>4, <3>5, Zenon DEF Conduit!Kinds
  <2>3. op[o].pc = "tunnel" /\ UNCHANGED <<relay_only, routes, quic, direct, tunnelUp, turns>>
    BY <1>5 DEF Conduit!try_tunnel_or_relay
  <2> HIDE DEF r
  <2>4. /\ last'.calm => op[o].calm
        /\ last'.route = r /\ last'.best = Conduit!Best
        /\ \/ Moves(o, "direct", "retry", op[o].from) /\ UNCHANGED peer /\ op[o].kind = "migrate"
           \/ /\ Moves(o, "done", op[o].kind, op[o].from)
              /\ \/ UNCHANGED peer /\ (op[o].kind = "retry" \/ peer.state = "absent")
                 \/ r = "none" /\ peer'.state = "Disconnected" /\ peer'.active = peer.active
                 \/ r # "none" /\ peer'.state = r /\ peer'.active = r
    BY <2>1, SettleEffect
  <2>5. last'.calm => last'.route = last'.best
    BY <2>2, <2>3, <2>4
  <2>6. CASE Moves(o, "direct", "retry", op[o].from) /\ UNCHANGED peer /\ op[o].kind = "migrate"
    BY <2>3, <2>5, <2>6 DEF Moves
  <2>7. CASE /\ Moves(o, "done", op[o].kind, op[o].from)
             /\ UNCHANGED peer /\ (op[o].kind = "retry" \/ peer.state = "absent")
    BY <2>3, <2>5, <2>7 DEF Moves
  <2>8. CASE /\ Moves(o, "done", op[o].kind, op[o].from)
             /\ \/ r = "none" /\ peer'.state = "Disconnected" /\ peer'.active = peer.active
                \/ r # "none" /\ peer'.state = r /\ peer'.active = r
    BY <2>1, <2>3, <2>5, <2>8 DEF Moves, Route, Conduit!Kinds
  <2> QED
    BY <2>4, <2>6, <2>7, <2>8
<1>6. ASSUME NEW o \in Ops, Conduit!try_migrate_route(o) PROVE RouteInv'
  <2>1. Moves(o, "detect", "migrate", peer.active)
    BY <1>6, OpMoves, Zenon DEF Conduit!try_migrate_route
  <2>2. /\ op[o].pc = "ready" /\ \A u \in Ops : ~OnWay(u)
        /\ UNCHANGED <<relay_only, routes, peer, quic, direct, tunnelUp, turns, last>>
    BY <1>a, <1>6 DEF Conduit!try_migrate_route
  <2> QED
    BY <2>1, <2>2 DEF Moves
<1>7. ASSUME NEW o \in Ops, Conduit!migrate(o) PROVE RouteInv'
  <2>0. PICK r \in Conduit!detect_route :
          IF Conduit!route_priority(r) > Conduit!route_priority(op[o].from)
          THEN Conduit!Goto(o, "direct") /\ quic' = FALSE /\ UNCHANGED peer
          ELSE /\ Conduit!Goto(o, "done") /\ UNCHANGED quic
               /\ peer' = IF Conduit!Present THEN [peer EXCEPT !.detection = r] ELSE peer
    BY <1>7 DEF Conduit!migrate
  <2>1. CASE Conduit!route_priority(r) > Conduit!route_priority(op[o].from)
    <3>1. Moves(o, "direct", op[o].kind, op[o].from) /\ quic' = FALSE /\ UNCHANGED peer
      BY <2>0, <2>1, OpMoves, Zenon
    <3>2. op[o].from # "Direct"
      BY <1>c, <2>1 DEF Conduit!Kinds, Conduit!route_priority
    <3> QED
      BY <1>7, <3>1, <3>2 DEF Conduit!migrate, Moves
  <2>2. CASE ~(Conduit!route_priority(r) > Conduit!route_priority(op[o].from))
    <3>1. Moves(o, "done", op[o].kind, op[o].from) /\ UNCHANGED quic
      BY <2>0, <2>2, OpMoves, Zenon
    <3>2. peer'.state = peer.state /\ peer'.active = peer.active
      BY <1>b, <2>0, <2>2
    <3> QED
      BY <1>7, <3>1, <3>2 DEF Conduit!migrate, Moves
  <2> QED
    BY <2>1, <2>2
<1>8. ASSUME NEW o \in Ops, Conduit!disconnect_peer(o) PROVE RouteInv'
  <2>1. PICK kind \in {"disconnect", "shutdown"} : Moves(o, "entry", kind, op[o].from)
    BY <1>8, OpMoves, Zenon DEF Conduit!disconnect_peer
  <2> QED
    BY <1>a, <1>8, <2>1 DEF Conduit!disconnect_peer, Moves
<1>9. ASSUME NEW o \in Ops, Conduit!disconnected(o) PROVE RouteInv'
  <2>1. PICK pc \in {"clear", "done"} : Moves(o, pc, op[o].kind, op[o].from)
    BY <1>9, OpMoves, Zenon DEF Conduit!disconnected
  <2>2. \/ UNCHANGED peer /\ peer.state = "absent"
        \/ peer'.state = "Disconnected" /\ peer'.active = "none"
    BY <1>b, <1>9 DEF Conduit!disconnected, Conduit!Present
  <2> QED
    BY <1>9, <2>1, <2>2 DEF Conduit!disconnected, Moves
<1>10. ASSUME NEW o \in Ops, Conduit!shutdown_clear(o) PROVE RouteInv'
  <2>1. Moves(o, "done", op[o].kind, op[o].from)
    BY <1>10, OpMoves, Zenon DEF Conduit!shutdown_clear
  <2> QED
    BY <1>10, <2>1 DEF Conduit!shutdown_clear, Conduit!Absent, Moves
<1>11. ASSUME NEW o \in Ops, Conduit!unregister_peer(o) PROVE RouteInv'
  <2>1. Moves(o, "done", "unregister", op[o].from)
    BY <1>11, OpMoves, Zenon DEF Conduit!unregister_peer
  <2> QED
    BY <1>a, <1>11, <2>1 DEF Conduit!unregister_peer, Conduit!Absent, Moves
<1>12. CASE Conduit!Turn
  <2>1. /\ \A u \in Ops : /\ op'[u].pc = op[u].pc /\ op'[u].kind = op[u].kind
                          /\ op'[u].from = op[u].from /\ op'[u].calm = FALSE
        /\ last'.calm = FALSE /\ turns' # 0
    BY <1>12 DEF Conduit!Turn, RouteType, Operation, Attempt
  <2>2. relay_only' = relay_only /\ routes' = routes /\ peer' = peer
    BY <1>12 DEF Conduit!Turn
  <2>3. quic' = quic \/ quic' = FALSE
    BY <1>12 DEF Conduit!Turn
  <2> QED
    BY <2>1, <2>2, <2>3
<1>13. CASE UNCHANGED routeVars
  BY <1>13 DEF routeVars
<1> HIDE DEF RouteInv
<1> QED
  BY <1>1, <1>2, <1>3, <1>4, <1>5, <1>6, <1>7, <1>8, <1>9, <1>10, <1>11, <1>12, <1>13
  DEF Conduit!Next

(* The choice, change and loss of a route (Conduit), for operations on the *)
(* peer that are issued one after the other: RouteHonest in every state,   *)
(* whatever the peer advertises and however the network changes.           *)
THEOREM RouteHonestTheorem == ASSUME ~Concurrent PROVE RouteSpec => []RouteHonest
<1>1. RouteType /\ RouteInv => RouteHonest
  BY DEF RouteInv, OnWay, RouteHonest, Conduit!RouteHonest, Conduit!Busy
<1>2. RouteType /\ RouteInv /\ [Conduit!Next]_routeVars => RouteInv'
  BY RouteInvStep
<1> QED
  BY <1>1, <1>2, RouteInit, RouteTypeStep, PTL DEF RouteSpec
-----------------------------------------------------------------------------
(* The relay                                                               *)

Connection == [pc : {"none", "read", "join", "enter", "done", "failed"},
               room : RoomIds \cup {Outside}]

RelayType ==
    /\ rooms \in [RoomIds -> SUBSET Clients]
    /\ handler \in [Clients -> Connection]
    /\ up \in [Clients -> Seq(Frames)] /\ queue \in [Clients -> Seq(Frames)]
    /\ inbox \in [Clients -> Seq(Frames)]
    /\ sent \in [Clients -> Nat] /\ session \in [Clients -> {"none", "open", "dropped"}]

\* How many frames of the client the relay has read.
ReadOf(c) == sent[c] - Len(up[c])

\* The relay has passed f on to d: another client sent it as data, the relay
\* has read it, and d was in the sender's room.
PassedOn(f, d) ==
    /\ f.from \in Clients \ {d} /\ f.frame = "data"
    /\ \E i \in 1..ReadOf(f.from) : f = Script[f.from][i]
    /\ \E m \in cast : m.frame = f /\ d \in m.to

Before(f, g) == f.from = g.from => f.n < g.n

\* A client is in a room exactly while its handler reads for it there.
Placed ==
    /\ \A c \in Clients, r \in RoomIds :
         c \in rooms[r] <=> handler[c].room = r /\ handler[c].pc \in {"read", "failed"}
    /\ \A c \in Clients :
         /\ handler[c].pc \in {"join", "enter"} => handler[c].room \in RoomIds
         /\ session[c] = "none" =>
              handler[c].pc = "none" /\ handler[c].room = Outside /\ up[c] = <<>> /\ sent[c] = 0

\* The frames on their way to the relay are the last of those sent.
UpstreamOf(c) ==
    /\ Len(up[c]) <= sent[c] /\ sent[c] <= Len(Script[c])
    /\ \A i \in 1..Len(up[c]) : up[c][i] = Script[c][ReadOf(c) + i]

Upstream == \A c \in Clients : UpstreamOf(c)

\* What a client has received and what is queued for it was passed on to it,
\* and all of it is in the order of the senders.
PassedTo(d) == {f \in Frames : PassedOn(f, d)}
InOrder(s) == \A i, j \in 1..Len(s) : i < j => Before(s[i], s[j])
AllBefore(s, t) == \A i \in 1..Len(s), j \in 1..Len(t) : Before(s[i], t[j])

DownstreamOf(d) ==
    /\ inbox[d] \in Seq(PassedTo(d)) /\ queue[d] \in Seq(PassedTo(d))
    /\ InOrder(inbox[d]) /\ InOrder(queue[d]) /\ AllBefore(inbox[d], queue[d])

Downstream == \A d \in Clients : DownstreamOf(d)

LEMMA TailFacts ==
  ASSUME NEW S, NEW s \in Seq(S), s # <<>>
  PROVE  /\ Tail(s) \in Seq(S) /\ Len(s) \in Nat \ {0} /\ Len(Tail(s)) = Len(s) - 1
         /\ \A i \in 1..(Len(s) - 1) : Tail(s)[i] = s[i + 1]
         /\ Head(s) = s[1] /\ Head(s) \in S
  OBVIOUS

LEMMA AppendFacts ==
  ASSUME NEW S, NEW s \in Seq(S), NEW e \in S
  PROVE  /\ Append(s, e) \in Seq(S) /\ Len(s) \in Nat /\ Len(Append(s, e)) = Len(s) + 1
         /\ \A i \in 1..Len(s) : Append(s, e)[i] = s[i]
         /\ Append(s, e)[Len(s) + 1] = e
  OBVIOUS

LEMMA RelayInit == Relay!Init => RelayType /\ Placed /\ Upstream /\ Downstream
<1> SUFFICES ASSUME Relay!Init PROVE RelayType /\ Placed /\ Upstream /\ Downstream
  OBVIOUS
<1>1. <<>> \in Seq(Frames) /\ Len(<<>>) = 0 /\ 1..0 = {}
  OBVIOUS
<1>2. RelayType
  BY <1>1 DEF Relay!Init, RelayType, Connection
<1>3. Placed
  BY RelayAssumption DEF Relay!Init, Placed
<1>4. Upstream
  <2> SUFFICES ASSUME NEW c \in Clients PROVE UpstreamOf(c)
    BY DEF Upstream
  <2>1. Len(Script[c]) \in Nat
    BY RelayAssumption
  <2>2. up[c] = <<>> /\ sent[c] = 0
    BY DEF Relay!Init
  <2>3. Len(up[c]) = 0
    BY <1>1, <2>2, Zenon
  <2> QED
    BY <2>1, <2>2, <2>3 DEF UpstreamOf
<1>5. Downstream
  <2> SUFFICES ASSUME NEW d \in Clients PROVE DownstreamOf(d)
    BY DEF Downstream
  <2>1. inbox[d] = <<>> /\ queue[d] = <<>>
    BY DEF Relay!Init
  <2>2. Len(inbox[d]) = 0 /\ Len(queue[d]) = 0
    BY <1>1, <2>1, Zenon
  <2>3. inbox[d] \in Seq(PassedTo(d)) /\ queue[d] \in Seq(PassedTo(d))
    BY <2>1
  <2> QED
    BY <2>2, <2>3 DEF DownstreamOf, InOrder, AllBefore
<1> QED
  BY <1>2, <1>3, <1>4, <1>5

\* The five things a frame may do to the rooms, the handlers and the queues.
Joins(c) ==
    /\ handler[c].room = Outside /\ up[c][1].room \in RoomIds
    /\ handler' = [handler EXCEPT ![c] = [pc |-> "join", room |-> up[c][1].room]]
    /\ UNCHANGED <<rooms, queue, cast>>
Leaves(c) ==
    /\ Relay!leave(c) /\ handler' = [handler EXCEPT ![c].room = Outside]
    /\ UNCHANGED <<queue, cast>>
Broadcasts(c) ==
    /\ handler[c].room \in RoomIds /\ up[c][1].frame = "data"
    /\ Relay!broadcast(c, up[c][1]) /\ UNCHANGED <<rooms, handler>>
Ignores(c) == UNCHANGED <<rooms, handler, queue, cast>>

LEMMA Handled ==
  ASSUME RelayType, Upstream, NEW c \in Clients, Relay!handle_connection(c)
  PROVE  Joins(c) \/ Leaves(c) \/ Broadcasts(c) \/ Relay!cleanup(c) \/ Ignores(c)
<1> DEFINE f == Head(up[c])
<1>1. up[c] \in Seq(Frames) /\ up[c] # <<>> /\ handler[c].room \in RoomIds \cup {Outside}
  BY DEF RelayType, Relay!handle_connection, Connection
<1>2. f = up[c][1] /\ Len(up[c]) \in Nat \ {0}
  BY <1>1, TailFacts
<1>3. f.frame = "join" => f.room \in RoomIds
  <2>1. ReadOf(c) + 1 \in 1..Len(Script[c]) /\ up[c][1] = Script[c][ReadOf(c) + 1]
    <3>1. sent[c] \in Nat /\ Len(Script[c]) \in Nat
      BY RelayAssumption DEF RelayType
    <3> QED
      BY <1>2, <3>1 DEF Upstream, UpstreamOf, ReadOf
  <2> QED
    BY <1>2, <2>1, RelayAssumption
<1>4. CASE f.frame = "join" /\ handler[c].room = Outside
  BY <1>2, <1>3, <1>4 DEF Relay!handle_connection, Joins
<1>5. CASE f.frame = "leave" /\ handler[c].room # Outside
  BY <1>5 DEF Relay!handle_connection, Leaves
<1>6. CASE f.frame = "data" /\ handler[c].room # Outside
  BY <1>1, <1>2, <1>6 DEF Relay!handle_connection, Broadcasts
<1>7. CASE f.frame = "close"
  BY <1>7 DEF Relay!handle_connection
<1>8. CASE /\ ~(f.frame = "join" /\ handler[c].room = Outside)
           /\ ~(f.frame = "leave" /\ handler[c].room # Outside)
           /\ ~(f.frame = "data" /\ handler[c].room # Outside) /\ f.frame # "close"
  BY <1>8 DEF Relay!handle_connection, Ignores
<1> QED
  BY <1>4, <1>5, <1>6, <1>7, <1>8

LEMMA RelayTypeStep == RelayType /\ Placed /\ Upstream /\ [Relay!Next]_relayVars => RelayType'
<1> SUFFICES ASSUME RelayType, Placed, Upstream, [Relay!Next]_relayVars PROVE RelayType'
  OBVIOUS
<1> USE DEF RelayType
<1>a. ASSUME NEW q \in [Clients -> Seq(Frames)], NEW c \in Clients, q[c] # <<>>
      PROVE  [q EXCEPT ![c] = Tail(@)] \in [Clients -> Seq(Frames)]
  BY <1>a, TailFacts
<1>b. ASSUME NEW q \in [Clients -> Seq(Frames)], NEW c \in Clients, NEW f \in Frames
      PROVE  [q EXCEPT ![c] = Append(@, f)] \in [Clients -> Seq(Frames)]
  OBVIOUS
<1>c. ASSUME NEW c \in Clients, NEW i \in 1..Len(Script[c]) PROVE Script[c][i] \in Frames
  BY <1>c, RelayAssumption DEF Frames
<1>d. \A c \in Clients : Len(Script[c]) \in Nat /\ Len(Script[c]) > 0
  BY RelayAssumption
<1>1. ASSUME NEW c \in Clients, Relay!connect(c) PROVE RelayType'
  <2>1. <<Script[c][1]>> \in Seq(Frames)
    BY <1>c, <1>d
  <2>2. handler' \in [Clients -> Connection]
    BY <1>1, Zenon DEF Relay!connect, Connection
  <2> QED
    BY <1>1, <2>1, <2>2 DEF Relay!connect
<1>2. ASSUME NEW c \in Clients, Relay!send(c) PROVE RelayType'
  <2>1. Script[c][sent[c] + 1] \in Frames
    BY <1>c, <1>d, <1>2 DEF Relay!send
  <2> QED
    BY <1>b, <1>2, <2>1 DEF Relay!send
<1>3. ASSUME NEW c \in Clients, Relay!drop(c) \/ Relay!lose(c) PROVE RelayType'
  BY <1>3, Zenon DEF Relay!drop, Relay!lose
<1>e. ASSUME NEW c \in Clients, Relay!leave(c) PROVE rooms' \in [RoomIds -> SUBSET Clients]
  BY <1>e DEF Relay!leave
<1>f. ASSUME NEW c \in Clients, NEW pc \in {"read", "enter", "failed"}
      PROVE  /\ [handler EXCEPT ![c].pc = pc] \in [Clients -> Connection]
             /\ [handler EXCEPT ![c] = [pc |-> "done", room |-> Outside]] \in [Clients -> Connection]
  BY Zenon DEF Connection
<1>4. ASSUME NEW c \in Clients, Relay!handle_connection(c) PROVE RelayType'
  <2>1. up' \in [Clients -> Seq(Frames)] /\ UNCHANGED <<inbox, sent, session>>
    BY <1>a, <1>4 DEF Relay!handle_connection
  <2>2. CASE Joins(c)
    BY <2>1, <2>2 DEF Joins, Connection
  <2>3. CASE Leaves(c)
    BY <1>e, <2>1, <2>3, Zenon DEF Leaves, Connection
  <2>4. CASE Broadcasts(c)
    <3>1. up[c][1] \in Frames
      BY <1>4, TailFacts DEF Relay!handle_connection
    <3>2. \A d \in Clients : Append(queue[d], up[c][1]) \in Seq(Frames)
      BY <3>1
    <3>3. queue' \in [Clients -> Seq(Frames)]
      BY <2>4, <3>2 DEF Broadcasts, Relay!broadcast
    <3> QED
      BY <2>1, <2>4, <3>3 DEF Broadcasts
  <2>5. CASE Relay!cleanup(c)
    BY <1>e, <2>1, <2>5 DEF Relay!cleanup, Connection
  <2>6. CASE Ignores(c)
    BY <2>1, <2>6 DEF Ignores
  <2> QED
    BY <1>4, <2>2, <2>3, <2>4, <2>5, <2>6, Handled
<1>5. ASSUME NEW c \in Clients, Relay!join(c) \/ Relay!read_error(c) PROVE RelayType'
  <2> HIDE DEF RelayType
  <2>1. handler' \in [Clients -> Connection]
    BY <1>f, <1>5, Zenon DEF Relay!join, Relay!read_error
  <2> QED
    BY <1>5, <2>1 DEF Relay!join, Relay!read_error, RelayType
<1>6. ASSUME NEW c \in Clients, Relay!enter(c) PROVE RelayType'
  <2> HIDE DEF RelayType
  <2>1. handler' \in [Clients -> Connection]
    BY <1>f, <1>6, Zenon DEF Relay!enter
  <2>a. rooms' = rooms \/ rooms' = [rooms EXCEPT ![handler[c].room] = @ \cup {c}]
    BY <1>6 DEF Relay!enter
  <2>2. rooms' \in [RoomIds -> SUBSET Clients]
    <3>1. handler[c].room \in RoomIds
      BY <1>6 DEF Relay!enter, Placed
    <3> DEFINE R == rooms[handler[c].room] \cup {c}
    <3>2. R \in SUBSET Clients /\ rooms \in [RoomIds -> SUBSET Clients]
      BY <3>1 DEF RelayType
    <3>3. rooms' = rooms \/ rooms' = [rooms EXCEPT ![handler[c].room] = R]
      BY <2>a
    <3> HIDE DEF R
    <3> QED
      BY <3>2, <3>3
  <2> QED
    BY <1>6, <2>1, <2>2 DEF Relay!enter, RelayType
<1>7. ASSUME NEW c \in Clients, Relay!write_out(c) PROVE RelayType'
  <2>1. CASE queue[c] # <<>>
    <3>1. Head(queue[c]) \in Frames
      BY <2>1, TailFacts
    <3>2. inbox' = inbox \/ inbox' = [inbox EXCEPT ![c] = Append(@, Head(queue[c]))]
      BY <1>7, <2>1 DEF Relay!write_out, Relay!reader
    <3>3. queue' = [queue EXCEPT ![c] = Tail(@)] \/ queue' = [queue EXCEPT ![c] = <<>>]
      BY <1>7, <2>1 DEF Relay!write_out
    <3>a. Append(inbox[c], Head(queue[c])) \in Seq(Frames)
      BY <3>1
    <3>4. inbox' \in [Clients -> Seq(Frames)]
      BY <3>a, <3>2, Zenon
    <3>b. Tail(queue[c]) \in Seq(Frames) /\ <<>> \in Seq(Frames)
      BY <2>1, TailFacts
    <3>5. queue' \in [Clients -> Seq(Frames)]
      BY <3>b, <3>3, Zenon
    <3> QED
      BY <1>7, <3>4, <3>5 DEF Relay!write_out
  <2>2. CASE queue[c] = <<>>
    BY <1>7, <2>2 DEF Relay!write_out
  <2> QED
    BY <2>1, <2>2
<1>8. CASE UNCHANGED relayVars
  BY <1>8 DEF relayVars
<1> HIDE DEF RelayType
<1> QED
  BY <1>1, <1>2, <1>3, <1>4, <1>5, <1>6, <1>7, <1>8 DEF Relay!Next

LEMMA PlacedStep ==
  ASSUME RelayType, Placed, Upstream, [Relay!Next]_relayVars PROVE Placed'
<1> USE DEF RelayType, Placed, Connection
<1>a. Outside \notin RoomIds
  BY RelayAssumption
<1>1. ASSUME NEW c \in Clients, Relay!connect(c) PROVE Placed'
  BY <1>a, <1>1 DEF Relay!connect
<1>2. ASSUME NEW c \in Clients, Relay!send(c) PROVE Placed'
  BY <1>2 DEF Relay!send
<1>3. ASSUME NEW c \in Clients, Relay!drop(c) \/ Relay!lose(c) PROVE Placed'
  BY <1>3 DEF Relay!drop, Relay!lose
<1>4. ASSUME NEW c \in Clients, Relay!handle_connection(c) PROVE Placed'
  <2>1. /\ handler[c].pc = "read" /\ UNCHANGED <<session, sent>>
        /\ \A d \in Clients : d # c => up'[d] = up[d]
    BY <1>4 DEF Relay!handle_connection
  <2>2. CASE Joins(c)
    BY <1>a, <2>1, <2>2 DEF Joins
  <2>3. CASE Leaves(c)
    BY <1>a, <2>1, <2>3 DEF Leaves, Relay!leave
  <2>4. CASE Broadcasts(c)
    BY <2>1, <2>4 DEF Broadcasts
  <2>5. CASE Relay!cleanup(c)
    BY <1>a, <2>1, <2>5 DEF Relay!cleanup, Relay!leave
  <2>6. CASE Ignores(c)
    BY <2>1, <2>6 DEF Ignores
  <2> HIDE DEF Placed
  <2> QED
    BY <1>4, <2>2, <2>3, <2>4, <2>5, <2>6, Handled
<1>b. ASSUME NEW c \in Clients, handler' = [handler EXCEPT ![c] = [pc |-> "done", room |-> Outside]],
             handler[c].pc \in {"join", "enter"}, UNCHANGED <<rooms, up, session, sent>>
      PROVE  Placed'
  BY <1>a, <1>b
<1>5. ASSUME NEW c \in Clients, Relay!join(c) PROVE Placed'
  <2>1. /\ handler[c].pc = "join" /\ UNCHANGED <<rooms, up, session, sent>>
        /\ \/ handler' = [handler EXCEPT ![c] = [pc |-> "done", room |-> Outside]]
           \/ handler' = [handler EXCEPT ![c].pc = "enter"]
    BY <1>5 DEF Relay!join
  <2>2. CASE handler' = [handler EXCEPT ![c].pc = "enter"]
    BY <2>1, <2>2
  <2> QED
    BY <1>b, <2>1, <2>2, Zenon
<1>6. ASSUME NEW c \in Clients, Relay!enter(c) PROVE Placed'
  <2>1. /\ handler[c].pc = "enter" /\ UNCHANGED <<up, session, sent>>
        /\ \/ handler' = [handler EXCEPT ![c] = [pc |-> "done", room |-> Outside]] /\ UNCHANGED rooms
           \/ /\ rooms' = [rooms EXCEPT ![handler[c].room] = @ \cup {c}]
              /\ handler' = [handler EXCEPT ![c].pc = "read"]
    BY <1>6 DEF Relay!enter
  <2>2. CASE /\ rooms' = [rooms EXCEPT ![handler[c].room] = @ \cup {c}]
             /\ handler' = [handler EXCEPT ![c].pc = "read"]
    <3>1. /\ handler'[c].pc = "read" /\ handler'[c].room = handler[c].room
          /\ \A d \in Clients : d # c => handler'[d] = handler[d]
      BY <2>2
    <3>2. /\ handler[c].room \in RoomIds
          /\ \A r \in RoomIds : \A d \in Clients :
               d \in rooms'[r] <=> d \in rooms[r] \/ (r = handler[c].room /\ d = c)
      BY <2>1, <2>2
    <3>3. handler[c].pc = "enter" /\ up' = up /\ session' = session /\ sent' = sent
      BY <2>1
    <3> HIDE DEF RelayType, Connection
    <3>4. ASSUME NEW d \in Clients, NEW r \in RoomIds
          PROVE  d \in rooms'[r] <=> handler'[d].room = r /\ handler'[d].pc \in {"read", "failed"}
      <4>1. CASE d = c
        BY <3>1, <3>2, <3>3, <4>1
      <4>2. CASE d # c
        BY <3>1, <3>2, <4>2
      <4> QED
        BY <4>1, <4>2
    <3>5. session[c] # "none"
      BY <3>3
    <3>6. ASSUME NEW d \in Clients
          PROVE  /\ handler'[d].pc \in {"join", "enter"} => handler'[d].room \in RoomIds
                 /\ session'[d] = "none" => /\ handler'[d].pc = "none" /\ handler'[d].room = Outside
                                            /\ up'[d] = <<>> /\ sent'[d] = 0
      BY <3>1, <3>3, <3>5
    <3> QED
      BY <3>4, <3>6, Zenon
  <2> QED
    BY <1>b, <2>1, <2>2, Zenon
<1>7. ASSUME NEW c \in Clients, Relay!read_error(c) PROVE Placed'
  BY <1>7 DEF Relay!read_error
<1>8. ASSUME NEW c \in Clients, Relay!write_out(c) PROVE Placed'
  BY <1>8 DEF Relay!write_out
<1>9. CASE UNCHANGED relayVars
  BY <1>9 DEF relayVars
<1> HIDE DEF Placed
<1> QED
  BY <1>1, <1>2, <1>3, <1>4, <1>5, <1>6, <1>7, <1>8, <1>9 DEF Relay!Next

LEMMA UpstreamStep ==
  ASSUME RelayType, Placed, Upstream, [Relay!Next]_relayVars PROVE Upstream'
<1>a. \A c \in Clients : Len(Script[c]) \in Nat /\ Len(Script[c]) > 0
  BY RelayAssumption
<1>b. \A c \in Clients : up[c] \in Seq(Frames) /\ Len(up[c]) \in Nat /\ sent[c] \in Nat
  BY DEF RelayType
<1>c. \A c \in Clients : ReadOf(c) \in Nat
  BY <1>b DEF Upstream, UpstreamOf, ReadOf
<1>d. ASSUME NEW c \in Clients, UpstreamOf(c)',
             \A d \in Clients : d # c => up'[d] = up[d] /\ sent'[d] = sent[d]
      PROVE  Upstream'
  BY <1>d DEF Upstream, UpstreamOf, ReadOf
<1>1. ASSUME NEW c \in Clients, Relay!connect(c) PROVE Upstream'
  <2>1. /\ up'[c] = <<Script[c][1]>> /\ sent'[c] = 1
        /\ \A d \in Clients : d # c => up'[d] = up[d] /\ sent'[d] = sent[d]
    BY <1>1 DEF Relay!connect, RelayType
  <2>2. Len(<<Script[c][1]>>) = 1 /\ <<Script[c][1]>>[1] = Script[c][1]
    OBVIOUS
  <2>3. Len(up'[c]) = 1 /\ up'[c][1] = Script[c][1]
    BY <2>1, <2>2, Zenon
  <2>4. UpstreamOf(c)'
    BY <1>a, <2>1, <2>3 DEF UpstreamOf, ReadOf
  <2> QED
    BY <1>d, <2>1, <2>4
<1>2. ASSUME NEW c \in Clients, Relay!send(c) PROVE Upstream'
  <2> DEFINE e == Script[c][sent[c] + 1]
  <2>1. /\ up'[c] = Append(up[c], e) /\ sent'[c] = sent[c] + 1 /\ sent[c] < Len(Script[c])
        /\ \A d \in Clients : d # c => up'[d] = up[d] /\ sent'[d] = sent[d]
    BY <1>2 DEF Relay!send, RelayType
  <2>2. sent[c] + 1 \in 1..Len(Script[c])
    BY <1>a, <1>b, <2>1
  <2>3. e \in Frames
    BY <2>2, RelayAssumption DEF Frames
  <2>4. /\ Len(up'[c]) = Len(up[c]) + 1 /\ up'[c][Len(up[c]) + 1] = e
        /\ \A i \in 1..Len(up[c]) : up'[c][i] = up[c][i]
    BY <1>b, <2>1, <2>3, AppendFacts
  <2> HIDE DEF e
  <2>5. ReadOf(c)' = ReadOf(c)
    BY <1>b, <2>1, <2>4 DEF ReadOf
  <2>6. ASSUME NEW i \in 1..Len(up'[c]) PROVE up'[c][i] = Script[c][ReadOf(c) + i]
    <3>1. CASE i = Len(up[c]) + 1
      BY <1>b, <2>4, <3>1 DEF ReadOf, e
    <3>2. CASE i \in 1..Len(up[c])
      BY <2>4, <3>2 DEF Upstream, UpstreamOf
    <3> QED
      BY <1>b, <2>4, <3>1, <3>2
  <2>7. Len(up'[c]) <= sent'[c] /\ sent'[c] <= Len(Script[c])
    BY <1>a, <1>b, <2>1, <2>4 DEF Upstream, UpstreamOf
  <2>8. UpstreamOf(c)'
    BY <2>5, <2>6, <2>7 DEF UpstreamOf
  <2> QED
    BY <1>d, <2>1, <2>8
<1>3. ASSUME NEW c \in Clients, Relay!handle_connection(c) PROVE Upstream'
  <2>1. /\ up'[c] = Tail(up[c]) /\ sent' = sent /\ up[c] # <<>>
        /\ \A d \in Clients : d # c => up'[d] = up[d]
    BY <1>3 DEF Relay!handle_connection, RelayType
  <2>2. /\ Len(up[c]) > 0 /\ Len(up'[c]) = Len(up[c]) - 1
        /\ \A i \in 1..(Len(up[c]) - 1) : up'[c][i] = up[c][i + 1]
    BY <1>b, <2>1, TailFacts
  <2>3. ReadOf(c)' = ReadOf(c) + 1
    BY <1>b, <2>1, <2>2 DEF ReadOf
  <2>4. ASSUME NEW i \in 1..Len(up'[c]) PROVE up'[c][i] = Script[c][ReadOf(c)' + i]
    <3>1. i + 1 \in 1..Len(up[c]) /\ up'[c][i] = up[c][i + 1]
      BY <1>b, <2>2
    <3>2. up[c][i + 1] = Script[c][ReadOf(c) + (i + 1)]
      BY <3>1 DEF Upstream, UpstreamOf
    <3>3. ReadOf(c) + (i + 1) = ReadOf(c)' + i
      <4>1. i \in Nat /\ ReadOf(c) \in Nat
        BY <1>b, <1>c, <2>2
      <4> QED
        BY <2>3, <4>1
    <3> QED
      BY <3>1, <3>2, <3>3
  <2>5. Len(up'[c]) <= sent'[c] /\ sent'[c] <= Len(Script[c])
    BY <1>a, <1>b, <2>1, <2>2 DEF Upstream, UpstreamOf
  <2>6. UpstreamOf(c)'
    BY <2>4, <2>5 DEF UpstreamOf
  <2> QED
    BY <1>d, <2>1, <2>6
<1>4. CASE UNCHANGED <<up, sent>>
  BY <1>4 DEF Upstream, UpstreamOf, ReadOf
<1> QED
  BY <1>1, <1>2, <1>3, <1>4 DEF Relay!Next, Relay!drop, Relay!lose, Relay!join, Relay!enter,
     Relay!read_error, Relay!write_out, relayVars

-----------------------------------------------------------------------------
LEMMA ListTail ==
  ASSUME NEW s \in Seq(Frames), NEW r \in Seq(Frames), s # <<>>, InOrder(s), AllBefore(r, s)
  PROVE  InOrder(Tail(s)) /\ AllBefore(r, Tail(s))
<1>1. /\ Len(s) \in Nat \ {0} /\ Len(Tail(s)) = Len(s) - 1
      /\ \A i \in 1..(Len(s) - 1) : Tail(s)[i] = s[i + 1]
  BY TailFacts
<1>2. \A i \in 1..Len(Tail(s)) : i + 1 \in 1..Len(s) /\ i \in Nat /\ Tail(s)[i] = s[i + 1]
  BY <1>1
<1>3. InOrder(Tail(s))
  BY <1>2 DEF InOrder
<1>4. AllBefore(r, Tail(s))
  BY <1>2 DEF AllBefore
<1> QED
  BY <1>3, <1>4

LEMMA ListAppend ==
  ASSUME NEW s \in Seq(Frames), NEW r \in Seq(Frames), NEW e \in Frames,
         InOrder(s), \A i \in 1..Len(s) : Before(s[i], e)
  PROVE  /\ InOrder(Append(s, e))
         /\ AllBefore(r, s) /\ (\A i \in 1..Len(r) : Before(r[i], e)) => AllBefore(r, Append(s, e))
         /\ AllBefore(s, r) /\ (\A i \in 1..Len(r) : Before(e, r[i])) => AllBefore(Append(s, e), r)
<1>1. Len(s) \in Nat
  OBVIOUS
<1>2. \A i \in 1..Len(Append(s, e)) :
        \/ i \in 1..Len(s) /\ Append(s, e)[i] = s[i]
        \/ i = Len(s) + 1 /\ Append(s, e)[i] = e
  BY <1>1, AppendFacts
<1> DEFINE t == Append(s, e)
<1> HIDE DEF t
<1>3. \A i \in 1..Len(t) :
        \/ i \in 1..Len(s) /\ t[i] = s[i]
        \/ i = Len(s) + 1 /\ t[i] = e
  BY <1>2 DEF t
<1>4. InOrder(t)
  BY <1>1, <1>3 DEF InOrder
<1>5. AllBefore(r, s) /\ (\A i \in 1..Len(r) : Before(r[i], e)) => AllBefore(r, t)
  BY <1>3 DEF AllBefore
<1>6. AllBefore(s, r) /\ (\A i \in 1..Len(r) : Before(e, r[i])) => AllBefore(t, r)
  BY <1>3 DEF AllBefore
<1> QED
  BY <1>4, <1>5, <1>6 DEF t

\* The relay never unreads a frame, and every broadcast is recorded.
LEMMA ReadStep ==
  ASSUME RelayType, Placed, Upstream, [Relay!Next]_relayVars
  PROVE  /\ \A c \in Clients : ReadOf(c) \in Nat /\ ReadOf(c)' \in Nat /\ ReadOf(c) <= ReadOf(c)'
         /\ cast \subseteq cast'
<1>a. \A c \in Clients : up[c] \in Seq(Frames) /\ Len(up[c]) \in Nat /\ sent[c] \in Nat
  BY DEF RelayType
<1>b. \A c \in Clients : ReadOf(c) \in Nat
  BY <1>a DEF Upstream, UpstreamOf, ReadOf
<1>c. ASSUME NEW c \in Clients, ReadOf(c)' \in Nat, ReadOf(c) <= ReadOf(c)',
             \A d \in Clients : d # c => up'[d] = up[d] /\ sent'[d] = sent[d]
      PROVE  \A d \in Clients : ReadOf(d)' \in Nat /\ ReadOf(d) <= ReadOf(d)'
  BY <1>b, <1>c DEF ReadOf
<1>1. ASSUME NEW c \in Clients, Relay!connect(c)
      PROVE  \A d \in Clients : ReadOf(d)' \in Nat /\ ReadOf(d) <= ReadOf(d)'
  <2>1. /\ up'[c] = <<Script[c][1]>> /\ sent'[c] = 1 /\ up[c] = <<>> /\ sent[c] = 0
        /\ \A d \in Clients : d # c => up'[d] = up[d] /\ sent'[d] = sent[d]
    BY <1>1 DEF Relay!connect, RelayType, Placed
  <2>2. Len(<<Script[c][1]>>) = 1 /\ Len(<<>>) = 0
    OBVIOUS
  <2>3. Len(up'[c]) = 1 /\ Len(up[c]) = 0
    BY <2>1, <2>2, Zenon
  <2>a. sent'[c] = 1 /\ sent[c] = 0
    BY <2>1
  <2>4. ReadOf(c)' = 0 /\ ReadOf(c) = 0
    BY <2>a, <2>3 DEF ReadOf
  <2> QED
    BY <1>c, <2>1, <2>4
<1>2. ASSUME NEW c \in Clients, Relay!send(c)
      PROVE  \A d \in Clients : ReadOf(d)' \in Nat /\ ReadOf(d) <= ReadOf(d)'
  <2>1. /\ up'[c] = Append(up[c], Script[c][sent[c] + 1]) /\ sent'[c] = sent[c] + 1
        /\ \A d \in Clients : d # c => up'[d] = up[d] /\ sent'[d] = sent[d]
    BY <1>2 DEF Relay!send, RelayType
  <2>2. Script[c][sent[c] + 1] \in Frames
    <3>1. Len(Script[c]) \in Nat /\ sent[c] < Len(Script[c])
      BY <1>2, RelayAssumption DEF Relay!send
    <3>2. sent[c] + 1 \in 1..Len(Script[c])
      BY <1>a, <3>1
    <3> QED
      BY <3>2, RelayAssumption DEF Frames
  <2>3. Len(up'[c]) = Len(up[c]) + 1
    BY <1>a, <2>1, <2>2, AppendFacts
  <2>4. ReadOf(c)' = ReadOf(c)
    BY <1>a, <2>1, <2>3 DEF ReadOf
  <2> QED
    BY <1>b, <1>c, <2>1, <2>4
<1>3. ASSUME NEW c \in Clients, Relay!handle_connection(c)
      PROVE  \A d \in Clients : ReadOf(d)' \in Nat /\ ReadOf(d) <= ReadOf(d)'
  <2>1. /\ up'[c] = Tail(up[c]) /\ sent' = sent /\ up[c] # <<>>
        /\ \A d \in Clients : d # c => up'[d] = up[d]
    BY <1>3 DEF Relay!handle_connection, RelayType
  <2>2. Len(up'[c]) = Len(up[c]) - 1
    BY <1>a, <2>1, TailFacts
  <2>3. ReadOf(c)' = ReadOf(c) + 1
    BY <1>a, <2>1, <2>2 DEF ReadOf
  <2> QED
    BY <1>b, <1>c, <2>1, <2>3
<1>4. ASSUME UNCHANGED <<up, sent>>
      PROVE  \A d \in Clients : ReadOf(d)' \in Nat /\ ReadOf(d) <= ReadOf(d)'
  BY <1>b, <1>4 DEF ReadOf
<1>5. \A d \in Clients : ReadOf(d)' \in Nat /\ ReadOf(d) <= ReadOf(d)'
  BY <1>1, <1>2, <1>3, <1>4, Zenon DEF Relay!Next, Relay!drop, Relay!lose, Relay!join, Relay!enter,
     Relay!read_error, Relay!write_out, relayVars
<1>6. ASSUME NEW c \in Clients, Relay!handle_connection(c) PROVE cast \subseteq cast'
  BY <1>6, Handled, Zenon DEF Joins, Leaves, Broadcasts, Relay!broadcast, Relay!cleanup, Ignores
<1>8. cast \subseteq cast'
  BY <1>6 DEF Relay!Next, Relay!connect, Relay!send, Relay!drop, Relay!lose, Relay!join,
     Relay!enter, Relay!read_error, Relay!write_out, relayVars
<1> QED
  BY <1>b, <1>5, <1>8

LEMMA SeqMonotone == ASSUME NEW S, NEW T, S \subseteq T, NEW s \in Seq(S) PROVE s \in Seq(T)
  OBVIOUS

LEMMA PassedOnStays ==
  ASSUME RelayType, Placed, Upstream, [Relay!Next]_relayVars, NEW d \in Clients
  PROVE  PassedTo(d) \subseteq PassedTo(d)'
<1>1. ASSUME NEW f, PassedOn(f, d) PROVE PassedOn(f, d)'
  <2>1. PICK i \in 1..ReadOf(f.from) : f = Script[f.from][i]
    BY <1>1 DEF PassedOn
  <2>2. f.from \in Clients /\ cast \subseteq cast'
    BY <1>1, ReadStep DEF PassedOn
  <2>3. i \in 1..ReadOf(f.from)'
    BY <2>2, ReadStep
  <2> QED
    BY <1>1, <2>1, <2>2, <2>3 DEF PassedOn
<1> QED
  BY <1>1 DEF PassedTo

LEMMA DownstreamStep ==
  ASSUME RelayType, Placed, Upstream, Downstream, [Relay!Next]_relayVars PROVE Downstream'
<1>a. \A d \in Clients : inbox[d] \in Seq(Frames) /\ queue[d] \in Seq(Frames) /\ DownstreamOf(d)
  BY DEF RelayType, Downstream
<1>b. ASSUME NEW d \in Clients
      PROVE  inbox[d] \in Seq(PassedTo(d)') /\ queue[d] \in Seq(PassedTo(d)')
  BY <1>a, PassedOnStays, SeqMonotone DEF DownstreamOf
<1>c. ASSUME NEW d \in Clients, inbox'[d] = inbox[d], queue'[d] = queue[d] PROVE DownstreamOf(d)'
  BY <1>a, <1>b, <1>c DEF DownstreamOf
<1>1. ASSUME NEW c \in Clients, Relay!handle_connection(c), Broadcasts(c) PROVE Downstream'
  <2> DEFINE f == up[c][1]
  <2> SUFFICES ASSUME NEW d \in Clients PROVE DownstreamOf(d)'
    BY DEF Downstream
  <2>1. /\ inbox' = inbox
        /\ \/ queue'[d] = queue[d]
           \/ queue'[d] = Append(queue[d], f) /\ d \in Relay!mates(c)
    BY <1>1 DEF Relay!handle_connection, Broadcasts, Relay!broadcast
  <2>2. CASE queue'[d] = queue[d]
    BY <1>c, <2>1, <2>2
  <2>3. CASE queue'[d] = Append(queue[d], f) /\ d \in Relay!mates(c)
    <3>1. f \in Frames /\ f.frame = "data" /\ Len(up[c]) \in Nat \ {0}
      BY <1>1, TailFacts DEF Relay!handle_connection, Broadcasts, RelayType
    <3>2. /\ f = Script[c][ReadOf(c) + 1] /\ ReadOf(c) + 1 \in 1..Len(Script[c])
          /\ ReadOf(c) \in Nat
      <4>1. sent[c] \in Nat /\ Len(Script[c]) \in Nat /\ UpstreamOf(c)
        BY RelayAssumption DEF RelayType, Upstream
      <4>2. f = Script[c][ReadOf(c) + 1]
        BY <3>1, <4>1 DEF UpstreamOf
      <4>3. ReadOf(c) + 1 \in 1..Len(Script[c]) /\ ReadOf(c) \in Nat
        BY <3>1, <4>1 DEF UpstreamOf, ReadOf
      <4> QED
        BY <4>2, <4>3
    <3>3. f.from = c
      BY <3>1, <3>2, RelayAssumption
    <3>a. queue'[d] = Append(queue[d], f) /\ d \in Relay!mates(c)
      BY <2>3
    <3>b. [frame |-> f, to |-> Relay!mates(c)] \in cast'
      BY <1>1 DEF Broadcasts, Relay!broadcast
    <3> HIDE DEF f
    <3>4. ReadOf(c)' = ReadOf(c) + 1
      <4>1. up' = [up EXCEPT ![c] = Tail(@)] /\ sent' = sent /\ up[c] # <<>>
        BY <1>1 DEF Relay!handle_connection
      <4>2. up[c] \in Seq(Frames) /\ up'[c] = Tail(up[c]) /\ sent[c] \in Nat
        BY <4>1 DEF RelayType
      <4>3. Len(up'[c]) = Len(up[c]) - 1
        BY <4>1, <4>2, TailFacts, Zenon
      <4> QED
        BY <3>1, <4>1, <4>2, <4>3 DEF ReadOf
    <3>5. f \in PassedTo(d)'
      <4> SUFFICES ASSUME NEW h, h = f PROVE h \in PassedTo(d)'
        OBVIOUS
      <4>1. d # c /\ h.from = c /\ h \in Frames /\ h.frame = "data"
        BY <3>a, <3>1, <3>3 DEF Relay!mates
      <4>2. ReadOf(c) + 1 \in 1..ReadOf(c)' /\ h = Script[c][ReadOf(c) + 1]
        BY <3>2, <3>4
      <4>3. \E m \in cast' : m.frame = h /\ d \in m.to
        BY <3>a, <3>b
      <4>4. \E i \in 1..ReadOf(h.from)' : h = Script[h.from][i]
        BY <4>1, <4>2
      <4> QED
        BY <4>1, <4>3, <4>4 DEF PassedOn, PassedTo
    <3>6. ASSUME NEW g \in PassedTo(d) PROVE Before(g, f)
      <4> SUFFICES ASSUME g.from = c PROVE g.n < f.n
        BY <3>3 DEF Before
      <4>1. PICK i \in 1..ReadOf(c) : g = Script[c][i] /\ g.frame = "data"
        BY <3>6 DEF PassedOn, PassedTo
      <4>2. i \in 1..Len(Script[c]) /\ i < ReadOf(c) + 1
        BY <3>2
      <4> QED
        BY <3>1, <3>2, <4>1, <4>2, RelayAssumption
    <3>7. /\ \A i \in 1..Len(inbox[d]) : Before(inbox[d][i], f)
          /\ \A i \in 1..Len(queue[d]) : Before(queue[d][i], f)
      BY <1>a, <3>6 DEF DownstreamOf
    <3>8. InOrder(Append(queue[d], f)) /\ AllBefore(inbox[d], Append(queue[d], f))
      BY <1>a, <3>1, <3>7, ListAppend, Zenon DEF DownstreamOf
    <3>9. Append(queue[d], f) \in Seq(PassedTo(d)')
      BY <1>b, <3>5, AppendFacts
    <3> QED
      BY <1>a, <1>b, <2>1, <3>a, <3>8, <3>9 DEF DownstreamOf
  <2> QED
    BY <2>1, <2>2, <2>3
<1>2. ASSUME NEW c \in Clients, Relay!write_out(c) PROVE Downstream'
  <2>1. \A d \in Clients : d # c => inbox'[d] = inbox[d] /\ queue'[d] = queue[d]
    BY <1>2 DEF Relay!write_out, Relay!reader, RelayType
  <2>2. /\ \/ inbox'[c] = inbox[c] /\ queue'[c] = queue[c]
           \/ inbox'[c] = inbox[c] /\ queue'[c] = <<>>
           \/ /\ queue[c] # <<>> /\ queue'[c] = Tail(queue[c])
              /\ inbox'[c] = inbox[c] \/ inbox'[c] = Append(inbox[c], Head(queue[c]))
    BY <1>2 DEF Relay!write_out, Relay!reader, RelayType
  <2>3. ASSUME inbox'[c] = inbox[c], queue'[c] = <<>> PROVE DownstreamOf(c)'
    <3>1. Len(<<>>) = 0 /\ <<>> \in Seq(PassedTo(c)')
      OBVIOUS
    <3>2. Len(queue'[c]) = 0
      BY <2>3, <3>1, Zenon
    <3>3. InOrder(queue'[c]) /\ AllBefore(inbox[c], queue'[c])
      BY <3>2 DEF InOrder, AllBefore
    <3> QED
      BY <1>a, <1>b, <2>3, <3>1, <3>3 DEF DownstreamOf
  <2>4. ASSUME queue[c] # <<>>, queue'[c] = Tail(queue[c]), inbox'[c] = inbox[c]
        PROVE  DownstreamOf(c)'
    <3>1. Tail(queue[c]) \in Seq(PassedTo(c)')
      BY <1>b, <2>4, TailFacts
    <3>2. InOrder(Tail(queue[c])) /\ AllBefore(inbox[c], Tail(queue[c]))
      BY <1>a, <2>4, ListTail DEF DownstreamOf
    <3> QED
      BY <1>a, <1>b, <2>4, <3>1, <3>2 DEF DownstreamOf
  <2>5. ASSUME queue[c] # <<>>, queue'[c] = Tail(queue[c]),
               inbox'[c] = Append(inbox[c], Head(queue[c]))
        PROVE  DownstreamOf(c)'
    <3> DEFINE e == Head(queue[c])
    <3>1. /\ Tail(queue[c]) \in Seq(PassedTo(c)') /\ e \in PassedTo(c)' /\ e \in Frames
          /\ Tail(queue[c]) \in Seq(Frames) /\ e = queue[c][1] /\ Len(queue[c]) \in Nat \ {0}
          /\ Len(Tail(queue[c])) = Len(queue[c]) - 1
          /\ \A i \in 1..(Len(queue[c]) - 1) : Tail(queue[c])[i] = queue[c][i + 1]
      BY <1>a, <1>b, <2>5, TailFacts
    <3>2. InOrder(Tail(queue[c])) /\ AllBefore(inbox[c], Tail(queue[c]))
      BY <1>a, <2>5, ListTail DEF DownstreamOf
    <3>3. Append(inbox[c], e) \in Seq(PassedTo(c)')
      BY <1>b, <3>1, AppendFacts
    <3> HIDE DEF e
    <3>4. \A i \in 1..Len(inbox[c]) : Before(inbox[c][i], e)
      BY <1>a, <3>1 DEF DownstreamOf, AllBefore
    <3>5. \A i \in 1..Len(Tail(queue[c])) : Before(e, Tail(queue[c])[i])
      <4>1. \A i \in 1..Len(Tail(queue[c])) : i + 1 \in 1..Len(queue[c]) /\ 1 < i + 1
        BY <3>1
      <4>2. InOrder(queue[c]) /\ 1 \in 1..Len(queue[c])
        BY <1>a, <3>1 DEF DownstreamOf
      <4> QED
        BY <3>1, <4>1, <4>2 DEF InOrder
    <3>6. InOrder(Append(inbox[c], e)) /\ AllBefore(Append(inbox[c], e), Tail(queue[c]))
      BY <1>a, <3>1, <3>2, <3>4, <3>5, ListAppend, Zenon DEF DownstreamOf
    <3>7. inbox'[c] = Append(inbox[c], e)
      BY <2>5 DEF e
    <3> QED
      BY <2>5, <3>1, <3>2, <3>3, <3>6, <3>7 DEF DownstreamOf
  <2> QED
    BY <1>c, <2>1, <2>2, <2>3, <2>4, <2>5 DEF Downstream
<1>3. ASSUME UNCHANGED <<inbox, queue>> PROVE Downstream'
  BY <1>c, <1>3 DEF Downstream
<1>4. ASSUME NEW c \in Clients, Relay!handle_connection(c) PROVE Downstream'
  <2>1. CASE ~Broadcasts(c)
    BY <1>3, <1>4, <2>1, Handled, Zenon DEF Joins, Leaves, Relay!cleanup, Ignores, Relay!handle_connection
  <2> QED
    BY <1>1, <1>4, <2>1
<1> QED
  BY <1>2, <1>3, <1>4 DEF Relay!Next, Relay!connect, Relay!send, Relay!drop, Relay!lose, Relay!join,
     Relay!enter, Relay!read_error, relayVars

(* The rooms of the relay (Rooms, handle_connection), for any clients,     *)
(* rooms, limits and scripts: RoomKept in every state, connections lost,   *)
(* frames dropped and clients refused included.                            *)
THEOREM RoomKeptTheorem == RelaySpec => []RoomKept
<1> DEFINE Inv == RelayType /\ Placed /\ Upstream /\ Downstream
<1>1. Inv => RoomKept
  <2> SUFFICES ASSUME Inv PROVE RoomKept
    OBVIOUS
  <2>1. ASSUME NEW c \in Clients
        PROVE  /\ \A i \in DOMAIN inbox[c] :
                     /\ inbox[c][i].from # c
                     /\ \E m \in cast : m.frame = inbox[c][i] /\ c \in m.to
               /\ \A i, j \in DOMAIN inbox[c] :
                     i < j /\ inbox[c][i].from = inbox[c][j].from => inbox[c][i].n < inbox[c][j].n
    <3>1. /\ inbox[c] \in Seq(PassedTo(c)) /\ InOrder(inbox[c])
      BY DEF Downstream, DownstreamOf
    <3>2. DOMAIN inbox[c] = 1..Len(inbox[c]) /\ \A i \in 1..Len(inbox[c]) : inbox[c][i] \in PassedTo(c)
      BY <3>1
    <3> QED
      BY <3>1, <3>2, Zenon DEF InOrder, Before, PassedTo, PassedOn
  <2> QED
    BY <2>1 DEF RoomKept, Relay!RoomKept, Placed
<1>2. Inv /\ [Relay!Next]_relayVars => Inv'
  BY RelayTypeStep, PlacedStep, UpstreamStep, DownstreamStep
<1> QED
  BY <1>1, <1>2, RelayInit, PTL DEF RelaySpec
=============================================================================
