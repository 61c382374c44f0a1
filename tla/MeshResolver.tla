---------------------------- MODULE MeshResolver ----------------------------
(***************************************************************************)
(* Name resolution with a cache, reachability probes and TURN sessions of  *)
(* a node (synergos-net/src/mesh/mod.rs).                                  *)
(*                                                                         *)
(* Tasks resolve one name each; the lookups are requests to two DoH        *)
(* providers in turn and then to the ordinary resolver, any of which may   *)
(* fail or know no address.  What the name stands for changes meanwhile.   *)
(***************************************************************************)
EXTENDS Naturals, Sequences, FiniteSets

CONSTANTS Tasks, Names, Servers,
          Zones,        \* sets of addresses a name may stand for
          Restricted,   \* loopback, link-local, multicast, unspecified
          Providers,    \* number of DoH providers
          Ttl, TurnTtl, \* 300 and 600 seconds
          MaxTime,      \* bound: the clock
          MaxCalls      \* bound: resolutions begun

VARIABLES now, zone,
          dns_cache,      \* name -> None, or the addresses and cached_at
          turn_sessions,  \* server -> None (0), or expires_at
          task,           \* per task: where it is, its name, what it found
          ncalls,
          probed,         \* history: addresses a packet was sent to
          said            \* history: what a server answered, and when

meshVars == <<now, zone, dns_cache, turn_sessions, task, ncalls, probed, said>>

None == [addresses |-> {}, cached_at |-> 0]
At(t, s) == task[t].at = s
Resting == [at |-> "idle", name |-> "", provider |-> 1, addresses |-> {}, method |-> "none"]

new ==
    /\ dns_cache = [f \in Names |-> None]
    /\ turn_sessions = [s \in Servers |-> 0]

Init ==
    /\ now = 1 /\ zone \in [Names -> Zones] /\ new
    /\ task = [t \in Tasks |-> Resting]
    /\ ncalls = 0 /\ probed = {} /\ said = {}

rest == <<now, zone, turn_sessions, ncalls, probed>>

-----------------------------------------------------------------------------
Cached(f) == dns_cache[f] # None
Fresh(f)  == now - dns_cache[f].cached_at < Ttl

Answer(t, addresses, method) ==
    task' = [task EXCEPT ![t].at = "probe", ![t].addresses = addresses, ![t].method = method]
Ask(t, f) == task' = [task EXCEPT ![t] = [Resting EXCEPT !.at = "doh", !.name = f]]

(* Mutant: the expired entry is seen, let go of, and removed afterwards.   *)
resolve_fqdn_get_then_remove(t, f) ==
    /\ \/ /\ At(t, "idle") /\ ncalls < MaxCalls /\ ncalls' = ncalls + 1
          /\ task' = [task EXCEPT ![t] = [Resting EXCEPT !.at = "remove", !.name = f]]
          /\ Cached(f) /\ ~Fresh(f) /\ UNCHANGED dns_cache
       \/ /\ At(t, "remove") /\ task[t].name = f
          /\ dns_cache' = [dns_cache EXCEPT ![f] = None]
          /\ Ask(t, f) /\ UNCHANGED ncalls
       \/ /\ At(t, "idle") /\ ncalls < MaxCalls /\ ncalls' = ncalls + 1
          /\ ~Cached(f) /\ Ask(t, f) /\ UNCHANGED dns_cache
    /\ UNCHANGED <<now, zone, turn_sessions, probed, said>>

(* resolve_fqdn: a fresh entry is the answer; an expired one is removed    *)
(* under the same lock and the name looked up.                             *)
resolve_fqdn(t, f) ==
    /\ At(t, "idle") /\ ncalls < MaxCalls /\ ncalls' = ncalls + 1
    /\ IF Cached(f) /\ Fresh(f)
       THEN /\ task' = [task EXCEPT ![t] = [Resting EXCEPT !.at = "probe", !.name = f,
                          !.addresses = dns_cache[f].addresses, !.method = "Cached"]]
            /\ UNCHANGED dns_cache
       ELSE Ask(t, f) /\ dns_cache' = [dns_cache EXCEPT ![f] = None]
    /\ UNCHANGED <<now, zone, turn_sessions, probed, said>>

(* What is found is entered with the time it is entered.                   *)
Found(t, addresses, method) ==
    /\ dns_cache' = [dns_cache EXCEPT ![task[t].name] = [addresses |-> addresses, cached_at |-> now]]
    /\ said' = said \cup {[name |-> task[t].name, addresses |-> addresses, time |-> now]}
    /\ Answer(t, addresses, method)

(* resolve_doh: the next provider after a failure or an empty answer; the  *)
(* ordinary resolver after the last.                                       *)
resolve_doh(t) ==
    /\ At(t, "doh")
    /\ \/ zone[task[t].name] # {} /\ Found(t, zone[task[t].name], "DoH")
       \/ /\ task' = IF task[t].provider < Providers
                     THEN [task EXCEPT ![t].provider = @ + 1]
                     ELSE [task EXCEPT ![t].at = "standard"]
          /\ UNCHANGED <<dns_cache, said>>
    /\ UNCHANGED rest

(* resolve_standard: an empty answer is an answer and is not entered.      *)
resolve_standard(t) ==
    /\ At(t, "standard")
    /\ \/ zone[task[t].name] # {} /\ Found(t, zone[task[t].name], "Standard")
       \/ /\ zone[task[t].name] = {} /\ Answer(t, {}, "Standard")
          /\ UNCHANGED <<dns_cache, said>>
       \/ /\ task' = [task EXCEPT ![t] = Resting]
          /\ UNCHANGED <<dns_cache, said>>
    /\ UNCHANGED rest

(* probe_ipv6: a restricted address is refused; otherwise one packet, and  *)
(* whether it was refused, or timed out, changes nothing here.             *)
probe_ipv6(a) == probed' = IF a \in Restricted THEN probed ELSE probed \cup {a}

(* probe_fqdn: the addresses found, one after the other.                   *)
probe_fqdn(t) ==
    /\ At(t, "probe")
    /\ \/ \E a \in task[t].addresses :
            /\ probe_ipv6(a)
            /\ task' = [task EXCEPT ![t].addresses = @ \ {a}, ![t].method = "none"]
       \/ /\ task[t].addresses = {} /\ task' = [task EXCEPT ![t] = Resting]
          /\ UNCHANGED probed
    /\ UNCHANGED <<now, zone, dns_cache, turn_sessions, ncalls, said>>

clear_dns_cache ==
    /\ dns_cache' = [f \in Names |-> None] /\ UNCHANGED <<rest, task, said>>

-----------------------------------------------------------------------------
allocate_turn(s) ==
    /\ turn_sessions' = [turn_sessions EXCEPT ![s] = now + TurnTtl]
    /\ UNCHANGED <<now, zone, dns_cache, task, ncalls, probed, said>>

(* refresh_turn: refused when there is no session.                         *)
refresh_turn(s) ==
    /\ turn_sessions[s] # 0
    /\ turn_sessions' = [turn_sessions EXCEPT ![s] = now + TurnTtl]
    /\ UNCHANGED <<now, zone, dns_cache, task, ncalls, probed, said>>

(* cleanup_expired_sessions, every five minutes of the daemon's clean-up.  *)
cleanup_expired_sessions ==
    /\ turn_sessions' = [s \in Servers |->
                           IF now < turn_sessions[s] THEN turn_sessions[s] ELSE 0]
    /\ UNCHANGED <<now, zone, dns_cache, task, ncalls, probed, said>>

(* Time passes; a name comes to stand for something else.                  *)
Tick ==
    /\ now < MaxTime /\ now' = now + 1
    /\ \E z \in Zones : \E f \in Names : zone' = [zone EXCEPT ![f] = z]
    /\ UNCHANGED <<dns_cache, turn_sessions, task, ncalls, probed, said>>

Next ==
    \/ \E t \in Tasks :
         \/ \E f \in Names : resolve_fqdn(t, f)
         \/ resolve_doh(t) \/ resolve_standard(t) \/ probe_fqdn(t)
    \/ \E s \in Servers : allocate_turn(s) \/ refresh_turn(s)
    \/ clear_dns_cache \/ cleanup_expired_sessions \/ Tick

-----------------------------------------------------------------------------
(* What the cache promises (mesh/mod.rs:110): an entry is given up only    *)
(* when it has expired or everything is cleared, so that what one task has *)
(* just found is never removed by another that saw the entry before it;    *)
(* what a task is told from the cache some server said for that name less  *)
(* than Ttl ago; no packet goes to a restricted address; and a TURN        *)
(* session goes only when it has run out since it was last refreshed.      *)
MeshKept == [][
    /\ \A f \in Names : Cached(f) /\ ~Cached(f)' => ~Fresh(f) \/ clear_dns_cache
    /\ \A t \in Tasks : task'[t].method = "Cached" /\ task[t].method # "Cached" =>
         \E a \in said : /\ a.name = task'[t].name /\ a.addresses = task'[t].addresses
                         /\ now - a.time < Ttl
    /\ probed' \cap Restricted = {}
    /\ \A s \in Servers : turn_sessions'[s] < turn_sessions[s] =>
         turn_sessions'[s] = 0 /\ turn_sessions[s] <= now]_meshVars
=============================================================================
