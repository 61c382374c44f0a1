----------------------------- MODULE PeerLinks -----------------------------
(***************************************************************************)
(* The connections between two daemons and what each of them believes      *)
(* about the other: the QUIC table (synergos-net/src/quic/mod.rs), the     *)
(* task that serves each connection and the reconnect loop (peer_link.rs), *)
(* joining by URL (peer_join.rs, peer_bootstrap.rs) and the list of peers  *)
(* (presence/mod.rs, presence/connection_observer.rs).                     *)
(*                                                                         *)
(* A connection occupies a slot.  Each of its two ends has a phase and its *)
(* own opinion on whether the connection is up: one end closes it, the     *)
(* other finds out later.                                                  *)
(***************************************************************************)
EXTENDS Naturals, FiniteSets

CONSTANTS
  Nodes,       \* the two daemons
  Slots,       \* connections that can exist at the same time (numbers)
  Dialers,     \* nodes whose users know the other's /peer-info URL
  Bootstraps,  \* nodes with that URL among their bootstrap_urls
  MaxAdds,     \* `peer add-url` and invitations accepted
  MaxTrouble,  \* failed requests, losses, timeouts, restarts, user commands
  Windows      \* suspension points that a loss or a command may fall into

None == "none"
NoConn == 0

ASSUME LinksAssumption ==
  /\ Cardinality(Nodes) = 2
  /\ Slots \subseteq Nat \ {NoConn} /\ Dialers \subseteq Nodes /\ Bootstraps \subseteq Dialers
  /\ {MaxAdds, MaxTrouble} \subseteq Nat
  /\ Windows \subseteq {"start", "registered"}

VARIABLES
  side,      \* side[c][n]: the phase of n's end of c
  up,        \* up[c][n]: n takes c to be open
  entry,     \* QuicManager.connections of n: the connection to the other node
  node,      \* PresenceService.nodes of n: the state it lists the other with
  url,       \* PresenceService.reconnect_urls of n
  dial,      \* dial[n][k]: an attempt to connect, by a command or by the loop
  told,      \* history: the last peer event emitted at n
  claimed,   \* history: n lists the other because of `peer connect` alone
  budget     \* what the environment may still do

vars == <<side, up, entry, node, url, dial, told, claimed, budget>>

Other(n) == CHOOSE m \in Nodes : m # n

(***************************************************************************)
(* Phases of an end.  The dialer's end: "hello" (sending the signed hello),*)
(* "stored" (in the table, its task spawned but not yet run), "serving"    *)
(* (the task waits for streams), "over"; "failed" if the hello could not   *)
(* be sent.  The acceptor's end starts at "incoming".                      *)
(***************************************************************************)
Phases == {"incoming", "hello", "stored", "serving", "over", "failed"}
Done == {"over", "failed"}
Kinds == {"add", "loop"}
Idle == [pc |-> "idle", conn |-> NoConn]

FreeSlots == {c \in Slots : \A n \in Nodes : side[c][n] \in Done}

(* At start-up a node dials its bootstrap_urls, once. *)
bootstrap_task(n) ==
  [k \in Kinds |-> IF k = "add" /\ n \in Bootstraps THEN [Idle EXCEPT !.pc = "fetch"]
                                                    ELSE Idle]

Init ==
  /\ side = [c \in Slots |-> [n \in Nodes |-> "over"]]
  /\ up = [c \in Slots |-> [n \in Nodes |-> FALSE]]
  /\ entry = [n \in Nodes |-> NoConn]
  /\ node = [n \in Nodes |-> None]
  /\ url = [n \in Nodes |-> FALSE]
  /\ dial = [n \in Nodes |-> bootstrap_task(n)]
  /\ told = [n \in Nodes |-> None]
  /\ claimed = [n \in Nodes |-> FALSE]
  /\ budget = [adds |-> MaxAdds, trouble |-> MaxTrouble]

Spend(what) ==
  /\ budget[what] > 0
  /\ budget' = [budget EXCEPT ![what] = @ - 1]

(***************************************************************************)
(* Presence.  An event is emitted when the listed state changes.           *)
(***************************************************************************)
emit_connected(n) ==
  told' = IF node[n] # "connected" THEN [told EXCEPT ![n] = "connected"] ELSE told

observe_connected(n) ==
  /\ node' = [node EXCEPT ![n] = "connected"]
  /\ emit_connected(n)
  /\ claimed' = [claimed EXCEPT ![n] = FALSE]

observe_disconnected(n) ==
  IF node[n] \in {None, "disconnected"}
    THEN UNCHANGED <<node, told, claimed>>
    ELSE /\ node' = [node EXCEPT ![n] = "disconnected"]
         /\ told' = [told EXCEPT ![n] = "disconnected"]
         /\ claimed' = [claimed EXCEPT ![n] = FALSE]

merge_registered_connection(n) ==
  /\ node[n] # None
  /\ node' = [node EXCEPT ![n] = "connected"]
  /\ emit_connected(n)
  /\ claimed' = [claimed EXCEPT ![n] = FALSE]

remember_reconnect_url(n) == url' = [url EXCEPT ![n] = TRUE]

(* register_node lists the peer as discovered and waits for the DHT. *)
register_node(n) ==
  /\ node[n] = None
  /\ node' = [node EXCEPT ![n] = "discovered"]
  /\ UNCHANGED <<told, claimed>>

(* What a command's attempt does once it is connected: a peer that is already
   listed is merged, another one is registered first. *)
bootstrap_and_register(n) ==
  \/ /\ merge_registered_connection(n)
     /\ remember_reconnect_url(n)
     /\ dial' = [dial EXCEPT ![n]["add"] = Idle]
  \/ /\ register_node(n)
     /\ dial' = [dial EXCEPT ![n]["add"] = [Idle EXCEPT !.pc = "registered"]]
     /\ UNCHANGED url

(* Between listing a peer as discovered and as connected. *)
Registering(n) == dial[n]["add"].pc = "registered"

(* A task of n that was spawned for a connection n has since replaced. *)
LateStart(n) == \E c \in Slots : side[c][n] = "stored" /\ entry[n] # c

(* Whether a disturbance may fall where n is now. *)
Exposed(n) ==
  /\ Registering(n) => "registered" \in Windows
  /\ LateStart(n) => "start" \in Windows

(***************************************************************************)
(* The QUIC table.  One connection per peer is owned: the previous one is  *)
(* closed when a new one is stored.                                        *)
(***************************************************************************)
get_connection(n) == entry[n] # NoConn

store_connection(n, c) ==
  /\ entry' = [entry EXCEPT ![n] = c]
  /\ side' = [side EXCEPT ![c][n] = "stored"]
  /\ up' = IF get_connection(n) THEN [up EXCEPT ![entry[n]][n] = FALSE] ELSE up

(* Mutant: the entry of a closed connection is kept. *)
remove_nothing(n, c) == entry[n] = c /\ UNCHANGED entry

(* The entry is removed only if it is this very connection. *)
remove_closed(n, c) ==
  /\ entry[n] = c
  /\ entry' = [entry EXCEPT ![n] = NoConn]

(***************************************************************************)
(* Dialling: GET /peer-info, connect, send the hello, store and notify.    *)
(***************************************************************************)

(* A user adds the peer by URL or accepts an invitation that carries one. *)
PeerAddByUrl(n) ==
  /\ n \in Dialers /\ dial[n]["add"].pc = "idle"
  /\ Spend("adds")
  /\ dial' = [dial EXCEPT ![n]["add"].pc = "fetch"]
  /\ UNCHANGED <<side, up, entry, node, url, told, claimed>>

(* The URL is known and there is no connection. *)
reconnect_candidates(n) == url[n] /\ ~get_connection(n)

(* A tick of the reconnect loop. *)
spawn_reconnect_loop(n) ==
  /\ dial[n]["loop"].pc = "idle" /\ reconnect_candidates(n)
  /\ dial' = [dial EXCEPT ![n]["loop"].pc = "fetch"]
  /\ UNCHANGED <<side, up, entry, node, url, told, claimed, budget>>

(* The URL, the request for /peer-info, the identity, the addresses or every
   handshake fails. *)
bootstrap_fails(n, k) ==
  /\ dial[n][k].pc = "fetch"
  /\ Spend("trouble")
  /\ dial' = [dial EXCEPT ![n][k] = Idle]
  /\ UNCHANGED <<side, up, entry, node, url, told, claimed>>

(* The handshake with the expected peer completes; the other node has the
   connection waiting in its accept loop. *)
connect_with(n, k) ==
  /\ dial[n][k].pc = "fetch" /\ FreeSlots # {}
  /\ LET c == CHOOSE s \in FreeSlots : \A t \in FreeSlots : s <= t
     IN /\ side' = [side EXCEPT ![c][n] = "hello", ![c][Other(n)] = "incoming"]
        /\ up' = [up EXCEPT ![c] = [m \in Nodes |-> TRUE]]
        /\ dial' = [dial EXCEPT ![n][k] = [pc |-> "hello", conn |-> c]]
  /\ UNCHANGED <<entry, node, url, told, claimed, budget>>

(* The loop only connects: its listing comes from the connection's task. *)
reconnect_one(n) ==
  /\ dial' = [dial EXCEPT ![n]["loop"] = Idle]
  /\ UNCHANGED <<node, url, told, claimed>>

(* The hello is on its way: the connection is stored and announced to the
   dispatcher, and the attempt goes on. *)
connect(n, k) ==
  /\ dial[n][k].pc = "hello" /\ up[dial[n][k].conn][n]
  /\ store_connection(n, dial[n][k].conn)
  /\ \/ k = "add" /\ bootstrap_and_register(n)
     \/ k = "loop" /\ reconnect_one(n)
  /\ UNCHANGED budget

(* The hello cannot be sent on a connection that broke. *)
send_hello_fails(n, k) ==
  /\ dial[n][k].pc = "hello" /\ ~up[dial[n][k].conn][n]
  /\ side' = [side EXCEPT ![dial[n][k].conn][n] = "failed"]
  /\ dial' = [dial EXCEPT ![n][k] = Idle]
  /\ UNCHANGED <<up, entry, node, url, told, claimed, budget>>

(* register_node and register_or_merge resume after the DHT: the event, the
   state (if the peer is still listed) and the URL to dial again. *)
register_or_merge(n) ==
  /\ Registering(n)
  /\ told' = [told EXCEPT ![n] = "connected"]
  /\ node' = IF node[n] # None THEN [node EXCEPT ![n] = "connected"] ELSE node
  /\ remember_reconnect_url(n)
  /\ dial' = [dial EXCEPT ![n]["add"] = Idle]
  /\ UNCHANGED <<side, up, entry, claimed, budget>>

(***************************************************************************)
(* Accepting.  The hello names the dialer; its signature is verified.      *)
(***************************************************************************)
accept(n, c) ==
  /\ side[c][n] = "incoming" /\ up[c][n]
  /\ side[c][Other(n)] \in {"stored", "serving", "over"}
  /\ store_connection(n, c)
  /\ UNCHANGED <<node, url, dial, told, claimed, budget>>

(* No hello arrives on a connection that broke, or not in time. *)
recv_hello_fails(n, c) ==
  /\ side[c][n] = "incoming"
  /\ \/ ~up[c][n] /\ UNCHANGED budget
     \/ up[c][n] /\ Spend("trouble")
  /\ up' = [up EXCEPT ![c][n] = FALSE]
  /\ side' = [side EXCEPT ![c][n] = "over"]
  /\ UNCHANGED <<entry, node, url, dial, told, claimed>>

(***************************************************************************)
(* The task of a connection, on either side.                               *)
(***************************************************************************)
spawn_peer_connection(n, c) ==
  /\ side[c][n] = "stored"
  /\ side' = [side EXCEPT ![c][n] = "serving"]
  /\ observe_connected(n)
  /\ UNCHANGED <<up, entry, url, dial, budget>>

(* Mutant: the peer is marked as disconnected even if a newer connection is
   in the table. *)
end_always_marks(n, c) ==
  /\ side[c][n] = "serving" /\ ~up[c][n] /\ Exposed(n)
  /\ side' = [side EXCEPT ![c][n] = "over"]
  /\ observe_disconnected(n)
  /\ \/ remove_closed(n, c)
     \/ entry[n] # c /\ UNCHANGED entry
  /\ UNCHANGED <<up, url, dial, budget>>

(* The stream loop ends because the connection is closed. *)
dispatch_peer_streams_ends(n, c) ==
  /\ side[c][n] = "serving" /\ ~up[c][n] /\ Exposed(n)
  /\ side' = [side EXCEPT ![c][n] = "over"]
  /\ \/ remove_closed(n, c) /\ observe_disconnected(n)
     \/ entry[n] # c /\ UNCHANGED <<entry, node, told, claimed>>
  /\ UNCHANGED <<up, url, dial, budget>>

(***************************************************************************)
(* The network: one end finds out that the other closed, or gives up.      *)
(***************************************************************************)
Notice(n, c) ==
  /\ up[c][n] /\ ~up[c][Other(n)]
  /\ up' = [up EXCEPT ![c][n] = FALSE]
  /\ UNCHANGED <<side, entry, node, url, dial, told, claimed, budget>>

Lose(n, c) ==
  /\ up[c][n] /\ up[c][Other(n)]
  /\ Spend("trouble")
  /\ up' = [up EXCEPT ![c][n] = FALSE]
  /\ UNCHANGED <<side, entry, node, url, dial, told, claimed>>

(***************************************************************************)
(* Commands and restarts.                                                  *)
(***************************************************************************)

(* `peer connect` lists a peer as connected and opens no connection. *)
PeerConnect(n) ==
  /\ node[n] = None
  /\ Spend("trouble")
  /\ node' = [node EXCEPT ![n] = "connected"]
  /\ told' = [told EXCEPT ![n] = "connected"]
  /\ claimed' = [claimed EXCEPT ![n] = TRUE]
  /\ UNCHANGED <<side, up, entry, url, dial>>

(* `peer disconnect` forgets the URL and the listing; the connection stays. *)
unregister_node(n) ==
  /\ Exposed(n)
  /\ Spend("trouble")
  /\ url' = [url EXCEPT ![n] = FALSE]
  /\ node' = [node EXCEPT ![n] = None]
  /\ told' = IF node[n] # None THEN [told EXCEPT ![n] = "disconnected"] ELSE told
  /\ claimed' = [claimed EXCEPT ![n] = FALSE]
  /\ UNCHANGED <<side, up, entry, dial>>

(* QuicManager::shutdown, or the end of the process: every end of n is closed. *)
close_all_connections(n) ==
  /\ side' = [c \in Slots |-> [side[c] EXCEPT ![n] =
                IF @ \in {"hello", "failed"} THEN "failed" ELSE "over"]]
  /\ up' = [c \in Slots |-> [up[c] EXCEPT ![n] = FALSE]]
  /\ entry' = [entry EXCEPT ![n] = NoConn]

(* The daemon stops, in order or not, and starts again: nothing is kept. *)
Restart(n) ==
  /\ Spend("trouble")
  /\ close_all_connections(n)
  /\ node' = [node EXCEPT ![n] = None]
  /\ url' = [url EXCEPT ![n] = FALSE]
  /\ dial' = [dial EXCEPT ![n] = bootstrap_task(n)]
  /\ told' = [told EXCEPT ![n] = None]
  /\ claimed' = [claimed EXCEPT ![n] = FALSE]

DialStep(n, k) == connect_with(n, k) \/ connect(n, k) \/ send_hello_fails(n, k)
LinkStep(n, c) ==
  \/ accept(n, c) \/ spawn_peer_connection(n, c)
  \/ dispatch_peer_streams_ends(n, c) \/ Notice(n, c)

Next ==
  \E n \in Nodes :
    \/ PeerAddByUrl(n) \/ spawn_reconnect_loop(n) \/ register_or_merge(n)
    \/ PeerConnect(n) \/ unregister_node(n) \/ Restart(n)
    \/ \E k \in Kinds : DialStep(n, k) \/ bootstrap_fails(n, k)
    \/ \E c \in Slots : LinkStep(n, c) \/ recv_hello_fails(n, c) \/ Lose(n, c)

(* The tasks of the runtime are polled until they end, the reconnect loop
   ticks, and a closed connection is noticed after the idle timeout. *)
Fairness ==
  /\ \A n \in Nodes : WF_vars(spawn_reconnect_loop(n)) /\ WF_vars(register_or_merge(n))
  /\ \A n \in Nodes, k \in Kinds : WF_vars(DialStep(n, k))
  /\ \A n \in Nodes, c \in Slots :
       WF_vars(LinkStep(n, c)) /\ WF_vars(~up[c][n] /\ recv_hello_fails(n, c))

Spec == Init /\ [][Next]_vars /\ Fairness

-----------------------------------------------------------------------------
TypeOK ==
  /\ side \in [Slots -> [Nodes -> Phases]]
  /\ up \in [Slots -> [Nodes -> BOOLEAN]]
  /\ entry \in [Nodes -> Slots \cup {NoConn}]
  /\ node \in [Nodes -> {None, "discovered", "connected", "disconnected"}]
  /\ url \in [Nodes -> BOOLEAN] /\ claimed \in [Nodes -> BOOLEAN]
  /\ \A n \in Nodes, k \in Kinds :
       dial[n][k].pc \in {"idle", "fetch", "hello", "registered"}

(* One connection per peer is owned: every open connection that a task
   serves is the one in the table, and the one in the table has a task that
   will remove it (store_connection and remove_closed, however the dials of
   the two nodes, their hellos and their losses fall). *)
OneOwned ==
  \A n \in Nodes :
    /\ \A c \in Slots :
         up[c][n] /\ side[c][n] \in {"stored", "serving"} => entry[n] = c
    /\ entry[n] # NoConn => side[entry[n]][n] \in {"stored", "serving"}

(* No task of n is on its way to change what n lists. *)
AtRest(n) ==
  /\ dial[n]["add"].pc \in {"idle", "fetch"} /\ dial[n]["loop"].pc \in {"idle", "fetch"}
  /\ \A c \in Slots :
       /\ side[c][n] # "stored"
       /\ side[c][n] = "serving" => up[c][n]

(* At rest the list tells the truth: a peer is listed as connected only if
   the table has a connection (or a user claimed it), a peer with a
   connection is listed as connected unless the user removed it, and the
   last event agrees with the list (observe_connected, observe_disconnected,
   register_or_merge). *)
ListAgrees ==
  \A n \in Nodes : AtRest(n) =>
    /\ node[n] = "connected" => entry[n] # NoConn \/ claimed[n]
    /\ entry[n] # NoConn => node[n] \in {"connected", None}
    /\ (told[n] = "connected") <=> (node[n] = "connected")

(* What a node knows of its peers is so: one connection per peer is owned,
   and the list agrees with it (ConnectionObserver, PresenceService). *)
LinksAgree == OneOwned /\ ListAgrees

Linked == \E c \in Slots : \A n \in Nodes : entry[n] = c /\ up[c][n]

(* A link whose URL one node knows comes back: once losses, restarts and
   commands end, the two nodes stay connected by one connection that both
   have in their table (spawn_reconnect_loop, remove_closed).  When both
   know the other's URL they may dial at the same time for ever. *)
LinkRestored == <>[]((\E n \in Nodes : url[n] /\ ~url[Other(n)]) => Linked)
=============================================================================
