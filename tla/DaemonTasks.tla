----------------------------- MODULE DaemonTasks -----------------------------
(***************************************************************************)
(* The life of a daemon (synergos-core/src/daemon.rs): it starts, spawns   *)
(* its background tasks one after the other, serves commands until one of  *)
(* them or a signal asks it to stop, and shuts down in order.              *)
(*                                                                         *)
(* A request to stop is a message on a broadcast channel: it reaches those *)
(* who have subscribed by then, and nobody who subscribes later.           *)
(***************************************************************************)
EXTENDS Naturals, Sequences, FiniteSets, SequencesExt

CONSTANTS Plan,        \* the tasks and awaits of Daemon::run, in its order
          Transfers,   \* transfers that may run
          MaxErrors,   \* bound: errors of accept
          Early        \* may a signal come before the server has subscribed?

VARIABLES phase,     \* what the daemon is doing
          at,        \* the next step of Plan
          task,      \* per task: none, idle, busy, dying, or gone
          told,      \* those whose receiver holds the request to stop
          ipc,       \* the server: none, select or backoff
          raised,    \* has a signal come?
          projects, presence, quic,  \* open? registered? bound?
          running,   \* transfers under way
          nerrors,
          asked      \* history: the daemon has been asked to stop

daemonVars == <<phase, at, task, told, ipc, raised, projects, presence, quic, running, nerrors,
                asked>>
services == <<projects, presence, quic, running>>
start == <<phase, at>>
request == <<raised, asked>>

Names == {n \in ToSet(Plan) : n # "register_self"}
Receivers == {n \in Names : n \notin {"signal", "bootstrap"}}
Alive(n) == task[n] \in {"idle", "busy"}

Init ==
    /\ phase = "off" /\ at = 1
    /\ task = [n \in Names |-> "none"]
    /\ told = {} /\ ipc = "none" /\ raised = FALSE
    /\ projects = FALSE /\ presence = FALSE /\ quic = FALSE /\ running = {}
    /\ nerrors = 0 /\ asked = FALSE

-----------------------------------------------------------------------------
(* Starting.                                                               *)

(* load_net_config: a configuration that cannot be read or is not valid    *)
(* ends the program.                                                       *)
load_net_config ==
    /\ phase = "off"
    /\ phase' \in {"new", "failed"}
    /\ UNCHANGED <<at, task, told, ipc, request, services, nerrors>>

(* Daemon::new: the identity may not be had ...                            *)
load_identity ==
    /\ phase = "new"
    /\ phase' \in {"quic", "failed"}
    /\ UNCHANGED <<at, task, told, ipc, request, services, nerrors>>

(* ... nor the QUIC socket, ...                                            *)
bind_quic ==
    /\ phase = "quic"
    /\ \/ phase' = "failed" /\ UNCHANGED quic
       \/ phase' = "restore" /\ quic' = TRUE
    /\ UNCHANGED <<at, task, told, ipc, request, projects, presence, running, nerrors>>

(* ... the projects of the last time are opened, those that can be, ...    *)
restore_projects ==
    /\ phase = "restore" /\ phase' = "services"
    /\ projects' \in BOOLEAN
    /\ UNCHANGED <<at, task, told, ipc, request, presence, quic, running, nerrors>>

(* ... and the services are put together around them.                      *)
new ==
    /\ phase = "services" /\ phase' = "config"
    /\ UNCHANGED <<at, task, told, ipc, request, services, nerrors>>

(* HeartbeatReporter::from_config: its mistakes are found before any task  *)
(* is spawned.                                                             *)
from_config ==
    /\ phase = "config"
    /\ phase' \in {"spawn", "failed"}
    /\ UNCHANGED <<at, task, told, ipc, request, services, nerrors>>

(* register_self is awaited among the spawns; a failure is logged.         *)
register_self == presence' \in BOOLEAN /\ UNCHANGED task

(* run: a task is spawned, and has subscribed.                             *)
spawn ==
    /\ phase = "spawn"
    /\ at' = at + 1
    /\ phase' = IF at = Len(Plan) THEN "bind" ELSE "spawn"
    /\ IF Plan[at] = "register_self" THEN register_self
       ELSE task' = [task EXCEPT ![Plan[at]] = "idle"] /\ UNCHANGED presence
    /\ UNCHANGED <<told, ipc, request, projects, quic, running, nerrors>>

(* IpcServer::run: the socket is bound, which may fail and ends the        *)
(* program; only then does the server subscribe.                           *)
bind ==
    /\ phase = "bind"
    /\ \/ phase' = "failed" /\ UNCHANGED ipc
       \/ phase' = "serve" /\ ipc' = "select"
    /\ UNCHANGED <<at, task, told, request, services, nerrors>>

-----------------------------------------------------------------------------
(* The request to stop.                                                    *)
Send == told' = told \cup {n \in Receivers : Alive(n)}
                     \cup (IF ipc = "none" THEN {} ELSE {"ipc"})

(* wait_for_shutdown_signal: a signal is noticed while its task is there.  *)
Signal ==
    /\ ~raised /\ task["signal"] = "idle"
    /\ phase \in {"serve"} \cup (IF Early THEN {"spawn", "bind"} ELSE {})
    /\ raised' = TRUE /\ asked' = TRUE
    /\ UNCHANGED <<start, task, told, ipc, services, nerrors>>
wait_for_shutdown_signal ==
    /\ raised /\ task["signal"] = "idle"
    /\ Send
    /\ task' = [task EXCEPT !["signal"] = "gone"]
    /\ UNCHANGED <<start, ipc, request, services, nerrors>>

(* The command Shutdown.                                                   *)
Shutdown ==
    /\ phase = "serve" /\ ipc # "none" /\ ~asked
    /\ Send /\ asked' = TRUE
    /\ UNCHANGED <<start, task, ipc, raised, services, nerrors>>

-----------------------------------------------------------------------------
(* The background tasks.                                                   *)

(* A tick of the periodic clean-up, of the gossip or control heartbeat or  *)
(* of the rotation timer; a connection to the accept loop; an event for    *)
(* one of the others.  While it is handled the channel is not looked at.   *)
periodic_cleanup == task["cleanup"] = "idle" /\ task' = [task EXCEPT !["cleanup"] = "busy"]
gossip_heartbeat == task["heartbeat"] = "idle" /\ task' = [task EXCEPT !["heartbeat"] = "busy"]
control_heartbeat == task["control"] = "idle" /\ task' = [task EXCEPT !["control"] = "busy"]

(* The accept loop goes on after an error, after a pause, and ends when    *)
(* the endpoint is closed.                                                 *)
quic_accept ==
    /\ task["accept"] = "idle"
    /\ task' = [task EXCEPT !["accept"] = IF quic THEN "busy" ELSE "gone"]

Tick ==
    /\ phase # "exit"
    /\ periodic_cleanup \/ gossip_heartbeat \/ control_heartbeat \/ quic_accept
    /\ UNCHANGED <<start, told, ipc, request, services, nerrors>>

(* What was ticked is done.  bootstrap ends by itself.                     *)
Handled(n) ==
    /\ \/ task[n] = "busy" /\ task' = [task EXCEPT ![n] = "idle"]
       \/ task[n] = "dying" /\ task' = [task EXCEPT ![n] = "gone"]
       \/ n = "bootstrap" /\ task[n] = "idle" /\ task' = [task EXCEPT ![n] = "gone"]
    /\ UNCHANGED <<start, told, ipc, request, services, nerrors>>

(* The arm of each loop's select that ends it.                             *)
recv(n) ==
    /\ task[n] = "idle" /\ n \in told
    /\ task' = [task EXCEPT ![n] = "gone"]
    /\ told' = told \ {n}
    /\ UNCHANGED <<start, ipc, request, services, nerrors>>

(* A transfer begins with a stream from a peer, as long as there are       *)
(* connections, also while the daemon stops; it ends, or fails with them.  *)
Transfer(x) ==
    /\ quic /\ task["accept"] # "none" /\ x \notin running
    /\ running' = running \cup {x}
    /\ UNCHANGED <<start, task, told, ipc, request, projects, presence, quic, nerrors>>
TransferEnds(x) ==
    /\ x \in running /\ running' = running \ {x}
    /\ UNCHANGED <<start, task, told, ipc, request, projects, presence, quic, nerrors>>

-----------------------------------------------------------------------------
(* The server's loop.                                                      *)

(* As it would be if the server subscribed anew for every round: what came *)
(* while it paused is lost.                                                *)
resume_anew == told' = told \ {"ipc"}

(* After the pause the same receiver is used.                              *)
resume == UNCHANGED told

accept ==
    /\ phase = "serve"
    /\ \/ /\ ipc = "select" /\ nerrors < MaxErrors
          /\ nerrors' = nerrors + 1 /\ ipc' = "backoff" /\ UNCHANGED told
       \/ ipc = "backoff" /\ ipc' = "select" /\ resume /\ UNCHANGED nerrors
    /\ UNCHANGED <<start, task, request, services>>
stop_serving ==
    /\ phase = "serve" /\ ipc = "select" /\ "ipc" \in told
    /\ phase' = "abort" /\ ipc' = "none" /\ told' = told \ {"ipc"}
    /\ UNCHANGED <<at, task, request, services, nerrors>>

-----------------------------------------------------------------------------
(* Stopping.                                                               *)

(* Every task is aborted; one that is being run goes on to its next await. *)
abort_tasks ==
    /\ phase = "abort" /\ phase' = "close"
    /\ task' = [n \in Names |-> IF task[n] = "busy" THEN "dying" ELSE "gone"]
    /\ told' = {}
    /\ UNCHANGED <<at, ipc, request, services, nerrors>>

(* shutdown: the projects are closed, the node leaves, ...                 *)
close_all ==
    /\ phase = "close" /\ phase' = "leave"
    /\ projects' = FALSE
    /\ UNCHANGED <<at, task, told, ipc, request, presence, quic, running, nerrors>>
unregister_self ==
    /\ phase = "leave" /\ phase' = "cancel"
    /\ presence' = FALSE
    /\ UNCHANGED <<at, task, told, ipc, request, projects, quic, running, nerrors>>

(* ... transfers that run are cancelled, and the network is closed.        *)
cancel_transfers ==
    /\ phase = "cancel" /\ phase' = "net"
    /\ running' = {}
    /\ UNCHANGED <<at, task, told, ipc, request, projects, presence, quic, nerrors>>
net_shutdown ==
    /\ phase = "net" /\ phase' = "exit"
    /\ quic' = FALSE
    /\ UNCHANGED <<at, task, told, ipc, request, projects, presence, running, nerrors>>

Daemon ==
    \/ load_identity \/ bind_quic \/ restore_projects \/ new
    \/ from_config \/ spawn \/ bind
    \/ stop_serving \/ abort_tasks \/ close_all \/ unregister_self \/ cancel_transfers
    \/ net_shutdown

Next ==
    \/ load_net_config \/ Daemon \/ accept
    \/ Signal \/ wait_for_shutdown_signal \/ Shutdown \/ Tick
    \/ \E n \in Names : Handled(n) \/ recv(n)
    \/ \E x \in Transfers : Transfer(x) \/ TransferEnds(x)

(* The runtime polls the daemon's own task, the signal's and the others;   *)
(* a transfer whose connection is closed fails.                            *)
Fairness ==
    /\ WF_daemonVars(Daemon) /\ WF_daemonVars(ipc = "backoff" /\ accept)
    /\ WF_daemonVars(wait_for_shutdown_signal)
    /\ WF_daemonVars(\E n \in Names : Handled(n))
    /\ WF_daemonVars(~quic /\ \E x \in Transfers : TransferEnds(x))

-----------------------------------------------------------------------------
(* A daemon that has been asked to stop, by a command or by a signal, does *)
(* stop, with no task left, no project open and nothing being transferred  *)
(* (Daemon::run, IpcServer::run, shutdown).                                *)
Stopped ==
    /\ phase = "exit" /\ running = {} /\ ~projects /\ ~presence /\ ~quic
    /\ \A n \in Names : task[n] = "gone"
ShutdownStops == asked ~> Stopped
=============================================================================
