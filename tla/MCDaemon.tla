------------------------------ MODULE MCDaemon ------------------------------
(* The tasks of a running daemon: its transfers, a session with a client   *)
(* of its socket, its start and its shutdown, and the streams of a         *)
(* connection with a peer.  A behaviour is one of the active part, with    *)
(* the variables of the others at rest, where no step of theirs that is    *)
(* owed is possible.                                                       *)
EXTENDS TransferTable

CONSTANTS Clients, Kinds, NoProject, ChannelCap, Failures, MaxEvents
Command(k) == [kind |-> k, filters |-> {}]
Subscribe(fs) == [kind |-> "subscribe", filters |-> fs]
Either == {[on |-> "Project", is |-> "p"], [on |-> "Category", is |-> "transfer"]}
All == {[on |-> "All"]}
Emitted == {[kind |-> "conflict", project |-> "p"], [kind |-> "conflict", project |-> "q"],
            [kind |-> "transfer", project |-> "none"]}
\* A second subscription after a command that is refused; a subscription that
\* is ended, and a command after it.
Scripts == {<<Subscribe(Either), Command("invalid"), Subscribe(All)>>,
            <<Subscribe(All), Command("unsubscribe"), Command("call")>>}
VARIABLES link, reading, cmds, wire, pending, waiting, script, nsent, session, relay,
          late, nsub, log, channel, nevents, paired, gotten
Session == INSTANCE IpcSession
sessionVars == <<link, reading, cmds, wire, pending, waiting, script, nsent, session,
                 relay, late, nsub, log, channel, nevents, paired, gotten>>

CONSTANTS MaxErrors, Early
\* One task of each sort: it ends by itself, it has a timer, it accepts, it is
\* awaited among the spawns.
Plan == <<"signal", "cleanup", "heartbeat", "accept", "register_self", "control", "bootstrap">>
VARIABLES phase, at, tasks, told, ipc, raised, projects, presence, quic, running,
          nerrors, asked
Run == INSTANCE DaemonTasks WITH Transfers <- {"x"}, task <- tasks
runVars == <<phase, at, tasks, told, ipc, raised, projects, presence, quic, running,
             nerrors, asked>>

CONSTANTS Builtin, MaxPayload
\* An application's stream that is too long, one of the daemon's own, and one
\* that fits.
Opened == <<[magic |-> "app", size |-> 2], [magic |-> "dht", size |-> 1],
            [magic |-> "app", size |-> 1]>>
VARIABLES conn, stream, answered, loop, next, handler, emitted
Peer == INSTANCE PeerStreams
peerVars == <<conn, stream, answered, loop, next, handler, emitted>>

VARIABLE active

MCInit ==
    /\ active \in {"transfers", "session", "run", "streams"}
    /\ Init /\ Session!Init /\ Run!Init /\ Peer!Init
    /\ active # "session" => \A c \in Clients : Len(script[c]) = 3 /\ script[c][3].kind = "call"

MCNext ==
    \/ active = "transfers" /\ Next /\ UNCHANGED <<sessionVars, runVars, peerVars, active>>
    \/ active = "session" /\ Session!Next /\ UNCHANGED <<vars, runVars, peerVars, active>>
    \/ active = "run" /\ Run!Next /\ UNCHANGED <<vars, sessionVars, peerVars, active>>
    \/ active = "streams" /\ Peer!Next /\ UNCHANGED <<vars, sessionVars, runVars, active>>

MCSpec ==
    /\ MCInit /\ [][MCNext]_<<vars, sessionVars, runVars, peerVars, active>>
    /\ \A id \in Ids : WF_vars(SendTask(id))
    /\ Session!Fairness /\ Run!Fairness /\ Peer!Fairness

-----------------------------------------------------------------------------
(* A send is given the answer to its own command, and a subscription the   *)
(* events its filters pass, once and in order (handle_client_generic,      *)
(* relay_events, reader_task).                                             *)
SessionSound == Session!AnswersMatch /\ Session!EventsDelivered

(* Whoever sends a command is told something in the end (reader_task).     *)
SendAnswered == Session!SendAnswered

(* A daemon that has been asked to stop does stop, with no task left, no   *)
(* project open and nothing being transferred (Daemon::run).               *)
ShutdownStops == Run!ShutdownStops

(* What an application sends over a stream arrives once, unless it is too  *)
(* long or the connection is lost (dispatch_peer_streams).                 *)
StreamDelivered == Peer!StreamDelivered
=============================================================================
