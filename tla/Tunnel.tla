------------------------------- MODULE Tunnel -------------------------------
(***************************************************************************)
(* The supervision of the cloudflared process of a node                    *)
(* (synergos-net/src/tunnel/mod.rs).  Commands overlap with one another    *)
(* and with the supervisors; an await between two writes is a point where  *)
(* another step may fall.                                                  *)
(***************************************************************************)
EXTENDS Naturals, FiniteSets

CONSTANTS Starters,     \* start commands, each issued once
          Stoppers,     \* stop commands, each issued once
          Procs,        \* cloudflared processes that can be spawned
          NoProc,
          Overlap       \* may commands overlap?

VARIABLES config,    \* auto_restart; allow_simulation, with no cloudflared in PATH
          tunnel,    \* state: Idle, Starting, Active or Error
          process,   \* process: the child, until a supervisor takes it
          handle,    \* supervisor: the start whose task the handle belongs to
          running,   \* processes that run
          spawned,   \* processes spawned so far
          cmd,       \* where each command is
          watch,     \* the supervisor task of each start, and its child
          stopped    \* history: has stop been the last command to finish?

tunnelVars == <<config, tunnel, process, handle, running, spawned, cmd, watch, stopped>>

Init ==
    /\ config \in [auto_restart : BOOLEAN, simulate : BOOLEAN]
    /\ tunnel = "Idle" /\ process = NoProc /\ handle = NoProc
    /\ running = {} /\ spawned = {}
    /\ cmd = [c \in Starters \cup Stoppers |-> "ready"]
    /\ watch = [c \in Starters |-> [pc |-> "none", child |-> NoProc]]
    /\ stopped = FALSE

Busy == \E c \in DOMAIN cmd : cmd[c] \notin {"ready", "done"}
Begin(c) == cmd[c] = "ready" /\ (Overlap \/ ~Busy)
Goto(c, pc) == cmd' = [cmd EXCEPT ![c] = pc]

(* spawn_cloudflared: a child, a simulated one, or an error.  The name of  *)
(* the host may be refused and the binary missing.                         *)
spawn_cloudflared(ok) ==
    IF ok /\ ~config.simulate
    THEN \E p \in Procs \ spawned :
           process' = p /\ running' = running \cup {p} /\ spawned' = spawned \cup {p}
    ELSE UNCHANGED <<process, running, spawned>>

-----------------------------------------------------------------------------
(* start: refused while active or starting; the check and the write are    *)
(* two accesses.                                                           *)
start(c) ==
    /\ Begin(c)
    /\ Goto(c, IF tunnel \in {"Active", "Starting"} THEN "done" ELSE "starting")
    /\ UNCHANGED <<config, tunnel, process, handle, running, spawned, watch, stopped>>

starting(c) ==
    /\ cmd[c] = "starting" /\ Goto(c, "spawn")
    /\ tunnel' = "Starting" /\ stopped' = FALSE
    /\ UNCHANGED <<config, process, handle, running, spawned, watch>>

spawn(c) ==
    /\ cmd[c] = "spawn"
    /\ \E ok \in BOOLEAN : spawn_cloudflared(ok) /\ Goto(c, IF ok THEN "active" ELSE "error")
    /\ UNCHANGED <<config, tunnel, handle, watch, stopped>>

start_failed(c) ==
    /\ cmd[c] = "error" /\ Goto(c, "done")
    /\ tunnel' = "Error"
    /\ UNCHANGED <<config, process, handle, running, spawned, watch, stopped>>

(* The state, the supervisor task, and last its handle.                    *)
activate(c) ==
    /\ cmd[c] = "active" /\ Goto(c, "handle")
    /\ tunnel' = "Active"
    /\ watch' = [watch EXCEPT ![c].pc = "take"]
    /\ UNCHANGED <<config, process, handle, running, spawned, stopped>>

keep_handle(c) ==
    /\ cmd[c] = "handle" /\ Goto(c, "done")
    /\ handle' = c
    /\ UNCHANGED <<config, tunnel, process, running, spawned, watch, stopped>>

(* stop: the supervisor is aborted, a child nobody has taken is killed,    *)
(* then the state is reset.                                                *)
stop(c) ==
    /\ Begin(c) /\ Goto(c, "kill")
    /\ handle' = NoProc
    /\ watch' = [w \in Starters |-> IF w = handle THEN [pc |-> "none", child |-> NoProc] ELSE watch[w]]
    /\ UNCHANGED <<config, tunnel, process, running, spawned, stopped>>

kill(c) ==
    /\ cmd[c] = "kill" /\ Goto(c, "reset")
    /\ running' = running \ {process} /\ process' = NoProc
    /\ UNCHANGED <<config, tunnel, handle, spawned, watch, stopped>>

reset(c) ==
    /\ cmd[c] = "reset" /\ Goto(c, "done")
    /\ tunnel' = "Idle" /\ stopped' = TRUE
    /\ UNCHANGED <<config, process, handle, running, spawned, watch>>

-----------------------------------------------------------------------------
(* supervise: it takes the child; without one it ends.                     *)
take_child(c) ==
    /\ watch[c].pc = "take"
    /\ watch' = [watch EXCEPT ![c] = IF process = NoProc THEN [pc |-> "none", child |-> NoProc]
                                     ELSE [pc |-> "wait", child |-> process]]
    /\ process' = NoProc
    /\ UNCHANGED <<config, tunnel, handle, running, spawned, cmd, stopped>>

(* Mutant: the supervisor ends without a word when the child does.         *)
child_exit_silent(c) ==
    /\ watch[c].pc = "wait" /\ watch[c].child \notin running
    /\ watch' = [watch EXCEPT ![c] = [pc |-> "none", child |-> NoProc]]
    /\ UNCHANGED <<config, tunnel, process, handle, running, spawned, cmd, stopped>>

(* The child has ended: the state says so, or the supervisor sleeps before *)
(* it starts another; the state stays Active meanwhile.                    *)
child_exit(c) ==
    /\ watch[c].pc = "wait" /\ watch[c].child \notin running
    /\ watch' = [watch EXCEPT ![c] = [pc |-> IF config.auto_restart THEN "sleep" ELSE "none", child |-> NoProc]]
    /\ tunnel' = IF config.auto_restart THEN tunnel ELSE "Error"
    /\ UNCHANGED <<config, process, handle, running, spawned, cmd, stopped>>

(* A failed attempt is the last: the loop finds no child, unless a start   *)
(* that overlaps has just put one there.                                   *)
respawn(c) ==
    /\ watch[c].pc = "sleep"
    /\ \E ok \in BOOLEAN :
         /\ spawn_cloudflared(ok)
         /\ tunnel' = IF ok THEN "Active" ELSE "Error"
         /\ watch' = [watch EXCEPT ![c].pc = IF ok \/ Overlap THEN "take" ELSE "none"]
    /\ UNCHANGED <<config, handle, cmd, stopped>>

(* cloudflared ends by itself.                                             *)
Exit(p) ==
    /\ p \in running /\ running' = running \ {p}
    /\ UNCHANGED <<config, tunnel, process, handle, spawned, cmd, watch, stopped>>

Next ==
    \/ \E c \in Starters : \/ start(c) \/ starting(c) \/ spawn(c) \/ start_failed(c)
                           \/ activate(c) \/ keep_handle(c)
                           \/ take_child(c) \/ child_exit(c) \/ respawn(c)
    \/ \E c \in Stoppers : stop(c) \/ kill(c) \/ reset(c)
    \/ \E p \in Procs : Exit(p)

-----------------------------------------------------------------------------
(* health_check and is_available                                           *)
is_available == tunnel = "Active"

Watched == \E c \in Starters : watch[c].pc # "none"

(* With no command under way, a tunnel that counts as available has a      *)
(* supervisor that will notice the end of its process or is about to start *)
(* another, unless it is simulated; after a stop there is neither, and the *)
(* tunnel is not available again by itself (start, stop, supervise).       *)
TunnelWatched == ~Busy =>
    /\ is_available /\ ~config.simulate => Watched
    /\ stopped => ~is_available /\ ~Watched
    /\ \A c, d \in Starters : c # d /\ watch[c].pc = "wait" => watch[d].pc # "wait"
=============================================================================
