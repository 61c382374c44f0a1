-------------------------- MODULE ProjectRegistry --------------------------
(***************************************************************************)
(* The projects a daemon has open: open, close, update, invite and join    *)
(* commands of the IPC server, projects.json, which save_state rewrites    *)
(* after every change, and the restore of the projects when the daemon     *)
(* starts again (project.rs, ipc_server.rs, daemon.rs, invite_token.rs).   *)
(*                                                                         *)
(* A command runs as a task of its connection and is split at its awaits.  *)
(* save_state takes its snapshot first and then rewrites the file, which   *)
(* is truncated before it is written.                                      *)
(***************************************************************************)
EXTENDS Naturals, FiniteSets

CONSTANTS
    Projects,   \* project ids
    Tokens,     \* legacy invite tokens, kept in the daemon's memory
    Tasks,      \* commands that may be under way at once
    CanCrash,   \* may the daemon die?
    CanVanish   \* may a root directory be unreachable, or a write fail?

ASSUME RegistryAssumption ==
    /\ IsFiniteSet(Projects) /\ Projects # {} /\ Tasks # {}
    /\ CanCrash \in BOOLEAN /\ CanVanish \in BOOLEAN

VARIABLES
    phase,      \* of the daemon: down, restoring, up or closing
    projects,   \* projects[p]: closed, or open with default or changed settings
    topics,     \* the gossip topics subscribed to
    catalogs,   \* the projects with a catalog manager
    invites,    \* invites[k]: the record of token k, or NoInvite
    disk,       \* projects.json: what it says of every project, or Torn
    task,       \* task[t]: the command and where it is suspended
    pending,    \* the projects still to be reopened (restoring) or closed (closing)
    wanted,     \* history: the projects the user opened and did not close
    admitted,   \* history: how often each token let somebody in
    mishap      \* history: "yes" once commands overlapped, one failed or was cut short;
                \* else "shutdown" once the daemon was shut down in order

memory == <<projects, topics, catalogs, invites>>
history == <<wanted, admitted, mishap>>
vars == <<phase, memory, disk, task, pending, history>>

States == {"closed", "default", "changed"}
NoInvite == [project |-> "none"]
Idle == [at |-> "idle"]
Closed == [p \in Projects |-> "closed"]
Torn == [p \in Projects |-> "torn"]

Open == {p \in Projects : projects[p] # "closed"}
Busy == {t \in Tasks : task[t] # Idle}

Init ==
    /\ phase = "up" /\ projects = Closed /\ topics = {} /\ catalogs = {}
    /\ invites = [k \in Tokens |-> NoInvite]
    /\ disk = Closed /\ pending = {}
    /\ task = [t \in Tasks |-> Idle]
    /\ wanted = {} /\ admitted = [k \in Tokens |-> 0] /\ mishap = "no"

-----------------------------------------------------------------------------
At(t, place) == task[t].at = place

Goto(t, place) == task' = [task EXCEPT ![t].at = place]
End(t) == task' = [task EXCEPT ![t] = Idle]

\* The history: after a mishap nothing is recorded as wanted any more.
Note(bad, want) ==
    /\ mishap' = IF bad THEN "yes" ELSE mishap
    /\ wanted' = IF bad \/ mishap = "yes" THEN {} ELSE want

\* A command starts; others that are under way are noted.
Start(t, want) ==
    /\ task[t] = Idle
    /\ Note(Busy # {} \/ phase = "closing", want)

\* A connection is served until the process ends.
Serving == phase \in {"up", "closing"}
Command(t) == Serving /\ Start(t, wanted)

Loading(kind, p) == [at |-> "load", kind |-> kind, project |-> p]

\* save_state: the snapshot, taken in the same breath as the change.
Saving(kind, p, snapshot) ==
    [at |-> "truncate", kind |-> kind, project |-> p, snapshot |-> snapshot]

-----------------------------------------------------------------------------
(* open_project.                                                           *)

ProjectOpen(t, p) ==
    /\ Command(t) /\ projects[p] = "closed"
    /\ task' = [task EXCEPT ![t] = Loading("open", p)]
    /\ UNCHANGED <<phase, memory, disk, pending, admitted>>

\* canonicalize, the manifest or the version state failed.
OpenFails(t) ==
    /\ CanVanish /\ At(t, "load")
    /\ Note(TRUE, {})
    /\ End(t)
    /\ UNCHANGED <<phase, memory, disk, pending, admitted>>

\* The project starts with default settings, restored or not.
OpenInstall(t) ==
    LET p == task[t].project
    IN  /\ At(t, "load")
        /\ projects' = [projects EXCEPT ![p] = "default"]
        /\ topics' = topics \cup {p}
        /\ task' = [task EXCEPT ![t] = Saving(@.kind, p, projects')]
        /\ UNCHANGED <<phase, catalogs, invites, disk, pending, history>>

-----------------------------------------------------------------------------
(* save_state; its errors are ignored.                                     *)

SaveTruncate(t) ==
    /\ At(t, "truncate")
    /\ disk' = Torn
    /\ Goto(t, "write")
    /\ UNCHANGED <<phase, memory, pending, history>>

\* Over the bytes of another writer the file may end up mixed.
SaveWrite(t) ==
    /\ At(t, "write")
    /\ disk' \in {task[t].snapshot} \cup (IF disk = Torn THEN {} ELSE {Torn})
    /\ Goto(t, "finish")
    /\ UNCHANGED <<phase, memory, pending, history>>

SaveFails(t) ==
    /\ CanVanish
    /\ At(t, "truncate") \/ At(t, "write")
    /\ Note(TRUE, {})
    /\ Goto(t, "finish")
    /\ UNCHANGED <<phase, memory, disk, pending, admitted>>

\* What the IPC handlers do with the catalog managers afterwards: a join by a
\* legacy token makes none.
CatalogsAfter(kind, p) ==
    CASE kind = "open" -> catalogs \cup {p}
      [] kind = "close" -> catalogs \ {p}
      [] OTHER -> catalogs

Finish(t) ==
    /\ At(t, "finish")
    /\ catalogs' = CatalogsAfter(task[t].kind, task[t].project)
    /\ Note(FALSE, IF task[t].kind \in {"open", "join"}
                   THEN wanted \cup {task[t].project} ELSE wanted)
    /\ End(t)
    /\ UNCHANGED <<phase, projects, topics, invites, disk, pending, admitted>>

-----------------------------------------------------------------------------
(* close_project and update_project.                                       *)

InvitesWithout(p) ==
    [k \in Tokens |-> IF invites[k].project = p THEN NoInvite ELSE invites[k]]

CloseProject(t, p, kind) ==
    /\ projects[p] # "closed"
    /\ projects' = [projects EXCEPT ![p] = "closed"]
    /\ topics' = topics \ {p}
    /\ invites' = InvitesWithout(p)
    /\ task' = [task EXCEPT ![t] = Saving(kind, p, projects')]
    /\ UNCHANGED <<catalogs, disk, admitted>>

ProjectClose(t, p) ==
    /\ Serving /\ Start(t, wanted \ {p})
    /\ CloseProject(t, p, "close")
    /\ UNCHANGED <<phase, pending>>

ProjectUpdate(t, p) ==
    /\ Command(t) /\ projects[p] # "closed"
    /\ projects' = [projects EXCEPT ![p] = "changed"]
    /\ task' = [task EXCEPT ![t] = Saving("update", p, projects')]
    /\ UNCHANGED <<phase, topics, catalogs, invites, disk, pending, admitted>>

-----------------------------------------------------------------------------
(* Invites.                                                                *)

\* A fresh token for one use. A token with an expiry is valid, then due at
\* that second, then expired; one without stays valid.
CreateInvite(k, p) ==
    /\ Serving /\ projects[p] # "closed"
    /\ invites[k] = NoInvite /\ admitted[k] = 0
    /\ invites' = [invites EXCEPT ![k] = [project |-> p, age |-> "valid", uses |-> 1]]
    /\ UNCHANGED <<phase, projects, topics, catalogs, disk, task, pending, history>>

Tick(k) ==
    /\ invites[k] # NoInvite /\ invites[k].age # "expired"
    /\ invites' = [invites EXCEPT ![k].age = IF @ = "valid" THEN "due" ELSE "expired"]
    /\ UNCHANGED <<phase, projects, topics, catalogs, disk, task, pending, history>>

\* Mutant: whether the token is used up is not tested.
UsableOnceMore(i) == i.age # "expired"

Usable(i) == i.age # "expired" /\ i.uses > 0

\* join_project: an unusable token is removed; a use is taken under the guard
\* of the entry, which is released before the exhausted token is removed.
JoinTake(t, k) ==
    /\ Command(t) /\ invites[k] # NoInvite
    /\ IF Usable(invites[k])
       THEN /\ invites' = [invites EXCEPT ![k].uses = @ - 1]
            /\ admitted' = [admitted EXCEPT ![k] = @ + 1]
            /\ task' = [task EXCEPT ![t] = [at |-> "joining", kind |-> "join", token |-> k,
                                            project |-> invites[k].project]]
       ELSE /\ invites' = [invites EXCEPT ![k] = NoInvite]
            /\ UNCHANGED <<admitted, task>>
    /\ UNCHANGED <<phase, projects, topics, catalogs, disk, pending>>

\* Then the token goes, and the project is opened unless it is open.
JoinOpen(t) ==
    /\ At(t, "joining")
    /\ invites' = [invites EXCEPT ![task[t].token] = NoInvite]
    /\ task' = [task EXCEPT ![t] = IF projects[@.project] = "closed"
                                   THEN Loading("join", @.project) ELSE Idle]
    /\ UNCHANGED <<phase, projects, topics, catalogs, disk, pending, history>>

\* ProjectJoin with a self-contained token of another daemon: the directory is
\* looked up before open_project tests again whether the project is open.
JoinRemote(t, p) ==
    /\ Command(t) /\ projects[p] = "closed"
    /\ task' = [task EXCEPT ![t] = [at |-> "check", kind |-> "open", project |-> p]]
    /\ UNCHANGED <<phase, memory, disk, pending, admitted>>

JoinRemoteOpen(t) ==
    /\ At(t, "check")
    /\ IF projects[task[t].project] = "closed" THEN Goto(t, "load") ELSE End(t)
    /\ UNCHANGED <<phase, memory, disk, pending, history>>

\* gc_expired_invites: a token that is due goes, though it would still join.
GcExpiredInvites ==
    /\ phase = "up"
    /\ invites' = [k \in Tokens |->
          IF invites[k] # NoInvite /\ invites[k].age # "valid" THEN NoInvite ELSE invites[k]]
    /\ invites' # invites
    /\ UNCHANGED <<phase, projects, topics, catalogs, disk, task, pending, history>>

-----------------------------------------------------------------------------
(* The daemon's life.                                                      *)

Stopped ==
    /\ phase' = "down" /\ projects' = Closed /\ topics' = {} /\ catalogs' = {}
    /\ invites' = [k \in Tokens |-> NoInvite]
    /\ task' = [t \in Tasks |-> Idle] /\ pending' = {}

\* A crash in the middle of a command or of the restore.
Crash ==
    /\ CanCrash /\ phase # "down"
    /\ Stopped
    /\ Note(Busy # {} \/ pending # {}, wanted)
    /\ UNCHANGED <<disk, admitted>>

\* shutdown: close_all closes, one after the other, the projects it found open.
Shutdown ==
    /\ phase = "up"
    /\ phase' = "closing" /\ pending' = Open
    /\ IF Busy = {} /\ mishap = "no" THEN mishap' = "shutdown" /\ UNCHANGED wanted
       ELSE Note(Busy # {}, wanted)
    /\ UNCHANGED <<memory, disk, task, admitted>>

Sequential(kind) == \A t \in Busy : task[t].kind # kind

CloseAll(t, p) ==
    /\ phase = "closing" /\ Sequential("shutdown") /\ task[t] = Idle
    /\ p \in pending /\ pending' = pending \ {p}
    /\ IF projects[p] # "closed" THEN CloseProject(t, p, "shutdown")
       ELSE UNCHANGED <<memory, disk, task, admitted>>
    /\ UNCHANGED <<phase, wanted, mishap>>

Exit ==
    /\ phase = "closing" /\ Sequential("shutdown") /\ pending = {}
    /\ Stopped
    /\ Note(Busy # {}, wanted)
    /\ UNCHANGED <<disk, admitted>>

\* load_state; a file that does not parse is ignored.
Persisted == IF disk = Torn THEN {} ELSE {p \in Projects : disk[p] # "closed"}

DaemonNew ==
    /\ phase = "down"
    /\ phase' = "restoring" /\ pending' = Persisted
    /\ UNCHANGED <<memory, disk, task, history>>

RestoreNext(t, p) ==
    /\ phase = "restoring" /\ Busy = {} /\ p \in pending
    /\ pending' = pending \ {p}
    /\ task' = [task EXCEPT ![t] = Loading("restore", p)]
    /\ UNCHANGED <<phase, memory, disk, history>>

\* Mutant: the IPC server starts before the restore is over.
DaemonRunEarly ==
    /\ phase = "restoring" /\ Busy = {}
    /\ phase' = "up" /\ catalogs' = Open
    /\ UNCHANGED <<projects, topics, invites, disk, task, pending, history>>

\* The catalog managers are made at the end, then the IPC server starts.
DaemonRun ==
    /\ phase = "restoring" /\ Busy = {} /\ pending = {}
    /\ phase' = "up" /\ catalogs' = Open
    /\ UNCHANGED <<projects, topics, invites, disk, task, pending, history>>

-----------------------------------------------------------------------------
Step(t) ==
    \/ OpenFails(t) \/ OpenInstall(t) \/ JoinOpen(t) \/ JoinRemoteOpen(t)
    \/ SaveTruncate(t) \/ SaveWrite(t) \/ SaveFails(t) \/ Finish(t)

Next ==
    \/ \E t \in Tasks, p \in Projects :
          \/ ProjectOpen(t, p) \/ ProjectClose(t, p) \/ ProjectUpdate(t, p)
          \/ JoinRemote(t, p) \/ RestoreNext(t, p) \/ CloseAll(t, p)
    \/ \E t \in Tasks : Step(t)
    \/ \E k \in Tokens, p \in Projects : CreateInvite(k, p)
    \/ \E t \in Tasks, k \in Tokens : JoinTake(t, k) \/ Tick(k)
    \/ GcExpiredInvites \/ Crash \/ Shutdown \/ Exit \/ DaemonNew \/ DaemonRun

Spec == Init /\ [][Next]_vars

-----------------------------------------------------------------------------
(* Properties.                                                             *)

\* The shape of ProjectManager, the catalog table and projects.json.
TypeOK ==
    /\ phase \in {"down", "restoring", "up", "closing"}
    /\ projects \in [Projects -> States]
    /\ disk \in [Projects -> States] \cup {Torn}
    /\ topics = Open /\ catalogs \subseteq Projects
    /\ pending \subseteq Projects /\ wanted \subseteq Projects
    /\ \A k \in Tokens : invites[k] = NoInvite \/ invites[k].project \in Projects

\* A token lets in one join: commands that find the exhausted token before it
\* is removed are refused (join_project).
InviteSingleUse == \A k \in Tokens : admitted[k] <= 1

\* A legacy token names a project of this daemon that is open: closing the
\* project takes its tokens along (close_project).
InviteNamesOpenProject ==
    \A k \in Tokens : invites[k] # NoInvite => invites[k].project \in Open

\* When commands did not overlap and nothing failed, then between commands
\* projects.json says what is open and no catalog manager outlives its
\* project (save_state, ProjectClose).
Settled ==
    phase = "up" /\ Busy = {} /\ mishap # "yes" => disk = projects /\ catalogs \subseteq Open

\* A project stays open, across crashes of an idle daemon, until it is closed;
\* as long as commands did not overlap, nothing failed and the daemon was
\* never shut down in order (load_state, Daemon::new).
ReopenedUnlessMishap == phase = "up" /\ Busy = {} /\ mishap = "no" => wanted = Open

\* A token is good for one join, and for a project that is open (join_project,
\* close_project).
InvitesSound == InviteSingleUse /\ InviteNamesOpenProject

\* The tables and projects.json agree with what is open between commands, and
\* with what the user opened across crashes (save_state, load_state).
RegistryAgrees == Settled /\ ReopenedUnlessMishap

\* "Projects are restored from projects.json after a restart of the daemon":
\* a project stays open until it is closed, whether the idle daemon crashes or
\* is shut down in order, as long as commands did not overlap or fail.
ProjectsSurvive == phase = "up" /\ Busy = {} /\ mishap # "yes" => wanted = Open
=============================================================================
