----------------------- MODULE ProjectRegistryProofs -----------------------
(***************************************************************************)
(* The registry of a daemon's projects, for any sets of projects, tokens   *)
(* and commands, with and without crashes and failures: a token lets one   *)
(* join in and names an open project, and projects.json, the catalogs and  *)
(* what the user wants open agree between commands.                        *)
(*                                                                         *)
(* None of these is inductive: between the change of a table and the end   *)
(* of its save_state the file is behind, and during a restore the open     *)
(* projects are.  OrderInv says how far, for the one command that is under *)
(* way as long as mishap is not "yes".                                     *)
(***************************************************************************)
EXTENDS ProjectRegistry, TLAPS

\* Every leaf without a prover of its own is tried with Zenon, then with SMT.
USE ZenonT(5), SMTT(30)

-----------------------------------------------------------------------------
(* The inductive invariant.                                                *)

SaveKinds == {"open", "join", "restore", "close", "update", "shutdown"}
Loads == [at : {"load", "check"}, kind : {"open", "join", "restore"}, project : Projects]
Joins == [at : {"joining"}, kind : {"join"}, token : Tokens, project : Projects]
Saves == [at : {"truncate", "write", "finish"},
          kind : SaveKinds, project : Projects, snapshot : [Projects -> States]]
TaskStates == {Idle} \cup Loads \cup Joins \cup Saves
Invites == [project : Projects, age : {"valid", "due", "expired"}, uses : {0, 1}]

Types ==
    /\ phase \in {"down", "restoring", "up", "closing"}
    /\ projects \in [Projects -> States]
    /\ disk \in [Projects -> States] \cup {Torn}
    /\ topics = Open /\ catalogs \subseteq Projects
    /\ pending \subseteq Projects /\ wanted \subseteq Projects
    /\ invites \in [Tokens -> Invites \cup {NoInvite}]
    /\ task \in [Tasks -> TaskStates]
    /\ admitted \in [Tokens -> Nat]
    /\ mishap \in {"no", "shutdown", "yes"}

\* The uses left and the joins let in add up to the one use of the token.
InviteInv ==
    \A k \in Tokens :
        /\ admitted[k] <= 1
        /\ invites[k] # NoInvite =>
              invites[k].project \in Open /\ admitted[k] + invites[k].uses = 1

Quiet == \A t \in Tasks : task[t] = Idle

PhaseInv ==
    /\ phase \in {"up", "down"} => pending = {}
    /\ phase = "down" => Quiet /\ projects = Closed
    /\ phase = "closing" => mishap # "no"

\* Between commands.  A restore that has not begun has the file of the last run.
AtRest ==
    /\ phase = "up" => /\ disk = projects /\ catalogs \subseteq Open
                       /\ mishap = "no" => wanted = Open
    /\ phase = "closing" => disk = projects
    /\ phase = "down" => disk # Torn /\ (mishap = "no" => wanted = Persisted)
    /\ phase = "restoring" =>
          /\ disk = projects \/ (projects = Closed /\ disk # Torn /\ pending = Persisted)
          /\ mishap = "no" => wanted = Open \cup pending

SavingAt == {"truncate", "write", "finish"}

\* A project that is closed but keeps its catalog until the command ends, and
\* one that is open but counts as wanted only then.
Leaving(t) == IF task[t].kind = "close" THEN {task[t].project} ELSE {}
Opening(t) ==
    IF task[t].at \in SavingAt /\ task[t].kind \in {"open", "join"} THEN {task[t].project} ELSE {}

\* While command t, and no other, is under way.
Underway(t) ==
    /\ \A u \in Tasks : u # t => task[u] = Idle
    /\ phase # "down"
    /\ phase = "up" =>
          /\ task[t].kind \in {"open", "join", "close", "update"}
          /\ catalogs \subseteq Open \cup Leaving(t)
          /\ mishap = "no" => wanted \cup Opening(t) = Open
    /\ phase = "closing" => task[t].kind = "shutdown"
    /\ phase = "restoring" =>
          /\ task[t].kind = "restore"
          /\ mishap = "no" => wanted = Open \cup pending \cup {task[t].project}
    /\ task[t].at \in {"check", "joining"} => phase = "up" /\ disk = projects
    /\ task[t].at \in SavingAt =>
          /\ task[t].snapshot = projects
          /\ task[t].kind \in {"open", "join", "restore"} => task[t].project \in Open
    /\ task[t].at = "write" => disk = Torn
    /\ task[t].at = "finish" => disk = projects

OrderInv ==
    mishap # "yes" =>
        /\ Quiet => AtRest
        /\ \A t \in Tasks : task[t] # Idle => Underway(t)

Inv == Types /\ InviteInv /\ PhaseInv /\ OrderInv

-----------------------------------------------------------------------------
(* The records of the commands.                                            *)

LEMMA TaskShapes ==
    ASSUME NEW r \in TaskStates
    PROVE  /\ r.at = "idle" <=> r = Idle
           /\ r.at \in {"load", "check"} => r \in Loads
           /\ r.at = "joining" => r \in Joins
           /\ r.at \in SavingAt => r \in Saves
           /\ r # Idle => r.project \in Projects
  BY DEF TaskStates, Idle, Loads, Joins, Saves, SavingAt

LEMMA LoadingShape ==
    ASSUME NEW kind \in {"open", "join", "restore"}, NEW p \in Projects
    PROVE  /\ Loading(kind, p) \in Loads
           /\ Loading(kind, p).at = "load" /\ Loading(kind, p).kind = kind
           /\ Loading(kind, p).project = p
  BY DEF Loading, Loads

LEMMA SavingShape ==
    ASSUME NEW kind \in SaveKinds, NEW p \in Projects, NEW s \in [Projects -> States]
    PROVE  /\ Saving(kind, p, s) \in Saves
           /\ Saving(kind, p, s).at = "truncate" /\ Saving(kind, p, s).kind = kind
           /\ Saving(kind, p, s).project = p /\ Saving(kind, p, s).snapshot = s
  BY DEF Saving, Saves

LEMMA GotoLoadShape ==
    ASSUME NEW r \in Loads
    PROVE  LET next == [r EXCEPT !.at = "load"]
           IN  /\ next \in Loads /\ next.at = "load" /\ next.kind = r.kind
               /\ next.project = r.project
  BY DEF Loads

LEMMA GotoSaveShape ==
    ASSUME NEW r \in Saves, NEW a \in SavingAt
    PROVE  LET next == [r EXCEPT !.at = a]
           IN  /\ next \in Saves /\ next.at = a /\ next.kind = r.kind
               /\ next.project = r.project /\ next.snapshot = r.snapshot
  BY DEF Saves, SavingAt

LEMMA InTaskStates == Idle \in TaskStates /\ Loads \cup Joins \cup Saves \subseteq TaskStates
  BY DEF TaskStates

\* A file that is torn says nothing, since there is a project.
LEMMA TornIsNoSnapshot == \A f \in [Projects -> States] : f # Torn
<1> SUFFICES ASSUME NEW f \in [Projects -> States], f = Torn PROVE FALSE
    OBVIOUS
<1>1. PICK p \in Projects : TRUE
  BY RegistryAssumption
<1>2. f[p] = "torn"
  BY DEF Torn
<1>3. f[p] \in States
  OBVIOUS
<1> QED BY <1>2, <1>3 DEF States

LEMMA ClosedShape ==
    /\ Closed \in [Projects -> States]
    /\ \A p \in Projects : Closed[p] = "closed"
  BY DEF Closed, States

LEMMA QuietIsIdle == Busy = {} <=> Quiet
  BY DEF Busy, Quiet

-----------------------------------------------------------------------------
(* The steps of a command, as effects on its record.                       *)

LEMMA PutTask ==
    ASSUME task \in [Tasks -> TaskStates], NEW t \in Tasks, NEW r \in TaskStates,
           task' = [task EXCEPT ![t] = r]
    PROVE  /\ task' \in [Tasks -> TaskStates] /\ task'[t] = r
           /\ \A u \in Tasks : u # t => task'[u] = task[u]
  OBVIOUS

-----------------------------------------------------------------------------
LEMMA InitInv == Init => Inv
<1> SUFFICES ASSUME Init PROVE Inv
    OBVIOUS
<1>1. Open = {}
  BY ClosedShape DEF Init, Open
<1>2. Types
  <2>1. task \in [Tasks -> TaskStates]
    BY InTaskStates DEF Init
  <2>2. invites \in [Tokens -> Invites \cup {NoInvite}]
    BY DEF Init
  <2>3. admitted \in [Tokens -> Nat]
    BY DEF Init
  <2> QED BY <1>1, <2>1, <2>2, <2>3, ClosedShape DEF Init, Types
<1>3. InviteInv
  BY DEF Init, InviteInv
<1>4. Quiet
  BY DEF Init, Quiet
<1>5. PhaseInv
  BY DEF Init, PhaseInv
<1>6. OrderInv
  BY <1>1, <1>4 DEF Init, OrderInv, Quiet, AtRest
<1> QED BY <1>2, <1>3, <1>5, <1>6 DEF Inv

LEMMA NoteTypes ==
    ASSUME NEW bad \in BOOLEAN, NEW want \in SUBSET Projects, Note(bad, want),
           mishap \in {"no", "shutdown", "yes"}
    PROVE  mishap' \in {"no", "shutdown", "yes"} /\ wanted' \subseteq Projects
  BY DEF Note

\* What is open after a project is opened, closed or changed.
LEMMA OpenAfter ==
    ASSUME projects \in [Projects -> States], NEW p \in Projects, NEW s \in States,
           projects' = [projects EXCEPT ![p] = s]
    PROVE  /\ projects' \in [Projects -> States]
           /\ Open' = IF s = "closed" THEN Open \ {p} ELSE Open \cup {p}
  BY DEF Open, States

-----------------------------------------------------------------------------
(* What the steps do to the record of their command.                       *)

Kept(t) == \A u \in Tasks : u # t => task'[u] = task[u]

LEMMA PutSaving ==
    ASSUME Types, NEW t \in Tasks, NEW kind \in SaveKinds, NEW p \in Projects,
           NEW s \in [Projects -> States], task' = [task EXCEPT ![t] = Saving(kind, p, s)]
    PROVE  /\ task' \in [Tasks -> TaskStates] /\ task'[t] \in Saves /\ Kept(t)
           /\ task'[t].at = "truncate" /\ task'[t].kind = kind
           /\ task'[t].project = p /\ task'[t].snapshot = s
<1>1. Saving(kind, p, s) \in TaskStates
  BY SavingShape, InTaskStates
<1>2. task' \in [Tasks -> TaskStates] /\ task'[t] = Saving(kind, p, s) /\ Kept(t)
  BY <1>1, PutTask DEF Types, Kept
<1> QED BY <1>2, SavingShape

LEMMA OpenInstallTask ==
    ASSUME Types, NEW t \in Tasks, OpenInstall(t)
    PROVE  /\ task[t] \in Loads /\ task'[t] \in Saves /\ Kept(t)
           /\ task' \in [Tasks -> TaskStates]
           /\ task'[t].at = "truncate" /\ task'[t].kind = task[t].kind
           /\ task'[t].project = task[t].project /\ task'[t].snapshot = projects'
           /\ projects' = [projects EXCEPT ![task[t].project] = "default"]
           /\ projects' \in [Projects -> States]
           /\ Open' = Open \cup {task[t].project}
<1>1. task[t] \in Loads
  BY TaskShapes DEF OpenInstall, At, Types
<1>2. task[t].project \in Projects /\ task[t].kind \in {"open", "join", "restore"}
  BY <1>1 DEF Loads
<1>3. projects' = [projects EXCEPT ![task[t].project] = "default"]
  BY DEF OpenInstall
<1>4. projects' \in [Projects -> States] /\ Open' = Open \cup {task[t].project}
  <2>1. "default" \in States /\ "default" # "closed"
    BY DEF States
  <2> QED BY <1>2, <1>3, <2>1, OpenAfter DEF Types
<1>5. task' = [task EXCEPT ![t] = Saving(task[t].kind, task[t].project, projects')]
  BY DEF OpenInstall
<1>6. task[t].project \in Projects /\ task[t].kind \in SaveKinds
  BY <1>2 DEF SaveKinds
<1>7. /\ task' \in [Tasks -> TaskStates] /\ task'[t] \in Saves /\ Kept(t)
      /\ task'[t].at = "truncate" /\ task'[t].kind = task[t].kind
      /\ task'[t].project = task[t].project /\ task'[t].snapshot = projects'
  <2>1. projects' \in [Projects -> States]
    BY <1>4
  <2> QED BY <1>5, <1>6, <2>1, PutSaving
<1> QED BY <1>1, <1>3, <1>4, <1>7

LEMMA GotoTask ==
    ASSUME Types, NEW t \in Tasks, NEW a \in SavingAt, Goto(t, a), task[t].at \in SavingAt
    PROVE  /\ task[t] \in Saves /\ task'[t] \in Saves /\ Kept(t)
           /\ task' \in [Tasks -> TaskStates]
           /\ task'[t].at = a /\ task'[t].kind = task[t].kind
           /\ task'[t].project = task[t].project /\ task'[t].snapshot = task[t].snapshot
<1>1. task[t] \in Saves
  BY TaskShapes DEF Types
<1>2. task' = [task EXCEPT ![t] = [task[t] EXCEPT !.at = a]]
  BY DEF Goto
<1>3. [task[t] EXCEPT !.at = a] \in TaskStates
  BY <1>1, GotoSaveShape, InTaskStates
<1>4. /\ task' \in [Tasks -> TaskStates] /\ Kept(t)
      /\ task'[t] = [task[t] EXCEPT !.at = a]
  BY <1>2, <1>3, PutTask DEF Types, Kept
<1> QED BY <1>1, <1>4, GotoSaveShape

LEMMA EndTask ==
    ASSUME Types, NEW t \in Tasks, End(t)
    PROVE  task' \in [Tasks -> TaskStates] /\ task'[t] = Idle /\ Kept(t)
  BY InTaskStates, PutTask DEF Types, End, Kept

LEMMA LoadTask ==
    ASSUME Types, NEW t \in Tasks, NEW p \in Projects, NEW kind \in {"open", "join", "restore"},
           task' = [task EXCEPT ![t] = Loading(kind, p)]
    PROVE  /\ task' \in [Tasks -> TaskStates] /\ task'[t] \in Loads /\ Kept(t)
           /\ task'[t].at = "load" /\ task'[t].kind = kind /\ task'[t].project = p
<1>1. Loading(kind, p) \in TaskStates
  BY LoadingShape, InTaskStates
<1> QED BY <1>1, LoadingShape, PutTask DEF Types, Kept

LEMMA CloseTask ==
    ASSUME Types, NEW t \in Tasks, NEW p \in Projects, NEW kind \in {"close", "shutdown"},
           CloseProject(t, p, kind)
    PROVE  /\ task' \in [Tasks -> TaskStates] /\ task'[t] \in Saves /\ Kept(t)
           /\ task'[t].at = "truncate" /\ task'[t].kind = kind
           /\ task'[t].project = p /\ task'[t].snapshot = projects'
           /\ projects' \in [Projects -> States] /\ Open' = Open \ {p}
<1>1. projects' = [projects EXCEPT ![p] = "closed"]
  BY DEF CloseProject
<1>2. projects' \in [Projects -> States] /\ Open' = Open \ {p}
  <2>1. "closed" \in States
    BY DEF States
  <2> QED BY <1>1, <2>1, OpenAfter DEF Types
<1>3. task' = [task EXCEPT ![t] = Saving(kind, p, projects')]
  BY DEF CloseProject
<1>4. kind \in SaveKinds
  BY DEF SaveKinds
<1>5. /\ task' \in [Tasks -> TaskStates] /\ task'[t] \in Saves /\ Kept(t)
      /\ task'[t].at = "truncate" /\ task'[t].kind = kind
      /\ task'[t].project = p /\ task'[t].snapshot = projects'
  <2>1. projects' \in [Projects -> States]
    BY <1>2
  <2> QED BY <1>3, <1>4, <2>1, PutSaving
<1> QED BY <1>1, <1>2, <1>5

LEMMA UpdateTask ==
    ASSUME Types, NEW t \in Tasks, NEW p \in Projects, ProjectUpdate(t, p)
    PROVE  /\ task' \in [Tasks -> TaskStates] /\ task'[t] \in Saves /\ Kept(t)
           /\ task'[t].at = "truncate" /\ task'[t].kind = "update"
           /\ task'[t].project = p /\ task'[t].snapshot = projects'
           /\ projects' \in [Projects -> States] /\ Open' = Open
<1>1. projects' = [projects EXCEPT ![p] = "changed"] /\ p \in Open
  BY DEF ProjectUpdate, Open
<1>2. projects' \in [Projects -> States] /\ Open' = Open
  <2>1. "changed" \in States /\ "changed" # "closed"
    BY DEF States
  <2>2. projects' \in [Projects -> States] /\ Open' = Open \cup {p}
    BY <1>1, <2>1, OpenAfter DEF Types
  <2> QED BY <1>1, <2>2
<1>3. task' = [task EXCEPT ![t] = Saving("update", p, projects')]
  BY DEF ProjectUpdate
<1>4. "update" \in SaveKinds
  BY DEF SaveKinds
<1>5. /\ task' \in [Tasks -> TaskStates] /\ task'[t] \in Saves /\ Kept(t)
      /\ task'[t].at = "truncate" /\ task'[t].kind = "update"
      /\ task'[t].project = p /\ task'[t].snapshot = projects'
  <2>1. projects' \in [Projects -> States]
    BY <1>2
  <2> QED BY <1>3, <1>4, <2>1, PutSaving
<1> QED BY <1>1, <1>2, <1>5

LEMMA JoinTakeTask ==
    ASSUME Types, NEW t \in Tasks, NEW k \in Tokens, JoinTake(t, k), Usable(invites[k])
    PROVE  /\ task' \in [Tasks -> TaskStates] /\ task'[t] \in Joins /\ Kept(t)
           /\ task'[t].at = "joining" /\ task'[t].kind = "join"
<1> DEFINE r == [at |-> "joining", kind |-> "join", token |-> k, project |-> invites[k].project]
<1>1. invites[k] \in Invites
  BY DEF JoinTake, Types
<1>2. r \in Joins /\ r.at = "joining" /\ r.kind = "join"
  BY <1>1 DEF Joins, Invites
<1>3. task' = [task EXCEPT ![t] = r]
  BY DEF JoinTake
<1>4. r \in TaskStates
  BY <1>2, InTaskStates
<1> HIDE DEF r
<1> QED BY <1>2, <1>3, <1>4, PutTask DEF Types, Kept

LEMMA JoinOpenTask ==
    ASSUME Types, NEW t \in Tasks, JoinOpen(t)
    PROVE  /\ task' \in [Tasks -> TaskStates] /\ Kept(t) /\ task[t] \in Joins
           /\ \/ task'[t] = Idle
              \/ /\ task'[t] \in Loads /\ task'[t].at = "load" /\ task'[t].kind = "join"
                 /\ task'[t].project = task[t].project
<1>1. task[t] \in Joins
  BY TaskShapes DEF JoinOpen, At, Types
<1>2. task[t].project \in Projects
  BY <1>1 DEF Joins
<1>3. CASE projects[task[t].project] = "closed"
  <2>1. task' = [task EXCEPT ![t] = Loading("join", task[t].project)]
    BY <1>3 DEF JoinOpen
  <2> QED BY <1>1, <1>2, <2>1, LoadTask
<1>4. CASE projects[task[t].project] # "closed"
  <2>1. task' = [task EXCEPT ![t] = Idle]
    BY <1>4 DEF JoinOpen
  <2> QED BY <1>1, <2>1, EndTask DEF End
<1> QED BY <1>3, <1>4

LEMMA JoinRemoteTask ==
    ASSUME Types, NEW t \in Tasks, NEW p \in Projects, JoinRemote(t, p)
    PROVE  /\ task' \in [Tasks -> TaskStates] /\ task'[t] \in Loads /\ Kept(t)
           /\ task'[t].at = "check" /\ task'[t].kind = "open" /\ task'[t].project = p
<1> DEFINE r == [at |-> "check", kind |-> "open", project |-> p]
<1>1. r \in Loads /\ r.at = "check" /\ r.kind = "open" /\ r.project = p
  BY DEF Loads
<1>2. task' = [task EXCEPT ![t] = r]
  BY DEF JoinRemote
<1>3. r \in TaskStates
  BY <1>1, InTaskStates
<1> HIDE DEF r
<1> QED BY <1>1, <1>2, <1>3, PutTask DEF Types, Kept

LEMMA JoinRemoteOpenTask ==
    ASSUME Types, NEW t \in Tasks, JoinRemoteOpen(t)
    PROVE  /\ task' \in [Tasks -> TaskStates] /\ Kept(t) /\ task[t] \in Loads
           /\ \/ task'[t] = Idle
              \/ /\ task'[t] \in Loads /\ task'[t].at = "load" /\ task'[t].kind = task[t].kind
                 /\ task'[t].project = task[t].project
<1>1. task[t] \in Loads
  BY TaskShapes DEF JoinRemoteOpen, At, Types
<1>2. CASE End(t)
  BY <1>1, <1>2, EndTask
<1>3. CASE Goto(t, "load")
  <2>1. task' = [task EXCEPT ![t] = [task[t] EXCEPT !.at = "load"]]
    BY <1>3 DEF Goto
  <2>2. [task[t] EXCEPT !.at = "load"] \in TaskStates
    BY <1>1, GotoLoadShape, InTaskStates
  <2>3. /\ task' \in [Tasks -> TaskStates] /\ Kept(t)
        /\ task'[t] = [task[t] EXCEPT !.at = "load"]
    BY <2>1, <2>2, PutTask DEF Types, Kept
  <2> QED BY <1>1, <2>3, GotoLoadShape
<1> QED BY <1>2, <1>3 DEF JoinRemoteOpen

-----------------------------------------------------------------------------
(* The steps keep the types.                                               *)

LEMMA StartTypes ==
    ASSUME Types, NEW t \in Tasks, NEW want \in SUBSET Projects, Start(t, want)
    PROVE  mishap' \in {"no", "shutdown", "yes"} /\ wanted' \subseteq Projects
  BY NoteTypes DEF Start, Types

LEMMA OpenSubset == Types => Open \subseteq Projects /\ Persisted \subseteq Projects
  BY DEF Open, Persisted

LEMMA OpenUnchanged == UNCHANGED projects => Open' = Open
  BY DEF Open

LEMMA InvitesWithoutTypes ==
    ASSUME Types, NEW p \in Projects
    PROVE  InvitesWithout(p) \in [Tokens -> Invites \cup {NoInvite}]
  BY DEF Types, InvitesWithout

LEMMA StoppedTypes ==
    ASSUME Types, Stopped
    PROVE  /\ phase' = "down" /\ projects' = Closed /\ projects' \in [Projects -> States]
           /\ Open' = {} /\ topics' = {} /\ catalogs' = {} /\ pending' = {}
           /\ invites' \in [Tokens -> Invites \cup {NoInvite}]
           /\ \A k \in Tokens : invites'[k] = NoInvite
           /\ task' \in [Tasks -> TaskStates] /\ Quiet'
<1>1. projects' = Closed /\ projects' \in [Projects -> States] /\ Open' = {}
  BY ClosedShape DEF Stopped, Open
<1>2. /\ invites' \in [Tokens -> Invites \cup {NoInvite}]
      /\ \A k \in Tokens : invites'[k] = NoInvite
  BY DEF Stopped
<1>3. task' \in [Tasks -> TaskStates] /\ Quiet'
  BY InTaskStates DEF Stopped, Quiet
<1> QED BY <1>1, <1>2, <1>3 DEF Stopped

LEMMA TypesStep ==
    ASSUME Types, [Next]_vars
    PROVE  Types'
<1> USE DEF Types
<1>1. ASSUME NEW t \in Tasks, NEW p \in Projects, ProjectOpen(t, p) PROVE Types'
  <2>1. task' = [task EXCEPT ![t] = Loading("open", p)] /\ Start(t, wanted)
    BY <1>1 DEF ProjectOpen, Command
  <2>2. task' \in [Tasks -> TaskStates]
    BY <2>1, LoadTask
  <2> QED BY <1>1, <2>1, <2>2, StartTypes, OpenUnchanged DEF ProjectOpen, memory
<1>2. ASSUME NEW t \in Tasks, NEW p \in Projects, ProjectClose(t, p) PROVE Types'
  <2>1. CloseProject(t, p, "close") /\ Start(t, wanted \ {p})
    BY <1>2 DEF ProjectClose
  <2>2. /\ task' \in [Tasks -> TaskStates]
        /\ projects' \in [Projects -> States] /\ Open' = Open \ {p}
    BY <2>1, CloseTask
  <2>3. mishap' \in {"no", "shutdown", "yes"} /\ wanted' \subseteq Projects
    <3>1. wanted \ {p} \in SUBSET Projects
      OBVIOUS
    <3> QED BY <2>1, <3>1, StartTypes
  <2> QED BY <1>2, <2>2, <2>3, InvitesWithoutTypes DEF ProjectClose, CloseProject
<1>3. ASSUME NEW t \in Tasks, NEW p \in Projects, ProjectUpdate(t, p) PROVE Types'
  <2>1. Start(t, wanted)
    BY <1>3 DEF ProjectUpdate, Command
  <2>2. /\ task' \in [Tasks -> TaskStates]
        /\ projects' \in [Projects -> States] /\ Open' = Open
    BY <1>3, UpdateTask
  <2> QED BY <1>3, <2>1, <2>2, StartTypes DEF ProjectUpdate
<1>4. ASSUME NEW t \in Tasks, NEW p \in Projects, JoinRemote(t, p) PROVE Types'
  <2>1. Start(t, wanted)
    BY <1>4 DEF JoinRemote, Command
  <2>2. task' \in [Tasks -> TaskStates]
    BY <1>4, JoinRemoteTask
  <2> QED BY <1>4, <2>1, <2>2, StartTypes, OpenUnchanged DEF JoinRemote, memory
<1>5. ASSUME NEW t \in Tasks, NEW p \in Projects, RestoreNext(t, p) PROVE Types'
  <2>1. task' = [task EXCEPT ![t] = Loading("restore", p)]
    BY <1>5 DEF RestoreNext
  <2>2. task' \in [Tasks -> TaskStates]
    BY <2>1, LoadTask
  <2> QED BY <1>5, <2>2, OpenUnchanged DEF RestoreNext, memory, history
<1>6. ASSUME NEW t \in Tasks, NEW p \in Projects, CloseAll(t, p) PROVE Types'
  <2>1. CASE projects[p] # "closed"
    <3>1. CloseProject(t, p, "shutdown")
      BY <1>6, <2>1 DEF CloseAll
    <3>2. /\ task' \in [Tasks -> TaskStates]
          /\ projects' \in [Projects -> States] /\ Open' = Open \ {p}
      BY <3>1, CloseTask
    <3> QED BY <1>6, <3>1, <3>2, InvitesWithoutTypes DEF CloseAll, CloseProject
  <2>2. CASE projects[p] = "closed"
    BY <1>6, <2>2, OpenUnchanged DEF CloseAll, memory
  <2> QED BY <2>1, <2>2
<1>7. ASSUME NEW t \in Tasks, OpenFails(t) PROVE Types'
  <2>1. task' \in [Tasks -> TaskStates]
    BY <1>7, EndTask DEF OpenFails
  <2> QED BY <1>7, <2>1, OpenUnchanged DEF OpenFails, memory, Note
<1>8. ASSUME NEW t \in Tasks, OpenInstall(t) PROVE Types'
  <2>1. /\ task' \in [Tasks -> TaskStates] /\ projects' \in [Projects -> States]
        /\ Open' = Open \cup {task[t].project}
    BY <1>8, OpenInstallTask
  <2> QED BY <1>8, <2>1 DEF OpenInstall, history
<1>9. ASSUME NEW t \in Tasks, JoinOpen(t) PROVE Types'
  <2>1. task' \in [Tasks -> TaskStates]
    BY <1>9, JoinOpenTask
  <2>2. invites' \in [Tokens -> Invites \cup {NoInvite}]
    BY <1>9 DEF JoinOpen
  <2> QED BY <1>9, <2>1, <2>2, OpenUnchanged DEF JoinOpen, history
<1>10. ASSUME NEW t \in Tasks, JoinRemoteOpen(t) PROVE Types'
  <2>1. task' \in [Tasks -> TaskStates]
    BY <1>10, JoinRemoteOpenTask
  <2> QED BY <1>10, <2>1, OpenUnchanged DEF JoinRemoteOpen, memory, history
<1>11. ASSUME NEW t \in Tasks, SaveTruncate(t) PROVE Types'
  <2>1. task' \in [Tasks -> TaskStates]
    BY <1>11, GotoTask DEF SaveTruncate, At, SavingAt
  <2> QED BY <1>11, <2>1, OpenUnchanged DEF SaveTruncate, memory, history
<1>12. ASSUME NEW t \in Tasks, SaveWrite(t) PROVE Types'
  <2>1. task' \in [Tasks -> TaskStates] /\ task[t] \in Saves
    BY <1>12, GotoTask DEF SaveWrite, At, SavingAt
  <2>2. task[t].snapshot \in [Projects -> States]
    BY <2>1 DEF Saves
  <2>3. disk' \in [Projects -> States] \cup {Torn}
    BY <1>12, <2>2 DEF SaveWrite
  <2> QED BY <1>12, <2>1, <2>3, OpenUnchanged DEF SaveWrite, memory, history
<1>13. ASSUME NEW t \in Tasks, SaveFails(t) PROVE Types'
  <2>1. task' \in [Tasks -> TaskStates]
    BY <1>13, GotoTask DEF SaveFails, At, SavingAt
  <2> QED BY <1>13, <2>1, OpenUnchanged DEF SaveFails, memory, Note
<1>14. ASSUME NEW t \in Tasks, Finish(t) PROVE Types'
  <2>1. task' \in [Tasks -> TaskStates]
    BY <1>14, EndTask DEF Finish
  <2>2. task[t].project \in Projects
    BY <1>14, TaskShapes DEF Finish, At, SavingAt, Idle
  <2>3. mishap' \in {"no", "shutdown", "yes"} /\ wanted' \subseteq Projects
    BY <1>14, <2>2 DEF Finish, Note
  <2>4. catalogs' \subseteq Projects
    BY <1>14, <2>2 DEF Finish, CatalogsAfter
  <2> QED BY <1>14, <2>1, <2>3, <2>4, OpenUnchanged DEF Finish
<1>15. ASSUME NEW k \in Tokens, NEW p \in Projects, CreateInvite(k, p) PROVE Types'
  <2>1. [project |-> p, age |-> "valid", uses |-> 1] \in Invites
    BY DEF Invites
  <2>2. invites' \in [Tokens -> Invites \cup {NoInvite}]
    BY <1>15, <2>1 DEF CreateInvite
  <2> QED BY <1>15, <2>2, OpenUnchanged DEF CreateInvite, history
<1>16. ASSUME NEW t \in Tasks, NEW k \in Tokens, JoinTake(t, k) PROVE Types'
  <2>1. Start(t, wanted) /\ invites[k] \in Invites
    BY <1>16 DEF JoinTake, Command
  <2>2. CASE Usable(invites[k])
    <3>1. task' \in [Tasks -> TaskStates]
      BY <1>16, <2>2, JoinTakeTask
    <3>2. [invites[k] EXCEPT !.uses = @ - 1] \in Invites
      BY <2>1, <2>2 DEF Invites, Usable
    <3>3. invites' \in [Tokens -> Invites \cup {NoInvite}]
      <4>1. invites' = [invites EXCEPT ![k] = [invites[k] EXCEPT !.uses = @ - 1]]
        BY <1>16, <2>2 DEF JoinTake
      <4> QED BY <3>2, <4>1
    <3>4. admitted' \in [Tokens -> Nat]
      BY <1>16, <2>2 DEF JoinTake
    <3> QED BY <1>16, <2>1, <3>1, <3>3, <3>4, StartTypes, OpenUnchanged DEF JoinTake
  <2>3. CASE ~Usable(invites[k])
    <3>1. invites' \in [Tokens -> Invites \cup {NoInvite}] /\ UNCHANGED <<admitted, task>>
      BY <1>16, <2>3 DEF JoinTake
    <3> QED BY <1>16, <2>1, <3>1, StartTypes, OpenUnchanged DEF JoinTake
  <2> QED BY <2>2, <2>3
<1>17. ASSUME NEW k \in Tokens, Tick(k) PROVE Types'
  <2>1. invites[k] \in Invites
    BY <1>17 DEF Tick
  <2>2. [invites[k] EXCEPT !.age = IF @ = "valid" THEN "due" ELSE "expired"] \in Invites
    BY <2>1 DEF Invites
  <2>3. invites' = [invites EXCEPT ![k] =
           [invites[k] EXCEPT !.age = IF @ = "valid" THEN "due" ELSE "expired"]]
    BY <1>17 DEF Tick
  <2>4. invites' \in [Tokens -> Invites \cup {NoInvite}]
    BY <2>2, <2>3
  <2> QED BY <1>17, <2>4, OpenUnchanged DEF Tick, history
<1>18. CASE GcExpiredInvites
  <2>1. invites' \in [Tokens -> Invites \cup {NoInvite}]
    BY <1>18 DEF GcExpiredInvites
  <2> QED BY <1>18, <2>1, OpenUnchanged DEF GcExpiredInvites, history
<1>19. CASE Crash
  BY <1>19, StoppedTypes DEF Crash, Note
<1>20. CASE Shutdown
  BY <1>20, OpenUnchanged, OpenSubset DEF Shutdown, Note, memory
<1>21. CASE Exit
  BY <1>21, StoppedTypes DEF Exit, Note
<1>22. CASE DaemonNew
  BY <1>22, OpenUnchanged, OpenSubset DEF DaemonNew, memory, history
<1>23. CASE DaemonRun
  BY <1>23, OpenUnchanged, OpenSubset DEF DaemonRun, history
<1>24. CASE UNCHANGED vars
  BY <1>24, OpenUnchanged DEF vars, memory, history
<1> QED BY <1>1, <1>2, <1>3, <1>4, <1>5, <1>6, <1>7, <1>8, <1>9, <1>10, <1>11, <1>12, <1>13,
           <1>14, <1>15, <1>16, <1>17, <1>18, <1>19, <1>20, <1>21, <1>22, <1>23, <1>24
        DEF Next, Step

-----------------------------------------------------------------------------
(* The tokens.                                                             *)

InviteKept(k) ==
    /\ admitted'[k] <= 1
    /\ invites'[k] # NoInvite =>
          invites'[k].project \in Open' /\ admitted'[k] + invites'[k].uses = 1

LEMMA InviteFrame ==
    ASSUME InviteInv, UNCHANGED <<invites, admitted>>, Open \subseteq Open'
    PROVE  InviteInv'
  BY DEF InviteInv

LEMMA InviteRemoved ==
    ASSUME Types, InviteInv, UNCHANGED <<projects, admitted>>,
           \A k \in Tokens : invites'[k] \in {invites[k], NoInvite}
    PROVE  InviteInv'
  BY OpenUnchanged DEF InviteInv

LEMMA InviteClose ==
    ASSUME Types, InviteInv, NEW t \in Tasks, NEW p \in Projects,
           NEW kind \in {"close", "shutdown"}, CloseProject(t, p, kind)
    PROVE  InviteInv'
<1>1. Open' = Open \ {p}
  BY CloseTask
<1>2. ASSUME NEW k \in Tokens PROVE InviteKept(k)
  <2>1. invites'[k] = IF invites[k].project = p THEN NoInvite ELSE invites[k]
    BY DEF CloseProject, InvitesWithout
  <2>2. admitted' = admitted
    BY DEF CloseProject
  <2> QED BY <1>1, <2>1, <2>2 DEF InviteInv, InviteKept
<1> QED BY <1>2 DEF InviteInv, InviteKept

LEMMA InviteStep ==
    ASSUME Types, InviteInv, [Next]_vars
    PROVE  InviteInv'
<1>1. ASSUME NEW t \in Tasks, NEW p \in Projects, ProjectOpen(t, p) PROVE InviteInv'
  BY <1>1, InviteFrame, OpenUnchanged DEF ProjectOpen, memory
<1>2. ASSUME NEW t \in Tasks, NEW p \in Projects, ProjectClose(t, p) PROVE InviteInv'
  BY <1>2, InviteClose DEF ProjectClose
<1>3. ASSUME NEW t \in Tasks, NEW p \in Projects, ProjectUpdate(t, p) PROVE InviteInv'
  BY <1>3, InviteFrame, UpdateTask DEF ProjectUpdate
<1>4. ASSUME NEW t \in Tasks, NEW p \in Projects, JoinRemote(t, p) PROVE InviteInv'
  BY <1>4, InviteFrame, OpenUnchanged DEF JoinRemote, memory
<1>5. ASSUME NEW t \in Tasks, NEW p \in Projects, RestoreNext(t, p) PROVE InviteInv'
  BY <1>5, InviteFrame, OpenUnchanged DEF RestoreNext, memory, history
<1>6. ASSUME NEW t \in Tasks, NEW p \in Projects, CloseAll(t, p) PROVE InviteInv'
  <2>1. CASE projects[p] # "closed"
    BY <1>6, <2>1, InviteClose DEF CloseAll
  <2>2. CASE projects[p] = "closed"
    BY <1>6, <2>2, InviteFrame, OpenUnchanged DEF CloseAll, memory
  <2> QED BY <2>1, <2>2
<1>7. ASSUME NEW t \in Tasks, OpenFails(t) PROVE InviteInv'
  BY <1>7, InviteFrame, OpenUnchanged DEF OpenFails, memory
<1>8. ASSUME NEW t \in Tasks, OpenInstall(t) PROVE InviteInv'
  BY <1>8, InviteFrame, OpenInstallTask DEF OpenInstall, history
<1>9. ASSUME NEW t \in Tasks, JoinOpen(t) PROVE InviteInv'
  <2>1. \A k \in Tokens : invites'[k] \in {invites[k], NoInvite}
    BY <1>9 DEF JoinOpen, Types
  <2> QED BY <1>9, <2>1, InviteRemoved DEF JoinOpen, history
<1>10. ASSUME NEW t \in Tasks, JoinRemoteOpen(t) PROVE InviteInv'
  BY <1>10, InviteFrame, OpenUnchanged DEF JoinRemoteOpen, memory, history
<1>11. ASSUME NEW t \in Tasks, SaveTruncate(t) PROVE InviteInv'
  BY <1>11, InviteFrame, OpenUnchanged DEF SaveTruncate, memory, history
<1>12. ASSUME NEW t \in Tasks, SaveWrite(t) PROVE InviteInv'
  BY <1>12, InviteFrame, OpenUnchanged DEF SaveWrite, memory, history
<1>13. ASSUME NEW t \in Tasks, SaveFails(t) PROVE InviteInv'
  BY <1>13, InviteFrame, OpenUnchanged DEF SaveFails, memory
<1>14. ASSUME NEW t \in Tasks, Finish(t) PROVE InviteInv'
  BY <1>14, InviteFrame, OpenUnchanged DEF Finish
<1>15. ASSUME NEW c \in Tokens, NEW p \in Projects, CreateInvite(c, p) PROVE InviteInv'
  <2>1. Open' = Open /\ p \in Open /\ admitted' = admitted /\ admitted[c] = 0
    BY <1>15, OpenUnchanged DEF CreateInvite, Open, history
  <2>2. ASSUME NEW k \in Tokens PROVE InviteKept(k)
    <3>1. CASE k = c
      <4>1. invites'[k] = [project |-> p, age |-> "valid", uses |-> 1]
        BY <1>15, <3>1 DEF CreateInvite, Types
      <4>2. invites'[k].project = p /\ invites'[k].uses = 1
        BY <4>1
      <4> QED BY <2>1, <3>1, <4>2 DEF InviteKept
    <3>2. CASE k # c
      <4>1. invites'[k] = invites[k]
        BY <1>15, <3>2 DEF CreateInvite, Types
      <4> QED BY <2>1, <4>1 DEF InviteKept, InviteInv
    <3> QED BY <3>1, <3>2
  <2> QED BY <2>2 DEF InviteInv, InviteKept
<1>16. ASSUME NEW t \in Tasks, NEW c \in Tokens, JoinTake(t, c) PROVE InviteInv'
  <2>1. Open' = Open
    BY <1>16, OpenUnchanged DEF JoinTake
  <2>2. CASE Usable(invites[c])
    <3>1. invites[c] \in Invites /\ invites[c] # NoInvite
      BY <1>16 DEF JoinTake, Types
    <3>2. invites[c].uses = 1 /\ invites[c].project \in Open
      BY <2>2, <3>1 DEF Usable, Invites, InviteInv
    <3>3. admitted[c] = 0
      BY <3>1, <3>2 DEF InviteInv, Types
    <3>4. invites' = [invites EXCEPT ![c] = [invites[c] EXCEPT !.uses = @ - 1]]
      BY <1>16, <2>2 DEF JoinTake
    <3>5. admitted' = [admitted EXCEPT ![c] = @ + 1]
      BY <1>16, <2>2 DEF JoinTake
    <3>6. ASSUME NEW k \in Tokens PROVE InviteKept(k)
      <4>1. CASE k = c
        <5>1. invites'[k].uses = 0 /\ invites'[k].project = invites[c].project
          BY <3>1, <3>2, <3>4, <4>1 DEF Invites, Types
        <5>2. admitted'[k] = 1
          BY <3>3, <3>5, <4>1 DEF Types
        <5> QED BY <2>1, <3>2, <5>1, <5>2 DEF InviteKept
      <4>2. CASE k # c
        <5>1. invites'[k] = invites[k] /\ admitted'[k] = admitted[k]
          BY <3>4, <3>5, <4>2 DEF Types
        <5> QED BY <2>1, <5>1 DEF InviteKept, InviteInv
      <4> QED BY <4>1, <4>2
    <3> QED BY <3>6 DEF InviteInv, InviteKept
  <2>3. CASE ~Usable(invites[c])
    <3>1. \A k \in Tokens : invites'[k] \in {invites[k], NoInvite}
      BY <1>16, <2>3 DEF JoinTake, Types
    <3> QED BY <1>16, <2>3, <3>1, InviteRemoved DEF JoinTake
  <2> QED BY <2>2, <2>3
<1>17. ASSUME NEW c \in Tokens, Tick(c) PROVE InviteInv'
  <2>1. Open' = Open /\ admitted' = admitted
    BY <1>17, OpenUnchanged DEF Tick, history
  <2>2. invites' = [invites EXCEPT ![c] =
           [invites[c] EXCEPT !.age = IF @ = "valid" THEN "due" ELSE "expired"]]
    BY <1>17 DEF Tick
  <2>3. invites[c] \in Invites /\ invites[c] # NoInvite
    BY <1>17 DEF Tick, Types
  <2>4. ASSUME NEW k \in Tokens PROVE InviteKept(k)
    <3>1. CASE k = c
      <4>1. invites'[k].uses = invites[c].uses /\ invites'[k].project = invites[c].project
        BY <2>2, <2>3, <3>1 DEF Invites, Types
      <4> QED BY <2>1, <2>3, <3>1, <4>1 DEF InviteKept, InviteInv
    <3>2. CASE k # c
      <4>1. invites'[k] = invites[k]
        BY <2>2, <3>2 DEF Types
      <4> QED BY <2>1, <4>1 DEF InviteKept, InviteInv
    <3> QED BY <3>1, <3>2
  <2> QED BY <2>4 DEF InviteInv, InviteKept
<1>18. CASE GcExpiredInvites
  <2>1. \A k \in Tokens : invites'[k] \in {invites[k], NoInvite}
    BY <1>18 DEF GcExpiredInvites
  <2> QED BY <1>18, <2>1, InviteRemoved DEF GcExpiredInvites, history
<1>19. CASE Crash
  BY <1>19, StoppedTypes DEF Crash, InviteInv
<1>20. CASE Shutdown
  BY <1>20, InviteFrame, OpenUnchanged DEF Shutdown, memory
<1>21. CASE Exit
  BY <1>21, StoppedTypes DEF Exit, InviteInv
<1>22. CASE DaemonNew
  BY <1>22, InviteFrame, OpenUnchanged DEF DaemonNew, memory, history
<1>23. CASE DaemonRun
  BY <1>23, InviteFrame, OpenUnchanged DEF DaemonRun, history
<1>24. CASE UNCHANGED vars
  BY <1>24, InviteFrame, OpenUnchanged DEF vars, memory, history
<1> QED BY <1>1, <1>2, <1>3, <1>4, <1>5, <1>6, <1>7, <1>8, <1>9, <1>10, <1>11, <1>12, <1>13,
           <1>14, <1>15, <1>16, <1>17, <1>18, <1>19, <1>20, <1>21, <1>22, <1>23, <1>24
        DEF Next, Step

-----------------------------------------------------------------------------
(* The phases of the daemon.                                               *)

LEMMA NotDown ==
    ASSUME PhaseInv, NEW t \in Tasks, task[t].at # "idle"
    PROVE  phase # "down" /\ task[t] # Idle
  BY DEF PhaseInv, Quiet, Idle

LEMMA PhaseFrame ==
    ASSUME PhaseInv, UNCHANGED <<phase, pending>>, phase # "down",
           mishap' \in {mishap, "yes"}
    PROVE  PhaseInv'
  BY DEF PhaseInv

LEMMA PhaseStep ==
    ASSUME Types, PhaseInv, [Next]_vars
    PROVE  PhaseInv'
<1>1. ASSUME NEW t \in Tasks, NEW p \in Projects, ProjectOpen(t, p) PROVE PhaseInv'
  BY <1>1, PhaseFrame DEF ProjectOpen, Command, Serving, Start, Note
<1>2. ASSUME NEW t \in Tasks, NEW p \in Projects, ProjectClose(t, p) PROVE PhaseInv'
  BY <1>2, PhaseFrame DEF ProjectClose, Serving, Start, Note
<1>3. ASSUME NEW t \in Tasks, NEW p \in Projects, ProjectUpdate(t, p) PROVE PhaseInv'
  BY <1>3, PhaseFrame DEF ProjectUpdate, Command, Serving, Start, Note
<1>4. ASSUME NEW t \in Tasks, NEW p \in Projects, JoinRemote(t, p) PROVE PhaseInv'
  BY <1>4, PhaseFrame DEF JoinRemote, Command, Serving, Start, Note
<1>5. ASSUME NEW t \in Tasks, NEW p \in Projects, RestoreNext(t, p) PROVE PhaseInv'
  BY <1>5 DEF RestoreNext, PhaseInv, history
<1>6. ASSUME NEW t \in Tasks, NEW p \in Projects, CloseAll(t, p) PROVE PhaseInv'
  BY <1>6 DEF CloseAll, PhaseInv
<1>7. ASSUME NEW t \in Tasks, OpenFails(t) PROVE PhaseInv'
  BY <1>7, NotDown, PhaseFrame DEF OpenFails, At, Note
<1>8. ASSUME NEW t \in Tasks, OpenInstall(t) PROVE PhaseInv'
  BY <1>8, NotDown, PhaseFrame DEF OpenInstall, At, history
<1>9. ASSUME NEW t \in Tasks, JoinOpen(t) PROVE PhaseInv'
  BY <1>9, NotDown, PhaseFrame DEF JoinOpen, At, history
<1>10. ASSUME NEW t \in Tasks, JoinRemoteOpen(t) PROVE PhaseInv'
  BY <1>10, NotDown, PhaseFrame DEF JoinRemoteOpen, At, history
<1>11. ASSUME NEW t \in Tasks, SaveTruncate(t) PROVE PhaseInv'
  BY <1>11, NotDown, PhaseFrame DEF SaveTruncate, At, history
<1>12. ASSUME NEW t \in Tasks, SaveWrite(t) PROVE PhaseInv'
  BY <1>12, NotDown, PhaseFrame DEF SaveWrite, At, history
<1>13. ASSUME NEW t \in Tasks, SaveFails(t) PROVE PhaseInv'
  BY <1>13, NotDown, PhaseFrame DEF SaveFails, At, Note
<1>14. ASSUME NEW t \in Tasks, Finish(t) PROVE PhaseInv'
  BY <1>14, NotDown, PhaseFrame DEF Finish, At, Note
<1>15. ASSUME NEW k \in Tokens, NEW p \in Projects, CreateInvite(k, p) PROVE PhaseInv'
  BY <1>15, PhaseFrame DEF CreateInvite, Serving, history
<1>16. ASSUME NEW t \in Tasks, NEW k \in Tokens, JoinTake(t, k) PROVE PhaseInv'
  BY <1>16, PhaseFrame DEF JoinTake, Command, Serving, Start, Note
<1>17. ASSUME NEW k \in Tokens, Tick(k) PROVE PhaseInv'
  BY <1>17 DEF Tick, history, PhaseInv, Quiet
<1>18. CASE GcExpiredInvites
  BY <1>18 DEF GcExpiredInvites, history, PhaseInv
<1>19. CASE Crash
  BY <1>19, StoppedTypes DEF Crash, PhaseInv
<1>20. CASE Shutdown
  BY <1>20 DEF Shutdown, Note, PhaseInv
<1>21. CASE Exit
  BY <1>21, StoppedTypes DEF Exit, PhaseInv
<1>22. CASE DaemonNew
  BY <1>22 DEF DaemonNew, PhaseInv
<1>23. CASE DaemonRun
  BY <1>23 DEF DaemonRun, PhaseInv
<1>24. CASE UNCHANGED vars
  BY <1>24 DEF vars, memory, history, PhaseInv, Quiet
<1> QED BY <1>1, <1>2, <1>3, <1>4, <1>5, <1>6, <1>7, <1>8, <1>9, <1>10, <1>11, <1>12, <1>13,
           <1>14, <1>15, <1>16, <1>17, <1>18, <1>19, <1>20, <1>21, <1>22, <1>23, <1>24
        DEF Next, Step

-----------------------------------------------------------------------------
(* Commands one at a time.                                                 *)

\* The step leaves command t alone under way, or none.
LEMMA OneUnderway ==
    ASSUME Types, NEW t \in Tasks, Kept(t), \A u \in Tasks : u # t => task[u] = Idle,
           \/ task'[t] = Idle /\ AtRest'
           \/ task'[t] # Idle /\ Underway(t)'
    PROVE  OrderInv'
  BY DEF OrderInv, Kept, Quiet

\* A command that is not a mishap starts on an idle daemon.
LEMMA StartsAlone ==
    ASSUME Types, PhaseInv, OrderInv, mishap' # "yes",
           NEW t \in Tasks, NEW want, Start(t, want), Serving
    PROVE  /\ Quiet /\ phase = "up" /\ pending = {} /\ mishap' = mishap
           /\ disk = projects /\ catalogs \subseteq Open
           /\ mishap = "no" => wanted = Open
           /\ wanted' = want
<1>1. Quiet /\ phase = "up" /\ mishap' = mishap /\ wanted' = want
  BY QuietIsIdle DEF Start, Note, Serving
<1> QED BY <1>1 DEF OrderInv, AtRest, PhaseInv

\* A step of a command goes on alone.
LEMMA GoesOnAlone ==
    ASSUME Types, PhaseInv, OrderInv, mishap # "yes", NEW t \in Tasks, task[t].at # "idle"
    PROVE  Underway(t) /\ \A u \in Tasks : u # t => task[u] = Idle
  BY NotDown DEF OrderInv, Underway

LEMMA OrderOpen ==
    ASSUME Types, PhaseInv, OrderInv, mishap' # "yes",
           NEW t \in Tasks, NEW p \in Projects, ProjectOpen(t, p) \/ JoinRemote(t, p)
    PROVE  OrderInv'
<1>1. Start(t, wanted) /\ Serving /\ UNCHANGED <<phase, memory, disk, pending>>
  BY DEF ProjectOpen, JoinRemote, Command
<1>2. /\ Quiet /\ phase = "up" /\ mishap' = mishap /\ wanted' = wanted
      /\ disk = projects /\ catalogs \subseteq Open /\ (mishap = "no" => wanted = Open)
  BY <1>1, StartsAlone
<1>3. /\ Kept(t) /\ task'[t].at \in {"load", "check"} /\ task'[t].kind = "open"
  BY LoadTask, JoinRemoteTask DEF ProjectOpen
<1>4. task'[t] # Idle
  BY <1>3 DEF Idle
<1>5. Open' = Open
  BY <1>1, OpenUnchanged DEF memory
<1>6. Opening(t)' = {} /\ Leaving(t)' = {}
  BY <1>3 DEF Opening, Leaving, SavingAt
<1>7. \A u \in Tasks : u # t => task'[u] = Idle
  BY <1>2, <1>3 DEF Quiet, Kept
<1>8. Underway(t)'
  BY <1>1, <1>2, <1>3, <1>5, <1>6, <1>7 DEF Underway, memory, SavingAt
<1> QED BY <1>2, <1>3, <1>4, <1>8, OneUnderway DEF Quiet

LEMMA OrderClose ==
    ASSUME Types, PhaseInv, OrderInv, mishap' # "yes",
           NEW t \in Tasks, NEW p \in Projects, ProjectClose(t, p)
    PROVE  OrderInv'
<1>1. /\ Start(t, wanted \ {p}) /\ Serving /\ CloseProject(t, p, "close")
      /\ UNCHANGED <<phase, pending, catalogs, disk>>
  BY DEF ProjectClose, CloseProject
<1>2. /\ Quiet /\ phase = "up" /\ mishap' = mishap /\ wanted' = wanted \ {p}
      /\ disk = projects /\ catalogs \subseteq Open /\ (mishap = "no" => wanted = Open)
  BY <1>1, StartsAlone
<1>3. /\ Kept(t) /\ task'[t].at = "truncate" /\ task'[t].kind = "close"
      /\ task'[t].project = p /\ task'[t].snapshot = projects'
      /\ Open' = Open \ {p}
  BY <1>1, CloseTask
<1>4. task'[t] # Idle
  BY <1>3 DEF Idle
<1>5. Opening(t)' = {} /\ Leaving(t)' = {p}
  BY <1>3 DEF Opening, Leaving
<1>6. \A u \in Tasks : u # t => task'[u] = Idle
  BY <1>2, <1>3 DEF Quiet, Kept
<1>7. Underway(t)'
  BY <1>1, <1>2, <1>3, <1>5, <1>6 DEF Underway, SavingAt
<1> QED BY <1>2, <1>3, <1>4, <1>7, OneUnderway DEF Quiet

LEMMA OrderUpdate ==
    ASSUME Types, PhaseInv, OrderInv, mishap' # "yes",
           NEW t \in Tasks, NEW p \in Projects, ProjectUpdate(t, p)
    PROVE  OrderInv'
<1>1. Start(t, wanted) /\ Serving /\ UNCHANGED <<phase, pending, catalogs, disk>>
  BY DEF ProjectUpdate, Command
<1>2. /\ Quiet /\ phase = "up" /\ mishap' = mishap /\ wanted' = wanted
      /\ disk = projects /\ catalogs \subseteq Open /\ (mishap = "no" => wanted = Open)
  BY <1>1, StartsAlone
<1>3. /\ Kept(t) /\ task'[t].at = "truncate" /\ task'[t].kind = "update"
      /\ task'[t].project = p /\ task'[t].snapshot = projects' /\ Open' = Open
  BY UpdateTask
<1>4. task'[t] # Idle
  BY <1>3 DEF Idle
<1>5. Opening(t)' = {} /\ Leaving(t)' = {}
  BY <1>3 DEF Opening, Leaving
<1>6. \A u \in Tasks : u # t => task'[u] = Idle
  BY <1>2, <1>3 DEF Quiet, Kept
<1>7. Underway(t)'
  BY <1>1, <1>2, <1>3, <1>5, <1>6 DEF Underway, SavingAt
<1> QED BY <1>2, <1>3, <1>4, <1>7, OneUnderway DEF Quiet

LEMMA OrderJoinTake ==
    ASSUME Types, PhaseInv, OrderInv, mishap' # "yes",
           NEW t \in Tasks, NEW k \in Tokens, JoinTake(t, k)
    PROVE  OrderInv'
<1>1. /\ Start(t, wanted) /\ Serving
      /\ UNCHANGED <<phase, projects, topics, catalogs, disk, pending>>
  BY DEF JoinTake, Command
<1>2. /\ Quiet /\ phase = "up" /\ mishap' = mishap /\ wanted' = wanted
      /\ disk = projects /\ catalogs \subseteq Open /\ (mishap = "no" => wanted = Open)
  BY <1>1, StartsAlone
<1>3. Open' = Open
  BY <1>1, OpenUnchanged
<1>4. CASE Usable(invites[k])
  <2>1. Kept(t) /\ task'[t].at = "joining" /\ task'[t].kind = "join"
    BY <1>4, JoinTakeTask
  <2>2. task'[t] # Idle
    BY <2>1 DEF Idle
  <2>3. Opening(t)' = {} /\ Leaving(t)' = {}
    BY <2>1 DEF Opening, Leaving, SavingAt
  <2>4. \A u \in Tasks : u # t => task'[u] = Idle
    BY <1>2, <2>1 DEF Quiet, Kept
  <2>5. Underway(t)'
    BY <1>1, <1>2, <1>3, <2>1, <2>3, <2>4 DEF Underway, SavingAt
  <2> QED BY <1>2, <2>1, <2>2, <2>5, OneUnderway DEF Quiet
<1>5. CASE ~Usable(invites[k])
  <2>1. task' = task
    BY <1>5 DEF JoinTake
  <2>2. AtRest' /\ Quiet'
    BY <1>1, <1>2, <1>3, <2>1 DEF AtRest, Quiet
  <2> QED BY <2>2 DEF OrderInv, Quiet
<1> QED BY <1>4, <1>5

LEMMA OrderRestoreNext ==
    ASSUME Types, PhaseInv, OrderInv, mishap' # "yes",
           NEW t \in Tasks, NEW p \in Projects, RestoreNext(t, p)
    PROVE  OrderInv'
<1>1. /\ phase = "restoring" /\ p \in pending /\ pending' = pending \ {p} /\ Quiet
      /\ UNCHANGED <<phase, memory, disk, history>>
      /\ task' = [task EXCEPT ![t] = Loading("restore", p)]
  BY QuietIsIdle DEF RestoreNext
<1>2. mishap' = mishap /\ wanted' = wanted /\ (mishap = "no" => wanted = Open \cup pending)
  BY <1>1 DEF OrderInv, AtRest, history
<1>3. /\ Kept(t) /\ task'[t].at = "load" /\ task'[t].kind = "restore" /\ task'[t].project = p
  BY <1>1, LoadTask
<1>4. task'[t] # Idle
  BY <1>3 DEF Idle
<1>5. Open' = Open
  BY <1>1, OpenUnchanged DEF memory
<1>6. \A u \in Tasks : u # t => task'[u] = Idle
  BY <1>1, <1>3 DEF Quiet, Kept
<1>7. mishap' = "no" => wanted' = Open' \cup pending' \cup {p}
  BY <1>1, <1>2, <1>5
<1>8. Underway(t)'
  BY <1>1, <1>3, <1>6, <1>7 DEF Underway, SavingAt
<1> QED BY <1>1, <1>3, <1>4, <1>8, OneUnderway DEF Quiet

LEMMA OrderCloseAll ==
    ASSUME Types, PhaseInv, OrderInv, mishap' # "yes",
           NEW t \in Tasks, NEW p \in Projects, CloseAll(t, p)
    PROVE  OrderInv'
<1>1. /\ phase = "closing" /\ task[t] = Idle /\ phase' = phase /\ mishap' = mishap
      /\ mishap # "no"
  BY DEF CloseAll, PhaseInv
<1>2. Quiet
  <2>1. ASSUME NEW u \in Tasks, task[u] # Idle PROVE FALSE
    <3>1. task[u].kind = "shutdown"
      BY <1>1, <2>1 DEF OrderInv, Underway
    <3> QED BY <2>1, <3>1 DEF CloseAll, Sequential, Busy
  <2> QED BY <2>1 DEF Quiet
<1>3. disk = projects
  BY <1>1, <1>2 DEF OrderInv, AtRest
<1>4. CASE projects[p] # "closed"
  <2>1. CloseProject(t, p, "shutdown")
    BY <1>4 DEF CloseAll
  <2>2. /\ Kept(t) /\ task'[t].at = "truncate" /\ task'[t].kind = "shutdown"
        /\ task'[t].snapshot = projects'
    BY <2>1, CloseTask
  <2>3. task'[t] # Idle
    BY <2>2 DEF Idle
  <2>4. \A u \in Tasks : u # t => task'[u] = Idle
    BY <1>2, <2>2 DEF Quiet, Kept
  <2>5. Underway(t)'
    BY <1>1, <2>2, <2>4 DEF Underway, SavingAt
  <2> QED BY <1>2, <2>2, <2>3, <2>5, OneUnderway DEF Quiet
<1>5. CASE projects[p] = "closed"
  <2>1. UNCHANGED <<memory, disk, task>>
    BY <1>5 DEF CloseAll
  <2>2. AtRest' /\ Quiet'
    BY <1>1, <1>2, <1>3, <2>1 DEF AtRest, Quiet, memory
  <2> QED BY <2>2 DEF OrderInv, Quiet
<1> QED BY <1>4, <1>5

LEMMA OrderOpenInstall ==
    ASSUME Types, PhaseInv, OrderInv, mishap' # "yes", NEW t \in Tasks, OpenInstall(t)
    PROVE  OrderInv'
<1>1. /\ task[t].at = "load" /\ UNCHANGED <<phase, catalogs, pending, wanted, mishap>>
  BY DEF OpenInstall, At, history
<1>2. Underway(t) /\ \A u \in Tasks : u # t => task[u] = Idle
  BY <1>1, GoesOnAlone
<1>3. /\ Kept(t) /\ task[t] \in Loads /\ task'[t].at = "truncate"
      /\ task'[t].kind = task[t].kind /\ task'[t].project = task[t].project
      /\ task'[t].snapshot = projects' /\ Open' = Open \cup {task[t].project}
  BY OpenInstallTask
<1>4. task'[t] # Idle
  BY <1>3 DEF Idle
<1>5. task[t].kind # "close" /\ Leaving(t) = {} /\ Opening(t) = {}
  BY <1>1, <1>3 DEF Leaving, Opening, Loads, SavingAt
<1>6. \A u \in Tasks : u # t => task'[u] = Idle
  BY <1>2, <1>3 DEF Kept
<1>7. ASSUME phase' = "up"
      PROVE  /\ task'[t].kind \in {"open", "join", "close", "update"}
             /\ catalogs' \subseteq Open' \cup Leaving(t)'
             /\ mishap' = "no" => wanted' \cup Opening(t)' = Open'
  <2>1. task[t].kind \in {"open", "join"}
    BY <1>1, <1>2, <1>3, <1>7 DEF Underway, Loads
  <2>2. Opening(t)' = {task[t].project} /\ Leaving(t)' = {}
    BY <1>3, <2>1 DEF Opening, Leaving, SavingAt
  <2>3. catalogs \subseteq Open /\ (mishap = "no" => wanted = Open)
    BY <1>1, <1>2, <1>5, <1>7 DEF Underway
  <2> QED BY <1>1, <1>3, <2>1, <2>2, <2>3
<1>8. ASSUME phase' = "restoring"
      PROVE  /\ task'[t].kind = "restore"
             /\ mishap' = "no" => wanted' = Open' \cup pending' \cup {task'[t].project}
  BY <1>1, <1>2, <1>3, <1>8 DEF Underway
<1>9. Underway(t)'
  BY <1>1, <1>2, <1>3, <1>6, <1>7, <1>8 DEF Underway, SavingAt
<1> QED BY <1>2, <1>3, <1>4, <1>9, OneUnderway

LEMMA OrderJoinOpen ==
    ASSUME Types, PhaseInv, OrderInv, mishap' # "yes", NEW t \in Tasks,
           JoinOpen(t) \/ JoinRemoteOpen(t)
    PROVE  OrderInv'
<1>1. /\ task[t].at \in {"joining", "check"}
      /\ UNCHANGED <<phase, projects, topics, catalogs, disk, pending, wanted, mishap>>
  BY DEF JoinOpen, JoinRemoteOpen, At, memory, history
<1>2. Underway(t) /\ \A u \in Tasks : u # t => task[u] = Idle
  BY <1>1, GoesOnAlone
<1>3. phase = "up" /\ disk = projects /\ task[t].kind \in {"open", "join"}
  <2>1. phase = "up" /\ disk = projects
    BY <1>1, <1>2 DEF Underway
  <2>2. task[t].kind \in {"open", "join", "restore"}
    BY JoinOpenTask, JoinRemoteOpenTask DEF Loads, Joins
  <2>3. task[t].kind \in {"open", "join", "close", "update"}
    BY <1>2, <2>1 DEF Underway
  <2> QED BY <2>1, <2>2, <2>3
<1>4. catalogs \subseteq Open /\ (mishap = "no" => wanted = Open)
  <2>1. Leaving(t) = {} /\ Opening(t) = {}
    BY <1>1, <1>3 DEF Leaving, Opening, SavingAt
  <2> QED BY <1>2, <1>3, <2>1 DEF Underway
<1>5. Open' = Open
  BY <1>1, OpenUnchanged
<1>6. /\ Kept(t)
      /\ \/ task'[t] = Idle
         \/ task'[t].at = "load" /\ task'[t].kind \in {"open", "join"}
  <2>1. task[t] \in Joins => task[t].kind = "join"
    BY DEF Joins
  <2> QED BY <1>3, <2>1, JoinOpenTask, JoinRemoteOpenTask
<1>7. CASE task'[t] = Idle
  <2>1. AtRest'
    BY <1>1, <1>3, <1>4, <1>5 DEF AtRest
  <2> QED BY <1>2, <1>6, <1>7, <2>1, OneUnderway
<1>8. CASE task'[t].at = "load" /\ task'[t].kind \in {"open", "join"}
  <2>1. task'[t] # Idle
    BY <1>8 DEF Idle
  <2>2. Leaving(t)' = {} /\ Opening(t)' = {}
    BY <1>8 DEF Leaving, Opening, SavingAt
  <2>3. \A u \in Tasks : u # t => task'[u] = Idle
    BY <1>2, <1>6 DEF Kept
  <2>4. Underway(t)'
    BY <1>1, <1>3, <1>4, <1>5, <1>8, <2>2, <2>3 DEF Underway, SavingAt
  <2> QED BY <1>2, <1>6, <2>1, <2>4, OneUnderway
<1> QED BY <1>6, <1>7, <1>8

\* Truncating and writing the file.
LEMMA OrderSave ==
    ASSUME Types, PhaseInv, OrderInv, mishap' # "yes", NEW t \in Tasks,
           SaveTruncate(t) \/ SaveWrite(t)
    PROVE  OrderInv'
<1>1. /\ task[t].at \in {"truncate", "write"}
      /\ UNCHANGED <<phase, projects, catalogs, pending, wanted, mishap>>
  BY DEF SaveTruncate, SaveWrite, At, memory, history
<1>2. Underway(t) /\ \A u \in Tasks : u # t => task[u] = Idle
  BY <1>1, GoesOnAlone
<1>3. task[t].at \in SavingAt
  BY <1>1 DEF SavingAt
<1>4. /\ task[t] \in Saves /\ Kept(t) /\ task'[t].at \in {"write", "finish"}
      /\ task'[t].kind = task[t].kind /\ task'[t].project = task[t].project
      /\ task'[t].snapshot = task[t].snapshot
  BY <1>3, GotoTask DEF SaveTruncate, SaveWrite, SavingAt
<1>5. task'[t] # Idle
  BY <1>4 DEF Idle
<1>6. Open' = Open
  BY <1>1, OpenUnchanged
<1>7. \A u \in Tasks : u # t => task'[u] = Idle
  BY <1>2, <1>4 DEF Kept
<1>8. Leaving(t)' = Leaving(t) /\ Opening(t)' = Opening(t)
  <2>1. task'[t].at \in SavingAt
    BY <1>4 DEF SavingAt
  <2> QED BY <1>3, <1>4, <2>1 DEF Leaving, Opening
<1>9. /\ task'[t].at = "write" => disk' = Torn
      /\ task'[t].at = "finish" => disk' = projects'
  <2>1. CASE SaveTruncate(t)
    <3>1. task'[t].at = "write"
      BY <1>3, <2>1, GotoTask DEF SaveTruncate, SavingAt
    <3> QED BY <2>1, <3>1 DEF SaveTruncate
  <2>2. CASE SaveWrite(t)
    <3>1. task'[t].at = "finish"
      BY <1>3, <2>2, GotoTask DEF SaveWrite, SavingAt
    <3>2. disk = Torn /\ task[t].snapshot = projects
      BY <1>2, <1>3, <2>2 DEF Underway, SaveWrite, At
    <3> QED BY <1>1, <2>2, <3>1, <3>2 DEF SaveWrite
  <2> QED BY <2>1, <2>2
<1>10. Underway(t)'
  BY <1>1, <1>2, <1>3, <1>4, <1>6, <1>7, <1>8, <1>9 DEF Underway, SavingAt
<1> QED BY <1>2, <1>4, <1>5, <1>10, OneUnderway

LEMMA OrderFinish ==
    ASSUME Types, PhaseInv, OrderInv, mishap' # "yes", NEW t \in Tasks, Finish(t)
    PROVE  OrderInv'
<1>1. task[t].at = "finish" /\ UNCHANGED <<phase, projects, disk, pending>>
  BY DEF Finish, At
<1>2. mishap' = mishap
  BY DEF Finish, Note
<1>3. Underway(t) /\ \A u \in Tasks : u # t => task[u] = Idle
  BY <1>1, <1>2, GoesOnAlone
<1>4. disk = projects /\ phase # "down" /\ disk' = projects'
  BY <1>1, <1>3 DEF Underway
<1>5. Open' = Open
  BY <1>1, OpenUnchanged
<1>6. wanted' = IF task[t].kind \in {"open", "join"}
                THEN wanted \cup {task[t].project} ELSE wanted
  BY <1>2 DEF Finish, Note
<1>7. task[t].kind \in {"open", "join", "restore"} => task[t].project \in Open
  BY <1>1, <1>3 DEF Underway, SavingAt
<1>8. ASSUME phase = "up" PROVE catalogs' \subseteq Open' /\ (mishap' = "no" => wanted' = Open')
  <2>1. /\ catalogs \subseteq Open \cup Leaving(t)
        /\ mishap = "no" => wanted \cup Opening(t) = Open
    BY <1>3, <1>8 DEF Underway
  <2>2. catalogs' = CatalogsAfter(task[t].kind, task[t].project)
    BY DEF Finish
  <2>3. catalogs' \subseteq Open'
    <3>1. CASE task[t].kind = "open"
      BY <1>5, <1>7, <2>1, <2>2, <3>1 DEF CatalogsAfter, Leaving
    <3>2. CASE task[t].kind = "close"
      BY <1>5, <2>1, <2>2, <3>2 DEF CatalogsAfter, Leaving
    <3>3. CASE task[t].kind \notin {"open", "close"}
      BY <1>5, <2>1, <2>2, <3>3 DEF CatalogsAfter, Leaving
    <3> QED BY <3>1, <3>2, <3>3
  <2>4. mishap' = "no" => wanted' = Open'
    BY <1>1, <1>2, <1>5, <1>6, <2>1 DEF Opening, SavingAt
  <2> QED BY <2>3, <2>4
<1>9. ASSUME phase = "restoring", mishap = "no" PROVE wanted' = Open' \cup pending'
  BY <1>1, <1>3, <1>5, <1>6, <1>7, <1>9 DEF Underway
<1>10. AtRest'
  BY <1>1, <1>2, <1>4, <1>8, <1>9 DEF AtRest
<1>11. Kept(t) /\ task'[t] = Idle
  BY EndTask DEF Finish
<1> QED BY <1>3, <1>10, <1>11, OneUnderway

\* What the file of an idle daemon is good for.
LEMMA FileKept ==
    ASSUME Types, PhaseInv, OrderInv, mishap # "yes", Quiet, pending = {}, phase # "down"
    PROVE  disk # Torn /\ (mishap = "no" => wanted = Persisted)
<1>1. AtRest
  BY DEF OrderInv
<1>2. CASE disk = projects
  <2>1. disk # Torn
    BY <1>2, TornIsNoSnapshot DEF Types
  <2>2. Persisted = Open
    BY <1>2, <2>1 DEF Persisted, Open
  <2> QED BY <1>1, <2>1, <2>2 DEF AtRest, PhaseInv, Types
<1>3. CASE disk # projects
  <2>1. phase = "restoring" /\ projects = Closed /\ disk # Torn /\ pending = Persisted
    BY <1>1, <1>3 DEF AtRest, Types
  <2>2. Open = {}
    BY <2>1, ClosedShape DEF Open
  <2> QED BY <1>1, <2>1, <2>2 DEF AtRest
<1> QED BY <1>2, <1>3

LEMMA OrderStopped ==
    ASSUME Types, PhaseInv, OrderInv, mishap' # "yes", Crash \/ Exit
    PROVE  OrderInv'
<1>1. /\ phase # "down" /\ Stopped /\ disk' = disk /\ Quiet /\ pending = {}
      /\ mishap' = mishap /\ wanted' = wanted
  BY QuietIsIdle DEF Crash, Exit, Note
<1>2. disk # Torn /\ (mishap = "no" => wanted = Persisted)
  BY <1>1, FileKept
<1>3. Persisted' = Persisted
  BY <1>1 DEF Persisted
<1>4. AtRest' /\ Quiet'
  BY <1>1, <1>2, <1>3, StoppedTypes DEF AtRest
<1> QED BY <1>4 DEF OrderInv, Quiet

LEMMA OrderShutdown ==
    ASSUME Types, PhaseInv, OrderInv, mishap' # "yes", Shutdown
    PROVE  OrderInv'
<1>1. /\ phase = "up" /\ phase' = "closing" /\ mishap # "yes" /\ Quiet
      /\ UNCHANGED <<projects, disk, task>>
  BY QuietIsIdle DEF Shutdown, Note, memory
<1>2. disk = projects
  BY <1>1 DEF OrderInv, AtRest
<1>3. AtRest' /\ Quiet'
  BY <1>1, <1>2 DEF AtRest, Quiet
<1> QED BY <1>3 DEF OrderInv, Quiet

LEMMA OrderNew ==
    ASSUME Types, PhaseInv, OrderInv, mishap' # "yes", DaemonNew
    PROVE  OrderInv'
<1>1. /\ phase = "down" /\ phase' = "restoring" /\ pending' = Persisted
      /\ UNCHANGED <<projects, disk, task, wanted, mishap>>
      /\ Quiet /\ projects = Closed
  BY DEF DaemonNew, memory, history, PhaseInv
<1>2. disk # Torn /\ (mishap = "no" => wanted = Persisted)
  BY <1>1 DEF OrderInv, AtRest
<1>3. Open' = {} /\ Persisted' = Persisted
  BY <1>1, ClosedShape DEF Open, Persisted
<1>4. AtRest' /\ Quiet'
  BY <1>1, <1>2, <1>3 DEF AtRest, Quiet
<1> QED BY <1>4 DEF OrderInv, Quiet

LEMMA OrderRun ==
    ASSUME Types, PhaseInv, OrderInv, mishap' # "yes", DaemonRun
    PROVE  OrderInv'
<1>1. /\ phase = "restoring" /\ phase' = "up" /\ pending = {} /\ catalogs' = Open /\ Quiet
      /\ UNCHANGED <<projects, disk, task, wanted, mishap>>
  BY QuietIsIdle DEF DaemonRun, history
<1>2. Open' = Open
  BY <1>1, OpenUnchanged
<1>3. AtRest
  BY <1>1 DEF OrderInv
<1>4. disk = projects
  <2>1. CASE projects = Closed /\ disk # Torn /\ pending = Persisted
    <3>1. disk \in [Projects -> States] /\ \A p \in Projects : disk[p] = "closed"
      BY <1>1, <2>1 DEF Types, Persisted
    <3>2. disk = Closed
      BY <3>1 DEF Closed
    <3> QED BY <2>1, <3>2
  <2> QED BY <1>1, <1>3, <2>1 DEF AtRest
<1>5. AtRest' /\ Quiet'
  BY <1>1, <1>2, <1>3, <1>4 DEF AtRest, Quiet
<1> QED BY <1>5 DEF OrderInv, Quiet

\* The steps that leave all of it alone.
LEMMA OrderFrame ==
    ASSUME OrderInv,
           UNCHANGED <<phase, projects, catalogs, disk, task, pending, wanted, mishap>>
    PROVE  OrderInv'
  BY DEF OrderInv, Quiet, AtRest, Underway, Open, Persisted, Leaving, Opening

LEMMA OrderStep ==
    ASSUME Types, PhaseInv, OrderInv, [Next]_vars
    PROVE  OrderInv'
<1> SUFFICES ASSUME mishap' # "yes" PROVE OrderInv'
    BY DEF OrderInv
<1>1. ASSUME NEW t \in Tasks, NEW p \in Projects,
             \/ ProjectOpen(t, p) \/ ProjectClose(t, p) \/ ProjectUpdate(t, p)
             \/ JoinRemote(t, p) \/ RestoreNext(t, p) \/ CloseAll(t, p)
      PROVE  OrderInv'
  BY <1>1, OrderOpen, OrderClose, OrderUpdate, OrderRestoreNext, OrderCloseAll
<1>2. ASSUME NEW t \in Tasks, Step(t) PROVE OrderInv'
  <2>1. ~OpenFails(t) /\ ~SaveFails(t)
    BY DEF OpenFails, SaveFails, Note
  <2> QED BY <1>2, <2>1, OrderOpenInstall, OrderJoinOpen, OrderSave, OrderFinish DEF Step
<1>3. ASSUME NEW k \in Tokens, NEW p \in Projects, CreateInvite(k, p) PROVE OrderInv'
  BY <1>3, OrderFrame DEF CreateInvite, history
<1>4. ASSUME NEW t \in Tasks, NEW k \in Tokens, JoinTake(t, k) \/ Tick(k) PROVE OrderInv'
  BY <1>4, OrderJoinTake, OrderFrame DEF Tick, history
<1>5. CASE GcExpiredInvites
  BY <1>5, OrderFrame DEF GcExpiredInvites, history
<1>6. CASE Crash \/ Shutdown \/ Exit \/ DaemonNew \/ DaemonRun
  BY <1>6, OrderStopped, OrderShutdown, OrderNew, OrderRun
<1>7. CASE UNCHANGED vars
  BY <1>7, OrderFrame DEF vars, memory, history
<1> QED BY <1>1, <1>2, <1>3, <1>4, <1>5, <1>6, <1>7 DEF Next

-----------------------------------------------------------------------------
\* The inductive invariant: the types, the count of a token's uses, what each
\* phase of the daemon leaves over, and, as long as commands did not overlap
\* or fail, how far the one under way has come.
THEOREM InvTheorem == Spec => []Inv
<1>1. Init => Inv
  BY InitInv
<1>2. Inv /\ [Next]_vars => Inv'
  BY TypesStep, InviteStep, PhaseStep, OrderStep DEF Inv
<1> QED BY <1>1, <1>2, PTL DEF Spec

\* The tables of ProjectManager and projects.json keep their shape.
THEOREM TypeCorrect == Spec => []TypeOK
<1>1. Inv => TypeOK
  BY DEF Inv, Types, TypeOK, Invites
<1> QED BY <1>1, InvTheorem, PTL

\* A token is good for one join, and for a project that is open, however the
\* joins, the expiry, the closing of projects and crashes fall (join_project,
\* close_project, gc_expired_invites).
THEOREM InvitesSoundTheorem == Spec => []InvitesSound
<1>1. Inv => InvitesSound
  BY DEF Inv, InviteInv, InvitesSound, InviteSingleUse, InviteNamesOpenProject
<1> QED BY <1>1, InvTheorem, PTL

\* Unless commands overlapped, failed or were cut short, projects.json says
\* between commands what is open, no catalog outlives its project, and across
\* crashes of an idle daemon what the user opened is open (save_state,
\* load_state).
THEOREM RegistryAgreesTheorem == Spec => []RegistryAgrees
<1>1. Inv => RegistryAgrees
  BY QuietIsIdle DEF Inv, OrderInv, AtRest, RegistryAgrees, Settled, ReopenedUnlessMishap
<1> QED BY <1>1, InvTheorem, PTL
=============================================================================
