-------------------------- MODULE ProjectVersions --------------------------
(***************************************************************************)
(* How one node numbers the versions of a project's files.                 *)
(*                                                                         *)
(* The manifest (.synergos/manifest.json) is kept under git and may go     *)
(* back in time; the high-water mark of every file (.synergos/state.json)  *)
(* is local to the node and decides the next version.  Both live on disk   *)
(* and, while the project is open, in memory.  Operations are asynchronous *)
(* tasks: publishing (bump_file_version), recording a received file        *)
(* (record_received_file), `git checkout` followed by reload_manifest,     *)
(* replace_manifest and open_project.  A task can be suspended at every    *)
(* file access; the node can crash at any moment.                          *)
(***************************************************************************)
EXTENDS Integers, FiniteSets

CONSTANTS
    Files,          \* project-relative paths
    Contents,       \* what (size, crc) distinguishes
    Tasks,          \* concurrent operations
    MaxVersion,     \* u64::MAX: never a valid version
    MaxCloses,      \* bound: closes between two crashes
    Kinds,          \* the operations of this instance
    CloseWhileBusy, \* may close_project run while an operation is suspended?
    OpenTwice,      \* may two open_project calls overlap?
    CanFail,        \* may a file write fail?
    NoEntry,        \* a path the manifest does not list
    NoRequest,      \* the request of an idle task
    NotLoaded       \* no copy in memory; also "no manifest to save"

AllKinds == {"bump", "receive", "reload", "replace", "open"}

Version == 1..(MaxVersion - 1)
Entry == [version : Version, content : Contents]
Manifest == [Files -> Entry \cup {NoEntry}]
VersionState == [Files -> 0..(MaxVersion - 1)]
Request == [kind : AllKinds, file : Files, version : 1..MaxVersion,
            content : Contents, force : BOOLEAN]

ASSUME VersionsAssumption ==
    /\ MaxVersion \in Nat \ {0}
    /\ MaxCloses \in Nat
    /\ Kinds \subseteq AllKinds
    /\ CloseWhileBusy \in BOOLEAN
    /\ OpenTwice \in BOOLEAN
    /\ CanFail \in BOOLEAN
    /\ NoEntry \notin Entry
    /\ NotLoaded \notin Manifest \cup VersionState

VARIABLES
    projects,       \* is the project open?
    manifests,      \* the manifest in memory
    version_states, \* the high-water marks in memory
    diskManifest,   \* manifest.json
    diskState,      \* state.json
    generation,     \* which mutex manifest_locks holds: close drops the old one
    pc, req,        \* every task: where it is suspended, what it was asked
    lock,           \*   the mutex it obtained
    newManifest, newState,  \* its snapshots
    issued          \* every (file, version, content) a bump has returned

vars == <<projects, manifests, version_states, diskManifest, diskState,
          generation, pc, req, lock, newManifest, newState, issued>>
memory == <<projects, manifests, version_states, generation>>
disk == <<diskManifest, diskState>>

\* A request carries what its operation reads; the rest has a fixed value.
Asked ==
    {r \in Request :
        /\ r.kind \in Kinds \ {"open"}
        /\ r.kind # "receive" => r.version = 1 /\ ~r.force
        /\ r.kind \in {"reload", "replace"} =>
               r.file = (CHOOSE f \in Files : TRUE) /\ r.content = (CHOOSE c \in Contents : TRUE)}

EmptyManifest == [f \in Files |-> NoEntry]
NoVersions == [f \in Files |-> 0]

Init ==
    /\ projects = FALSE
    /\ manifests = NotLoaded
    /\ version_states = NotLoaded
    /\ diskManifest = EmptyManifest
    /\ diskState = NoVersions
    /\ generation = 0
    /\ pc = [t \in Tasks |-> "idle"]
    /\ req = [t \in Tasks |-> NoRequest]
    /\ lock = [t \in Tasks |-> 0]
    /\ newManifest = [t \in Tasks |-> NotLoaded]
    /\ newState = [t \in Tasks |-> NoVersions]
    /\ issued = {}

-----------------------------------------------------------------------------
(* ProjectManifest and VersionState.                                       *)

Larger(a, b) == IF a >= b THEN a ELSE b
Successor(v) == IF v < MaxVersion THEN v + 1 ELSE MaxVersion  \* saturating_add(1)

VersionOf(entry) == IF entry = NoEntry THEN 0 ELSE entry.version

\* Mutant: the high-water mark is ignored.
NextVersionFromManifest(entry, floor) == Successor(VersionOf(entry))

\* ProjectManifest::bump_at_least, the version of changed content.
NextVersion(entry, floor) == Larger(Successor(VersionOf(entry)), Successor(floor))

Unchanged(entry, content) == entry # NoEntry /\ entry.content = content

\* ProjectManifest::record_received_with: is the received version recorded?
Records(entry, version, force) == force \/ VersionOf(entry) < version

Write(manifest, f, v, c) == [manifest EXCEPT ![f] = [version |-> v, content |-> c]]

\* VersionState::note, for every entry of a manifest and for one file.
NoteAll(state, manifest) == [f \in Files |-> Larger(state[f], VersionOf(manifest[f]))]
Note(state, f, v) == [state EXCEPT ![f] = Larger(state[f], v)]

-----------------------------------------------------------------------------
(* Tasks.                                                                  *)

Goto(t, label) == pc' = [pc EXCEPT ![t] = label]

Return(t) ==
    /\ Goto(t, "idle")
    /\ req' = [req EXCEPT ![t] = NoRequest]
    /\ lock' = [lock EXCEPT ![t] = 0]
    /\ newManifest' = [newManifest EXCEPT ![t] = NotLoaded]
    /\ newState' = [newState EXCEPT ![t] = NoVersions]

\* A task between obtaining its mutex and returning.
Locked == {"plan", "stateWrite", "stateInsert", "manifestWrite", "manifestInsert"}
Opening == {"openRead", "openNote", "openSave", "openInstall"}

\* manifest_lock: every operation but open_project takes the project's mutex.
\* The manifest of a replace comes with the request.
Begin(t, r, m) ==
    /\ pc[t] = "idle"
    /\ Goto(t, "lock")
    /\ req' = [req EXCEPT ![t] = r]
    /\ lock' = [lock EXCEPT ![t] = generation]
    /\ newManifest' = [newManifest EXCEPT ![t] = m]
    /\ UNCHANGED <<memory, disk, newState, issued>>

\* Mutant: the operation runs without the mutex.
AcquireAlways(t) ==
    /\ pc[t] = "lock"
    /\ Goto(t, "plan")
    /\ UNCHANGED <<memory, disk, req, lock, newManifest, newState, issued>>

Acquire(t) ==
    /\ pc[t] = "lock"
    /\ \A u \in Tasks : pc[u] \in Locked => lock[u] # lock[t]
    /\ Goto(t, "plan")
    /\ UNCHANGED <<memory, disk, req, lock, newManifest, newState, issued>>

\* load_manifest_unlocked and load_version_state_unlocked: what is not in
\* memory is read from disk, and reload_manifest reads the manifest always.
CurrentManifest(t) ==
    IF req[t].kind = "reload" \/ (manifests = NotLoaded /\ req[t].kind # "replace")
    THEN diskManifest ELSE manifests
CurrentState == IF version_states = NotLoaded THEN diskState ELSE version_states

\* The high-water mark is written before the manifest, and each only if the
\* operation changes it; an operation that changes neither returns.
Proceed(t, state, manifest) ==
    IF state = CurrentState /\ manifest = NotLoaded THEN Return(t)
    ELSE /\ Goto(t, IF state # CurrentState THEN "stateWrite" ELSE "manifestWrite")
         /\ newState' = [newState EXCEPT ![t] = state]
         /\ newManifest' = [newManifest EXCEPT ![t] = manifest]
         /\ UNCHANGED <<req, lock>>

Plan(t, kind) ==
    /\ pc[t] = "plan"
    /\ req[t].kind = kind
    /\ projects
    /\ manifests' = CurrentManifest(t)
    /\ version_states' = CurrentState
    /\ UNCHANGED <<projects, disk, generation, issued>>

\* Unchanged content keeps its version; u64::MAX is refused by note.
PlanBump(t) ==
    LET f == req[t].file
        c == req[t].content
        m == CurrentManifest(t)
        v == NextVersion(m[f], CurrentState[f])
    IN /\ Plan(t, "bump")
       /\ IF Unchanged(m[f], c) \/ v = MaxVersion THEN Return(t)
          ELSE Proceed(t, Note(CurrentState, f, v), Write(m, f, v, c))

PlanReceive(t) ==
    LET f == req[t].file
        v == req[t].version
        m == CurrentManifest(t)
    IN /\ Plan(t, "receive")
       /\ IF v = MaxVersion THEN Return(t)
          ELSE Proceed(t, Note(CurrentState, f, v),
                       IF Records(m[f], v, req[t].force)
                       THEN Write(m, f, v, req[t].content) ELSE NotLoaded)

PlanReload(t) ==
    /\ Plan(t, "reload")
    /\ Proceed(t, NoteAll(CurrentState, CurrentManifest(t)), NotLoaded)

PlanReplace(t) ==
    /\ Plan(t, "replace")
    /\ Proceed(t, NoteAll(CurrentState, newManifest[t]), newManifest[t])

\* The project is not open: project_root finds nothing.
PlanClosed(t) ==
    /\ pc[t] = "plan"
    /\ ~projects
    /\ Return(t)
    /\ UNCHANGED <<memory, disk, issued>>

\* VersionState::save, then the insertion into version_states.
StateWrite(t) ==
    /\ pc[t] = "stateWrite"
    /\ diskState' = newState[t]
    /\ Goto(t, "stateInsert")
    /\ UNCHANGED <<memory, diskManifest, req, lock, newManifest, newState, issued>>

StateInsert(t) ==
    /\ pc[t] = "stateInsert"
    /\ version_states' = newState[t]
    /\ IF newManifest[t] = NotLoaded THEN Return(t)
       ELSE /\ Goto(t, "manifestWrite")
            /\ UNCHANGED <<req, lock, newManifest, newState>>
    /\ UNCHANGED <<projects, manifests, generation, disk, issued>>

\* ProjectManifest::save, then the insertion into manifests and the return.
ManifestWrite(t) ==
    /\ pc[t] = "manifestWrite"
    /\ diskManifest' = newManifest[t]
    /\ Goto(t, "manifestInsert")
    /\ UNCHANGED <<memory, diskState, req, lock, newManifest, newState, issued>>

Issue(f, entry) == [file |-> f, version |-> entry.version, content |-> entry.content]

ManifestInsert(t) ==
    /\ pc[t] = "manifestInsert"
    /\ manifests' = newManifest[t]
    /\ issued' = IF req[t].kind # "bump" THEN issued
                 ELSE issued \cup {Issue(req[t].file, newManifest[t][req[t].file])}
    /\ Return(t)
    /\ UNCHANGED <<projects, version_states, generation, disk>>

\* A write fails: the old file stays and the operation returns its error.
Fail(t) ==
    /\ CanFail
    /\ pc[t] \in {"stateWrite", "manifestWrite", "openSave"}
    /\ Return(t)
    /\ UNCHANGED <<memory, disk, issued>>

-----------------------------------------------------------------------------
(* open_project, close_project, and what happens outside the node.         *)

OpenBegin(t) ==
    /\ pc[t] = "idle"
    /\ "open" \in Kinds
    /\ ~projects
    /\ OpenTwice \/ \A u \in Tasks : pc[u] \notin Opening
    /\ Goto(t, "openRead")
    /\ UNCHANGED <<memory, disk, req, lock, newManifest, newState, issued>>

OpenRead(t) ==
    /\ pc[t] = "openRead"
    /\ newManifest' = [newManifest EXCEPT ![t] = diskManifest]
    /\ Goto(t, "openNote")
    /\ UNCHANGED <<memory, disk, req, lock, newState, issued>>

OpenNote(t) ==
    LET state == NoteAll(diskState, newManifest[t])
    IN /\ pc[t] = "openNote"
       /\ newState' = [newState EXCEPT ![t] = state]
       /\ Goto(t, IF state # diskState THEN "openSave" ELSE "openInstall")
       /\ UNCHANGED <<memory, disk, req, lock, newManifest, issued>>

OpenSave(t) ==
    /\ pc[t] = "openSave"
    /\ diskState' = newState[t]
    /\ Goto(t, "openInstall")
    /\ UNCHANGED <<memory, diskManifest, req, lock, newManifest, newState, issued>>

OpenInstall(t) ==
    /\ pc[t] = "openInstall"
    /\ projects' = TRUE
    /\ manifests' = newManifest[t]
    /\ version_states' = newState[t]
    /\ Return(t)
    /\ UNCHANGED <<generation, disk, issued>>

\* close_project forgets the manifest, the marks and the mutex.
CloseProject ==
    /\ projects
    /\ generation < MaxCloses
    /\ CloseWhileBusy \/ \A t \in Tasks : pc[t] = "idle"
    /\ projects' = FALSE
    /\ manifests' = NotLoaded
    /\ version_states' = NotLoaded
    /\ generation' = generation + 1
    /\ UNCHANGED <<disk, pc, req, lock, newManifest, newState, issued>>

\* `git checkout` rewrites manifest.json behind the daemon's back.
GitCheckout(m) ==
    /\ "reload" \in Kinds
    /\ m # diskManifest
    /\ diskManifest' = m
    /\ UNCHANGED <<memory, diskState, pc, req, lock, newManifest, newState, issued>>

Crash ==
    /\ projects' = FALSE
    /\ manifests' = NotLoaded
    /\ version_states' = NotLoaded
    /\ generation' = 0
    /\ pc' = [t \in Tasks |-> "idle"]
    /\ req' = [t \in Tasks |-> NoRequest]
    /\ lock' = [t \in Tasks |-> 0]
    /\ newManifest' = [t \in Tasks |-> NotLoaded]
    /\ newState' = [t \in Tasks |-> NoVersions]
    /\ UNCHANGED <<disk, issued>>

Step(t) ==
    \/ Acquire(t) \/ PlanClosed(t)
    \/ PlanBump(t) \/ PlanReceive(t) \/ PlanReload(t) \/ PlanReplace(t)
    \/ StateWrite(t) \/ StateInsert(t) \/ ManifestWrite(t) \/ ManifestInsert(t) \/ Fail(t)
    \/ OpenBegin(t) \/ OpenRead(t) \/ OpenNote(t) \/ OpenSave(t) \/ OpenInstall(t)

Next ==
    \/ \E t \in Tasks, r \in Asked :
          \E m \in IF r.kind = "replace" THEN Manifest ELSE {NotLoaded} : Begin(t, r, m)
    \/ \E t \in Tasks : Step(t)
    \/ CloseProject
    \/ \E m \in Manifest : GitCheckout(m)
    \/ Crash

Spec == Init /\ [][Next]_vars

-----------------------------------------------------------------------------
(* Properties.                                                             *)

TypeOK ==
    /\ projects \in BOOLEAN
    /\ manifests \in Manifest \cup {NotLoaded}
    /\ version_states \in VersionState \cup {NotLoaded}
    /\ diskManifest \in Manifest
    /\ diskState \in VersionState
    /\ generation \in 0..MaxCloses
    /\ pc \in [Tasks -> Locked \cup Opening \cup {"idle", "lock"}]
    /\ req \in [Tasks -> Request \cup {NoRequest}]
    /\ lock \in [Tasks -> 0..MaxCloses]
    /\ newManifest \in [Tasks -> Manifest \cup {NotLoaded}]
    /\ newState \in [Tasks -> VersionState]
    /\ issued \subseteq [file : Files, version : Version, content : Contents]

\* A version number names one content: whatever crashes, restarts, failed
\* writes, git checkouts and received versions happen in between, this node
\* never publishes two contents of a file under the same version.
NoReuse ==
    \A i, j \in issued : i.file = j.file /\ i.version = j.version => i.content = j.content

Allocator == INSTANCE VersionAllocator WITH highWater <- diskState

\* The numbering implements the abstract allocator, with state.json as its
\* mark: a version is given out only under a durable mark, each above all
\* the file had before, through crashes, checkouts and failed writes.
Allocates == Allocator!Spec

\* "A new version always exceeds the persisted highest observed version"
\* (project.rs, comment of bump_file_version): when a publish writes its
\* mark, it is above the one on disk.
NewVersionAboveHighWater ==
    [][\A t \in Tasks :
          StateWrite(t) /\ req[t].kind = "bump"
              => newState[t][req[t].file] > diskState[req[t].file]]_vars

\* The persisted marks never go back, although several tasks write state.json
\* from snapshots taken earlier.
HighWaterMonotone == [][\A f \in Files : diskState'[f] >= diskState[f]]_vars

\* "Prevents an old snapshot from overwriting a newer one" (project.rs,
\* comment of manifest_locks): what a publish or a reception without force
\* records is newer than the entry it replaces, and the entries of the other
\* files stay as they were.
NoClobber ==
    [][\A t \in Tasks, f \in Files :
          (/\ ManifestInsert(t)
           /\ req[t].kind \in {"bump", "receive"} /\ ~req[t].force
           /\ manifests # NotLoaded)
              => IF f = req[t].file
                 THEN VersionOf(manifests[f]) < VersionOf(manifests'[f])
                 ELSE manifests'[f] = manifests[f]]_vars

\* When nothing is under way in an open project, the marks in memory, from
\* which the next version is taken, are the ones on disk.
MarksCoherent ==
    projects /\ (\A t \in Tasks : pc[t] = "idle") => version_states = diskState

=============================================================================
