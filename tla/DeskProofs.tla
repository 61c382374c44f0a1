----------------------------- MODULE DeskProofs -----------------------------
(***************************************************************************)
(* Proofs about what a daemon keeps beside the files, for every set of     *)
(* files, contents, tasks, reports, starts and keys.                       *)
(*                                                                         *)
(* The version numbers: their types, what the mutex of manifest_locks and  *)
(* non-overlapping opens guarantee, how memory and disk agree, and from    *)
(* these that no version number is reused and no answered version is lost. *)
(* The safety theorems assume Serial, without which they fail: a project   *)
(* is not closed while an operation on it is suspended, and two opens of   *)
(* it do not overlap.                                                      *)
(*                                                                         *)
(* The identity: as long as no start looks for the file while another is   *)
(* about to write it, one start at a time writes.                          *)
(*                                                                         *)
(* The conflicts: how far the one task that finds them has come with the   *)
(* conflict in its hands.                                                  *)
(***************************************************************************)
EXTENDS Desk, TLAPS

\* Every leaf without a prover of its own is tried with Zenon, then with SMT.
USE ZenonT(5), SMTT(30)

Writing == {"stateWrite", "stateInsert", "manifestWrite", "manifestInsert"}
Holding == Locked \cup {"lock"}

\* TypeOK, with what a suspended task is known to carry.
TypeInv ==
    /\ TypeOK
    /\ projects => manifests \in Manifest /\ version_states \in VersionState
    /\ \A t \in Tasks :
          /\ pc[t] \in Holding => req[t] \in Request
          /\ pc[t] \in {"lock", "plan"} /\ req[t].kind = "replace" => newManifest[t] \in Manifest
          /\ pc[t] \in {"manifestWrite", "manifestInsert"} => newManifest[t] \in Manifest
          /\ pc[t] \in Writing /\ req[t].kind = "bump" =>
                newManifest[t] \in Manifest /\ newManifest[t][req[t].file] \in Entry
          /\ pc[t] \in {"openNote", "openSave", "openInstall"} => newManifest[t] \in Manifest

\* The operators on versions and high-water marks stay within their types.
LEMMA NoteType ==
    ASSUME NEW s \in VersionState, NEW f \in Files, NEW v \in 0..(MaxVersion - 1)
    PROVE  /\ Note(s, f, v) \in VersionState
           /\ \A g \in Files : Note(s, f, v)[g] >= s[g]
           /\ Note(s, f, v)[f] >= v
BY VersionsAssumption DEF Note, VersionState, Larger

LEMMA NoteAllType ==
    ASSUME NEW s \in VersionState, NEW m \in Manifest
    PROVE  /\ NoteAll(s, m) \in VersionState
           /\ \A g \in Files : NoteAll(s, m)[g] >= s[g]
BY VersionsAssumption DEF NoteAll, VersionState, Manifest, Entry, Version, VersionOf, Larger

LEMMA NextVersionType ==
    ASSUME NEW e \in Entry \cup {NoEntry}, NEW floor \in 0..(MaxVersion - 1)
    PROVE  /\ NextVersion(e, floor) \in 1..MaxVersion
           /\ NextVersion(e, floor) > floor
BY VersionsAssumption DEF NextVersion, Entry, Version, VersionOf, Larger, Successor

LEMMA WriteType ==
    ASSUME NEW m \in Manifest, NEW f \in Files, NEW v \in Version, NEW c \in Contents
    PROVE  /\ Write(m, f, v, c) \in Manifest
           /\ Write(m, f, v, c)[f] = [version |-> v, content |-> c]
           /\ \A g \in Files \ {f} : Write(m, f, v, c)[g] = m[g]
BY DEF Write, Manifest, Entry

LEMMA EmptyType == NoVersions \in VersionState /\ EmptyManifest \in Manifest
BY VersionsAssumption DEF NoVersions, VersionState, EmptyManifest, Manifest

LEMMA InitType == Init => TypeInv
<1> SUFFICES ASSUME Init PROVE TypeInv
  OBVIOUS
<1>1. TypeOK
  <2>1. projects \in BOOLEAN
    BY Zenon DEF Init
  <2>2. pc \in [Tasks -> Locked \cup Opening \cup {"idle", "lock"}]
    BY DEF Init
  <2>3. generation \in 0..MaxCloses /\ lock \in [Tasks -> 0..MaxCloses]
    BY VersionsAssumption DEF Init
  <2> QED
    BY <2>1, <2>2, <2>3, EmptyType DEF Init, TypeOK
<1>2. ~projects /\ \A t \in Tasks : pc[t] = "idle"
  BY DEF Init
<1> QED
  BY <1>1, <1>2 DEF TypeInv, Holding, Locked, Writing

\* What a task knows while it plans.
LEMMA PlanType ==
    ASSUME TypeInv, NEW t \in Tasks, pc[t] = "plan", projects
    PROVE  /\ CurrentManifest(t) \in Manifest
           /\ CurrentState = version_states /\ version_states \in VersionState
           /\ req[t] \in Request
           /\ req[t].kind = "replace" => newManifest[t] \in Manifest
BY VersionsAssumption DEF TypeInv, TypeOK, CurrentManifest, CurrentState, Holding, Locked

\* What planning leaves behind, in its two outcomes.
LEMMA ProceedType ==
    ASSUME TypeInv, NEW t \in Tasks, NEW kind, Plan(t, kind),
           NEW s \in VersionState, NEW m \in Manifest \cup {NotLoaded},
           kind = "bump" => m \in Manifest /\ m[req[t].file] \in Entry,
           Proceed(t, s, m)
    PROVE  TypeInv'
<1>1. CurrentManifest(t) \in Manifest /\ CurrentState \in VersionState /\ req[t] \in Request
  BY PlanType DEF Plan
<1>2. CASE s = CurrentState /\ m = NotLoaded
  BY <1>1, <1>2, EmptyType, VersionsAssumption
  DEF TypeInv, TypeOK, Proceed, Plan, Return, Goto, disk, Holding, Locked, Opening, Writing
<1>3. CASE ~(s = CurrentState /\ m = NotLoaded)
  <2>1. s = CurrentState => m \in Manifest
    BY <1>3
  <2> QED
    BY <1>1, <1>3, <2>1, VersionsAssumption
    DEF TypeInv, TypeOK, Proceed, Plan, Goto, disk, Holding, Locked, Opening, Writing
<1> QED
  BY <1>2, <1>3

LEMMA ReturnType ==
    ASSUME TypeInv, NEW t \in Tasks, Return(t),
           projects' \in BOOLEAN,
           manifests' \in Manifest \cup {NotLoaded},
           version_states' \in VersionState \cup {NotLoaded},
           projects' => manifests' \in Manifest /\ version_states' \in VersionState,
           generation' = generation, UNCHANGED disk,
           issued' \subseteq [file : Files, version : Version, content : Contents]
    PROVE  TypeInv'
BY EmptyType, VersionsAssumption
DEF TypeInv, TypeOK, Return, Goto, disk, Holding, Locked, Opening, Writing

LEMMA TypeStep == TypeInv /\ [Next]_vars => TypeInv'
<1> SUFFICES ASSUME TypeInv, [Next]_vars PROVE TypeInv'
  OBVIOUS
<1> USE VersionsAssumption, EmptyType
<1>1. ASSUME NEW t \in Tasks, NEW r \in Asked,
             NEW m \in IF r.kind = "replace" THEN Manifest ELSE {NotLoaded}, Begin(t, r, m)
      PROVE  TypeInv'
  <2>1. r \in Request /\ m \in Manifest \cup {NotLoaded} /\ (r.kind = "replace" => m \in Manifest)
    BY DEF Asked
  <2> QED
    BY <1>1, <2>1
    DEF Begin, Goto, TypeInv, TypeOK, memory, disk, Holding, Locked, Opening, Writing
<1>2. ASSUME NEW t \in Tasks, Acquire(t) PROVE TypeInv'
  BY <1>2 DEF Acquire, Goto, TypeInv, TypeOK, memory, disk, Holding, Locked, Opening, Writing
<1>3. ASSUME NEW t \in Tasks, NEW kind, Plan(t, kind), Return(t) PROVE TypeInv'
  <2>1. CurrentManifest(t) \in Manifest /\ CurrentState \in VersionState
    BY <1>3, PlanType DEF Plan
  <2> QED
    BY <1>3, <2>1, ReturnType DEF Plan, TypeInv, TypeOK
<1>4. ASSUME NEW t \in Tasks, PlanBump(t) PROVE TypeInv'
  <2> DEFINE f == req[t].file
             c == req[t].content
             m == CurrentManifest(t)
             v == NextVersion(m[f], CurrentState[f])
  <2>1. Plan(t, "bump")
    BY <1>4 DEF PlanBump
  <2>2. /\ m \in Manifest /\ CurrentState \in VersionState
        /\ f \in Files /\ c \in Contents
    BY <2>1, PlanType DEF Plan, Request
  <2>3. v \in 1..MaxVersion
    BY <2>2, NextVersionType, Zenon DEF Manifest, VersionState
  <2>4. CASE Unchanged(m[f], c) \/ v = MaxVersion
    BY <1>3, <1>4, <2>1, <2>4 DEF PlanBump
  <2>5. CASE ~(Unchanged(m[f], c) \/ v = MaxVersion)
    <3>1. v \in Version /\ v \in 0..(MaxVersion - 1)
      BY <2>3, <2>5 DEF Version
    <3>2. Proceed(t, Note(CurrentState, f, v), Write(m, f, v, c))
      BY <1>4, <2>5 DEF PlanBump
    <3>3. Note(CurrentState, f, v) \in VersionState
      BY <2>2, <3>1, NoteType
    <3>4. Write(m, f, v, c) \in Manifest /\ Write(m, f, v, c)[f] \in Entry
      <4>1. [version |-> v, content |-> c] \in Entry
        BY <2>2, <3>1 DEF Entry
      <4> QED
        BY <2>2, <3>1, <4>1, WriteType
    <3> QED
      BY <2>1, <3>2, <3>3, <3>4, ProceedType
  <2> QED
    BY <2>4, <2>5
<1>5. ASSUME NEW t \in Tasks, PlanReceive(t) PROVE TypeInv'
  <2> DEFINE f == req[t].file
             v == req[t].version
             m == CurrentManifest(t)
             n == IF Records(m[f], v, req[t].force) THEN Write(m, f, v, req[t].content) ELSE NotLoaded
  <2>1. Plan(t, "receive")
    BY <1>5 DEF PlanReceive
  <2>2. /\ m \in Manifest /\ CurrentState \in VersionState
        /\ f \in Files /\ v \in 1..MaxVersion /\ req[t].content \in Contents
    BY <2>1, PlanType DEF Plan, Request
  <2>3. CASE v = MaxVersion
    BY <1>3, <1>5, <2>1, <2>3 DEF PlanReceive
  <2>4. CASE v # MaxVersion
    <3>1. v \in Version /\ v \in 0..(MaxVersion - 1)
      BY <2>2, <2>4 DEF Version
    <3>2. Proceed(t, Note(CurrentState, f, v), n)
      BY <1>5, <2>4 DEF PlanReceive
    <3>3. Note(CurrentState, f, v) \in VersionState
      BY <2>2, <3>1, NoteType
    <3>4. n \in Manifest \cup {NotLoaded}
      BY <2>2, <3>1, WriteType, Zenon
    <3> QED
      BY <2>1, <3>2, <3>3, <3>4, ProceedType
  <2> QED
    BY <2>3, <2>4
<1>6. ASSUME NEW t \in Tasks, PlanReload(t) PROVE TypeInv'
  <2>1. CurrentManifest(t) \in Manifest /\ CurrentState \in VersionState
    BY <1>6, PlanType DEF PlanReload, Plan
  <2> QED
    BY <1>6, <2>1, NoteAllType, ProceedType DEF PlanReload
<1>7. ASSUME NEW t \in Tasks, PlanReplace(t) PROVE TypeInv'
  <2>1. newManifest[t] \in Manifest /\ CurrentState \in VersionState
    BY <1>7, PlanType DEF PlanReplace, Plan
  <2> QED
    BY <1>7, <2>1, NoteAllType, ProceedType DEF PlanReplace
<1>8. ASSUME NEW t \in Tasks, PlanClosed(t) PROVE TypeInv'
  BY <1>8, ReturnType DEF PlanClosed, memory, TypeInv, TypeOK
<1>9. ASSUME NEW t \in Tasks, StateWrite(t) PROVE TypeInv'
  BY <1>9 DEF StateWrite, Goto, TypeInv, TypeOK, memory, Holding, Locked, Opening, Writing
<1>10. ASSUME NEW t \in Tasks, StateInsert(t) PROVE TypeInv'
  <2>1. newState[t] \in VersionState
    BY DEF TypeInv, TypeOK
  <2>2. CASE newManifest[t] = NotLoaded
    BY <1>10, <2>1, <2>2, ReturnType DEF StateInsert, TypeInv, TypeOK
  <2>3. CASE newManifest[t] # NotLoaded
    BY <1>10, <2>1, <2>3 DEF StateInsert, Goto, TypeInv, TypeOK, disk, Holding, Locked, Opening, Writing
  <2> QED
    BY <2>2, <2>3
<1>11. ASSUME NEW t \in Tasks, ManifestWrite(t) PROVE TypeInv'
  BY <1>11 DEF ManifestWrite, Goto, TypeInv, TypeOK, memory, Holding, Locked, Opening, Writing
<1>12. ASSUME NEW t \in Tasks, ManifestInsert(t) PROVE TypeInv'
  <2>1. newManifest[t] \in Manifest /\ req[t] \in Request
    BY <1>12 DEF ManifestInsert, TypeInv, Holding, Locked
  <2>2. ASSUME req[t].kind = "bump"
        PROVE  Issue(req[t].file, newManifest[t][req[t].file])
                   \in [file : Files, version : Version, content : Contents]
    BY <1>12, <2>1, <2>2 DEF ManifestInsert, TypeInv, Writing, Request, Entry, Issue
  <2> QED
    BY <1>12, <2>1, <2>2, ReturnType DEF ManifestInsert, TypeInv, TypeOK
<1>13. ASSUME NEW t \in Tasks, Fail(t) PROVE TypeInv'
  BY <1>13, ReturnType DEF Fail, memory, TypeInv, TypeOK
<1>14. ASSUME NEW t \in Tasks, OpenBegin(t) \/ OpenRead(t) PROVE TypeInv'
  BY <1>14 DEF OpenBegin, OpenRead, Goto, TypeInv, TypeOK, memory, disk, Holding, Locked, Opening, Writing
<1>15. ASSUME NEW t \in Tasks, OpenNote(t) PROVE TypeInv'
  <2>1. newManifest[t] \in Manifest /\ diskState \in VersionState
    BY <1>15 DEF OpenNote, TypeInv, TypeOK
  <2>2. NoteAll(diskState, newManifest[t]) \in VersionState
    BY <2>1, NoteAllType
  <2> QED
    BY <1>15, <2>2 DEF OpenNote, Goto, TypeInv, TypeOK, memory, disk, Holding, Locked, Opening, Writing
<1>16. ASSUME NEW t \in Tasks, OpenSave(t) PROVE TypeInv'
  BY <1>16 DEF OpenSave, Goto, TypeInv, TypeOK, memory, Holding, Locked, Opening, Writing
<1>17. ASSUME NEW t \in Tasks, OpenInstall(t) PROVE TypeInv'
  BY <1>17, ReturnType DEF OpenInstall, TypeInv, TypeOK
<1>18. CASE CloseProject
  <2>1. projects' \in BOOLEAN /\ ~projects'
    BY <1>18, Zenon DEF CloseProject
  <2> QED
    BY <1>18, <2>1 DEF CloseProject, TypeInv, TypeOK, disk, Holding, Locked, Opening, Writing
<1>19. ASSUME NEW m \in Manifest, GitCheckout(m) PROVE TypeInv'
  BY <1>19 DEF GitCheckout, TypeInv, TypeOK, memory, Holding, Locked, Opening, Writing
<1>20. CASE Crash
  <2>1. projects' \in BOOLEAN /\ ~projects'
    BY <1>20, Zenon DEF Crash
  <2> QED
    BY <1>20, <2>1 DEF Crash, TypeInv, TypeOK, disk, Holding, Locked, Opening, Writing
<1>21. CASE UNCHANGED vars
  BY <1>21 DEF vars, TypeInv, TypeOK
<1> QED
  BY <1>1, <1>2, <1>4, <1>5, <1>6, <1>7, <1>8, <1>9, <1>10, <1>11, <1>12, <1>13, <1>14,
     <1>15, <1>16, <1>17, <1>18, <1>19, <1>20, <1>21 DEF Next, Step

\* Every variable keeps its type, whatever operations overlap.
THEOREM TypeCorrect == Spec => []TypeOK
<1>1. TypeInv => TypeOK
  BY DEF TypeInv
<1> QED
  BY <1>1, InitType, TypeStep, PTL DEF Spec

-----------------------------------------------------------------------------
(* The high-water marks.                                                   *)

AtMost(s, u) == \A f \in Files : s[f] <= u[f]

\* What the mutex and the non-overlapping opens guarantee.
Exclusive ==
    /\ \A t \in Tasks : pc[t] \in Holding => lock[t] = generation
    /\ \A t, u \in Tasks : pc[t] \in Locked /\ pc[u] \in Locked => t = u
    /\ \A t, u \in Tasks : pc[t] \in Opening /\ pc[u] \in Opening => t = u
    /\ \A t \in Tasks : pc[t] \in Opening => ~projects
    /\ \A t \in Tasks : pc[t] \in Writing => projects

\* Memory and disk agree except between the two halves of an update, and a
\* suspended update raises the marks.
Marks ==
    /\ projects /\ (\A t \in Tasks : pc[t] # "stateInsert") => version_states = diskState
    /\ \A t \in Tasks :
          /\ pc[t] = "stateWrite" => AtMost(diskState, newState[t])
          /\ pc[t] = "stateInsert" => newState[t] = diskState
          /\ pc[t] = "openSave" => AtMost(diskState, newState[t])
          /\ pc[t] = "openInstall" => newState[t] = diskState

PlanSome(t) == PlanBump(t) \/ PlanReceive(t) \/ PlanReload(t) \/ PlanReplace(t)

\* An operation that goes on after planning carries marks that are at least
\* the current ones; a publish carries a new version as the mark of its file.
Planned(t, s, m) ==
    /\ s \in VersionState
    /\ m \in Manifest \cup {NotLoaded}
    /\ AtMost(version_states, s)
    /\ req[t].kind = "bump" =>
          /\ s[req[t].file] = m[req[t].file].version
          /\ s[req[t].file] > version_states[req[t].file]
    /\ pc' = [pc EXCEPT ![t] = IF s # version_states THEN "stateWrite" ELSE "manifestWrite"]
    /\ newState' = [newState EXCEPT ![t] = s]
    /\ newManifest' = [newManifest EXCEPT ![t] = m]
    /\ UNCHANGED <<req, lock>>

LEMMA PlanEffect ==
    ASSUME TypeInv, NEW t \in Tasks, PlanSome(t)
    PROVE  /\ pc[t] = "plan" /\ projects
           /\ UNCHANGED <<projects, version_states, generation, diskState, issued>>
           /\ Return(t) \/ \E s, m : Planned(t, s, m)
<1>1. \E kind : Plan(t, kind)
  BY DEF PlanSome, PlanBump, PlanReceive, PlanReload, PlanReplace
<1>2. /\ pc[t] = "plan" /\ projects
      /\ CurrentManifest(t) \in Manifest
      /\ CurrentState = version_states /\ version_states \in VersionState
      /\ req[t] \in Request
      /\ UNCHANGED <<projects, version_states, generation, diskState, issued>>
  BY <1>1, PlanType DEF Plan, disk
<1>3. ASSUME NEW s \in VersionState, NEW m \in Manifest \cup {NotLoaded},
             Proceed(t, s, m), AtMost(version_states, s),
             req[t].kind = "bump" => /\ s[req[t].file] = m[req[t].file].version
                                     /\ s[req[t].file] > version_states[req[t].file]
      PROVE  Return(t) \/ \E x, y : Planned(t, x, y)
  <2>1. CASE s = CurrentState /\ m = NotLoaded
    BY <1>3, <2>1 DEF Proceed
  <2>2. CASE ~(s = CurrentState /\ m = NotLoaded)
    <3>1. Planned(t, s, m)
      BY <1>2, <1>3, <2>2 DEF Proceed, Planned, Goto
    <3> QED
      BY <3>1
  <2> QED
    BY <2>1, <2>2
<1>4. CASE PlanBump(t)
  <2> DEFINE f == req[t].file
             c == req[t].content
             m == CurrentManifest(t)
             v == NextVersion(m[f], version_states[f])
  <2>1. f \in Files /\ c \in Contents
    BY <1>2 DEF Request
  <2>2. v \in 1..MaxVersion /\ v > version_states[f]
    BY <1>2, <2>1, NextVersionType DEF Manifest, VersionState
  <2>3. CASE Unchanged(m[f], c) \/ v = MaxVersion
    BY <1>2, <1>4, <2>3 DEF PlanBump
  <2>4. CASE ~(Unchanged(m[f], c) \/ v = MaxVersion)
    <3>1. v \in Version /\ v \in 0..(MaxVersion - 1)
      BY <2>2, <2>4, VersionsAssumption DEF Version
    <3>2. Proceed(t, Note(version_states, f, v), Write(m, f, v, c))
      BY <1>2, <1>4, <2>4 DEF PlanBump
    <3>3. /\ Note(version_states, f, v) \in VersionState
          /\ AtMost(version_states, Note(version_states, f, v))
      BY <1>2, <2>1, <3>1, NoteType DEF AtMost, VersionState
    <3>4. Note(version_states, f, v)[f] = v
      BY <1>2, <2>1, <2>2, VersionsAssumption DEF Note, Larger, VersionState
    <3>5. /\ Write(m, f, v, c) \in Manifest
          /\ Write(m, f, v, c)[f] = [version |-> v, content |-> c]
      BY <1>2, <2>1, <3>1, WriteType
    <3>6. Write(m, f, v, c)[f].version = v
      BY <3>5
    <3> HIDE DEF v, m
    <3> QED
      BY <1>2, <1>3, <3>6, <2>2, <3>2, <3>3, <3>4, <3>5
  <2> QED
    BY <1>2, <2>3, <2>4
<1>5. CASE PlanReceive(t)
  <2> DEFINE f == req[t].file
             v == req[t].version
             m == CurrentManifest(t)
             n == IF Records(m[f], v, req[t].force) THEN Write(m, f, v, req[t].content) ELSE NotLoaded
  <2>1. f \in Files /\ v \in 1..MaxVersion /\ req[t].content \in Contents /\ req[t].kind # "bump"
    BY <1>2, <1>5 DEF Request, PlanReceive, Plan
  <2>2. CASE v = MaxVersion
    BY <1>2, <1>5, <2>2 DEF PlanReceive
  <2>3. CASE v # MaxVersion
    <3>1. v \in Version /\ v \in 0..(MaxVersion - 1)
      BY <2>1, <2>3, VersionsAssumption DEF Version
    <3>2. Proceed(t, Note(version_states, f, v), n)
      BY <1>2, <1>5, <2>3 DEF PlanReceive
    <3>3. /\ Note(version_states, f, v) \in VersionState
          /\ AtMost(version_states, Note(version_states, f, v))
      BY <1>2, <2>1, <3>1, NoteType DEF AtMost, VersionState
    <3>4. n \in Manifest \cup {NotLoaded}
      BY <1>2, <2>1, <3>1, WriteType, Zenon
    <3> HIDE DEF n
    <3> QED
      BY <1>2, <1>3, <2>1, <3>2, <3>3, <3>4
  <2> QED
    BY <2>2, <2>3
<1>6. CASE PlanReload(t)
  <2>1. /\ NoteAll(version_states, CurrentManifest(t)) \in VersionState
        /\ AtMost(version_states, NoteAll(version_states, CurrentManifest(t)))
    BY <1>2, NoteAllType DEF AtMost, VersionState
  <2> QED
    BY <1>2, <1>3, <1>6, <2>1 DEF PlanReload, Plan
<1>7. CASE PlanReplace(t)
  <2>1. newManifest[t] \in Manifest
    BY <1>7, PlanType DEF PlanReplace, Plan
  <2>2. /\ NoteAll(version_states, newManifest[t]) \in VersionState
        /\ AtMost(version_states, NoteAll(version_states, newManifest[t]))
    BY <1>2, <2>1, NoteAllType DEF AtMost, VersionState
  <2> QED
    BY <1>2, <1>3, <1>7, <2>1, <2>2 DEF PlanReplace, Plan
<1> QED
  BY <1>2, <1>4, <1>5, <1>6, <1>7 DEF PlanSome

\* The environment the safety theorems assume.
Serial == ~CloseWhileBusy /\ ~OpenTwice

LEMMA ExclusiveStep ==
    ASSUME Serial, TypeInv, Exclusive, [Next]_vars
    PROVE  Exclusive'
<1> USE DEF Holding, Locked, Opening, Writing, Goto, memory
<1>0. pc \in [Tasks -> Locked \cup Opening \cup {"idle", "lock"}] /\ lock \in [Tasks -> 0..MaxCloses]
  BY DEF TypeInv, TypeOK
<1>1. ASSUME NEW t \in Tasks, NEW r, NEW m, Begin(t, r, m) PROVE Exclusive'
  BY <1>0, <1>1 DEF Exclusive, Begin
<1>2. ASSUME NEW t \in Tasks, Acquire(t) PROVE Exclusive'
  BY <1>0, <1>2 DEF Exclusive, Acquire
<1>3. ASSUME NEW t \in Tasks, Return(t), UNCHANGED <<projects, generation>> PROVE Exclusive'
  BY <1>0, <1>3 DEF Exclusive, Return
<1>4. ASSUME NEW t \in Tasks, PlanSome(t) PROVE Exclusive'
  <2>1. CASE Return(t)
    BY <1>3, <1>4, <2>1, PlanEffect
  <2>2. ASSUME NEW s, NEW m, Planned(t, s, m) PROVE Exclusive'
    BY <1>0, <1>4, <2>2, PlanEffect DEF Exclusive, Planned
  <2> QED
    BY <1>4, <2>1, <2>2, PlanEffect
<1>5. ASSUME NEW t \in Tasks, PlanClosed(t) \/ Fail(t) \/ ManifestInsert(t) PROVE Exclusive'
  BY <1>3, <1>5 DEF PlanClosed, Fail, ManifestInsert
<1>6. ASSUME NEW t \in Tasks, StateWrite(t) \/ ManifestWrite(t) PROVE Exclusive'
  BY <1>0, <1>6 DEF Exclusive, StateWrite, ManifestWrite
<1>7. ASSUME NEW t \in Tasks, StateInsert(t) PROVE Exclusive'
  <2>1. CASE newManifest[t] = NotLoaded
    BY <1>3, <1>7, <2>1 DEF StateInsert
  <2>2. CASE newManifest[t] # NotLoaded
    BY <1>0, <1>7, <2>2 DEF Exclusive, StateInsert
  <2> QED
    BY <2>1, <2>2
<1>8. ASSUME NEW t \in Tasks, OpenBegin(t) PROVE Exclusive'
  BY <1>0, <1>8 DEF Exclusive, OpenBegin, Serial
<1>9. ASSUME NEW t \in Tasks, OpenRead(t) \/ OpenNote(t) \/ OpenSave(t) PROVE Exclusive'
  BY <1>0, <1>9 DEF Exclusive, OpenRead, OpenNote, OpenSave
<1>10. ASSUME NEW t \in Tasks, OpenInstall(t) PROVE Exclusive'
  BY <1>0, <1>10 DEF Exclusive, OpenInstall, Return
<1>11. CASE CloseProject
  BY <1>0, <1>11 DEF Exclusive, CloseProject, Serial
<1>12. ASSUME NEW m, GitCheckout(m) PROVE Exclusive'
  BY <1>12 DEF Exclusive, GitCheckout
<1>13. CASE Crash
  BY <1>13 DEF Exclusive, Crash
<1>14. CASE UNCHANGED vars
  BY <1>14 DEF Exclusive, vars
<1> QED
  BY <1>1, <1>2, <1>4, <1>5, <1>6, <1>7, <1>8, <1>9, <1>10, <1>11, <1>12, <1>13, <1>14
  DEF Next, Step, PlanSome

LEMMA MarksStep ==
    ASSUME Serial, TypeInv, Exclusive, Marks, [Next]_vars
    PROVE  Marks'
<1> USE DEF Locked, Opening, Writing, Goto, memory, disk
<1>0. /\ pc \in [Tasks -> Locked \cup Opening \cup {"idle", "lock"}]
      /\ newState \in [Tasks -> VersionState]
      /\ diskState \in VersionState
  BY DEF TypeInv, TypeOK
<1>1. ASSUME NEW t \in Tasks, NEW r, NEW m, Begin(t, r, m) PROVE Marks'
  BY <1>0, <1>1 DEF Marks, Begin, AtMost
<1>2. ASSUME NEW t \in Tasks, Acquire(t) PROVE Marks'
  BY <1>0, <1>2 DEF Marks, Acquire, AtMost
<1>3. ASSUME NEW t \in Tasks, pc[t] # "stateInsert", Return(t),
             UNCHANGED <<projects, version_states, diskState>>
      PROVE  Marks'
  BY <1>0, <1>3 DEF Marks, Return, AtMost
<1>4. ASSUME NEW t \in Tasks, PlanSome(t) PROVE Marks'
  <2>1. CASE Return(t)
    BY <1>3, <1>4, <2>1, PlanEffect
  <2>2. ASSUME NEW s, NEW m, Planned(t, s, m) PROVE Marks'
    <3>1. version_states = diskState
      BY <1>4, PlanEffect DEF Marks, Exclusive
    <3> QED
      BY <1>0, <1>4, <2>2, <3>1, PlanEffect DEF Marks, Planned, AtMost
  <2> QED
    BY <1>4, <2>1, <2>2, PlanEffect
<1>5. ASSUME NEW t \in Tasks, PlanClosed(t) \/ Fail(t) \/ ManifestInsert(t) PROVE Marks'
  BY <1>3, <1>5 DEF PlanClosed, Fail, ManifestInsert
<1>6. ASSUME NEW t \in Tasks, StateWrite(t) PROVE Marks'
  BY <1>0, <1>6 DEF Marks, StateWrite, Exclusive, AtMost
<1>7. ASSUME NEW t \in Tasks, StateInsert(t) PROVE Marks'
  <2>1. CASE newManifest[t] = NotLoaded
    BY <1>0, <1>7, <2>1 DEF Marks, StateInsert, Return, Exclusive, AtMost
  <2>2. CASE newManifest[t] # NotLoaded
    BY <1>0, <1>7, <2>2 DEF Marks, StateInsert, Exclusive, AtMost
  <2> QED
    BY <2>1, <2>2
<1>8. ASSUME NEW t \in Tasks, ManifestWrite(t) \/ OpenBegin(t) \/ OpenRead(t) PROVE Marks'
  BY <1>0, <1>8 DEF Marks, ManifestWrite, OpenBegin, OpenRead, AtMost
<1>9. ASSUME NEW t \in Tasks, OpenNote(t) PROVE Marks'
  <2>1. /\ NoteAll(diskState, newManifest[t]) \in VersionState
        /\ AtMost(diskState, NoteAll(diskState, newManifest[t]))
    BY <1>0, <1>9, NoteAllType DEF OpenNote, TypeInv, AtMost, VersionState
  <2> QED
    BY <1>0, <1>9, <2>1 DEF Marks, OpenNote, AtMost
<1>10. ASSUME NEW t \in Tasks, OpenSave(t) PROVE Marks'
  BY <1>0, <1>10 DEF Marks, OpenSave, Exclusive, AtMost
<1>11. ASSUME NEW t \in Tasks, OpenInstall(t) PROVE Marks'
  BY <1>0, <1>11 DEF Marks, OpenInstall, Return, Exclusive, AtMost
<1>12. CASE CloseProject
  BY <1>0, <1>12 DEF Marks, CloseProject, AtMost
<1>13. ASSUME NEW m, GitCheckout(m) PROVE Marks'
  BY <1>13 DEF Marks, GitCheckout, AtMost
<1>14. CASE Crash
  BY <1>14 DEF Marks, Crash, AtMost
<1>15. CASE UNCHANGED vars
  BY <1>15 DEF Marks, vars, AtMost
<1> QED
  BY <1>1, <1>2, <1>4, <1>5, <1>6, <1>7, <1>8, <1>9, <1>10, <1>11, <1>12, <1>13, <1>14, <1>15
  DEF Next, Step, PlanSome

-----------------------------------------------------------------------------
\* The version a suspended publish has allotted: above everything issued.
Allotted(t) == newManifest[t][req[t].file].version

Fresh ==
    /\ \A i \in issued : i.version <= diskState[i.file]
    /\ \A t \in Tasks : pc[t] \in Writing /\ req[t].kind = "bump" =>
          /\ pc[t] = "stateWrite" =>
                /\ newState[t][req[t].file] = Allotted(t)
                /\ diskState[req[t].file] < Allotted(t)
          /\ pc[t] # "stateWrite" => Allotted(t) <= diskState[req[t].file]
          /\ \A i \in issued : i.file = req[t].file => i.version < Allotted(t)

SafeInv == TypeInv /\ Exclusive /\ Marks /\ Fresh /\ NoReuse

\* Marks that only rise stay above everything issued.
LEMMA IssuedBelow ==
    ASSUME Fresh, diskState \in VersionState,
           issued \subseteq [file : Files, version : Version, content : Contents],
           NEW d \in VersionState, AtMost(diskState, d)
    PROVE  \A i \in issued : i.version <= d[i.file]
<1> SUFFICES ASSUME NEW i \in issued PROVE i.version <= d[i.file]
  OBVIOUS
<1>1. i.file \in Files /\ i.version \in Version /\ i.version <= diskState[i.file]
  BY DEF Fresh
<1>2. diskState[i.file] <= d[i.file]
  BY <1>1 DEF AtMost
<1>3. i.version \in Int /\ diskState[i.file] \in Int /\ d[i.file] \in Int
  BY <1>1, VersionsAssumption DEF VersionState, Version
<1> HIDE DEF Fresh
<1> QED
  BY <1>1, <1>2, <1>3

LEMMA FreshStep ==
    ASSUME Serial, TypeInv, Exclusive, Marks, Fresh, NoReuse, [Next]_vars
    PROVE  Fresh' /\ NoReuse'
<1> USE DEF Allotted, Locked, Opening, Writing, Goto, memory, disk
<1>0. /\ pc \in [Tasks -> Locked \cup Opening \cup {"idle", "lock"}]
      /\ req \in [Tasks -> Request \cup {NoRequest}]
      /\ newState \in [Tasks -> VersionState]
      /\ newManifest \in [Tasks -> Manifest \cup {NotLoaded}]
      /\ diskState \in VersionState
      /\ issued \subseteq [file : Files, version : Version, content : Contents]
      /\ \A t \in Tasks : pc[t] \in Writing => req[t] \in Request
  BY DEF TypeInv, TypeOK, Holding
<1>1. ASSUME NEW t \in Tasks, NEW r, NEW m, Begin(t, r, m) PROVE Fresh' /\ NoReuse'
  BY <1>0, <1>1 DEF Begin, Fresh, NoReuse
<1>2. ASSUME NEW t \in Tasks, Acquire(t) PROVE Fresh' /\ NoReuse'
  BY <1>0, <1>2 DEF Acquire, Fresh, NoReuse
<1>3. ASSUME NEW t \in Tasks, Return(t), UNCHANGED <<diskState, issued>> PROVE Fresh' /\ NoReuse'
  BY <1>0, <1>3 DEF Return, Fresh, NoReuse
<1>4. ASSUME NEW t \in Tasks, PlanSome(t) PROVE Fresh' /\ NoReuse'
  <2>1. CASE Return(t)
    BY <1>3, <1>4, <2>1, PlanEffect
  <2>2. ASSUME NEW s, NEW m, Planned(t, s, m) PROVE Fresh' /\ NoReuse'
    <3>1. /\ version_states = diskState /\ req[t] \in Request
          /\ UNCHANGED <<diskState, issued, req>>
      BY <1>4, <2>2, PlanEffect, PlanType DEF Exclusive, Marks, Planned
    <3>2. ASSUME req[t].kind = "bump"
          PROVE  /\ s[req[t].file] = m[req[t].file].version
                 /\ diskState[req[t].file] < m[req[t].file].version
                 /\ s # version_states
                 /\ \A i \in issued : i.file = req[t].file => i.version < m[req[t].file].version
      <4> DEFINE f == req[t].file
      <4>1. f \in Files /\ s \in VersionState
            /\ s[f] = m[f].version /\ s[f] > version_states[f]
        BY <2>2, <3>1, <3>2 DEF Planned, Request
      <4>2. diskState[f] \in Int /\ s[f] \in Int
        BY <1>0, <4>1, VersionsAssumption DEF VersionState
      <4>3. \A i \in issued : i.version \in Int /\ i.version <= diskState[i.file]
        BY <1>0, VersionsAssumption DEF Version, Fresh
      <4> HIDE DEF f
      <4>4. diskState[f] < s[f]
        BY <3>1, <4>1, <4>2
      <4>5. \A i \in issued : i.file = f => i.version < s[f]
        BY <4>2, <4>3, <4>4
      <4>6. s # version_states
        BY <3>1, <4>2, <4>4
      <4>7. s[f] = m[f].version /\ diskState[f] < m[f].version
            /\ \A i \in issued : i.file = f => i.version < m[f].version
        BY <4>1, <4>4, <4>5
      <4> QED
        BY <4>1, <4>6, <4>7 DEF f
    <3> QED
      BY <1>0, <2>2, <3>1, <3>2 DEF Planned, Fresh, NoReuse
  <2> QED
    BY <1>4, <2>1, <2>2, PlanEffect
<1>5. ASSUME NEW t \in Tasks, PlanClosed(t) \/ Fail(t) PROVE Fresh' /\ NoReuse'
  BY <1>3, <1>5 DEF PlanClosed, Fail
<1>6. ASSUME NEW t \in Tasks, StateWrite(t) PROVE Fresh' /\ NoReuse'
  <2>1. /\ \A u \in Tasks : pc[u] \in Writing => u = t
        /\ \A f \in Files : diskState[f] <= diskState'[f]
        /\ diskState' \in VersionState
    BY <1>0, <1>6 DEF StateWrite, Exclusive, Marks, AtMost
  <2>2. \A i \in issued : i.version <= diskState'[i.file]
    BY <1>0, <2>1, IssuedBelow DEF AtMost
  <2>3. ASSUME req[t].kind = "bump"
        PROVE  Allotted(t) <= diskState'[req[t].file]
    BY <1>0, <1>6, <2>3, VersionsAssumption DEF StateWrite, VersionState, Request, Fresh
  <2> QED
    BY <1>0, <1>6, <2>1, <2>2, <2>3 DEF StateWrite, Fresh, NoReuse
<1>7. ASSUME NEW t \in Tasks, StateInsert(t) PROVE Fresh' /\ NoReuse'
  <2>1. CASE newManifest[t] = NotLoaded
    BY <1>3, <1>7, <2>1 DEF StateInsert
  <2>2. CASE newManifest[t] # NotLoaded
    BY <1>0, <1>7, <2>2 DEF StateInsert, Fresh, NoReuse
  <2> QED
    BY <2>1, <2>2
<1>8. ASSUME NEW t \in Tasks, ManifestWrite(t) \/ OpenBegin(t) \/ OpenRead(t) \/ OpenNote(t)
      PROVE  Fresh' /\ NoReuse'
  <2>1. UNCHANGED <<diskState, issued>>
    BY <1>8 DEF ManifestWrite, OpenBegin, OpenRead, OpenNote
  <2>2. CASE ManifestWrite(t)
    BY <1>0, <2>1, <2>2 DEF ManifestWrite, Fresh, NoReuse
  <2>3. CASE OpenBegin(t)
    BY <1>0, <2>1, <2>3 DEF OpenBegin, Fresh, NoReuse
  <2>4. CASE OpenRead(t)
    BY <1>0, <2>1, <2>4 DEF OpenRead, Fresh, NoReuse
  <2>5. CASE OpenNote(t)
    BY <1>0, <2>1, <2>5 DEF OpenNote, Fresh, NoReuse
  <2> QED
    BY <1>8, <2>2, <2>3, <2>4, <2>5
<1>9. ASSUME NEW t \in Tasks, ManifestInsert(t) PROVE Fresh' /\ NoReuse'
  <2>1. CASE req[t].kind # "bump"
    BY <1>3, <1>9, <2>1 DEF ManifestInsert
  <2>2. CASE req[t].kind = "bump"
    <3> DEFINE i == Issue(req[t].file, newManifest[t][req[t].file])
    <3>1. /\ i.file = req[t].file /\ i.version = Allotted(t)
          /\ issued' = issued \cup {i} /\ UNCHANGED diskState
      BY <1>9, <2>2 DEF ManifestInsert, Issue
    <3>2. /\ i.version <= diskState[i.file]
          /\ \A j \in issued : j.file = i.file => j.version < i.version
      BY <1>9, <2>2, <3>1 DEF ManifestInsert, Fresh
    <3>3. i.version \in Int /\ \A j \in issued : j.version \in Int
      <4>1. newManifest[t][req[t].file] \in Entry
        BY <1>9, <2>2 DEF ManifestInsert, TypeInv
      <4>2. i.version \in Version /\ \A j \in issued : j.version \in Version
        BY <1>0, <3>1, <4>1 DEF Entry
      <4> HIDE DEF i
      <4> QED
        BY <4>2, VersionsAssumption DEF Version
    <3>4. \A u \in Tasks : pc'[u] \notin Writing
      BY <1>0, <1>9 DEF ManifestInsert, Return, Exclusive
    <3> HIDE DEF i
    <3>5. Fresh'
      BY <3>1, <3>2, <3>4 DEF Fresh
    <3>6. NoReuse'
      <4> SUFFICES ASSUME NEW j \in issued', NEW k \in issued',
                          j.file = k.file, j.version = k.version
                   PROVE  j.content = k.content
        BY DEF NoReuse
      <4>1. CASE j \in issued /\ k \in issued
        BY <4>1 DEF NoReuse
      <4>2. CASE j = i /\ k = i
        BY <4>2
      <4>3. CASE j \in issued /\ k = i
        BY <3>2, <3>3, <4>3
      <4>4. CASE j = i /\ k \in issued
        BY <3>2, <3>3, <4>4
      <4> QED
        BY <3>1, <4>1, <4>2, <4>3, <4>4
    <3> QED
      BY <3>5, <3>6
  <2> QED
    BY <2>1, <2>2
<1>10. ASSUME NEW t \in Tasks, OpenSave(t) PROVE Fresh' /\ NoReuse'
  <2>1. /\ \A u \in Tasks : pc'[u] \notin Writing
        /\ \A f \in Files : diskState[f] <= diskState'[f]
        /\ diskState' \in VersionState
    BY <1>0, <1>10 DEF OpenSave, Exclusive, Marks, AtMost
  <2>2. \A i \in issued : i.version <= diskState'[i.file]
    BY <1>0, <2>1, IssuedBelow DEF AtMost
  <2> QED
    BY <1>10, <2>1, <2>2 DEF OpenSave, Fresh, NoReuse
<1>11. ASSUME NEW t \in Tasks, OpenInstall(t) PROVE Fresh' /\ NoReuse'
  BY <1>3, <1>11 DEF OpenInstall
<1>12. CASE CloseProject
  BY <1>0, <1>12 DEF CloseProject, Fresh, NoReuse
<1>13. ASSUME NEW m, GitCheckout(m) PROVE Fresh' /\ NoReuse'
  BY <1>13 DEF GitCheckout, Fresh, NoReuse
<1>14. CASE Crash
  BY <1>14 DEF Crash, Fresh, NoReuse
<1>15. CASE UNCHANGED vars
  BY <1>15 DEF vars, Fresh, NoReuse
<1> QED
  BY <1>1, <1>2, <1>4, <1>5, <1>6, <1>7, <1>8, <1>9, <1>10, <1>11, <1>12, <1>13, <1>14, <1>15, Zenon
  DEF Next, Step, PlanSome

LEMMA InitSafe == Init => SafeInv
<1> SUFFICES ASSUME Init PROVE SafeInv
  OBVIOUS
<1>1. ~projects /\ issued = {} /\ \A t \in Tasks : pc[t] = "idle"
  BY DEF Init
<1> QED
  BY <1>1, InitType
  DEF SafeInv, Exclusive, Marks, Fresh, NoReuse, Holding, Locked, Opening, Writing

LEMMA SafeStep == ASSUME Serial PROVE SafeInv /\ [Next]_vars => SafeInv'
BY TypeStep, ExclusiveStep, MarksStep, FreshStep DEF SafeInv

LEMMA Safe == ASSUME Serial PROVE Spec => []SafeInv
BY InitSafe, SafeStep, PTL DEF Spec

\* Whatever crashes, failed writes, git checkouts and received versions come
\* in between, no version number of a file is published with two contents.
THEOREM NoReuseTheorem == ASSUME Serial PROVE Spec => []NoReuse
<1>1. SafeInv => NoReuse
  BY DEF SafeInv
<1> QED
  BY <1>1, Safe, PTL

\* Between operations, the marks in memory are the marks on disk.
THEOREM MarksCoherentTheorem == ASSUME Serial PROVE Spec => []MarksCoherent
<1>1. SafeInv => MarksCoherent
  BY DEF SafeInv, Marks, MarksCoherent
<1> QED
  BY <1>1, Safe, PTL

\* The steps that write the marks or give out a version.
LEMMA DiskSteps ==
    ASSUME TypeInv, [Next]_vars
    PROVE  \/ UNCHANGED <<diskState, issued>>
           \/ \E t \in Tasks : StateWrite(t) \/ OpenSave(t)
           \/ \E t \in Tasks : ManifestInsert(t) /\ req[t].kind = "bump"
<1>1. ASSUME NEW t \in Tasks, Step(t)
      PROVE  \/ UNCHANGED <<diskState, issued>> \/ StateWrite(t) \/ OpenSave(t)
             \/ ManifestInsert(t) /\ req[t].kind = "bump"
  <2>1. CASE PlanSome(t)
    BY <2>1, PlanEffect
  <2>2. CASE ManifestInsert(t)
    BY <2>2 DEF ManifestInsert, disk
  <2> QED
    BY <1>1, <2>1, <2>2 DEF Step, PlanSome, Acquire, PlanClosed, StateInsert, ManifestWrite,
       Fail, OpenBegin, OpenRead, OpenNote, OpenInstall, disk
<1>2. ASSUME NEW t \in Tasks, NEW r, NEW m, Begin(t, r, m) PROVE UNCHANGED <<diskState, issued>>
  BY <1>2 DEF Begin, disk
<1>3. ASSUME CloseProject \/ (\E m \in Manifest : GitCheckout(m)) \/ Crash \/ UNCHANGED vars
      PROVE  UNCHANGED <<diskState, issued>>
  BY <1>3 DEF CloseProject, GitCheckout, Crash, vars, disk
<1> QED
  BY <1>1, <1>2, <1>3 DEF Next

\* The persisted marks never fall.
THEOREM HighWaterMonotoneTheorem == ASSUME Serial PROVE Spec => HighWaterMonotone
<1>1. SafeInv /\ [Next]_vars => [\A f \in Files : diskState'[f] >= diskState[f]]_vars
  <2> SUFFICES ASSUME SafeInv, [Next]_vars, NEW f \in Files PROVE diskState'[f] >= diskState[f]
    OBVIOUS
  <2>1. diskState[f] \in Int
    BY DEF SafeInv, TypeInv, TypeOK, VersionState
  <2>2. ASSUME NEW t \in Tasks, StateWrite(t) \/ OpenSave(t) PROVE diskState'[f] >= diskState[f]
    BY <2>1, <2>2 DEF SafeInv, Marks, AtMost, StateWrite, OpenSave, TypeInv, TypeOK, VersionState
  <2>3. UNCHANGED diskState \/ \E t \in Tasks : StateWrite(t) \/ OpenSave(t)
    BY DiskSteps DEF SafeInv, ManifestInsert, disk
  <2> QED
    BY <2>1, <2>2, <2>3
<1> QED
  BY <1>1, Safe, PTL DEF Spec, HighWaterMonotone

\* Every step of the numbering is one of the abstract allocator, or none.
LEMMA AllocatorStep ==
    ASSUME SafeInv, [Next]_vars PROVE [Allocator!Next]_<<diskState, issued>>
<1>1. ASSUME NEW t \in Tasks, StateWrite(t) \/ OpenSave(t) PROVE Allocator!Raise
  <2>1. diskState' = newState[t] /\ UNCHANGED issued
    BY <1>1 DEF StateWrite, OpenSave
  <2>2. newState[t] \in [Files -> Nat]
    BY VersionsAssumption DEF SafeInv, TypeInv, TypeOK, VersionState
  <2>3. \A f \in Files : diskState[f] <= newState[t][f]
    BY <1>1 DEF SafeInv, Marks, AtMost, StateWrite, OpenSave
  <2> QED
    BY <2>1, <2>2, <2>3 DEF Allocator!Raise
<1>2. ASSUME NEW t \in Tasks, ManifestInsert(t), req[t].kind = "bump" PROVE Allocator!Next
  <2> DEFINE f == req[t].file
             e == newManifest[t][f]
  <2>1. pc[t] \in Writing /\ pc[t] \in Holding /\ pc[t] # "stateWrite"
    BY <1>2 DEF ManifestInsert, Writing, Holding, Locked
  <2>2. f \in Files /\ e \in Entry
    BY <2>1, <1>2 DEF SafeInv, TypeInv, Request
  <2>3. e.version \in 1..diskState[f] /\ e.content \in Contents
    <3>1. e.version \in Version /\ e.content \in Contents
      BY <2>2 DEF Entry
    <3>2. diskState[f] \in Nat
      BY <2>2, VersionsAssumption DEF SafeInv, TypeInv, TypeOK, VersionState
    <3>3. e.version <= diskState[f]
      BY <1>2, <2>1 DEF SafeInv, Fresh, Allotted
    <3> HIDE DEF e, f
    <3> QED
      BY <3>1, <3>2, <3>3, VersionsAssumption DEF Version
  <2>4. \A i \in issued : i.file = f => i.version < e.version
    BY <1>2, <2>1 DEF SafeInv, Fresh, Allotted
  <2>5. /\ issued' = issued \cup {[file |-> f, version |-> e.version, content |-> e.content]}
        /\ UNCHANGED diskState
    BY <1>2 DEF ManifestInsert, Issue, disk
  <2>6. Allocator!Give(f, e.version, e.content)
    BY <2>3, <2>4, <2>5 DEF Allocator!Give
  <2> QED
    BY <2>2, <2>3, <2>6 DEF Allocator!Next
<1>3. \/ UNCHANGED <<diskState, issued>>
      \/ \E t \in Tasks : StateWrite(t) \/ OpenSave(t)
      \/ \E t \in Tasks : ManifestInsert(t) /\ req[t].kind = "bump"
  BY DiskSteps DEF SafeInv
<1> QED
  BY <1>1, <1>2, <1>3 DEF Allocator!Next

\* The numbering of a node implements the abstract allocator.
THEOREM AllocatesTheorem == ASSUME Serial PROVE Spec => Allocates
<1>1. Init => Allocator!Init
  BY DEF Init, Allocator!Init, NoVersions
<1>2. SafeInv /\ [Next]_vars => [Allocator!Next]_<<diskState, issued>>
  BY AllocatorStep
<1> QED
  BY <1>1, <1>2, Safe, PTL DEF Spec, Allocates, Allocator!Spec

\* The version a publish makes durable is above every version persisted before.
THEOREM NewVersionTheorem == ASSUME Serial PROVE Spec => NewVersionAboveHighWater
<1>1. SafeInv /\ [Next]_vars =>
        [\A t \in Tasks : StateWrite(t) /\ req[t].kind = "bump"
             => newState[t][req[t].file] > diskState[req[t].file]]_vars
  BY DEF SafeInv, Fresh, StateWrite, Writing
<1> QED
  BY <1>1, Safe, PTL DEF Spec, NewVersionAboveHighWater

-----------------------------------------------------------------------------
(* The manifest in memory.                                                 *)

\* The manifest n records a newer version of f and keeps the rest of m.
Newer(m, n, f) ==
    \A g \in Files : IF g = f THEN VersionOf(m[g]) < VersionOf(n[g]) ELSE n[g] = m[g]

\* What a suspended publish, or reception without force, will insert is newer
\* than the manifest that is in memory meanwhile.
Recording(t) ==
    /\ pc[t] \in Writing /\ newManifest[t] # NotLoaded
    /\ req[t].kind \in {"bump", "receive"} /\ ~req[t].force

Snapshot == \A t \in Tasks : Recording(t) => Newer(manifests, newManifest[t], req[t].file)

LEMMA WriteNewer ==
    ASSUME NEW m \in Manifest, NEW f \in Files, NEW v \in Version, NEW c \in Contents,
           VersionOf(m[f]) < v
    PROVE  Newer(m, Write(m, f, v, c), f)
<1>1. [version |-> v, content |-> c] # NoEntry
  BY VersionsAssumption DEF Entry
<1>2. VersionOf([version |-> v, content |-> c]) = v
  BY <1>1 DEF VersionOf
<1> QED
  BY <1>2, WriteType DEF Newer

LEMMA NextIsNewer ==
    ASSUME NEW e \in Entry \cup {NoEntry}, NEW floor \in 0..(MaxVersion - 1)
    PROVE  VersionOf(e) < NextVersion(e, floor)
BY VersionsAssumption DEF NextVersion, Entry, Version, VersionOf, Larger, Successor

\* What a publish or a reception plans to insert.
LEMMA PlanNewer ==
    ASSUME TypeInv, NEW t \in Tasks, PlanBump(t) \/ PlanReceive(t), ~req[t].force
    PROVE  \/ Return(t)
           \/ /\ UNCHANGED req
              /\ \/ newManifest'[t] = NotLoaded
                 \/ Newer(manifests', newManifest'[t], req[t].file)
<1> DEFINE f == req[t].file
           c == req[t].content
           m == CurrentManifest(t)
<1>0. newManifest \in [Tasks -> Manifest \cup {NotLoaded}]
  BY DEF TypeInv, TypeOK
<1>1. /\ m \in Manifest /\ CurrentState \in VersionState /\ manifests' = m
      /\ f \in Files /\ c \in Contents /\ req[t].version \in 1..MaxVersion
  <2>1. \E kind : Plan(t, kind)
    BY DEF PlanBump, PlanReceive
  <2> QED
    BY <2>1, PlanType DEF Plan, Request
<1>2. m[f] \in Entry \cup {NoEntry} /\ CurrentState[f] \in 0..(MaxVersion - 1)
  BY <1>1 DEF Manifest, VersionState
<1> HIDE DEF m
<1>3. ASSUME NEW s, NEW n, Proceed(t, s, n)
      PROVE  Return(t) \/ (UNCHANGED req /\ newManifest'[t] = n)
  BY <1>0, <1>3 DEF Proceed
<1>4. ASSUME NEW v \in Version, VersionOf(m[f]) < v PROVE Newer(manifests', Write(m, f, v, c), f)
  BY <1>1, <1>4, WriteNewer
<1>5. CASE PlanBump(t)
  <2> DEFINE v == NextVersion(m[f], CurrentState[f])
  <2>1. v \in 1..MaxVersion /\ VersionOf(m[f]) < v
    BY <1>2, NextVersionType, NextIsNewer
  <2>2. \/ Return(t)
        \/ v # MaxVersion /\ Proceed(t, Note(CurrentState, f, v), Write(m, f, v, c))
    BY <1>5 DEF PlanBump, m
  <2>3. v # MaxVersion => v \in Version
    BY <2>1, VersionsAssumption DEF Version
  <2> HIDE DEF v
  <2> QED
    BY <1>3, <1>4, <2>1, <2>2, <2>3
<1>6. CASE PlanReceive(t)
  <2> DEFINE v == req[t].version
             n == IF Records(m[f], v, req[t].force) THEN Write(m, f, v, c) ELSE NotLoaded
  <2>1. Return(t) \/ (v # MaxVersion /\ Proceed(t, Note(CurrentState, f, v), n))
    BY <1>6 DEF PlanReceive, m
  <2>2. v # MaxVersion => v \in Version
    BY <1>1, VersionsAssumption DEF Version
  <2>3. n = NotLoaded \/ (n = Write(m, f, v, c) /\ VersionOf(m[f]) < v)
    BY DEF Records
  <2> HIDE DEF v, n
  <2> QED
    BY <1>3, <1>4, <2>1, <2>2, <2>3
<1> QED
  BY <1>5, <1>6

LEMMA SnapshotStep ==
    ASSUME Serial, TypeInv, Exclusive, Snapshot, [Next]_vars
    PROVE  Snapshot'
<1>0. /\ pc \in [Tasks -> Locked \cup Opening \cup {"idle", "lock"}]
      /\ newManifest \in [Tasks -> Manifest \cup {NotLoaded}]
      /\ req \in [Tasks -> Request \cup {NoRequest}]
  BY DEF TypeInv, TypeOK
\* A step that leaves the manifest and the operations under way alone.
<1>1. ASSUME UNCHANGED manifests,
             \A u \in Tasks : pc'[u] \in Writing =>
                 pc[u] \in Writing /\ newManifest'[u] = newManifest[u] /\ req'[u] = req[u]
      PROVE  Snapshot'
  BY <1>1 DEF Snapshot, Recording
\* A step after which nothing is under way.
<1>2. ASSUME \A u \in Tasks : pc'[u] \notin Writing PROVE Snapshot'
  BY <1>2 DEF Snapshot, Recording
<1>3. ASSUME NEW t \in Tasks, Return(t), UNCHANGED manifests PROVE Snapshot'
  BY <1>0, <1>1, <1>3 DEF Return, Goto, Writing
<1>4. ASSUME NEW t \in Tasks, pc[t] \in Locked
      PROVE  \A u \in Tasks \ {t} : pc[u] \notin Writing
  BY <1>4 DEF Exclusive, Locked, Writing
<1>5. ASSUME NEW t \in Tasks, NEW r, NEW m, Begin(t, r, m) PROVE Snapshot'
  BY <1>0, <1>1, <1>5 DEF Begin, Goto, Writing, memory
<1>6. ASSUME NEW t \in Tasks, Acquire(t) PROVE Snapshot'
  BY <1>0, <1>1, <1>6 DEF Acquire, Goto, Writing, memory
<1>7. ASSUME NEW t \in Tasks, PlanSome(t) PROVE Snapshot'
  <2>1. pc[t] \in Locked
    BY <1>7, PlanEffect DEF Locked
  <2>2. CASE Return(t)
    BY <1>0, <1>2, <1>4, <2>1, <2>2 DEF Return, Goto, Writing
  <2>3. ASSUME NEW s, NEW m, Planned(t, s, m) PROVE Snapshot'
    <3>1. /\ \A u \in Tasks \ {t} : pc'[u] \notin Writing
          /\ UNCHANGED req
      BY <1>0, <1>4, <2>1, <2>3 DEF Planned
    <3>2. CASE (PlanBump(t) \/ PlanReceive(t)) /\ ~req[t].force
      <4>1. \/ newManifest'[t] = NotLoaded
            \/ Newer(manifests', newManifest'[t], req[t].file)
            \/ Return(t)
        BY <3>2, PlanNewer
      <4> QED
        BY <2>2, <3>1, <4>1 DEF Snapshot, Recording
    <3>3. CASE ~(PlanBump(t) \/ PlanReceive(t)) \/ req[t].force
      <4>1. req[t].kind \notin {"bump", "receive"} \/ req[t].force
        BY <1>7, <3>3 DEF PlanSome, PlanReload, PlanReplace, Plan
      <4> QED
        BY <3>1, <4>1 DEF Snapshot, Recording
    <3> QED
      BY <3>2, <3>3
  <2> QED
    BY <1>7, <2>2, <2>3, PlanEffect
<1>8. ASSUME NEW t \in Tasks, PlanClosed(t) \/ Fail(t) PROVE Snapshot'
  BY <1>3, <1>8 DEF PlanClosed, Fail, memory
<1>9. ASSUME NEW t \in Tasks, StateWrite(t) \/ ManifestWrite(t) PROVE Snapshot'
  BY <1>0, <1>1, <1>9 DEF StateWrite, ManifestWrite, Goto, Writing, memory
<1>10. ASSUME NEW t \in Tasks, StateInsert(t) PROVE Snapshot'
  <2>1. CASE newManifest[t] = NotLoaded
    BY <1>3, <1>10, <2>1 DEF StateInsert
  <2>2. CASE newManifest[t] # NotLoaded
    BY <1>0, <1>1, <1>10, <2>2 DEF StateInsert, Goto, Writing
  <2> QED
    BY <2>1, <2>2
<1>11. ASSUME NEW t \in Tasks, ManifestInsert(t) PROVE Snapshot'
  <2>1. pc[t] \in Locked
    BY <1>11 DEF ManifestInsert, Locked
  <2> QED
    BY <1>0, <1>2, <1>4, <1>11, <2>1 DEF ManifestInsert, Return, Goto, Writing
<1>12. ASSUME NEW t \in Tasks, OpenBegin(t) \/ OpenRead(t) PROVE Snapshot'
  BY <1>0, <1>1, <1>12 DEF OpenBegin, OpenRead, Goto, Writing, memory
<1>13. ASSUME NEW t \in Tasks, OpenNote(t) \/ OpenSave(t) PROVE Snapshot'
  BY <1>0, <1>1, <1>13 DEF OpenNote, OpenSave, Goto, Writing, memory
<1>14. ASSUME NEW t \in Tasks, OpenInstall(t) PROVE Snapshot'
  <2>1. \A u \in Tasks : pc[u] \notin Writing
    BY <1>14 DEF OpenInstall, Exclusive, Opening
  <2> QED
    BY <1>0, <1>2, <1>14, <2>1 DEF OpenInstall, Return, Goto, Writing
<1>15. CASE CloseProject
  BY <1>2, <1>15 DEF CloseProject, Serial, Writing
<1>16. ASSUME NEW m, GitCheckout(m) PROVE Snapshot'
  BY <1>1, <1>16 DEF GitCheckout, memory
<1>17. CASE Crash
  BY <1>2, <1>17 DEF Crash, Writing
<1>18. CASE UNCHANGED vars
  BY <1>1, <1>18 DEF vars
<1> QED
  BY <1>5, <1>6, <1>7, <1>8, <1>9, <1>10, <1>11, <1>12, <1>13, <1>14, <1>15, <1>16, <1>17, <1>18
  DEF Next, Step, PlanSome

\* "Prevents an old snapshot from overwriting a newer one": with the mutex of
\* manifest_locks, what a publish or a reception without force inserts is
\* newer than the entry it replaces and touches no other entry.
THEOREM NoClobberTheorem == ASSUME Serial PROVE Spec => NoClobber
<1> DEFINE Kept == \A t \in Tasks, f \in Files :
               (/\ ManifestInsert(t)
                /\ req[t].kind \in {"bump", "receive"} /\ ~req[t].force
                /\ manifests # NotLoaded)
                   => IF f = req[t].file
                      THEN VersionOf(manifests[f]) < VersionOf(manifests'[f])
                      ELSE manifests'[f] = manifests[f]
<1>1. Init => Snapshot
  BY DEF Init, Snapshot, Recording, Writing
<1>2. SafeInv /\ Snapshot /\ [Next]_vars => Snapshot'
  BY SnapshotStep DEF SafeInv
<1>3. SafeInv /\ Snapshot /\ [Next]_vars => [Kept]_vars
  <2> SUFFICES ASSUME SafeInv, Snapshot, NEW t \in Tasks, NEW f \in Files, ManifestInsert(t),
                      req[t].kind \in {"bump", "receive"}, ~req[t].force
               PROVE  IF f = req[t].file
                      THEN VersionOf(manifests[f]) < VersionOf(manifests'[f])
                      ELSE manifests'[f] = manifests[f]
    OBVIOUS
  <2>1. pc[t] = "manifestInsert" /\ manifests' = newManifest[t]
    BY DEF ManifestInsert
  <2>2. newManifest[t] # NotLoaded
    BY <2>1, VersionsAssumption DEF SafeInv, TypeInv
  <2>3. Newer(manifests, newManifest[t], req[t].file)
    BY <2>1, <2>2 DEF Snapshot, Recording, Writing
  <2> QED
    BY <2>1, <2>3 DEF Newer
<1> QED
  BY <1>1, <1>2, <1>3, Safe, PTL DEF Spec, NoClobber

-----------------------------------------------------------------------------
(* The identity.                                                           *)

Written == file.is \in {"plain", "encrypted"}
Stages == {"unbegun", "generate", "load", "save", "write", "chmod", "running", "ended"}

(* The shapes of the file and of a start.                                  *)
IdentityTypes ==
    /\ file \in {Who!Missing, Who!Torn} \cup [is : {"plain"}, key : Keys]
                  \cup [is : {"encrypted"}, key : Keys, pw : Passphrases]
    /\ env \in Passphrases \cup {None}
    /\ start \in [Starts -> [at : Stages, pw : Passphrases \cup {None}, key : Keys \cup {Who!NoKey}]]
    /\ \A s \in Starts : start[s].at \in {"save", "write", "chmod"} => start[s].key \in Keys
    /\ fresh \subseteq Keys /\ raced \in BOOLEAN

(* Only one start at a time is between its look for the file and the end   *)
(* of its write, and it finds the file as it left it: no file until it     *)
(* creates one, a torn one until it has written it.  Nobody reads or has   *)
(* read a file that is not there, and what anyone serves as is written.    *)
OneWriter ==
    /\ \A s \in Who!Saving : \A t \in Starts \ {s} : Who!At(t, "unbegun")
    /\ \A s \in Starts :
         /\ start[s].at \in {"generate", "save"} => file = Who!Missing
         /\ Who!At(s, "write") => file = Who!Torn
         /\ Who!At(s, "chmod") => Written /\ file.key = start[s].key
    /\ file = Who!Missing => \A s \in Starts : start[s].at \in {"unbegun", "generate", "save"}
    /\ \A k \in used : Written /\ file.key = k

IdentityInv == IdentityTypes /\ (~raced => OneWriter)

LEMMA IdentityTypesInit == Who!Init => IdentityTypes
<1> SUFFICES ASSUME Who!Init PROVE IdentityTypes
  OBVIOUS
<1>1. Who!Unbegun \in [at : Stages, pw : Passphrases \cup {None}, key : Keys \cup {Who!NoKey}]
  BY DEF Who!Unbegun, Stages
<1>2. \A s \in Starts : start[s].at = "unbegun"
  BY DEF Who!Init, Who!Unbegun
<1> QED BY <1>1, <1>2 DEF Who!Init, IdentityTypes

LEMMA IdentityTypesStep == IdentityTypes /\ [Who!Next]_whoVars => IdentityTypes'
<1> SUFFICES ASSUME IdentityTypes, [Who!Next]_whoVars PROVE IdentityTypes'
  OBVIOUS
<1>1. CASE UNCHANGED whoVars
  BY <1>1 DEF whoVars, IdentityTypes
<1>2. CASE Who!SetPassphrase
  BY <1>2 DEF Who!SetPassphrase, IdentityTypes
<1>3. ASSUME NEW s \in Starts, Who!load_or_generate(s) PROVE IdentityTypes'
  BY <1>3 DEF Who!load_or_generate, Who!passphrase_from_env, Who!Saving, Who!At, Who!Unbegun, Stages, IdentityTypes
<1>4. ASSUME NEW s \in Starts, Who!load_from_file(s) PROVE IdentityTypes'
  <2> DEFINE key == Who!decode_key_bytes(file, start[s].pw)
  <2>1. key \in Keys \cup {Who!NoKey}
    BY DEF Who!decode_key_bytes, Who!decode_encrypted, IdentityTypes, Who!Missing, Who!Torn
  <2>2. start' = [start EXCEPT ![s].at = "running", ![s].key = key]
          \/ start' = [start EXCEPT ![s].at = "ended"]
    BY <1>4 DEF Who!load_from_file, Who!Serve
  <2> HIDE DEF key
  <2> QED BY <1>4, <2>1, <2>2 DEF Who!load_from_file, Stages, IdentityTypes
<1>5. ASSUME NEW s \in Starts, Who!generate(s) PROVE IdentityTypes'
  <2>1. PICK k \in fresh : /\ fresh' = fresh \ {k}
                          /\ start' = [start EXCEPT ![s].at = "save", ![s].key = k]
    BY <1>5 DEF Who!generate
  <2>2. start' \in [Starts -> [at : Stages, pw : Passphrases \cup {None}, key : Keys \cup {Who!NoKey}]]
    <3>1. k \in Keys /\ start[s] \in [at : Stages, pw : Passphrases \cup {None}, key : Keys \cup {Who!NoKey}]
      BY <2>1 DEF IdentityTypes
    <3>2. [start[s] EXCEPT !.at = "save", !.key = k]
            \in [at : Stages, pw : Passphrases \cup {None}, key : Keys \cup {Who!NoKey}]
      BY <3>1 DEF Stages
    <3> QED BY <2>1, <3>2 DEF IdentityTypes
  <2>3. start'[s].key \in Keys /\ \A t \in Starts \ {s} : start'[t] = start[t]
    BY <2>1 DEF IdentityTypes
  <2> QED BY <1>5, <2>1, <2>2, <2>3 DEF Who!generate, IdentityTypes
<1>6. ASSUME NEW s \in Starts, Who!save_to_file(s) PROVE IdentityTypes'
  BY <1>6 DEF Who!save_to_file, Who!At, Stages, IdentityTypes
<1>7. ASSUME NEW s \in Starts, Who!write(s) PROVE IdentityTypes'
  BY <1>7 DEF Who!write, Who!At, Who!plaintext, Who!encode_encrypted, Stages, IdentityTypes
<1>8. ASSUME NEW s \in Starts, Who!set_permissions(s) PROVE IdentityTypes'
  BY <1>8 DEF Who!set_permissions, Who!At, Who!Serve, Stages, IdentityTypes
<1>9. ASSUME NEW s \in Starts, Who!Die(s) PROVE IdentityTypes'
  BY <1>9 DEF Who!Die, Who!Unbegun, Stages, IdentityTypes
<1> QED BY <1>1, <1>2, <1>3, <1>4, <1>5, <1>6, <1>7, <1>8, <1>9 DEF Who!Next

LEMMA OneWriterStep ==
    IdentityInv /\ [Who!Next]_whoVars => (~raced' => OneWriter')
<1> SUFFICES ASSUME IdentityInv, [Who!Next]_whoVars, ~raced' PROVE OneWriter'
  OBVIOUS
<1>a. IdentityTypes /\ OneWriter
  BY DEF IdentityInv, Who!Next, whoVars, Who!load_or_generate, Who!load_from_file, Who!generate,
         Who!save_to_file, Who!write, Who!set_permissions, Who!Die, Who!SetPassphrase
<1> USE <1>a
<1>1. CASE UNCHANGED whoVars
  BY <1>1 DEF whoVars, OneWriter, Who!Saving, Who!At, Written
<1>2. CASE Who!SetPassphrase
  BY <1>2 DEF Who!SetPassphrase, OneWriter, Who!Saving, Who!At, Written
<1>3. ASSUME NEW s \in Starts, Who!load_or_generate(s) PROVE OneWriter'
  <2>1. Who!Saving = {}
    BY <1>3 DEF Who!load_or_generate, IdentityTypes
  <2>2. \A t \in Starts : t # s => start'[t] = start[t]
    BY <1>3 DEF Who!load_or_generate, IdentityTypes
  <2>3. start'[s].at = IF file = Who!Missing THEN "generate" ELSE "load"
    BY <1>3 DEF Who!load_or_generate, IdentityTypes, Who!Unbegun
  <2>4. UNCHANGED <<file, used>>
    BY <1>3 DEF Who!load_or_generate
  <2>5. file = Who!Missing => \A t \in Starts : Who!At(t, "unbegun")
    BY <2>1 DEF OneWriter, Who!Saving, Who!At
  <2> QED BY <2>1, <2>2, <2>3, <2>4, <2>5 DEF OneWriter, Who!Saving, Who!At, Written
<1>4. ASSUME NEW s \in Starts, Who!load_from_file(s) PROVE OneWriter'
  <2> DEFINE key == Who!decode_key_bytes(file, start[s].pw)
  <2>1. key # Who!NoKey => Written /\ key = file.key
    BY DEF Who!decode_key_bytes, Who!decode_encrypted, Written
  <2>2. /\ \A t \in Starts : t # s => start'[t] = start[t]
        /\ start'[s].at \in {"running", "ended"}
    BY <1>4 DEF Who!load_from_file, Who!Serve, IdentityTypes
  <2>3. \A k \in used' : k \in used \/ (k = key /\ key # Who!NoKey)
    BY <1>4 DEF Who!load_from_file, Who!Serve
  <2>4. file' = file /\ file # Who!Missing
    BY <1>4 DEF Who!load_from_file, OneWriter, Who!At
  <2>5. \A k \in used' : Written' /\ file'.key = k
    BY <2>1, <2>3, <2>4 DEF OneWriter, Written
  <2>6. Who!Saving = {}
    BY <1>4 DEF Who!load_from_file, OneWriter, Who!Saving, Who!At
  <2> HIDE DEF key
  <2> QED BY <2>2, <2>4, <2>5, <2>6 DEF OneWriter, Who!Saving, Who!At, Written
<1>5. ASSUME NEW s \in Starts, Who!generate(s) PROVE OneWriter'
  <2>1. /\ \A t \in Starts : t # s => start'[t] = start[t]
        /\ Who!At(s, "generate") /\ start'[s].at = "save"
    BY <1>5 DEF Who!generate, Who!At, IdentityTypes
  <2>2. file' = file /\ used' = used /\ file = Who!Missing
    BY <1>5, <2>1 DEF Who!generate, OneWriter, Who!At
  <2>3. Who!Saving' = Who!Saving
    BY <2>1 DEF Who!Saving, Who!At
  <2> QED BY <2>1, <2>2, <2>3 DEF OneWriter, Who!At, Written
<1>6. ASSUME NEW s \in Starts, Who!save_to_file(s) PROVE OneWriter'
  <2>1. /\ \A t \in Starts : t # s => start'[t] = start[t]
        /\ Who!At(s, "save") /\ start'[s].at = "write"
    BY <1>6 DEF Who!save_to_file, Who!At, IdentityTypes
  <2>2. \A t \in Starts : t # s => Who!At(t, "unbegun")
    BY <2>1 DEF OneWriter, Who!Saving, Who!At
  <2>3. used = {} /\ Who!Missing # Who!Torn
    BY <2>1 DEF OneWriter, Who!At, Written, Who!Missing, Who!Torn
  <2> QED BY <1>6, <2>1, <2>2, <2>3 DEF Who!save_to_file, OneWriter, Who!Saving, Who!At, Written
<1>7. ASSUME NEW s \in Starts, Who!write(s) PROVE OneWriter'
  <2>1. /\ \A t \in Starts : t # s => start'[t] = start[t]
        /\ Who!At(s, "write") /\ start'[s].at = "chmod" /\ start'[s].key = start[s].key
    BY <1>7 DEF Who!write, Who!At, IdentityTypes
  <2>2. \A t \in Starts : t # s => Who!At(t, "unbegun")
    BY <2>1 DEF OneWriter, Who!Saving, Who!At
  <2>3. used = {}
    BY <2>1 DEF OneWriter, Who!At, Written, Who!Torn
  <2>4. Written' /\ file'.key = start[s].key /\ file' # Who!Missing
    BY <1>7 DEF Who!write, Who!plaintext, Who!encode_encrypted, Written, Who!Missing
  <2> QED BY <1>7, <2>1, <2>2, <2>3, <2>4 DEF Who!write, OneWriter, Who!Saving, Who!At
<1>8. ASSUME NEW s \in Starts, Who!set_permissions(s) PROVE OneWriter'
  <2>1. /\ \A t \in Starts : t # s => start'[t] = start[t]
        /\ Who!At(s, "chmod") /\ start'[s].at \in {"running", "ended"}
    BY <1>8 DEF Who!set_permissions, Who!Serve, Who!At, IdentityTypes
  <2>2. \A k \in used' : k \in used \/ k = start[s].key
    BY <1>8 DEF Who!set_permissions, Who!Serve
  <2>3. file' = file /\ file # Who!Missing
    BY <1>8, <2>1 DEF Who!set_permissions, OneWriter, Who!At
  <2> QED BY <2>1, <2>2, <2>3 DEF OneWriter, Who!Saving, Who!At, Written
<1>9. ASSUME NEW s \in Starts, Who!Die(s) PROVE OneWriter'
  <2>1. /\ \A t \in Starts : t # s => start'[t] = start[t]
        /\ start'[s].at = "unbegun"
    BY <1>9 DEF Who!Die, Who!Unbegun, IdentityTypes
  <2> QED BY <1>9, <2>1 DEF Who!Die, OneWriter, Who!Saving, Who!At, Written
<1> QED BY <1>1, <1>2, <1>3, <1>4, <1>5, <1>6, <1>7, <1>8, <1>9 DEF Who!Next

(* Whatever passphrases starts are given and wherever they die, they all   *)
(* serve as the key in the file (load_or_generate, save_to_file), unless a *)
(* start looked for the file while another was about to write it.          *)
THEOREM IdentityStableTheorem == IdentitySpec => []IdentityStable
<1>1. Who!Init => IdentityInv
  <2>1. Who!Init => OneWriter
    BY DEF Who!Init, OneWriter, Who!Saving, Who!At, Who!Unbegun, Who!Missing
  <2> QED BY <2>1, IdentityTypesInit DEF IdentityInv
<1>2. IdentityInv /\ [Who!Next]_whoVars => IdentityInv'
  BY IdentityTypesStep, OneWriterStep DEF IdentityInv
<1>3. IdentityInv => IdentityStable
  <2> SUFFICES ASSUME IdentityInv, ~raced PROVE IdentityStable
    BY DEF IdentityStable, Who!IdentityStable
  <2>1. \A k \in used : Written /\ file.key = k
    BY DEF IdentityInv, OneWriter
  <2> QED BY <2>1 DEF IdentityStable, Who!IdentityStable, Written
<1> QED BY <1>1, <1>2, <1>3, PTL DEF IdentitySpec

-----------------------------------------------------------------------------
(* The conflicts.                                                          *)

Entries == [file : Disputes!ConflictFiles, project : {r.project : r \in Reports} \cup {NoProject},
            peers : SUBSET ({r.peer : r \in Reports} \cup {Here}), state : {"Active", "Resolved"}]
Findings == [pc : {"emit", "queue", "insert"}, report : Reports]

(* The shapes of the tables, of what the finding task carries and of the   *)
(* notifications.                                                          *)
ConflictTypes ==
    /\ conflicts \subseteq Entries
    /\ finder \in {Disputes!Idle} \cup Findings
    /\ now \in Nat /\ kept \in Nat
    /\ events \in [Disputes!ConflictFiles -> Nat] /\ records \in [Disputes!ConflictFiles -> Nat]
    /\ \A n \in hot_standby : n.at \in Nat /\ n.at <= now

\* The finding task is at work on a conflict of file f.
About(f) == finder # Disputes!Idle /\ finder.report.file = f

Listed(f) == \E c \in conflicts : c.file = f /\ c.state = "Active"

(* Only an alert leaves a moment in which its conflict is met and not yet  *)
(* listed: the event comes first.                                          *)
ListedInv == \A f \in unresolved : Listed(f) \/ (About(f) /\ finder.pc = "insert")

(* The events are one behind the records, or one ahead, for the conflict   *)
(* the finding task is at.                                                 *)
Announced(f) ==
    /\ ~About(f) => events[f] = records[f]
    /\ About(f) /\ finder.pc = "insert" => events[f] = records[f] + 1
    /\ About(f) /\ finder.pc # "insert" => records[f] = events[f] + 1
EventsInv == \A f \in Disputes!ConflictFiles : Announced(f)

NoticeInv ==
    /\ sweep # Disputes!NoSweep => sweep = now
    /\ 1..kept = handed \cup {n.id : n \in hot_standby \cup dropped}
    /\ \A n \in dropped : n.age >= Ttl

ConflictInv == ConflictTypes /\ ListedInv /\ EventsInv /\ NoticeInv

LEMMA IdleShape ==
    /\ Disputes!Idle.pc = "idle"
    /\ \A x \in Findings : x # Disputes!Idle /\ x.pc # "idle" /\ x.report \in Reports
  BY DEF Disputes!Idle, Findings

LEMMA ReportFile == \A r \in Reports : r.file \in Disputes!ConflictFiles
  BY DEF Disputes!ConflictFiles

LEMMA NewShape ==
    ASSUME NEW r \in Reports, NEW project \in {q.project : q \in Reports} \cup {NoProject},
           NEW peers \in SUBSET ({q.peer : q \in Reports} \cup {Here})
    PROVE  LET c == Disputes!New(r, project, peers)
           IN  c \in Entries /\ c.file = r.file /\ c.state = "Active"
  BY ReportFile DEF Disputes!New, Entries

\* Inserting a record lists its file, and replaces nothing of another.
LEMMA InsertLists ==
    ASSUME ConflictTypes, NEW c \in Entries, c.state = "Active", Disputes!Insert(c)
    PROVE  /\ conflicts' \subseteq Entries /\ Listed(c.file)'
           /\ \A f \in Disputes!ConflictFiles : Listed(f) => Listed(f)'
           /\ records' \in [Disputes!ConflictFiles -> Nat]
           /\ records'[c.file] = records[c.file] + 1
           /\ \A f \in Disputes!ConflictFiles : f # c.file => records'[f] = records[f]
<1>1. conflicts' = (conflicts \ Disputes!Rec(c.file)) \cup {c}
  BY DEF Disputes!Insert
<1>2. records' = [records EXCEPT ![c.file] = @ + 1] /\ c.file \in Disputes!ConflictFiles
  BY DEF Disputes!Insert, Entries
<1>3. conflicts' \subseteq Entries /\ Listed(c.file)'
  BY <1>1 DEF ConflictTypes, Listed
<1>4. ASSUME NEW f \in Disputes!ConflictFiles, Listed(f) PROVE Listed(f)'
  <2>1. CASE f = c.file
    BY <1>3, <2>1
  <2>2. CASE f # c.file
    BY <1>1, <1>4, <2>2 DEF Listed, Disputes!Rec
  <2> QED BY <2>1, <2>2
<1>5. /\ records' \in [Disputes!ConflictFiles -> Nat]
      /\ records'[c.file] = records[c.file] + 1
      /\ \A f \in Disputes!ConflictFiles : f # c.file => records'[f] = records[f]
  BY <1>2 DEF ConflictTypes
<1> QED BY <1>3, <1>4, <1>5

LEMMA EmitCounts ==
    ASSUME ConflictTypes, NEW f \in Disputes!ConflictFiles, Disputes!emit(f)
    PROVE  /\ events' \in [Disputes!ConflictFiles -> Nat] /\ events'[f] = events[f] + 1
           /\ \A g \in Disputes!ConflictFiles : g # f => events'[g] = events[g]
  BY DEF Disputes!emit, ConflictTypes

\* A step that leaves the notifications and the clock alone.
LEMMA NoticeFrame ==
    ASSUME NoticeInv, UNCHANGED <<hot_standby, kept, handed, dropped, sweep, now>>
    PROVE  NoticeInv'
  BY DEF NoticeInv, Disputes!NoSweep

\* A conflict that is met: it is listed already, or nobody waits for it.
LEMMA MeetsListed ==
    ASSUME ConflictInv, "lingering" \notin Windows, NEW r \in Reports, Disputes!Meets(r),
           Disputes!Rec(r.file) # {}
    PROVE  \A f \in unresolved' : Listed(f)
<1>1. \A f \in unresolved : Listed(f)
  BY DEF Disputes!Meets, ConflictInv, ListedInv, About
<1>2. CASE \E c \in Disputes!Rec(r.file) : c.state = "Resolved"
  BY <1>1, <1>2 DEF Disputes!Meets
<1>3. CASE \A c \in Disputes!Rec(r.file) : c.state # "Resolved"
  <2>1. PICK c \in conflicts : c.file = r.file
    BY DEF Disputes!Rec
  <2>2. c.state = "Active"
    BY <1>3, <2>1 DEF Disputes!Rec, ConflictInv, ConflictTypes, Entries
  <2>3. Listed(r.file)
    BY <2>1, <2>2 DEF Listed
  <2> QED BY <1>1, <2>3 DEF Disputes!Meets
<1> QED BY <1>2, <1>3

LEMMA ConflictInit == Disputes!Init => ConflictInv
<1> SUFFICES ASSUME Disputes!Init PROVE ConflictInv
  OBVIOUS
<1>1. ConflictTypes
  BY DEF Disputes!Init, ConflictTypes
<1>2. ListedInv /\ EventsInv
  BY DEF Disputes!Init, ListedInv, EventsInv, Announced, About
<1>3. NoticeInv
  BY DEF Disputes!Init, NoticeInv
<1> QED BY <1>1, <1>2, <1>3 DEF ConflictInv

\* record_version_conflict and detect_conflict, which insert what they find.
LEMMA FindStep ==
    ASSUME ConflictInv, "lingering" \notin Windows, NEW r \in Reports,
           Disputes!record_version_conflict(r) \/ Disputes!detect_conflict(r)
    PROVE  ConflictInv'
<1>1. /\ Disputes!Meets(r)
      /\ UNCHANGED <<hot_standby, kept, handed, dropped, sweep, now, events>>
  BY DEF Disputes!record_version_conflict, Disputes!detect_conflict, Disputes!standby,
         Disputes!clock
<1>2. NoticeInv'
  BY <1>1, NoticeFrame DEF ConflictInv
<1>3. finder = Disputes!Idle /\ \A f \in unresolved : Listed(f)
  BY <1>1 DEF Disputes!Meets, ConflictInv, ListedInv, About
<1>4. CASE Disputes!Rec(r.file) # {}
  <2>1. UNCHANGED <<conflicts, records, finder>>
    BY <1>4 DEF Disputes!record_version_conflict, Disputes!detect_conflict
  <2>2. ConflictTypes' /\ EventsInv'
    BY <1>1, <2>1 DEF ConflictInv, ConflictTypes, EventsInv, Announced, About
  <2>3. ListedInv'
    BY <1>1, <1>4, <2>1, MeetsListed DEF ListedInv, Listed
  <2> QED BY <1>2, <2>2, <2>3 DEF ConflictInv
<1>5. CASE Disputes!Rec(r.file) = {}
  <2> DEFINE c == Disputes!New(r, r.project, {Here, r.peer})
  <2>1. Disputes!Insert(c)
    BY <1>5 DEF Disputes!record_version_conflict, Disputes!detect_conflict
  <2>2. PICK p \in {"emit", "queue"} : finder' = [pc |-> p, report |-> r]
    BY <1>5 DEF Disputes!record_version_conflict, Disputes!detect_conflict
  <2>3. c \in Entries /\ c.file = r.file /\ c.state = "Active"
    BY NewShape
  <2> HIDE DEF c
  <2>4. finder' \in Findings /\ finder'.pc \in {"emit", "queue"} /\ finder'.report = r
    BY <2>2 DEF Findings
  <2>5. \A f : About(f)' <=> f = r.file
    BY <2>4, IdleShape DEF About
  <2>6. ConflictTypes'
    BY <1>1, <2>1, <2>3, <2>4, InsertLists DEF ConflictInv, ConflictTypes
  <2>7. ListedInv'
    <3>1. \A f \in unresolved : f \in Disputes!ConflictFiles => Listed(f)'
      BY <1>3, <2>1, <2>3, InsertLists DEF ConflictInv
    <3>2. \A f \in unresolved : f \in Disputes!ConflictFiles
      BY <1>3 DEF Listed, ConflictInv, ConflictTypes, Entries
    <3>3. Listed(r.file)'
      BY <2>1, <2>3, InsertLists DEF ConflictInv
    <3> QED BY <1>1, <3>1, <3>2, <3>3 DEF ListedInv, Disputes!Meets
  <2>8. EventsInv'
    <3>1. ASSUME NEW f \in Disputes!ConflictFiles PROVE Announced(f)'
      <4>1. events[f] = records[f] /\ events'[f] = events[f]
        BY <1>1, <1>3 DEF ConflictInv, EventsInv, Announced, About
      <4>2. records'[f] = IF f = r.file THEN records[f] + 1 ELSE records[f]
        BY <2>1, <2>3, InsertLists DEF ConflictInv
      <4> QED BY <2>4, <2>5, <4>1, <4>2 DEF Announced
    <3> QED BY <3>1 DEF EventsInv
  <2> QED BY <1>2, <2>6, <2>7, <2>8 DEF ConflictInv
<1> QED BY <1>4, <1>5

LEMMA AlertStep ==
    ASSUME ConflictInv, "lingering" \notin Windows, NEW r \in Reports,
           Disputes!handle_conflict_alert(r)
    PROVE  ConflictInv'
<1>1. /\ Disputes!Meets(r)
      /\ UNCHANGED <<hot_standby, kept, handed, dropped, sweep, now, records>>
  BY DEF Disputes!handle_conflict_alert, Disputes!standby, Disputes!clock
<1>2. NoticeInv'
  BY <1>1, NoticeFrame DEF ConflictInv
<1>3. finder = Disputes!Idle /\ \A f \in unresolved : Listed(f)
  BY <1>1 DEF Disputes!Meets, ConflictInv, ListedInv, About
<1>4. CASE Disputes!Rec(r.file) # {}
  <2>1. UNCHANGED <<finder, events>>
    BY <1>4 DEF Disputes!handle_conflict_alert
  <2> DEFINE With(c) == IF c.file = r.file THEN [c EXCEPT !.peers = @ \cup {r.peer}] ELSE c
  <2>2. conflicts' = {With(c) : c \in conflicts}
    BY <1>4 DEF Disputes!handle_conflict_alert
  <2>3. ASSUME NEW c \in Entries
        PROVE  With(c) \in Entries /\ With(c).file = c.file /\ With(c).state = c.state
    BY DEF Entries
  <2> HIDE DEF With
  <2>4. conflicts' \subseteq Entries
    BY <2>2, <2>3 DEF ConflictInv, ConflictTypes
  <2>5. ASSUME NEW f, Listed(f) PROVE Listed(f)'
    <3>1. PICK c \in conflicts : c.file = f /\ c.state = "Active"
      BY <2>5 DEF Listed
    <3>2. With(c) \in conflicts' /\ With(c).file = f /\ With(c).state = "Active"
      BY <2>2, <2>3, <3>1 DEF ConflictInv, ConflictTypes
    <3> QED BY <3>2 DEF Listed
  <2>6. ConflictTypes' /\ EventsInv'
    BY <1>1, <2>1, <2>4 DEF ConflictInv, ConflictTypes, EventsInv, Announced, About
  <2>7. ListedInv'
    BY <1>1, <1>4, <2>5, MeetsListed DEF ListedInv
  <2> QED BY <1>2, <2>6, <2>7 DEF ConflictInv
<1>5. CASE Disputes!Rec(r.file) = {}
  <2>1. /\ Disputes!emit(r.file) /\ finder' = [pc |-> "insert", report |-> r]
        /\ conflicts' = conflicts
    BY <1>5 DEF Disputes!handle_conflict_alert
  <2>2. finder' \in Findings /\ finder'.pc = "insert" /\ finder'.report = r
    BY <2>1 DEF Findings
  <2>3. \A f : About(f)' <=> f = r.file
    BY <2>2, IdleShape DEF About
  <2>4. ConflictTypes'
    BY <1>1, <2>1, <2>2, EmitCounts, ReportFile DEF ConflictInv, ConflictTypes
  <2>5. ListedInv'
    BY <1>1, <1>3, <2>1, <2>2, <2>3 DEF ListedInv, Listed, Disputes!Meets
  <2>6. EventsInv'
    <3>1. ASSUME NEW f \in Disputes!ConflictFiles PROVE Announced(f)'
      <4>1. events[f] = records[f] /\ records'[f] = records[f]
        BY <1>1, <1>3 DEF ConflictInv, EventsInv, Announced, About
      <4>2. events'[f] = IF f = r.file THEN events[f] + 1 ELSE events[f]
        BY <2>1, EmitCounts, ReportFile DEF ConflictInv
      <4> QED BY <2>2, <2>3, <4>1, <4>2 DEF Announced
    <3> QED BY <3>1 DEF EventsInv
  <2> QED BY <1>2, <2>4, <2>5, <2>6 DEF ConflictInv
<1> QED BY <1>4, <1>5

LEMMA QueueStep ==
    ASSUME ConflictInv, Disputes!queue_notification
    PROVE  ConflictInv'
<1> DEFINE new == [id |-> kept', peer |-> finder.report.peer, at |-> now]
<1>1. /\ finder.pc = "queue" /\ finder' = [finder EXCEPT !.pc = "emit"]
      /\ kept' = kept + 1 /\ hot_standby' = hot_standby \cup {new}
      /\ UNCHANGED <<conflicts, sweep, now, events, unresolved, records, handed, dropped>>
  BY DEF Disputes!queue_notification, Disputes!clock
<1>2. finder \in Findings
  BY <1>1, IdleShape DEF ConflictInv, ConflictTypes
<1>3. finder' \in Findings /\ finder'.pc = "emit" /\ finder'.report = finder.report
  BY <1>1, <1>2 DEF Findings
<1>4. \A f : About(f)' <=> About(f)
  BY <1>2, <1>3, IdleShape DEF About
<1>5. new.id = kept + 1 /\ new.at = now
  BY <1>1
<1> HIDE DEF new
<1>6. ConflictTypes'
  BY <1>1, <1>3, <1>5 DEF ConflictInv, ConflictTypes
<1>7. ListedInv' /\ EventsInv'
  BY <1>1, <1>3, <1>4 DEF ConflictInv, ListedInv, Listed, EventsInv, Announced
<1>8. NoticeInv'
  <2>1. 1..kept' = (1..kept) \cup {kept + 1}
    BY <1>1 DEF ConflictInv, ConflictTypes
  <2>2. {n.id : n \in hot_standby' \cup dropped'} = {n.id : n \in hot_standby \cup dropped} \cup {kept + 1}
    BY <1>1, <1>5
  <2> QED BY <1>1, <2>1, <2>2 DEF ConflictInv, NoticeInv, Disputes!NoSweep
<1> QED BY <1>6, <1>7, <1>8 DEF ConflictInv

LEMMA EmitStep ==
    ASSUME ConflictInv, Disputes!emit_detected
    PROVE  ConflictInv'
<1>1. /\ finder.pc = "emit" /\ finder' = Disputes!Idle /\ Disputes!emit(finder.report.file)
      /\ UNCHANGED <<conflicts, hot_standby, kept, handed, dropped, sweep, now, unresolved, records>>
  BY DEF Disputes!emit_detected, Disputes!standby, Disputes!clock
<1>2. finder \in Findings /\ finder # Disputes!Idle
  BY <1>1, IdleShape DEF ConflictInv, ConflictTypes
<1>3. finder.report.file \in Disputes!ConflictFiles
  BY <1>2, IdleShape, ReportFile
<1>4. ConflictTypes'
  BY <1>1, <1>3, EmitCounts DEF ConflictInv, ConflictTypes
<1>5. ListedInv'
  BY <1>1 DEF ConflictInv, ListedInv, Listed
<1>6. EventsInv'
  <2>1. ASSUME NEW f \in Disputes!ConflictFiles PROVE Announced(f)'
    <3>1. events'[f] = IF f = finder.report.file THEN events[f] + 1 ELSE events[f]
      BY <1>1, <1>3, EmitCounts DEF ConflictInv
    <3>2. events'[f] = records[f]
      BY <1>1, <1>2, <3>1 DEF ConflictInv, EventsInv, Announced, About
    <3> QED BY <1>1, <3>2 DEF Announced, About
  <2> QED BY <2>1 DEF EventsInv
<1> QED BY <1>1, <1>4, <1>5, <1>6, NoticeFrame DEF ConflictInv

LEMMA InsertStep ==
    ASSUME ConflictInv, Disputes!insert_alerted
    PROVE  ConflictInv'
<1> DEFINE r == finder.report
           c == Disputes!New(r, NoProject, {r.peer})
<1>1. /\ finder.pc = "insert" /\ finder' = Disputes!Idle /\ Disputes!Insert(c)
      /\ UNCHANGED <<hot_standby, kept, handed, dropped, sweep, now, unresolved, events>>
  BY DEF Disputes!insert_alerted, Disputes!standby, Disputes!clock
<1>2. finder \in Findings /\ finder # Disputes!Idle /\ r \in Reports
  BY <1>1, IdleShape DEF ConflictInv, ConflictTypes
<1>3. c \in Entries /\ c.file = r.file /\ c.state = "Active"
  BY <1>2, NewShape
<1> HIDE DEF c
<1>4. ConflictTypes'
  BY <1>1, <1>3, InsertLists DEF ConflictInv, ConflictTypes
<1>5. ListedInv'
  <2>1. ASSUME NEW f \in unresolved PROVE Listed(f)'
    <3>1. CASE Listed(f)
      <4>1. f \in Disputes!ConflictFiles
        BY <3>1 DEF Listed, ConflictInv, ConflictTypes, Entries
      <4> QED BY <1>1, <1>3, <3>1, <4>1, InsertLists DEF ConflictInv
    <3>2. CASE ~Listed(f)
      <4>1. f = c.file
        BY <1>3, <3>2 DEF ConflictInv, ListedInv, About
      <4> QED BY <1>1, <1>3, <4>1, InsertLists DEF ConflictInv
    <3> QED BY <3>1, <3>2
  <2> QED BY <1>1, <2>1 DEF ListedInv
<1>6. EventsInv'
  <2>1. ASSUME NEW f \in Disputes!ConflictFiles PROVE Announced(f)'
    <3>1. records'[f] = IF f = r.file THEN records[f] + 1 ELSE records[f]
      BY <1>1, <1>3, InsertLists DEF ConflictInv
    <3>2. events[f] = records'[f]
      BY <1>1, <1>2, <3>1 DEF ConflictInv, EventsInv, Announced, About
    <3> QED BY <1>1, <3>2 DEF Announced, About
  <2> QED BY <2>1 DEF EventsInv
<1> QED BY <1>1, <1>4, <1>5, <1>6, NoticeFrame DEF ConflictInv

LEMMA ResolveStep ==
    ASSUME ConflictInv, NEW f \in Disputes!ConflictFiles, Disputes!resolve_conflict(f)
    PROVE  ConflictInv'
<1> DEFINE Solved(c) == IF c.file = f THEN [c EXCEPT !.state = "Resolved"] ELSE c
<1>1. /\ conflicts' = {Solved(c) : c \in conflicts} /\ unresolved' = unresolved \ {f}
      /\ UNCHANGED <<hot_standby, kept, handed, dropped, sweep, now, finder, events, records>>
  BY DEF Disputes!resolve_conflict, Disputes!standby, Disputes!clock
<1>2. ASSUME NEW c \in Entries
      PROVE  Solved(c) \in Entries /\ (c.file # f => Solved(c) = c)
  BY DEF Entries
<1> HIDE DEF Solved
<1>3. conflicts' \subseteq Entries
  BY <1>1, <1>2 DEF ConflictInv, ConflictTypes
<1>4. ASSUME NEW g, g # f, Listed(g) PROVE Listed(g)'
  <2>1. PICK c \in conflicts : c.file = g /\ c.state = "Active"
    BY <1>4 DEF Listed
  <2>2. Solved(c) = c /\ Solved(c) \in conflicts'
    BY <1>1, <1>2, <1>4, <2>1 DEF ConflictInv, ConflictTypes
  <2> QED BY <2>1, <2>2 DEF Listed
<1>5. ConflictTypes' /\ EventsInv'
  BY <1>1, <1>3 DEF ConflictInv, ConflictTypes, EventsInv, Announced, About
<1>6. ListedInv'
  BY <1>1, <1>4 DEF ConflictInv, ListedInv, About
<1> QED BY <1>1, <1>5, <1>6, NoticeFrame DEF ConflictInv

LEMMA CleanupStep ==
    ASSUME ConflictInv, Disputes!periodic_cleanup
    PROVE  ConflictInv'
<1>1. /\ conflicts' = {c \in conflicts : c.state = "Active"} /\ sweep' = now
      /\ UNCHANGED <<hot_standby, kept, handed, dropped, finder, now, events, unresolved, records>>
  BY DEF Disputes!periodic_cleanup, Disputes!cleanup_resolved, Disputes!standby
<1>2. \A f : Listed(f) => Listed(f)'
  BY <1>1 DEF Listed
<1>3. ConflictTypes' /\ EventsInv'
  BY <1>1 DEF ConflictInv, ConflictTypes, EventsInv, Announced, About
<1>4. ListedInv'
  BY <1>1, <1>2 DEF ConflictInv, ListedInv, About
<1>5. NoticeInv'
  BY <1>1 DEF ConflictInv, NoticeInv
<1> QED BY <1>3, <1>4, <1>5 DEF ConflictInv

\* Nothing was queued since the sweep read the time, so what it finds expired is.
LEMMA SweepStep ==
    ASSUME ConflictInv, Disputes!cleanup_expired_notifications
    PROVE  ConflictInv'
<1> DEFINE late == {n \in hot_standby : Disputes!expired(n)}
           Gone(n) == [id |-> n.id, age |-> now - n.at]
<1>1. /\ sweep # Disputes!NoSweep /\ sweep' = Disputes!NoSweep
      /\ hot_standby' = hot_standby \ late
      /\ dropped' = dropped \cup {Gone(n) : n \in late}
      /\ UNCHANGED <<conflicts, finder, now, events, unresolved, records, kept, handed>>
  BY DEF Disputes!cleanup_expired_notifications
<1>2. sweep = now
  BY <1>1 DEF ConflictInv, NoticeInv
<1>3. \A n \in late : n \in hot_standby /\ now - n.at >= Ttl
  BY <1>2 DEF Disputes!expired, ConflictInv, ConflictTypes
<1>4. \A n : Gone(n).id = n.id /\ Gone(n).age = now - n.at
  OBVIOUS
<1> HIDE DEF late, Gone
<1>5. {n.id : n \in hot_standby' \cup dropped'} = {n.id : n \in hot_standby \cup dropped}
  <2>1. ASSUME NEW n \in hot_standby' \cup dropped'
        PROVE  \E m \in hot_standby \cup dropped : m.id = n.id
    BY <1>1, <1>3, <1>4
  <2>2. ASSUME NEW m \in hot_standby \cup dropped
        PROVE  \E n \in hot_standby' \cup dropped' : n.id = m.id
    BY <1>1, <1>4
  <2> QED BY <2>1, <2>2
<1>6. \A n \in dropped' : n.age >= Ttl
  BY <1>1, <1>3, <1>4 DEF ConflictInv, NoticeInv
<1>7. NoticeInv'
  BY <1>1, <1>5, <1>6 DEF ConflictInv, NoticeInv, Disputes!NoSweep
<1>8. ConflictTypes' /\ EventsInv' /\ ListedInv'
  BY <1>1 DEF ConflictInv, ConflictTypes, EventsInv, Announced, About, ListedInv, Listed
<1> QED BY <1>7, <1>8 DEF ConflictInv

LEMMA DrainStep ==
    ASSUME ConflictInv, NEW p, Disputes!drain_pending_notifications(p)
    PROVE  ConflictInv'
<1> DEFINE mine == {n \in hot_standby : n.peer = p}
<1>1. /\ hot_standby' = hot_standby \ mine /\ handed' = handed \cup {n.id : n \in mine}
      /\ UNCHANGED <<conflicts, sweep, now, finder, events, unresolved, records, kept, dropped>>
  BY DEF Disputes!drain_pending_notifications, Disputes!clock
<1>2. mine \subseteq hot_standby
  OBVIOUS
<1> HIDE DEF mine
<1>3. handed' \cup {n.id : n \in hot_standby' \cup dropped'}
        = handed \cup {n.id : n \in hot_standby \cup dropped}
  BY <1>1, <1>2
<1>4. NoticeInv'
  BY <1>1, <1>3 DEF ConflictInv, NoticeInv, Disputes!NoSweep
<1>5. ConflictTypes' /\ EventsInv' /\ ListedInv'
  BY <1>1 DEF ConflictInv, ConflictTypes, EventsInv, Announced, About, ListedInv, Listed
<1> QED BY <1>4, <1>5 DEF ConflictInv

LEMMA TickStep ==
    ASSUME ConflictInv, "swept" \notin Windows, Disputes!Tick
    PROVE  ConflictInv'
<1>1. /\ now' = now + 1 /\ sweep = Disputes!NoSweep
      /\ UNCHANGED <<conflicts, hot_standby, kept, handed, dropped, finder, sweep, events,
                     unresolved, records>>
  BY DEF Disputes!Tick, Disputes!standby
<1>2. NoticeInv'
  BY <1>1 DEF ConflictInv, NoticeInv, Disputes!NoSweep
<1>3. ConflictTypes' /\ EventsInv' /\ ListedInv'
  BY <1>1 DEF ConflictInv, ConflictTypes, EventsInv, Announced, About, ListedInv, Listed
<1> QED BY <1>2, <1>3 DEF ConflictInv

LEMMA ConflictStep ==
    ASSUME Windows = {}, ConflictInv, [Disputes!Next]_disputeVars
    PROVE  ConflictInv'
<1>1. ASSUME NEW r \in Reports,
             \/ Disputes!record_version_conflict(r) \/ Disputes!detect_conflict(r)
             \/ Disputes!handle_conflict_alert(r)
      PROVE  ConflictInv'
  BY <1>1, FindStep, AlertStep
<1>2. CASE UNCHANGED disputeVars
  <2>1. ConflictTypes' /\ EventsInv' /\ ListedInv'
    BY <1>2 DEF disputeVars, ConflictInv, ConflictTypes, EventsInv, Announced, About,
                ListedInv, Listed
  <2> QED BY <1>2, <2>1, NoticeFrame DEF disputeVars, ConflictInv
<1> QED BY <1>1, <1>2, QueueStep, EmitStep, InsertStep, ResolveStep, CleanupStep, SweepStep,
           DrainStep, TickStep DEF Disputes!Next

(* Conflicts met through offers, forks and alerts (ConflictManager), for   *)
(* any reports, outside the two windows that the model can leave open: a   *)
(* conflict is listed until it is resolved and announced once, and its     *)
(* notification is handed over or kept for its time.                       *)
THEOREM ConflictKeptTheorem == ASSUME Windows = {} PROVE DisputeSpec => []ConflictKept
<1>1. Disputes!Init => ConflictInv
  BY ConflictInit
<1>2. ConflictInv /\ [Disputes!Next]_disputeVars => ConflictInv'
  BY ConflictStep
<1>3. ConflictInv => ConflictKept
  BY DEF ConflictInv, ListedInv, Listed, EventsInv, Announced, About, NoticeInv,
         ConflictKept, Disputes!ConflictKept, Disputes!Rec
<1> QED BY <1>1, <1>2, <1>3, PTL DEF DisputeSpec
=============================================================================
