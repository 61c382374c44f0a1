------------------------- MODULE HistoryStoreProofs -------------------------
(***************************************************************************)
(* Proofs about HistoryStore for any versions, contents, backends and      *)
(* tags.  TypeInv is inductive for the whole specification.  PlaceInv adds *)
(* what a step knows about where the bytes it works on are.  IndexInv adds *)
(* how the index in memory relates to the one on disk; it needs an index   *)
(* file that is never damaged.                                             *)
(***************************************************************************)
EXTENDS HistoryStore, TLAPS

\* Every leaf without a prover of its own is tried with Zenon, then with SMT.
USE ZenonT(5), SMTT(30)

\* The steps at which cur is the reference being worked on.
ArchiveSteps == {"archive_object", "archive_touch", "archive_ref", "archive_save"}
RotateSteps == {"rotate_verify", "rotate_save", "rotate_drop"}
FetchSteps == {"fetch_install", "fetch_delete", "fetch_ref", "fetch_save"}
WorkSteps == ArchiveSteps \cup RotateSteps \cup FetchSteps

TypeInv ==
    /\ TypeOK
    /\ pc \in WorkSteps => cur \in Refs
    /\ pc \in FetchSteps => cur.at \in Backends
    /\ scan \in SUBSET SUBSET Refs
    /\ \A ix \in scan : \A e, f \in ix : e.key = f.key => e = f

\* Inserting into an index with one entry per key leaves it so.
LEMMA InsertUnique ==
    ASSUME NEW ix \in SUBSET Refs, NEW r \in Refs,
           \A e, f \in ix : e.key = f.key => e = f
    PROVE  /\ Insert(ix, r) \subseteq Refs
           /\ \A e, f \in Insert(ix, r) : e.key = f.key => e = f
  BY DEF Insert

\* What load_or_rebuild returns is a set of references with one per key.
LEMMA LoadedUnique ==
    ASSUME TypeInv, NEW m \in Loaded
    PROVE  /\ m \subseteq Refs
           /\ \A e, f \in m : e.key = f.key => e = f
  BY DEF TypeInv, TypeOK, Loaded, Rebuilds, Eligible

USE DEF Save, Done, disk, op, vars

LEMMA TypeInit == Init => TypeInv
  BY HistoryAssumption DEF Init, TypeInv, TypeOK, Steps, WorkSteps, ArchiveSteps,
     RotateSteps, FetchSteps

LEMMA TypeStep == TypeInv /\ [Next]_vars => TypeInv'
<1> SUFFICES ASSUME TypeInv, [Next]_vars PROVE TypeInv'
  OBVIOUS
<1> USE DEF TypeInv, TypeOK, Steps, WorkSteps, ArchiveSteps, RotateSteps, FetchSteps
<1>1. CASE UNCHANGED vars
  BY <1>1
<1>2. ASSUME NEW p \in Publishable, ArchiveBegin(p[1], p[2]) PROVE TypeInv'
  <2>1. p[1] \in Keys /\ p[2] \in Contents
    BY HistoryAssumption
  <2>2. [key |-> p[1], hash |-> p[2], at |-> Here] \in Refs
    BY <2>1 DEF Refs, Places
  <2>3. PICK m \in Loaded : ArchiveBegin(p[1], p[2])!2!(m)
    BY <1>2 DEF ArchiveBegin
  <2>4. m \subseteq Refs /\ \A e, f \in m : e.key = f.key => e = f
    BY LoadedUnique
  <2> QED BY <1>2, <2>2, <2>3, <2>4 DEF ArchiveBegin
<1>3. ASSUME NEW t \in TagNames, NEW pins \in SUBSET Keys, TagAdd(t, pins) PROVE TypeInv'
  BY <1>3 DEF TagAdd
<1>4. ASSUME NEW t \in TagNames, TagRemove(t) PROVE TypeInv'
  BY <1>4 DEF TagRemove, TagAdd
<1>5. CASE GcBegin
  <2>1. PICK m \in Loaded : GcBegin!2!(m)
    BY <1>5 DEF GcBegin
  <2>2. m \subseteq Refs /\ \A e, f \in m : e.key = f.key => e = f
    BY LoadedUnique
  <2>3. PICK victims \in SUBSET Removable(m) : mem' = m \ victims /\ todo' = victims
    BY <2>1
  <2>4. victims \subseteq m
    BY DEF Removable
  <2> QED BY <1>5, <2>1, <2>2, <2>3, <2>4 DEF GcBegin
<1>6. CASE PurgeBegin
  <2>1. PICK m \in Loaded : PurgeBegin!2!(m)
    BY <1>6 DEF PurgeBegin
  <2>2. m \subseteq Refs /\ \A e, f \in m : e.key = f.key => e = f
    BY LoadedUnique
  <2> QED BY <1>6, <2>1, <2>2 DEF PurgeBegin
<1>7. CASE RotateBegin
  <2>1. PICK m \in Loaded : RotateBegin!2!(m)
    BY <1>7 DEF RotateBegin
  <2>2. m \subseteq Refs /\ \A e, f \in m : e.key = f.key => e = f
    BY LoadedUnique
  <2>3. todo' \subseteq m /\ mem' = m
    BY <2>1 DEF Removable
  <2> QED BY <1>7, <2>1, <2>2, <2>3 DEF RotateBegin
<1>8. ASSUME NEW k \in Keys, FetchBegin(k) PROVE TypeInv'
  <2>1. PICK m \in Loaded : FetchBegin(k)!2!(m)
    BY <1>8 DEF FetchBegin
  <2>2. m \subseteq Refs /\ \A e, f \in m : e.key = f.key => e = f
    BY LoadedUnique
  <2>3. \A e \in m : e.at # Here => e.at \in Backends
    BY <2>2 DEF Refs, Places
  <2> QED BY <1>8, <2>1, <2>2, <2>3 DEF FetchBegin
<1>9. CASE ArchiveObject
  <2>1. cur.hash \in Contents
    BY <1>9 DEF ArchiveObject, Refs
  <2> QED BY <1>9, <2>1 DEF ArchiveObject
<1>10. CASE ArchiveTouch \/ ArchiveRef
  BY <1>10 DEF ArchiveTouch, ArchiveRef, Append
<1>11. CASE ArchiveSave
  BY <1>11, InsertUnique DEF ArchiveSave
<1>12. CASE GcSave \/ GcRef \/ GcObject
  BY <1>12 DEF GcSave, GcRef, GcObject, RemoveRef
<1>13. CASE PurgeSave \/ PurgeObjects
  BY <1>13 DEF PurgeSave, PurgeObjects
<1>14. CASE RotatePut
  <2>1. \A r \in todo : r.hash \in Contents
    BY DEF Refs
  <2> QED BY <1>14, <2>1 DEF RotatePut
<1>15. CASE RotateVerify
  <2>1. MovedTo(cur, backend) \in Refs
    BY <1>15 DEF RotateVerify, Refs, Places, MovedTo
  <2> QED BY <1>15, <2>1 DEF RotateVerify, Append
<1>16. CASE RotateSave
  <2>1. MovedTo(cur, backend) \in Refs
    BY <1>16 DEF RotateSave, Refs, Places, MovedTo
  <2>2. /\ mem' \subseteq Refs
        /\ \A e, f \in mem' : e.key = f.key => e = f
    BY <1>16, <2>1, InsertUnique DEF RotateSave
  <2> QED BY <1>16, <2>2 DEF RotateSave
<1>17. CASE RotateDrop \/ RotateEnd
  BY <1>17 DEF RotateDrop, RotateEnd
<1>18. CASE FetchInstall
  <2>1. cur.hash \in Contents
    BY <1>18 DEF FetchInstall, Refs
  <2> QED BY <1>18, <2>1 DEF FetchInstall
<1>19. CASE FetchDelete
  BY <1>19 DEF FetchDelete
<1>20. CASE FetchRef
  <2>1. MovedTo(cur, Here) \in Refs
    BY <1>20 DEF FetchRef, Refs, Places, MovedTo
  <2> QED BY <1>20, <2>1 DEF FetchRef, Append
<1>21. CASE FetchSave
  <2>1. MovedTo(cur, Here) \in Refs
    BY <1>21 DEF FetchSave, Refs, Places, MovedTo
  <2> QED BY <1>21, <2>1, InsertUnique DEF FetchSave
<1>22. CASE Abort
  BY <1>22 DEF Abort
<1>23. CASE Corrupt \/ Reconfigure
  BY <1>23 DEF Corrupt, Reconfigure
<1>24. CASE ReaderScan
  BY <1>24 DEF ReaderScan, Rebuilds, Eligible
<1>25. CASE ReaderSave
  BY <1>25 DEF ReaderSave
<1> HIDE DEF TypeInv
<1> QED
  BY <1>1, <1>2, <1>3, <1>4, <1>5, <1>6, <1>7, <1>8, <1>9, <1>10, <1>11, <1>12, <1>13,
     <1>14, <1>15, <1>16, <1>17, <1>18, <1>19, <1>20, <1>21, <1>22, <1>23, <1>24, <1>25
  DEF Next, Begin, Step

\* Every reachable state of the store is well typed, and every index, on disk,
\* in memory or rebuilt by a reader, has one entry per (rel, version).
THEOREM TypeCorrect == Spec => []TypeOK
<1>1. TypeInv => TypeOK
  BY DEF TypeInv
<1> QED BY <1>1, TypeInit, TypeStep, PTL DEF Spec

-----------------------------------------------------------------------------
(* Where the bytes are: rotate deletes the object only after it verified   *)
(* the copy on the configured backend, and fetch deletes the copy only     *)
(* after the object is in place.                                           *)

PlaceInv ==
    /\ TypeInv
    /\ pc \in {"rotate_save", "rotate_drop"} => cur.hash \in remote[backend]
    /\ pc \in {"fetch_delete", "fetch_ref", "fetch_save"} => cur.hash \in objects

LEMMA PlaceInit == Init => PlaceInv
  BY TypeInit DEF Init, PlaceInv

LEMMA PlaceStep == PlaceInv /\ [Next]_vars => PlaceInv'
<1> SUFFICES ASSUME PlaceInv, [Next]_vars PROVE PlaceInv'
  OBVIOUS
<1>0. TypeInv /\ TypeInv'
  BY TypeStep DEF PlaceInv
<1> USE DEF PlaceInv
<1>1. CASE UNCHANGED vars
  BY <1>0, <1>1
<1>2. ASSUME NEW k, NEW c, ArchiveBegin(k, c) PROVE PlaceInv'
  BY <1>0, <1>2 DEF ArchiveBegin
<1>3. ASSUME NEW t, NEW pins, TagAdd(t, pins) PROVE PlaceInv'
  BY <1>0, <1>3 DEF TagAdd
<1>4. CASE GcBegin \/ PurgeBegin \/ RotateBegin
  BY <1>0, <1>4 DEF GcBegin, PurgeBegin, RotateBegin
<1>5. ASSUME NEW k \in Keys, FetchBegin(k) PROVE PlaceInv'
  BY <1>0, <1>5 DEF FetchBegin
<1>6. CASE ArchiveObject \/ ArchiveTouch \/ ArchiveRef \/ ArchiveSave
  BY <1>0, <1>6 DEF ArchiveObject, ArchiveTouch, ArchiveRef, ArchiveSave
<1>7. CASE GcSave \/ GcRef \/ GcObject \/ PurgeSave \/ PurgeObjects
  BY <1>0, <1>7 DEF GcSave, GcRef, GcObject, PurgeSave, PurgeObjects
<1>8. CASE RotatePut \/ RotateVerify \/ RotateSave \/ RotateDrop \/ RotateEnd
  BY <1>0, <1>8 DEF RotatePut, RotateVerify, RotateSave, RotateDrop, RotateEnd, Verified
<1>9. CASE FetchInstall \/ FetchDelete \/ FetchRef \/ FetchSave
  BY <1>0, <1>9 DEF FetchInstall, FetchDelete, FetchRef, FetchSave
<1>10. CASE Abort \/ Corrupt \/ ReaderScan \/ ReaderSave \/ Reconfigure
  BY <1>0, <1>10 DEF Abort, Corrupt, ReaderScan, ReaderSave, Reconfigure
<1> HIDE DEF PlaceInv
<1> QED
  BY <1>1, <1>2, <1>3, <1>4, <1>5, <1>6, <1>7, <1>8, <1>9, <1>10
  DEF Next, Begin, Step, TagRemove

\* No step but one of gc or purge removes the last copy of a content.
LEMMA DestroyStep ==
    PlaceInv /\ [Next]_vars =>
        (pc \notin {"gc_objects", "purge_objects"} => Copies \subseteq Copies')
<1> SUFFICES ASSUME PlaceInv, [Next]_vars, pc \notin {"gc_objects", "purge_objects"}
             PROVE  Copies \subseteq Copies'
  OBVIOUS
<1>0. TypeInv /\ TypeInv'
  BY TypeStep DEF PlaceInv
<1>1. CASE objects \subseteq objects' /\ remote' = remote
  BY <1>1 DEF Copies
<1>2. CASE RotatePut
  BY <1>0, <1>2 DEF RotatePut, Copies, TypeInv, TypeOK
<1>3. CASE RotateDrop
  BY <1>0, <1>3 DEF RotateDrop, Copies, TypeInv, TypeOK, PlaceInv
<1>4. CASE FetchDelete
  BY <1>0, <1>4 DEF FetchDelete, Copies, TypeInv, TypeOK, PlaceInv
<1>5. CASE ~(RotatePut \/ RotateDrop \/ FetchDelete)
  <2>1. objects \subseteq objects' /\ remote' = remote
    BY <1>5 DEF Next, Begin, Step, ArchiveBegin, TagAdd, TagRemove, GcBegin, PurgeBegin,
       RotateBegin, FetchBegin, ArchiveObject, ArchiveTouch, ArchiveRef, ArchiveSave,
       GcSave, GcRef, GcObject, PurgeSave, PurgeObjects, RotateVerify, RotateSave,
       RotateEnd, FetchInstall, FetchRef, FetchSave, Abort, Corrupt, ReaderScan,
       ReaderSave, Reconfigure
  <2> QED BY <2>1, <1>1
<1> QED BY <1>2, <1>3, <1>4, <1>5

\* Only gc destroys bytes, in every behaviour of the store: damaged index files,
\* readers that save a stale rebuild and a change of backend included.
THEOREM OnlyGcDestroysTheorem == Spec => OnlyGcDestroys
<1>1. PlaceInv /\ [Next]_vars =>
        [pc \notin {"gc_objects", "purge_objects"} => Copies \subseteq Copies']_vars
  BY DestroyStep
<1> QED BY <1>1, PlaceInit, PlaceStep, PTL DEF Spec, OnlyGcDestroys

-----------------------------------------------------------------------------
(* The index in memory and the index on disk, when index.json is never     *)
(* damaged.  Everything below assumes CanCorrupt = FALSE.                  *)

IndexInv ==
    /\ PlaceInv
    /\ ~corrupt /\ scan = {}
    /\ pc \in WorkSteps \cup {"rotate_next", "gc_refs", "gc_objects"} => mem = index
    /\ pc \in ArchiveSteps => ~Conflicts(mem, cur.key, cur.hash)
    /\ pc \in {"archive_touch", "archive_ref", "archive_save"} => cur.hash \in objects
    /\ pc \in {"rotate_next"} \cup RotateSteps => todo \subseteq mem
    /\ pc \in {"rotate_verify", "rotate_save"} =>
          cur \in mem /\ \A r \in todo : r.key # cur.key
    /\ pc \in FetchSteps => cur \in mem
    /\ pc = "gc_save" => mem \subseteq index /\ \A e \in index \ mem : e.key \notin Pinned
    /\ pc = "purge_objects" => index = {}

LEMMA IndexInit == Init => IndexInv
  BY PlaceInit DEF Init, IndexInv, WorkSteps, ArchiveSteps, RotateSteps, FetchSteps

LEMMA IndexStep ==
    ASSUME CanCorrupt = FALSE
    PROVE  IndexInv /\ [Next]_vars => IndexInv'
<1> SUFFICES ASSUME IndexInv, [Next]_vars PROVE IndexInv'
  OBVIOUS
<1>0. /\ PlaceInv /\ PlaceInv'
      /\ TypeInv /\ TypeInv'
      /\ Loaded = {index}
  BY PlaceStep DEF IndexInv, PlaceInv, Loaded
<1> USE DEF IndexInv, WorkSteps, ArchiveSteps, RotateSteps, FetchSteps
<1>1. CASE UNCHANGED vars
  BY <1>0, <1>1 DEF Conflicts, Pinned
<1>2. ASSUME NEW k, NEW c, ArchiveBegin(k, c) PROVE IndexInv'
  BY <1>0, <1>2 DEF ArchiveBegin, Conflicts
<1>3. ASSUME NEW t, NEW pins, TagAdd(t, pins) PROVE IndexInv'
  BY <1>0, <1>3 DEF TagAdd
<1>4. CASE GcBegin
  BY <1>0, <1>4 DEF GcBegin, Removable, Pinned
<1>5. CASE PurgeBegin
  BY <1>0, <1>5 DEF PurgeBegin
<1>6. CASE RotateBegin
  BY <1>0, <1>6 DEF RotateBegin, Removable
<1>7. ASSUME NEW k \in Keys, FetchBegin(k) PROVE IndexInv'
  BY <1>0, <1>7 DEF FetchBegin
<1>8. CASE ArchiveObject
  BY <1>0, <1>8 DEF ArchiveObject, Conflicts, TypeInv, TypeOK
<1>9. CASE ArchiveTouch \/ ArchiveRef \/ ArchiveSave
  BY <1>0, <1>9 DEF ArchiveTouch, ArchiveRef, ArchiveSave, Conflicts
<1>10. CASE GcSave \/ GcRef \/ GcObject \/ PurgeSave \/ PurgeObjects
  BY <1>0, <1>10 DEF GcSave, GcRef, GcObject, PurgeSave, PurgeObjects
<1>11. CASE RotatePut
  <2>1. \A r \in todo, q \in todo : r.key = q.key => r = q
    BY <1>0, <1>11 DEF RotatePut, TypeInv, TypeOK
  <2> QED BY <1>0, <1>11, <2>1 DEF RotatePut
<1>12. CASE RotateVerify
  BY <1>0, <1>12 DEF RotateVerify
<1>13. CASE RotateSave
  <2>1. \A r \in todo : r \in Insert(mem, MovedTo(cur, backend))
    BY <1>0, <1>13 DEF RotateSave, Insert, MovedTo
  <2> QED BY <1>0, <1>13, <2>1 DEF RotateSave
<1>14. CASE RotateDrop \/ RotateEnd
  BY <1>0, <1>14 DEF RotateDrop, RotateEnd
<1>15. CASE FetchInstall \/ FetchDelete \/ FetchRef \/ FetchSave
  BY <1>0, <1>15 DEF FetchInstall, FetchDelete, FetchRef, FetchSave
<1>16. CASE Abort
  BY <1>0, <1>16 DEF Abort
<1>17. CASE Corrupt \/ ReaderScan \/ ReaderSave \/ Reconfigure
  BY <1>0, <1>17 DEF Corrupt, ReaderScan, ReaderSave, Reconfigure
<1> HIDE DEF IndexInv
<1> QED
  BY <1>1, <1>2, <1>3, <1>4, <1>5, <1>6, <1>7, <1>8, <1>9, <1>10, <1>11, <1>12, <1>13,
     <1>14, <1>15, <1>16, <1>17
  DEF Next, Begin, Step, TagRemove

-----------------------------------------------------------------------------
\* What one step does to the entries on disk: each entry of the new index is an
\* old one, or the entry the finished operation wrote.
LEMMA IndexChange ==
    ASSUME CanCorrupt = FALSE, IndexInv, [Next]_vars
    PROVE  \A f \in index' :
              \/ f \in index
              \/ ArchiveSave /\ f = cur
              \/ RotateSave /\ f = MovedTo(cur, backend)
              \/ FetchSave /\ f = MovedTo(cur, Here)
<1>1. Loaded = {index} /\ TypeInv
  BY DEF IndexInv, PlaceInv, Loaded
<1>2. CASE ArchiveSave \/ RotateSave \/ FetchSave
  BY <1>2 DEF ArchiveSave, RotateSave, FetchSave, Insert, IndexInv, WorkSteps,
     ArchiveSteps, RotateSteps, FetchSteps
<1>3. CASE GcSave
  BY <1>3 DEF GcSave, IndexInv
<1>4. CASE PurgeSave
  BY <1>4 DEF PurgeSave
<1>5. CASE ReaderSave
  BY <1>5 DEF ReaderSave, IndexInv
<1>6. CASE ~(ArchiveSave \/ RotateSave \/ FetchSave \/ GcSave \/ PurgeSave \/ ReaderSave)
  <2>1. CASE Begin
    BY <1>1, <2>1 DEF Begin, ArchiveBegin, TagAdd, TagRemove, GcBegin, PurgeBegin, RotateBegin,
       FetchBegin
  <2>2. CASE ~Begin
    <3>1. index' = index
      BY <1>6, <2>2 DEF Next, Step, ArchiveObject, ArchiveTouch, ArchiveRef, GcRef, GcObject,
         PurgeObjects, RotatePut, RotateVerify, RotateDrop, RotateEnd, FetchInstall,
         FetchDelete, FetchRef, Abort, Corrupt, ReaderScan, Reconfigure
    <3> QED BY <3>1
  <2> QED BY <2>1, <2>2
<1> QED BY <1>2, <1>3, <1>4, <1>5, <1>6

\* An indexed version keeps its content until gc removes it.
THEOREM VersionImmutableTheorem ==
    ASSUME CanCorrupt = FALSE
    PROVE  Spec => VersionImmutable
<1>1. IndexInv /\ [Next]_vars =>
        [\A e \in index, f \in index' : e.key = f.key => e.hash = f.hash]_vars
  <2> SUFFICES ASSUME IndexInv, [Next]_vars,
                      NEW e \in index, NEW f \in index', e.key = f.key
               PROVE  e.hash = f.hash
    OBVIOUS
  <2>1. \A g \in index : g.key = e.key => g = e
    BY DEF IndexInv, PlaceInv, TypeInv, TypeOK
  <2>2. CASE f \in index
    BY <2>1, <2>2
  <2>3. CASE ArchiveSave /\ f = cur
    BY <2>3 DEF ArchiveSave, IndexInv, Conflicts, WorkSteps, ArchiveSteps
  <2>4. CASE RotateSave /\ f = MovedTo(cur, backend)
    BY <2>1, <2>4 DEF RotateSave, MovedTo, IndexInv, WorkSteps, RotateSteps
  <2>5. CASE FetchSave /\ f = MovedTo(cur, Here)
    BY <2>1, <2>5 DEF FetchSave, MovedTo, IndexInv, WorkSteps, FetchSteps
  <2> QED BY <2>2, <2>3, <2>4, <2>5, IndexChange
<1> QED BY <1>1, IndexInit, IndexStep, PTL DEF Spec, VersionImmutable

\* gc never drops a version that a tag pins.
THEOREM TagsProtectTheorem ==
    ASSUME CanCorrupt = FALSE
    PROVE  Spec => TagsProtect
<1>1. IndexInv /\ [Next]_vars =>
        [pc = "gc_save" => \A e \in index \ index' : e.key \notin Pinned]_vars
  <2> SUFFICES ASSUME IndexInv, Next, pc = "gc_save", NEW e \in index \ index'
               PROVE  e.key \notin Pinned
    BY DEF vars
  <2>1. GcSave \/ Abort
    BY DEF IndexInv, Next, Begin, Step, ArchiveBegin, TagAdd, TagRemove, GcBegin, PurgeBegin,
       RotateBegin, FetchBegin, ArchiveObject, ArchiveTouch, ArchiveRef, ArchiveSave, GcRef,
       GcObject, PurgeSave, PurgeObjects, RotatePut, RotateVerify, RotateSave, RotateDrop,
       RotateEnd, FetchInstall, FetchDelete, FetchRef, FetchSave, Corrupt, ReaderScan,
       ReaderSave, Reconfigure
  <2> QED BY <2>1 DEF GcSave, Abort, IndexInv
<1> QED BY <1>1, IndexInit, IndexStep, PTL DEF Spec, TagsProtect

-----------------------------------------------------------------------------
(* The bytes of every indexed version exist.                               *)

LEMMA ContentStep ==
    ASSUME CanCorrupt = FALSE
    PROVE  IndexInv /\ ContentKept /\ [Next]_vars => ContentKept'
<1> SUFFICES ASSUME IndexInv, ContentKept, [Next]_vars, NEW f \in index'
             PROVE  f.hash \in Copies'
  BY DEF ContentKept
<1>1. CASE GcObject \/ PurgeObjects
  BY <1>1 DEF GcObject, PurgeObjects, IndexInv, ContentKept, Copies, Referenced
<1>2. CASE ~(GcObject \/ PurgeObjects)
  <2>1. Copies \subseteq Copies'
    <3>1. CASE pc \notin {"gc_objects", "purge_objects"}
      BY <3>1, DestroyStep DEF IndexInv
    <3>2. CASE pc \in {"gc_objects", "purge_objects"}
      BY <1>2, <3>2 DEF Next, Begin, Step, ArchiveBegin, TagAdd, TagRemove, GcBegin, PurgeBegin,
         RotateBegin, FetchBegin, ArchiveObject, ArchiveTouch, ArchiveRef, ArchiveSave, GcRef,
         GcSave, PurgeSave, RotatePut, RotateVerify, RotateSave, RotateDrop,
         RotateEnd, FetchInstall, FetchDelete, FetchRef, FetchSave, Abort, Corrupt, ReaderScan,
         ReaderSave, Reconfigure, Copies
    <3> QED BY <3>1, <3>2
  <2>2. f.hash \in Copies
    <3>1. CASE f \in index
      BY <3>1 DEF ContentKept
    <3>2. CASE ArchiveSave /\ f = cur
      BY <3>2 DEF ArchiveSave, IndexInv, Copies
    <3>3. CASE RotateSave /\ f = MovedTo(cur, backend)
      BY <3>3 DEF RotateSave, MovedTo, IndexInv, PlaceInv, TypeInv, TypeOK, Copies
    <3>4. CASE FetchSave /\ f = MovedTo(cur, Here)
      BY <3>4 DEF FetchSave, MovedTo, IndexInv, PlaceInv, Copies
    <3> QED BY <3>1, <3>2, <3>3, <3>4, IndexChange
  <2> QED BY <2>1, <2>2
<1> QED BY <1>1, <1>2

\* For any number of backends and however operations die: the bytes of an
\* indexed version are in objects/ or on some backend.
THEOREM ContentKeptTheorem ==
    ASSUME CanCorrupt = FALSE
    PROVE  Spec => []ContentKept
<1>1. Init => ContentKept
  BY DEF Init, ContentKept
<1> QED BY <1>1, IndexInit, IndexStep, ContentStep, PTL DEF Spec

LEMMA FetchableStep ==
    ASSUME CanCorrupt = FALSE, \A a, b \in Backends : a = b
    PROVE  IndexInv /\ Fetchable /\ [Next]_vars => Fetchable'
<1> SUFFICES ASSUME IndexInv, Fetchable, [Next]_vars, NEW f \in index'
             PROVE  Retrievable(f)'
  BY DEF Fetchable, Retrievable
<1>0. TypeInv /\ TypeInv' /\ PlaceInv /\ \A e \in index : e \in Refs /\ Retrievable(e)
  BY TypeStep DEF IndexInv, PlaceInv, TypeInv, TypeOK, Fetchable
<1>1. CASE RotateDrop
  <2>1. index' = index /\ remote' = remote /\ mem = index /\ cur.hash \in remote[backend]
    BY <1>0, <1>1 DEF RotateDrop, IndexInv, PlaceInv, WorkSteps, RotateSteps
  <2>2. CASE f.at = Here
    BY <1>0, <1>1, <2>1, <2>2, HistoryAssumption DEF RotateDrop, HasLocalReference, Retrievable
  <2>3. CASE f.at \in Backends
    BY <1>0, <1>1, <2>1, <2>3 DEF RotateDrop, Retrievable, TypeInv, TypeOK
  <2> QED BY <1>0, <2>1, <2>2, <2>3 DEF Refs, Places
<1>2. CASE FetchDelete
  BY <1>0, <1>2 DEF FetchDelete, Retrievable, PlaceInv, TypeInv, TypeOK, FetchSteps
<1>3. CASE RotatePut
  BY <1>0, <1>3 DEF RotatePut, Retrievable, TypeInv, TypeOK
<1>4. CASE GcObject \/ PurgeObjects
  BY <1>0, <1>4 DEF GcObject, PurgeObjects, IndexInv, Referenced, Retrievable
<1>5. CASE ~(RotateDrop \/ FetchDelete \/ RotatePut \/ GcObject \/ PurgeObjects)
  <2>1. objects \subseteq objects' /\ remote' = remote
    BY <1>5 DEF Next, Begin, Step, ArchiveBegin, TagAdd, TagRemove, GcBegin, PurgeBegin,
       RotateBegin, FetchBegin, ArchiveObject, ArchiveTouch, ArchiveRef, ArchiveSave,
       GcSave, GcRef, PurgeSave, RotateVerify, RotateSave,
       RotateEnd, FetchInstall, FetchRef, FetchSave, Abort, Corrupt, ReaderScan,
       ReaderSave, Reconfigure
  <2>2. Retrievable(f)
    <3>1. CASE f \in index
      BY <1>0, <3>1
    <3>2. CASE ArchiveSave /\ f = cur
      BY <3>2 DEF ArchiveSave, IndexInv, Retrievable
    <3>3. CASE RotateSave /\ f = MovedTo(cur, backend)
      BY <1>0, <3>3 DEF RotateSave, MovedTo, PlaceInv, TypeInv, TypeOK, Retrievable
    <3>4. CASE FetchSave /\ f = MovedTo(cur, Here)
      BY <1>0, <3>4 DEF FetchSave, MovedTo, PlaceInv, Retrievable
    <3> QED BY <3>1, <3>2, <3>3, <3>4, IndexChange
  <2> QED BY <2>1, <2>2 DEF Retrievable
<1> QED BY <1>1, <1>2, <1>3, <1>4, <1>5

\* With a single backend, every indexed version can be served from the place its
\* own entry names, however operations die.
THEOREM FetchableTheorem ==
    ASSUME CanCorrupt = FALSE, \A a, b \in Backends : a = b
    PROVE  Spec => []Fetchable
<1>1. Init => Fetchable
  BY DEF Init, Fetchable
<1> QED BY <1>1, IndexInit, IndexStep, FetchableStep, PTL DEF Spec
=============================================================================
