--------------------------- MODULE CustodyProofs ----------------------------
(***************************************************************************)
(* Proofs about Custody, for every set of operations, objects, admissions  *)
(* and concurrent requests, with dropped requests, failed fsyncs, crashes  *)
(* and power losses at every point.  First what requests are and carry,    *)
(* the locks they hold and what they may rely on while they hold them;     *)
(* then what is stored and answered.                                       *)
(***************************************************************************)
EXTENDS Custody, TLAPS

\* Every leaf without a prover of its own is tried with Zenon, then with SMT.
USE ZenonT(5), SMTT(30)

-----------------------------------------------------------------------------
(* What a request is and carries.                                          *)

Published(q) == q.at \in {"publish", "sync"}
Admitting(q) ==
    \/ q.at \in {"lock", "operation", "object", "grant"}
    \/ Published(q) /\ q.next \in {"object", "grant"}
Putting(q) == q.at = "stream" \/ (Published(q) /\ q.next = "idle")
Reclaiming(q) == q.at = "remove" \/ (Published(q) /\ q.next = "remove")

Places == {"idle", "lock", "operation", "object", "grant", "stream", "remove", "publish", "sync"}
Values == Admissions \cup Hashes \cup {"cancelled", None}
Keys == Operations \cup Objects

Fields == [at : Places, obj : Objects \cup {None}, adm : Admissions \cup {None},
           file : Files \cup {None}, value : Values, next : {"idle", "object", "grant", "remove"}]

Shape(q) ==
    /\ q \in Fields
    /\ Admitting(q) => q.adm \in Admissions /\ q.obj = q.adm.obj
    /\ Putting(q) => q.adm \in Admissions /\ q.obj \in Objects
    /\ Reclaiming(q) => q.obj \in Objects
    /\ Published(q) =>
          /\ q.next = "object" => q.file = Operation(q.adm.op) /\ q.value = q.adm
          /\ q.next = "grant" => q.file = Json(q.obj) /\ q.value = q.adm
          /\ q.next = "idle" => q.file = Data(q.obj) /\ q.value = q.adm.hash
          /\ q.next = "remove" => q.file = Tombstone(q.obj) /\ q.value = "cancelled"

LEMMA ShapeFields ==
    ASSUME NEW q, Shape(q)
    PROVE  /\ q.at \in Places /\ q.next \in {"idle", "object", "grant", "remove"}
           /\ q.obj \in Objects \cup {None} /\ q.adm \in Admissions \cup {None}
           /\ q.value \in Values
BY DEF Shape, Fields

\* The files, as processes see them or as they are secured.
Sound(d) ==
    /\ d \in [Files -> Values]
    /\ \A i \in Operations : d[Operation(i)] \in Admissions \cup {None}
    /\ \A o \in Objects : /\ d[Json(o)] \in Admissions \cup {None}
                          /\ d[Data(o)] \in Hashes \cup {None}

TypeInv ==
    /\ up \in BOOLEAN /\ window \in BOOLEAN /\ exposed \in BOOLEAN
    /\ Sound(fs) /\ Sound(disk)
    /\ lock \in [Keys -> Requests \cup {None}]
    /\ DOMAIN req = Requests /\ \A r \in Requests : Shape(req[r])
    /\ granted \subseteq Admissions /\ receipts \subseteq Objects /\ reclaimed \subseteq Objects
    /\ \A j \in detached : ~j.part
    /\ ~up => detached = {} /\ \A r \in Requests : req[r] = Idle

\* The four kinds of file are told apart by their names.
LEMMA Names ==
    /\ \A i, k : Operation(i) = Operation(k) => i = k
    /\ \A o, p : Json(o) = Json(p) \/ Data(o) = Data(p) \/ Tombstone(o) = Tombstone(p) => o = p
    /\ \A x, y : Operation(x) # Json(y)
    /\ \A x, y : Operation(x) # Data(y)
    /\ \A x, y : Operation(x) # Tombstone(y)
    /\ \A x, y : Json(x) # Data(y)
    /\ \A x, y : Json(x) # Tombstone(y)
    /\ \A x, y : Data(x) # Tombstone(y)
BY DEF Operation, Json, Data, Tombstone

LEMMA InFiles ==
    /\ \A i \in Operations : Operation(i) \in Files
    /\ \A o \in Objects : Json(o) \in Files /\ Data(o) \in Files /\ Tombstone(o) \in Files
    /\ \A f \in Files : \/ \E i \in Operations : f = Operation(i)
                        \/ \E o \in Objects : f \in {Json(o), Data(o), Tombstone(o)}
BY DEF Files

LEMMA AdmissionType ==
    ASSUME NEW a \in Admissions
    PROVE  a.op \in Operations /\ a.obj \in Objects /\ a.hash \in Hashes /\ a # None
BY CustodyAssumption

LEMMA IdleShape ==
    /\ Shape(Idle) /\ Idle.at = "idle"
    /\ ~Admitting(Idle) /\ ~Putting(Idle) /\ ~Reclaiming(Idle) /\ ~Published(Idle)
BY DEF Shape, Fields, Idle, Admitting, Putting, Reclaiming, Published, Places, Values

\* A request that begins or goes on keeps its shape.
LEMMA RunningShape ==
    ASSUME NEW a \in Admissions, NEW o \in Objects
    PROVE  /\ \A p \in {"lock", "operation", "object", "grant"} : Shape(Running(a.obj, a, p))
           /\ Shape(Running(o, a, "stream"))
           /\ Shape(Running(o, None, "remove"))
BY AdmissionType DEF Shape, Fields, Running, Admitting, Putting, Reclaiming, Published, Places, Values

LEMMA PublishingShape ==
    ASSUME NEW a \in Admissions, NEW o \in Objects
    PROVE  /\ Shape(Publishing(a.obj, a, Operation(a.op), a, "object"))
           /\ Shape(Publishing(a.obj, a, Json(a.obj), a, "grant"))
           /\ Shape(Publishing(o, a, Data(o), a.hash, "idle"))
           /\ Shape(Publishing(o, None, Tombstone(o), "cancelled", "remove"))
<1> USE AdmissionType, InFiles
    DEF Shape, Fields, Publishing, Admitting, Putting, Reclaiming, Published, Places, Values
<1>1. Shape(Publishing(a.obj, a, Operation(a.op), a, "object"))
  OBVIOUS
<1>2. Shape(Publishing(a.obj, a, Json(a.obj), a, "grant"))
  OBVIOUS
<1>3. Shape(Publishing(o, a, Data(o), a.hash, "idle"))
  OBVIOUS
<1>4. Shape(Publishing(o, None, Tombstone(o), "cancelled", "remove"))
  OBVIOUS
<1> HIDE DEF Shape
<1> QED
  BY <1>1, <1>2, <1>3, <1>4

-----------------------------------------------------------------------------
(* Types.                                                                  *)

LEMMA InitType == Init => TypeInv
<1> SUFFICES ASSUME Init PROVE TypeInv
  OBVIOUS
<1>1. up \in BOOLEAN /\ up /\ window \in BOOLEAN /\ exposed \in BOOLEAN
  BY Zenon DEF Init
<1>2. Sound(fs) /\ Sound(disk)
  BY InFiles DEF Init, Sound, Values
<1>3. lock \in [Keys -> Requests \cup {None}]
  BY DEF Init, Keys
<1> QED
  BY <1>1, <1>2, <1>3, IdleShape DEF Init, TypeInv

\* A file that is linked or removed leaves the rest as it was.
LEMMA UpdateSound ==
    ASSUME NEW d, Sound(d), NEW f \in Files, NEW v \in Values,
           \A i \in Operations : f = Operation(i) => v \in Admissions \cup {None},
           \A o \in Objects : f = Json(o) => v \in Admissions \cup {None},
           \A o \in Objects : f = Data(o) => v \in Hashes \cup {None}
    PROVE  Sound([d EXCEPT ![f] = v])
<1> DEFINE e == [d EXCEPT ![f] = v]
<1>1. e \in [Files -> Values] /\ \A g \in Files : e[g] = IF g = f THEN v ELSE d[g]
  BY DEF Sound
<1> HIDE DEF e
<1> QED
  BY <1>1, InFiles DEF Sound, e

LEMMA LinkSound ==
    ASSUME NEW d, Sound(d), NEW q, Shape(q), Published(q)
    PROVE  q.file \in Files /\ q.value # None /\ Sound([d EXCEPT ![q.file] = q.value])
<1>1. q.next \in {"idle", "object", "grant", "remove"} /\ q.value \in Values
  BY ShapeFields
<1>2. CASE q.next = "object"
  <2>1. q.adm \in Admissions /\ q.file = Operation(q.adm.op) /\ q.value = q.adm
    BY <1>2 DEF Shape, Admitting, Published
  <2> QED
    BY <1>1, <2>1, AdmissionType, InFiles, Names, UpdateSound
<1>3. CASE q.next = "grant"
  <2>1. q.adm \in Admissions /\ q.obj \in Objects /\ q.file = Json(q.obj) /\ q.value = q.adm
    BY <1>3, AdmissionType DEF Shape, Admitting, Published
  <2>2. q.file \in Files /\ \A x : q.file # Data(x) /\ q.file # Operation(x)
    BY <2>1, InFiles, Names
  <2> QED
    BY <1>1, <2>1, <2>2, AdmissionType, UpdateSound
<1>4. CASE q.next = "idle"
  <2>1. q.adm \in Admissions /\ q.obj \in Objects /\ q.file = Data(q.obj) /\ q.value = q.adm.hash
    BY <1>4 DEF Shape, Putting, Published
  <2>2. q.value \in Hashes /\ q.value # None
    BY <2>1, AdmissionType, CustodyAssumption
  <2> QED
    BY <1>1, <2>1, <2>2, InFiles, Names, UpdateSound
<1>5. CASE q.next = "remove"
  <2>1. q.obj \in Objects /\ q.file = Tombstone(q.obj) /\ q.value = "cancelled"
    BY <1>5 DEF Shape, Reclaiming, Published
  <2>2. q.file \in Files /\ \A x : q.file # Data(x) /\ q.file # Operation(x) /\ q.file # Json(x)
    BY <2>1, InFiles, Names
  <2> QED
    BY <1>1, <2>1, <2>2, CustodyAssumption, UpdateSound
<1> QED
  BY <1>1, <1>2, <1>3, <1>4, <1>5

LEMMA RemoveSound ==
    ASSUME NEW d, Sound(d), NEW o \in Objects
    PROVE  Sound([d EXCEPT ![Data(o)] = None])
BY InFiles, Names, UpdateSound DEF Values

\* The request r becomes q, the others stay.
Moves(r, q) == req' = [req EXCEPT ![r] = q] /\ Shape(q)

LEMMA MovesType ==
    ASSUME TypeInv, NEW r \in Requests, NEW q, Moves(r, q)
    PROVE  /\ DOMAIN req' = Requests /\ \A u \in Requests : Shape(req'[u])
           /\ req'[r] = q /\ \A u \in Requests \ {r} : req'[u] = req[u]
BY DEF TypeInv, Moves

\* End(r) frees the locks of r and nothing else.
LEMMA EndType ==
    ASSUME TypeInv, NEW r \in Requests, End(r)
    PROVE  /\ Moves(r, Idle)
           /\ lock' \in [Keys -> Requests \cup {None}]
           /\ \A k \in Keys : lock'[k] = IF lock[k] = r THEN None ELSE lock[k]
BY IdleShape DEF End, Moves, TypeInv

\* Goto(r, place), where the request stays of its kind.
LEMMA GotoShape ==
    ASSUME NEW q, Shape(q), NEW p,
           \/ q.at \in {"lock", "operation", "object"} /\ p \in {"operation", "object", "grant"}
           \/ q.at = "publish" /\ p = "sync"
    PROVE  Shape([q EXCEPT !.at = p])
BY DEF Shape, Fields, Admitting, Putting, Reclaiming, Published, Places

LEMMA AcquireType ==
    ASSUME TypeInv, NEW r \in Requests, NEW k \in Keys, Acquire(r, k)
    PROVE  /\ lock' \in [Keys -> Requests \cup {None}]
           /\ lock[k] = None /\ lock'[k] = r
           /\ \A x \in Keys \ {k} : lock'[x] = lock[x]
BY DEF Acquire, TypeInv

\* RecordOnce publishes, goes on or ends.
LEMMA RecordOnceType ==
    ASSUME TypeInv, NEW r \in Requests, NEW file, NEW next, RecordOnce(r, file, next),
           \/ At(r, "operation") /\ file = Operation(req[r].adm.op) /\ next = "object"
           \/ At(r, "object") /\ file = Json(req[r].obj) /\ next = "grant"
    PROVE  \/ /\ ~Exists(file) /\ UNCHANGED lock
              /\ Moves(r, Publishing(req[r].obj, req[r].adm, file, req[r].adm, next))
           \/ /\ fs[file] = req[r].adm /\ UNCHANGED lock
              /\ Moves(r, [req[r] EXCEPT !.at = next])
           \/ End(r)
<1>1. Shape(req[r]) /\ req[r].adm \in Admissions /\ req[r].obj = req[r].adm.obj
  BY DEF TypeInv, Shape, Admitting, At
<1>2. Shape(Publishing(req[r].obj, req[r].adm, file, req[r].adm, next))
  BY <1>1, AdmissionType, PublishingShape
<1>3. Shape([req[r] EXCEPT !.at = next])
  BY <1>1, GotoShape DEF At
<1> QED
  BY <1>2, <1>3 DEF RecordOnce, Moves, Goto, Agrees

LEMMA TypeStep == TypeInv /\ [Next]_vars => TypeInv'
<1> SUFFICES ASSUME TypeInv, [Next]_vars PROVE TypeInv'
  OBVIOUS
<1> USE DEF files, history
\* A step of a running request that changes no file.
<1>1. ASSUME NEW r \in Requests, NEW q, Moves(r, q), up,
             lock' \in [Keys -> Requests \cup {None}],
             UNCHANGED <<up, files, receipts, reclaimed, exposed>>,
             window' \in BOOLEAN,
             granted' \subseteq Admissions,
             \A j \in detached' : ~j.part
      PROVE  TypeInv'
  BY <1>1, MovesType DEF TypeInv
<1>2. \A r \in Requests : req[r].at # "idle" => up
  BY DEF TypeInv, Idle
<1>3. ASSUME NEW r \in Requests, PublishLink(r) PROVE TypeInv'
  <2>1. Shape(req[r]) /\ Published(req[r]) /\ up
    BY <1>2, <1>3 DEF TypeInv, PublishLink, At, Published
  <2>2. CASE ~Exists(req[r].file)
    <3>1. Moves(r, [req[r] EXCEPT !.at = "sync"])
      BY <1>3, <2>1, <2>2, GotoShape DEF PublishLink, Goto, Moves, At
    <3>2. Sound(fs')
      BY <1>3, <2>1, <2>2, LinkSound DEF PublishLink, TypeInv
    <3> QED
      BY <1>3, <2>1, <2>2, <3>1, <3>2, MovesType DEF PublishLink, TypeInv
  <2>3. CASE Exists(req[r].file)
    BY <1>1, <1>3, <2>1, <2>3, EndType DEF PublishLink, TypeInv
  <2> QED
    BY <2>2, <2>3
<1>4. ASSUME NEW r \in Requests, PublishSync(r) PROVE TypeInv'
  <2>1. Shape(req[r]) /\ Published(req[r]) /\ up
    BY <1>2, <1>4 DEF TypeInv, PublishSync, At, Published
  <2>2. disk' = fs /\ window' = FALSE
    BY <1>4 DEF PublishSync, Secure
  <2>3. /\ lock' \in [Keys -> Requests \cup {None}]
        /\ \E q : Moves(r, q)
    <3>1. CASE req[r].next = "idle"
      BY <1>4, <3>1, EndType DEF PublishSync
    <3>2. CASE req[r].next \in {"object", "grant"}
      <4>1. req[r].adm \in Admissions /\ req[r].obj = req[r].adm.obj
        BY <2>1, <3>2 DEF Shape, Admitting
      <4> QED
        BY <1>4, <3>2, <4>1, RunningShape, AdmissionType DEF PublishSync, Moves, TypeInv
    <3>3. CASE req[r].next = "remove"
      <4>1. req[r].obj \in Objects /\ req[r].adm \in Admissions \cup {None}
        BY <2>1, <3>3, ShapeFields DEF Shape, Reclaiming
      <4>2. Shape(Running(req[r].obj, req[r].adm, "remove"))
        BY <4>1 DEF Shape, Fields, Running, Admitting, Putting, Reclaiming, Published, Places, Values
      <4> QED
        BY <1>4, <3>3, <4>2 DEF PublishSync, Moves, TypeInv
    <3> QED
      BY <2>1, <3>1, <3>2, <3>3, ShapeFields
  <2>4. window' \in BOOLEAN
    BY <2>2, Zenon
  <2> QED
    BY <1>4, <2>1, <2>2, <2>3, <2>4, MovesType DEF PublishSync, TypeInv
<1>5. ASSUME NEW r \in Requests, PublishSyncFails(r) PROVE TypeInv'
  <2>1. window' \in BOOLEAN
    BY <1>5, Zenon DEF PublishSyncFails
  <2> QED
    BY <1>1, <1>2, <1>5, <2>1, EndType DEF PublishSyncFails, At, TypeInv
<1>6. ASSUME NEW r \in Requests, Cancel(r) PROVE TypeInv'
  <2>1. window' \in BOOLEAN
    BY <1>6, Zenon DEF Cancel, TypeInv
  <2>2. \A j \in detached' : ~j.part
    BY <1>6 DEF Cancel, Detached, TypeInv
  <2>3. up
    BY <1>6 DEF Cancel, TypeInv
  <2> QED
    BY <1>1, <1>6, <2>1, <2>2, <2>3, EndType DEF Cancel, TypeInv
<1>7. ASSUME NEW r \in Requests, NEW k \in Keys, NEW q, Begin(r, k, q), Shape(q),
             UNCHANGED <<up, files, detached, history, window>>
      PROVE  TypeInv'
  BY <1>1, <1>7, AcquireType DEF Begin, Moves, TypeInv
<1>8. ASSUME NEW r \in Requests, NEW a \in Admissions, Admit(r, a) PROVE TypeInv'
  <2>1. Shape(Running(a.obj, a, "lock")) /\ a.op \in Keys
    BY RunningShape, AdmissionType DEF Keys
  <2> QED
    BY <1>7, <1>8, <2>1 DEF Admit
<1>9. ASSUME NEW r \in Requests, AdmitLock(r) PROVE TypeInv'
  <2>1. Shape(req[r]) /\ req[r].obj \in Keys /\ up
    BY <1>2, <1>9, AdmissionType DEF AdmitLock, At, TypeInv, Shape, Admitting, Keys
  <2>2. Moves(r, [req[r] EXCEPT !.at = "operation"])
    BY <1>9, <2>1, GotoShape DEF AdmitLock, At, Goto, Moves
  <2> QED
    BY <1>1, <1>9, <2>1, <2>2, AcquireType DEF AdmitLock, TypeInv
<1>10. ASSUME NEW r \in Requests, AdmitTimeout(r) PROVE TypeInv'
  BY <1>1, <1>2, <1>10, EndType DEF AdmitTimeout, At, TypeInv
<1>11. ASSUME NEW r \in Requests, AdmitOperation(r) PROVE TypeInv'
  BY <1>1, <1>2, <1>11, RecordOnceType, EndType, Zenon DEF AdmitOperation, At, TypeInv
<1>12. ASSUME NEW r \in Requests, AdmitObject(r) PROVE TypeInv'
  <2>1. up /\ (End(r) \/ RecordOnce(r, Json(req[r].obj), "grant"))
    BY <1>2, <1>12 DEF AdmitObject, At
  <2> QED
    BY <1>1, <1>12, <2>1, RecordOnceType, EndType, Zenon DEF AdmitObject, At, TypeInv
<1>13. ASSUME NEW r \in Requests, AdmitGrant(r) PROVE TypeInv'
  <2>1. req[r].adm \in Admissions /\ up
    BY <1>2, <1>13 DEF AdmitGrant, At, TypeInv, Shape, Admitting
  <2> QED
    BY <1>1, <1>13, <2>1, EndType DEF AdmitGrant, TypeInv
<1>14. ASSUME NEW r \in Requests, NEW o \in Objects, PutBytes(r, o) PROVE TypeInv'
  <2>1. fs[Json(o)] \in Admissions
    BY <1>14 DEF PutBytes, Live, Exists, TypeInv, Sound
  <2>2. Shape(Running(o, fs[Json(o)], "stream"))
    BY <2>1, RunningShape
  <2> QED
    BY <1>7, <1>14, <2>2 DEF PutBytes, Keys
<1>15. ASSUME NEW r \in Requests, NEW body \in Hashes, PutPublish(r, body) PROVE TypeInv'
  <2>1. req[r].adm \in Admissions /\ req[r].obj \in Objects /\ up
    BY <1>2, <1>15 DEF PutPublish, At, TypeInv, Shape, Putting
  <2>2. CASE BodyVerified(r, body)
    <3>1. Moves(r, Publishing(req[r].obj, req[r].adm, Data(req[r].obj), body, "idle"))
      BY <1>15, <2>1, <2>2, PublishingShape DEF PutPublish, BodyVerified, Moves, TypeInv
    <3> QED
      BY <1>1, <1>15, <2>1, <2>2, <3>1 DEF PutPublish, TypeInv
  <2>3. CASE ~BodyVerified(r, body)
    BY <1>1, <1>15, <2>1, <2>3, EndType DEF PutPublish, TypeInv
  <2> QED
    BY <2>2, <2>3
<1>16. ASSUME NEW r \in Requests, NEW o \in Objects, Reclaim(r, o) PROVE TypeInv'
  <2> DEFINE q == IF Exists(Tombstone(o)) THEN Running(o, None, "remove")
                  ELSE Publishing(o, None, Tombstone(o), "cancelled", "remove")
  <2>1. Shape(q)
    <3>1. Shape(Running(o, None, "remove"))
      BY DEF Shape, Fields, Running, Admitting, Putting, Reclaiming, Published, Places, Values
    <3>2. Shape(Publishing(o, None, Tombstone(o), "cancelled", "remove"))
      BY InFiles DEF Shape, Fields, Publishing, Admitting, Putting, Reclaiming, Published, Places, Values
    <3> QED
      BY <3>1, <3>2
  <2> HIDE DEF q
  <2> QED
    BY <1>7, <1>16, <2>1 DEF Reclaim, Keys, q
<1>17. ASSUME NEW r \in Requests, ReclaimRemove(r) PROVE TypeInv'
  <2>1. req[r].obj \in Objects /\ up
    BY <1>2, <1>17 DEF ReclaimRemove, At, TypeInv, Shape, Reclaiming
  <2>2. Sound(fs')
    BY <1>17, <2>1, RemoveSound, Zenon DEF ReclaimRemove, TypeInv
  <2> QED
    BY <1>17, <2>1, <2>2, EndType, MovesType DEF ReclaimRemove, TypeInv
<1>18. ASSUME NEW o \in Objects, Verify(o) PROVE TypeInv'
  BY <1>18 DEF Verify, TypeInv
<1>19. ASSUME NEW j \in detached, DetachedLink(j) PROVE TypeInv'
  BY <1>19 DEF DetachedLink, TypeInv
<1>20. ASSUME NEW j \in detached, DetachedSync(j) PROVE TypeInv'
  <2>1. window' \in BOOLEAN
    BY <1>20, Zenon DEF DetachedSync, Secure
  <2> QED
    BY <1>20, <2>1 DEF DetachedSync, Secure, TypeInv
<1>21. ASSUME NEW a \in Admissions, Expire(a) PROVE TypeInv'
  BY <1>21 DEF Expire, TypeInv
<1>22. ASSUME Died, Sound(fs'), Sound(disk'), window' \in BOOLEAN, exposed' \in BOOLEAN,
              UNCHANGED <<granted, receipts, reclaimed>>
       PROVE  TypeInv'
  <2>1. up' \in BOOLEAN
    BY <1>22, Zenon DEF Died
  <2>2. lock' \in [Keys -> Requests \cup {None}]
    BY <1>22 DEF Died, TypeInv
  <2> QED
    BY <1>22, <2>1, <2>2, IdleShape DEF Died, TypeInv
<1>23. CASE Crash
  BY <1>22, <1>23 DEF Crash, TypeInv
<1>24. CASE PowerLoss
  <2>1. window' \in BOOLEAN /\ exposed' \in BOOLEAN
    BY <1>24, Zenon DEF PowerLoss, TypeInv
  <2>2. fs' \in [Files -> Values] /\ \A f \in Files : fs'[f] \in {fs[f], disk[f]}
    BY <1>24 DEF PowerLoss, TypeInv, Sound
  <2>3. Sound(fs')
    BY <2>2, InFiles DEF TypeInv, Sound
  <2> QED
    BY <1>22, <1>24, <2>1, <2>3 DEF PowerLoss
<1>25. CASE StoreOpen
  <2>1. up' \in BOOLEAN /\ window' \in BOOLEAN
    BY <1>25, Zenon DEF StoreOpen, Secure
  <2> QED
    BY <1>25, <2>1 DEF StoreOpen, Secure, TypeInv
<1>26. CASE UNCHANGED vars
  BY <1>26 DEF vars, TypeInv
<1> QED
  BY <1>3, <1>4, <1>5, <1>6, <1>8, <1>9, <1>10, <1>11, <1>12, <1>13, <1>14, <1>15, <1>16,
     <1>17, <1>18, <1>19, <1>20, <1>21, <1>23, <1>24, <1>25, <1>26 DEF Next, Step

-----------------------------------------------------------------------------
(* Locks.                                                                  *)

LEMMA HeldKeys ==
    ASSUME TypeInv, NEW r \in Requests
    PROVE  /\ req[r].at \notin {"idle", "lock"} => req[r].obj \in Objects /\ req[r].obj \in Keys
           /\ Admitting(req[r]) => req[r].adm.op \in Keys /\ req[r].obj \in Keys
<1>1. Shape(req[r])
  BY DEF TypeInv
<1>2. req[r].at \notin {"idle", "lock"} =>
          Admitting(req[r]) \/ Putting(req[r]) \/ Reclaiming(req[r])
  BY <1>1, ShapeFields DEF Places, Admitting, Putting, Reclaiming, Published
<1> QED
  BY <1>1, <1>2, AdmissionType DEF Shape, Keys

\* A lock is held by a request that is under way.
LocksLive == \A k \in Keys : lock[k] # None => req[lock[k]].at # "idle"

LEMMA LocksStep == TypeInv /\ LocksLive /\ [Next]_vars => LocksLive'
<1> SUFFICES ASSUME TypeInv, LocksLive, [Next]_vars PROVE LocksLive'
  OBVIOUS
<1>0. /\ lock \in [Keys -> Requests \cup {None}]
      /\ \A r \in Requests : Shape(req[r]) /\ (req[r].at = "idle" \/ req[r].at # "idle")
  BY DEF TypeInv
<1>1. ASSUME NEW r \in Requests, End(r) PROVE LocksLive'
  <2>1. /\ \A k \in Keys : lock'[k] = IF lock[k] = r THEN None ELSE lock[k]
        /\ \A u \in Requests \ {r} : req'[u] = req[u]
    BY <1>1, EndType, MovesType
  <2> QED
    BY <1>0, <2>1 DEF LocksLive
<1>2. ASSUME NEW r \in Requests, NEW q, Moves(r, q), q.at # "idle",
             UNCHANGED lock \/ \E k \in Keys : Acquire(r, k)
      PROVE  LocksLive'
  <2>1. req'[r] = q /\ \A u \in Requests \ {r} : req'[u] = req[u]
    BY <1>2, MovesType
  <2>2. \A k \in Keys : lock'[k] \in {lock[k], r}
    BY <1>0, <1>2, AcquireType
  <2> QED
    BY <1>0, <1>2, <2>1, <2>2 DEF LocksLive
<1>3. ASSUME NEW r \in Requests, PublishLink(r) PROVE LocksLive'
  <2>1. CASE ~Exists(req[r].file)
    <3>1. Moves(r, [req[r] EXCEPT !.at = "sync"]) /\ UNCHANGED lock
      BY <1>0, <1>3, <2>1, GotoShape DEF PublishLink, Goto, Moves, At
    <3> QED
      BY <1>0, <1>2, <3>1 DEF Shape, Fields
  <2> QED
    BY <1>1, <1>3, <2>1 DEF PublishLink
<1>4. ASSUME NEW r \in Requests, PublishSync(r) PROVE LocksLive'
  <2>1. CASE req[r].next # "idle"
    <3> DEFINE q == Running(req[r].obj, req[r].adm, req[r].next)
    <3>1. req' = [req EXCEPT ![r] = q] /\ UNCHANGED lock /\ q.at # "idle"
      BY <1>4, <2>1 DEF PublishSync, Running
    <3> HIDE DEF q
    <3>2. Moves(r, q)
      BY <3>1, TypeStep DEF Moves, TypeInv
    <3> QED
      BY <1>2, <3>1, <3>2
  <2> QED
    BY <1>1, <1>4, <2>1 DEF PublishSync
<1>5. ASSUME NEW r \in Requests, AdmitLock(r) PROVE LocksLive'
  <2>1. Moves(r, [req[r] EXCEPT !.at = "operation"]) /\ Acquire(r, req[r].obj)
    BY <1>0, <1>5, GotoShape DEF AdmitLock, Goto, Moves, At
  <2>2. req[r].obj \in Keys
    BY <1>5, HeldKeys DEF AdmitLock, At, Admitting
  <2> QED
    BY <1>0, <1>2, <2>1, <2>2 DEF Shape, Fields
<1>6. ASSUME NEW r \in Requests, AdmitOperation(r) \/ AdmitObject(r) PROVE LocksLive'
  <2> DEFINE Recording(file, next) ==
          /\ RecordOnce(r, file, next)
          /\ \/ At(r, "operation") /\ file = Operation(req[r].adm.op) /\ next = "object"
             \/ At(r, "object") /\ file = Json(req[r].obj) /\ next = "grant"
  <2>1. ASSUME NEW file, NEW next, Recording(file, next) PROVE LocksLive'
    <3>1. Publishing(req[r].obj, req[r].adm, file, req[r].adm, next).at # "idle"
      BY DEF Publishing
    <3>2. next # "idle" /\ [req[r] EXCEPT !.at = next].at = next
      BY <1>0, <2>1 DEF Shape, Fields
    <3> QED
      BY <1>1, <1>2, <2>1, <3>1, <3>2, RecordOnceType, Zenon
  <2>2. End(r) \/ \E file, next : Recording(file, next)
    BY <1>6 DEF AdmitOperation, AdmitObject
  <2> HIDE DEF Recording
  <2> QED
    BY <1>1, <2>1, <2>2
<1>7. ASSUME NEW r \in Requests, NEW body \in Hashes, PutPublish(r, body) PROVE LocksLive'
  <2>1. CASE BodyVerified(r, body)
    <3> DEFINE q == Publishing(req[r].obj, req[r].adm, Data(req[r].obj), body, "idle")
    <3>1. req' = [req EXCEPT ![r] = q] /\ UNCHANGED lock /\ q.at # "idle"
      BY <1>7, <2>1 DEF PutPublish, Publishing
    <3> HIDE DEF q
    <3>2. Moves(r, q)
      BY <3>1, TypeStep DEF Moves, TypeInv
    <3> QED
      BY <1>2, <3>1, <3>2
  <2> QED
    BY <1>1, <1>7, <2>1 DEF PutPublish
<1>8. ASSUME NEW r \in Requests, NEW k \in Keys, NEW q, Begin(r, k, q), q.at # "idle" PROVE LocksLive'
  <2>1. Moves(r, q)
    BY <1>8, TypeStep DEF Begin, Moves, TypeInv
  <2> QED
    BY <1>2, <1>8, <2>1 DEF Begin
<1>9. ASSUME NEW r \in Requests, NEW a \in Admissions, Admit(r, a) PROVE LocksLive'
  BY <1>8, <1>9, AdmissionType DEF Admit, Running, Keys
<1>10. ASSUME NEW r \in Requests, NEW o \in Objects, PutBytes(r, o) \/ Reclaim(r, o) PROVE LocksLive'
  BY <1>8, <1>10 DEF PutBytes, Reclaim, Running, Publishing, Keys
<1>11. CASE Died
  BY <1>0, <1>11 DEF Died, LocksLive
<1>12. CASE UNCHANGED <<lock, req>>
  BY <1>12 DEF LocksLive
<1> QED
  <2>1. ASSUME NEW r \in Requests, Step(r) PROVE LocksLive'
    BY <1>1, <1>3, <1>4, <1>5, <1>6, <1>7, <2>1
    DEF Step, PublishSyncFails, Cancel, AdmitTimeout, AdmitGrant, ReclaimRemove
  <2>2. CASE Crash \/ PowerLoss
    BY <1>11, <2>2 DEF Crash, PowerLoss
  <2> QED
    BY <1>9, <1>10, <1>12, <2>1, <2>2
    DEF Next, Verify, DetachedLink, DetachedSync, Expire, StoreOpen, vars

\* The shape of the storage root; and a guard of Store::lock is never left
\* behind by a request that ended, was dropped or died with the process.
THEOREM TypeCorrect == Spec => []TypeOK
<1>1. Init => LocksLive
  BY DEF Init, LocksLive, Keys
<1>2. TypeInv /\ LocksLive => TypeOK
  <2> SUFFICES ASSUME TypeInv, LocksLive PROVE TypeOK
    OBVIOUS
  <2>1. /\ DOMAIN fs = Files /\ DOMAIN disk = Files
        /\ \A i \in Operations : fs[Operation(i)] \in Admissions \cup {None}
        /\ \A o \in Objects : /\ fs[Json(o)] \in Admissions \cup {None}
                              /\ fs[Data(o)] \in Hashes \cup {None}
    BY DEF TypeInv, Sound
  <2>2. ASSUME NEW k \in DOMAIN lock, lock[k] # None PROVE up /\ req[lock[k]] # Idle
    <3>1. k \in Keys /\ lock[k] \in Requests
      BY <2>2 DEF TypeInv
    <3>2. req[lock[k]] # Idle
      BY <2>2, <3>1 DEF LocksLive, Idle
    <3> QED
      BY <3>1, <3>2 DEF TypeInv
  <2> QED
    BY <2>1, <2>2 DEF TypeOK
<1> QED
  BY <1>1, <1>2, InitType, TypeStep, LocksStep, PTL DEF Spec

-----------------------------------------------------------------------------
(* What a request holds, and what it may rely on while it holds it.        *)

Held(r) ==
    /\ req[r].at \notin {"idle", "lock"} => lock[req[r].obj] = r
    /\ Admitting(req[r]) => lock[req[r].adm.op] = r

Seen(r) ==
    LET q == req[r]
    IN  /\ q.at = "sync" => fs[q.file] = q.value
        /\ q.at \in {"object", "grant"} \/ (Published(q) /\ q.next = "grant")
              => fs[Operation(q.adm.op)] = q.adm
        /\ q.at = "grant" => fs[Json(q.obj)] = q.adm
        /\ Putting(q) => fs[Json(q.obj)] = q.adm /\ ~Exists(Tombstone(q.obj))
        /\ q.at = "remove" => Exists(Tombstone(q.obj))

RequestInv == TypeInv /\ \A r \in Requests : Held(r) /\ Seen(r)

\* All that the step of a request can do to the files.
LinkStep(r) ==
    /\ At(r, "publish") /\ ~Exists(req[r].file)
    /\ fs' = [fs EXCEPT ![req[r].file] = req[r].value]
RemoveStep(r) == At(r, "remove") /\ fs' = [fs EXCEPT ![Data(req[r].obj)] = None]

LEMMA LinkKeeps ==
    ASSUME TypeInv, NEW r \in Requests, LinkStep(r)
    PROVE  /\ req[r].file \in Files /\ fs'[req[r].file] = req[r].value /\ req[r].value # None
           /\ \A f \in Files : Exists(f) => fs'[f] = fs[f]
           /\ \A f \in Files : f # req[r].file => fs'[f] = fs[f]
<1>1. Shape(req[r]) /\ Published(req[r]) /\ fs \in [Files -> Values]
  BY DEF TypeInv, Sound, LinkStep, At, Published
<1> QED
  BY <1>1, LinkSound, Zenon DEF LinkStep, Exists, TypeInv

LEMMA RemoveKeeps ==
    ASSUME TypeInv, NEW r \in Requests, RemoveStep(r)
    PROVE  /\ req[r].obj \in Objects /\ fs'[Data(req[r].obj)] = None
           /\ \A f \in Files : f # Data(req[r].obj) => fs'[f] = fs[f]
<1>1. req[r].obj \in Objects /\ fs \in [Files -> Values]
  BY DEF TypeInv, Sound, Shape, RemoveStep, At, Reclaiming
<1> QED
  BY <1>1, InFiles DEF RemoveStep

\* The files that a request relies on exist as names.
LEMMA SeenFiles ==
    ASSUME TypeInv, NEW r \in Requests
    PROVE  /\ Admitting(req[r]) => /\ req[r].adm \in Admissions /\ req[r].adm # None
                                   /\ req[r].obj \in Objects
                                   /\ Operation(req[r].adm.op) \in Files
                                   /\ Json(req[r].obj) \in Files
           /\ Putting(req[r]) => /\ req[r].adm \in Admissions /\ req[r].adm # None
                                 /\ Json(req[r].obj) \in Files
                                 /\ Tombstone(req[r].obj) \in Files
           /\ Reclaiming(req[r]) => Tombstone(req[r].obj) \in Files
           /\ Published(req[r]) => req[r].file \in Files /\ req[r].value # None
<1>1. Shape(req[r])
  BY DEF TypeInv
<1>2. Published(req[r]) => req[r].file \in Files /\ req[r].value # None
  BY <1>1, LinkSound, Zenon DEF TypeInv
<1> QED
  BY <1>1, <1>2, AdmissionType, InFiles DEF Shape, Fields

LEMMA LinkedByOther ==
    ASSUME RequestInv, NEW r \in Requests, NEW u \in Requests, u # r, LinkStep(r), req'[u] = req[u]
    PROVE  Seen(u)'
<1> DEFINE q == req[u]
<1> USE DEF RequestInv
<1>1. \A f \in Files : Exists(f) => fs'[f] = fs[f]
  BY LinkKeeps
<1>2. q.at = "sync" => fs'[q.file] = q.value
  BY <1>1, SeenFiles DEF Seen, Exists, Published
<1>3. q.at \in {"object", "grant"} \/ (Published(q) /\ q.next = "grant")
          => fs'[Operation(q.adm.op)] = q.adm
  BY <1>1, SeenFiles DEF Seen, Exists, Admitting
<1>4. q.at = "grant" => fs'[Json(q.obj)] = q.adm
  BY <1>1, SeenFiles DEF Seen, Exists, Admitting
<1>5. q.at = "remove" => fs'[Tombstone(q.obj)] # None
  BY <1>1, SeenFiles DEF Seen, Exists, Reclaiming
<1>6. ASSUME Putting(q) PROVE fs'[Json(q.obj)] = q.adm /\ fs'[Tombstone(q.obj)] = None
  <2>1. fs'[Json(q.obj)] = q.adm
    BY <1>1, <1>6, SeenFiles DEF Seen, Exists
  <2>2. lock[q.obj] = u /\ lock[req[r].obj] = r
    BY <1>6 DEF Held, Putting, Published, LinkStep, At
  <2>3. req[r].file # Tombstone(q.obj)
    <3>1. Shape(req[r]) /\ Published(req[r])
      BY DEF TypeInv, LinkStep, At, Published
    <3> QED
      BY <2>2, <3>1, Names, ShapeFields DEF Shape
  <2> QED
    BY <1>6, <2>1, <2>3, LinkKeeps, SeenFiles DEF Seen, Exists
<1> QED
  BY <1>2, <1>3, <1>4, <1>5, <1>6 DEF Seen, Exists

LEMMA RemovedByOther ==
    ASSUME RequestInv, NEW r \in Requests, NEW u \in Requests, u # r, RemoveStep(r), req'[u] = req[u]
    PROVE  Seen(u)'
<1> DEFINE q == req[u]
<1> USE DEF RequestInv
<1>1. /\ \A x : Operation(x) \in Files => fs'[Operation(x)] = fs[Operation(x)]
      /\ \A x : Json(x) \in Files => fs'[Json(x)] = fs[Json(x)]
      /\ \A x : Tombstone(x) \in Files => fs'[Tombstone(x)] = fs[Tombstone(x)]
  BY RemoveKeeps, Names
<1>2. ASSUME q.at = "sync" PROVE fs'[q.file] = q.value
  <2>1. lock[q.obj] = u /\ lock[req[r].obj] = r
    BY <1>2 DEF Held, RemoveStep, At
  <2>2. Shape(q) /\ Published(q)
    BY <1>2 DEF TypeInv, Published
  <2>3. q.file # Data(req[r].obj)
    BY <2>1, <2>2, Names, ShapeFields DEF Shape
  <2> QED
    BY <1>2, <2>2, <2>3, RemoveKeeps, SeenFiles DEF Seen
<1> QED
  BY <1>1, <1>2, SeenFiles DEF Seen, Exists, Admitting, Putting, Reclaiming, Published

\* A step of r, for the requests other than r.
LEMMA OneMoves ==
    ASSUME RequestInv, NEW r \in Requests, NEW q, Moves(r, q),
           fs' = fs \/ LinkStep(r) \/ RemoveStep(r),
           \A k \in Keys : lock[k] \in Requests \ {r} => lock'[k] = lock[k],
           Held(r)', Seen(r)'
    PROVE  \A u \in Requests : Held(u)' /\ Seen(u)'
<1> SUFFICES ASSUME NEW u \in Requests, u # r PROVE Held(u)' /\ Seen(u)'
  OBVIOUS
<1>1. req'[u] = req[u] /\ TypeInv
  BY MovesType DEF RequestInv
<1>2. Held(u)'
  BY <1>1, HeldKeys DEF RequestInv, Held
<1>3. CASE fs' = fs
  BY <1>1, <1>2, <1>3 DEF RequestInv, Seen, Exists
<1> QED
  BY <1>1, <1>2, <1>3, LinkedByOther, RemovedByOther

LEMMA EndKeeps ==
    ASSUME RequestInv, NEW r \in Requests, End(r), fs' = fs \/ LinkStep(r) \/ RemoveStep(r)
    PROVE  \A u \in Requests : Held(u)' /\ Seen(u)'
<1>1. Moves(r, Idle) /\ \A k \in Keys : lock[k] \in Requests \ {r} => lock'[k] = lock[k]
  BY EndType DEF RequestInv
<1>2. req'[r] = Idle
  BY <1>1, MovesType DEF RequestInv
<1>3. Held(r)' /\ Seen(r)'
  BY <1>2, IdleShape DEF Held, Seen
<1> QED
  BY <1>1, <1>3, OneMoves

LEMMA BeginKeeps ==
    ASSUME RequestInv, NEW r \in Requests, NEW k \in Keys, NEW q, Begin(r, k, q), Shape(q),
           UNCHANGED fs, Seen(r)',
           q.at \notin {"idle", "lock"} => q.obj = k,
           Admitting(q) => q.adm.op = k
    PROVE  \A u \in Requests : Held(u)' /\ Seen(u)'
<1>1. Moves(r, q) /\ req'[r] = q
  BY MovesType DEF Begin, Moves, RequestInv, TypeInv
<1>2. /\ lock'[k] = r
      /\ \A x \in Keys : lock[x] \in Requests \ {r} => lock'[x] = lock[x]
  BY AcquireType, CustodyAssumption DEF Begin, RequestInv
<1>3. Held(r)'
  BY <1>1, <1>2 DEF Held
<1> QED
  BY <1>1, <1>2, <1>3, OneMoves

\* A request that goes on with the locks it has.
LEMMA MoveKeeps ==
    ASSUME RequestInv, NEW r \in Requests, NEW q, Moves(r, q), UNCHANGED lock,
           fs' = fs \/ LinkStep(r), Seen(r)',
           req[r].at \notin {"idle", "lock"}, q.obj = req[r].obj,
           Admitting(q) => Admitting(req[r]) /\ q.adm = req[r].adm
    PROVE  \A u \in Requests : Held(u)' /\ Seen(u)'
<1>1. req'[r] = q
  BY MovesType DEF RequestInv
<1>2. Held(r)'
  BY <1>1 DEF Held, RequestInv
<1> QED
  BY <1>2, OneMoves

LEMMA RecordOnceKeeps ==
    ASSUME RequestInv, NEW r \in Requests, NEW file, NEW next, RecordOnce(r, file, next),
           UNCHANGED fs,
           \/ At(r, "operation") /\ file = Operation(req[r].adm.op) /\ next = "object"
           \/ At(r, "object") /\ file = Json(req[r].obj) /\ next = "grant"
    PROVE  \A u \in Requests : Held(u)' /\ Seen(u)'
<1> DEFINE p == Publishing(req[r].obj, req[r].adm, file, req[r].adm, next)
           g == [req[r] EXCEPT !.at = next]
<1>1. Admitting(req[r]) /\ req[r].at \notin {"idle", "lock"} /\ Shape(req[r]) /\ TypeInv
  BY DEF Admitting, At, RequestInv, TypeInv
<1>2. /\ g.at = next /\ g.obj = req[r].obj /\ g.adm = req[r].adm
      /\ Admitting(g) /\ ~Putting(g) /\ ~Reclaiming(g) /\ ~Published(g)
  BY <1>1 DEF Shape, Fields, Admitting, Putting, Reclaiming, Published, Places
<1>3. /\ p.at = "publish" /\ p.next = next /\ p.obj = req[r].obj /\ p.adm = req[r].adm
      /\ Admitting(p) /\ ~Putting(p) /\ ~Reclaiming(p)
  BY DEF Publishing, Admitting, Putting, Reclaiming, Published
<1> HIDE DEF p, g
<1>4. CASE Moves(r, p) /\ UNCHANGED lock
  <2>1. req'[r] = p
    BY <1>1, <1>4, MovesType
  <2>2. Seen(r)'
    BY <1>3, <2>1 DEF Seen, RequestInv, At, Exists
  <2> QED
    BY <1>1, <1>3, <1>4, <2>2, MoveKeeps
<1>5. CASE Moves(r, g) /\ UNCHANGED lock /\ fs[file] = req[r].adm
  <2>1. req'[r] = g
    BY <1>1, <1>5, MovesType
  <2>2. Seen(r)'
    BY <1>2, <1>5, <2>1 DEF Seen, RequestInv, At, Exists
  <2> QED
    BY <1>1, <1>2, <1>5, <2>2, MoveKeeps
<1> QED
  BY <1>1, <1>4, <1>5, RecordOnceType, EndKeeps DEF p, g

LEMMA RequestStep == RequestInv /\ [Next]_vars => RequestInv'
<1> SUFFICES ASSUME RequestInv, [Next]_vars PROVE \A u \in Requests : Held(u)' /\ Seen(u)'
  BY TypeStep DEF RequestInv
<1> DEFINE Goal == \A u \in Requests : Held(u)' /\ Seen(u)'
<1>0. TypeInv /\ \A r \in Requests : Shape(req[r]) /\ Held(r) /\ Seen(r)
  BY DEF RequestInv, TypeInv
<1> USE DEF files, history
<1>1. ASSUME NEW r \in Requests, PublishLink(r) PROVE Goal
  <2>1. CASE Exists(req[r].file)
    BY <1>1, <2>1, EndKeeps DEF PublishLink
  <2>2. CASE ~Exists(req[r].file)
    <3> DEFINE q == [req[r] EXCEPT !.at = "sync"]
    <3>1. LinkStep(r) /\ Moves(r, q) /\ UNCHANGED lock /\ At(r, "publish")
      BY <1>0, <1>1, <2>2, GotoShape DEF PublishLink, LinkStep, Goto, Moves, At
    <3>2. /\ q.at = "sync" /\ q.obj = req[r].obj /\ q.adm = req[r].adm /\ q.next = req[r].next
          /\ q.file = req[r].file /\ q.value = req[r].value
      BY <1>0 DEF Shape, Fields
    <3>3. Admitting(q) => Admitting(req[r])
      BY <3>1, <3>2 DEF Admitting, Published, At
    <3>4. req'[r] = q
      BY <1>0, <3>1, MovesType
    <3> HIDE DEF q
    <3>5. fs'[q.file] = q.value
      BY <1>0, <3>1, <3>2, LinkKeeps
    <3>6. ASSUME Published(q), q.next = "grant" PROVE fs'[Operation(q.adm.op)] = q.adm
      <4>1. Admitting(req[r]) /\ fs[Operation(req[r].adm.op)] = req[r].adm
        BY <1>0, <3>1, <3>2, <3>6, Zenon DEF Seen, Admitting, Published, At
      <4> QED
        BY <1>0, <3>1, <3>2, <4>1, LinkKeeps, SeenFiles DEF Exists
    <3>7. ASSUME Putting(q) PROVE fs'[Json(q.obj)] = q.adm /\ fs'[Tombstone(q.obj)] = None
      <4>1. Putting(req[r]) /\ Published(req[r]) /\ req[r].next = "idle"
        BY <3>1, <3>2, <3>7 DEF Putting, Published, At
      <4>2. /\ fs[Json(req[r].obj)] = req[r].adm /\ fs[Tombstone(req[r].obj)] = None
            /\ req[r].file = Data(req[r].obj)
        BY <1>0, <4>1 DEF Seen, Exists, Shape
      <4> QED
        <5>1. /\ Json(req[r].obj) \in Files /\ Json(req[r].obj) # req[r].file
              /\ Tombstone(req[r].obj) \in Files /\ Tombstone(req[r].obj) # req[r].file
          BY <1>0, <4>1, <4>2, SeenFiles, Names
        <5>2. \A f \in Files : f # req[r].file => fs'[f] = fs[f]
          BY <1>0, <3>1, LinkKeeps
        <5> QED
          BY <3>2, <4>2, <5>1, <5>2
    <3>8. Seen(r)'
      BY <3>2, <3>4, <3>5, <3>6, <3>7 DEF Seen, Exists
    <3> QED
      BY <3>1, <3>2, <3>3, <3>8, MoveKeeps DEF At
  <2> QED
    BY <2>1, <2>2
<1>2. ASSUME NEW r \in Requests, PublishSync(r) PROVE Goal
  <2>1. CASE req[r].next = "idle"
    BY <1>2, <2>1, EndKeeps DEF PublishSync
  <2>2. CASE req[r].next # "idle"
    <3> DEFINE q == Running(req[r].obj, req[r].adm, req[r].next)
    <3>1. /\ At(r, "sync") /\ Published(req[r]) /\ UNCHANGED <<fs, lock>>
          /\ req' = [req EXCEPT ![r] = q]
      BY <1>2, <2>2 DEF PublishSync, At, Published
    <3>s. Shape(req[r]) /\ Seen(r)
      BY <1>0
    <3>2. req[r].next \in {"object", "grant", "remove"} /\ fs[req[r].file] = req[r].value
      BY <2>2, <3>1, <3>s, ShapeFields DEF Seen, At
    <3>3. /\ q.at = req[r].next /\ q.obj = req[r].obj /\ q.adm = req[r].adm
          /\ ~Published(q) /\ ~Putting(q)
          /\ Admitting(q) => Admitting(req[r])
      BY <3>1, <3>2 DEF Running, Admitting, Putting, Published
    <3>4. TypeInv'
      BY <1>0, TypeStep
    <3>5. req'[r] = q /\ Moves(r, q)
      BY <1>0, <3>1, <3>4 DEF TypeInv, Moves
    <3> HIDE DEF q
    <3>6. Seen(r)'
      <4>1. CASE req[r].next = "object"
        <5>1. fs[Operation(q.adm.op)] = q.adm
          BY <3>1, <3>2, <3>3, <3>s, <4>1 DEF Shape
        <5> QED
          BY <3>1, <3>3, <3>5, <4>1, <5>1 DEF Seen
      <4>2. CASE req[r].next = "grant"
        <5>1. fs[Json(q.obj)] = q.adm /\ fs[Operation(q.adm.op)] = q.adm
          BY <3>1, <3>2, <3>3, <3>s, <4>2 DEF Shape, Seen
        <5> QED
          BY <3>1, <3>3, <3>5, <4>2, <5>1 DEF Seen
      <4>3. CASE req[r].next = "remove"
        <5>1. fs[Tombstone(q.obj)] # None
          BY <3>1, <3>2, <3>3, <3>s, <4>3, CustodyAssumption DEF Shape
        <5> QED
          BY <3>1, <3>3, <3>5, <4>3, <5>1 DEF Seen, Exists
      <4> QED
        BY <3>2, <4>1, <4>2, <4>3
    <3> QED
      BY <3>1, <3>3, <3>5, <3>6, MoveKeeps DEF At
  <2> QED
    BY <2>1, <2>2
<1>3. ASSUME NEW r \in Requests,
             PublishSyncFails(r) \/ Cancel(r) \/ AdmitTimeout(r) \/ AdmitGrant(r)
      PROVE  Goal
  BY <1>3, EndKeeps DEF PublishSyncFails, Cancel, AdmitTimeout, AdmitGrant
<1>4. ASSUME NEW r \in Requests, NEW a \in Admissions, Admit(r, a) PROVE Goal
  <2> DEFINE q == Running(a.obj, a, "lock")
  <2>1. Shape(q) /\ a.op \in Keys
    BY RunningShape, AdmissionType DEF Keys
  <2>2. q.at = "lock" /\ ~Published(q) /\ ~Putting(q) /\ q.adm = a
    BY DEF Running, Published, Putting
  <2> HIDE DEF q
  <2>3. Begin(r, a.op, q) /\ req'[r] = q /\ UNCHANGED fs
    BY <1>0, <1>4 DEF Admit, Begin, TypeInv, q
  <2>4. Seen(r)'
    BY <2>2, <2>3 DEF Seen
  <2> QED
    BY <2>1, <2>2, <2>3, <2>4, BeginKeeps
<1>5. ASSUME NEW r \in Requests, AdmitLock(r) PROVE Goal
  <2> DEFINE q == [req[r] EXCEPT !.at = "operation"]
  <2>1. /\ At(r, "lock") /\ Admitting(req[r]) /\ Acquire(r, req[r].obj) /\ UNCHANGED fs
        /\ Moves(r, q)
    BY <1>0, <1>5, GotoShape DEF AdmitLock, Goto, Moves, At, Admitting
  <2>2. /\ q.at = "operation" /\ q.obj = req[r].obj /\ q.adm = req[r].adm
        /\ ~Published(q) /\ ~Putting(q)
    BY <1>0 DEF Shape, Fields, Published, Putting
  <2> HIDE DEF q
  <2>3. req'[r] = q
    BY <1>0, <2>1, MovesType
  <2>4. Seen(r)'
    BY <2>2, <2>3 DEF Seen
  <2>5. /\ lock'[req[r].obj] = r /\ lock[req[r].obj] = None
        /\ \A x \in Keys \ {req[r].obj} : lock'[x] = lock[x]
    BY <1>0, <2>1, AcquireType, HeldKeys
  <2>6. Held(r)'
    BY <1>0, <2>1, <2>2, <2>3, <2>5, HeldKeys DEF Held
  <2> QED
    BY <2>1, <2>4, <2>5, <2>6, OneMoves, CustodyAssumption
<1>6. ASSUME NEW r \in Requests, AdmitOperation(r) \/ AdmitObject(r) PROVE Goal
  <2>1. CASE AdmitOperation(r)
    BY <2>1, RecordOnceKeeps DEF AdmitOperation
  <2>2. CASE AdmitObject(r)
    BY <2>2, RecordOnceKeeps, EndKeeps DEF AdmitObject
  <2> QED
    BY <1>6, <2>1, <2>2
<1>7. ASSUME NEW r \in Requests, NEW o \in Objects, PutBytes(r, o) PROVE Goal
  <2> DEFINE q == Running(o, fs[Json(o)], "stream")
  <2>1. fs[Json(o)] \in Admissions /\ ~Exists(Tombstone(o)) /\ UNCHANGED fs
    BY <1>0, <1>7 DEF PutBytes, Live, Exists, TypeInv, Sound
  <2>2. Shape(q)
    BY <2>1, RunningShape
  <2>3. /\ q.at = "stream" /\ q.obj = o /\ q.adm = fs[Json(o)]
        /\ ~Published(q) /\ ~Admitting(q)
    BY DEF Running, Published, Admitting
  <2> HIDE DEF q
  <2>4. Begin(r, o, q) /\ req'[r] = q
    BY <1>0, <1>7 DEF PutBytes, Begin, TypeInv, q
  <2>5. Seen(r)'
    BY <2>1, <2>3, <2>4 DEF Seen, Exists
  <2> QED
    BY <2>1, <2>2, <2>3, <2>4, <2>5, BeginKeeps DEF Keys
<1>8. ASSUME NEW r \in Requests, NEW body \in Hashes, PutPublish(r, body) PROVE Goal
  <2>1. CASE ~BodyVerified(r, body)
    BY <1>8, <2>1, EndKeeps DEF PutPublish
  <2>2. CASE BodyVerified(r, body)
    <3> DEFINE q == Publishing(req[r].obj, req[r].adm, Data(req[r].obj), body, "idle")
    <3>1. /\ At(r, "stream") /\ Putting(req[r]) /\ UNCHANGED <<fs, lock>>
          /\ req' = [req EXCEPT ![r] = q]
      BY <1>8, <2>2 DEF PutPublish, At, Putting
    <3>2. req[r].adm \in Admissions /\ req[r].obj \in Objects
      BY <1>0, <3>1 DEF Shape
    <3>3. Moves(r, q)
      BY <2>2, <3>1, <3>2, PublishingShape DEF Moves, BodyVerified
    <3>4. /\ q.at = "publish" /\ q.next = "idle" /\ q.obj = req[r].obj /\ q.adm = req[r].adm
          /\ ~Admitting(q)
      BY DEF Publishing, Admitting, Published
    <3> HIDE DEF q
    <3>5. req'[r] = q
      BY <1>0, <3>3, MovesType
    <3>6. Seen(r)'
      BY <1>0, <3>1, <3>4, <3>5 DEF Seen, Exists
    <3> QED
      BY <3>1, <3>3, <3>4, <3>6, MoveKeeps DEF At
  <2> QED
    BY <2>1, <2>2
<1>9. ASSUME NEW r \in Requests, NEW o \in Objects, Reclaim(r, o) PROVE Goal
  <2> DEFINE q == IF Exists(Tombstone(o)) THEN Running(o, None, "remove")
                  ELSE Publishing(o, None, Tombstone(o), "cancelled", "remove")
  <2>1. /\ q.at \in {"remove", "publish"} /\ q.obj = o
        /\ q.at = "remove" => Exists(Tombstone(o))
        /\ Published(q) => q.next = "remove"
        /\ ~Admitting(q) /\ ~Putting(q)
    BY DEF Running, Publishing, Published, Admitting, Putting
  <2> HIDE DEF q
  <2>2. Begin(r, o, q) /\ req'[r] = q /\ UNCHANGED fs
    BY <1>0, <1>9 DEF Reclaim, Begin, TypeInv, q
  <2>3. Shape(q)
    BY <1>0, <2>2, TypeStep DEF TypeInv
  <2>4. Seen(r)'
    BY <2>1, <2>2 DEF Seen, Exists
  <2> QED
    BY <2>1, <2>2, <2>3, <2>4, BeginKeeps DEF Keys
<1>10. ASSUME NEW r \in Requests, ReclaimRemove(r) PROVE Goal
  BY <1>10, EndKeeps, Zenon DEF ReclaimRemove, RemoveStep
<1>11. CASE Died
  <2>1. \A u \in Requests : req'[u] = Idle
    BY <1>11 DEF Died
  <2> QED
    BY <2>1, IdleShape DEF Held, Seen
<1>12. CASE UNCHANGED <<fs, lock, req>>
  BY <1>0, <1>12 DEF Held, Seen, Exists
<1>13. ASSUME NEW j \in detached, DetachedLink(j) PROVE UNCHANGED fs
  BY <1>0, <1>13 DEF DetachedLink, TypeInv
<1> QED
  <2>1. ASSUME NEW r \in Requests, Step(r) PROVE Goal
    BY <1>1, <1>2, <1>3, <1>5, <1>6, <1>8, <1>10, <2>1 DEF Step
  <2>2. ASSUME NEW j \in detached, DetachedLink(j) \/ DetachedSync(j) PROVE Goal
    BY <1>12, <1>13, <2>2 DEF DetachedLink, DetachedSync
  <2>3. CASE (\E o \in Objects : Verify(o)) \/ (\E a \in Admissions : Expire(a)) \/ StoreOpen
    BY <1>12, <2>3 DEF Verify, Expire, StoreOpen
  <2>4. CASE UNCHANGED vars
    BY <1>12, <2>4 DEF vars
  <2>5. CASE Crash \/ PowerLoss
    BY <1>11, <2>5 DEF Crash, PowerLoss
  <2> HIDE DEF Goal
  <2> QED
    BY <1>4, <1>7, <1>9, <2>1, <2>2, <2>3, <2>4, <2>5 DEF Next, Goal

-----------------------------------------------------------------------------
(* What the last fsync of the directory secured.                           *)

\* A name is linked and the job that linked it has yet to sync.
Syncing(f) == \E r \in Requests : At(r, "sync") /\ req[r].file = f

\* Only the removal of data is undone by a power loss; and while no fsync was
\* given up, what is not secured yet is being synced or was removed.
SecuredInv ==
    /\ \A f \in Files : disk[f] # None /\ (\A o \in Objects : f # Data(o)) => fs[f] = disk[f]
    /\ up /\ ~window => \A f \in Files :
          \/ fs[f] = disk[f] \/ Syncing(f)
          \/ \E o \in Objects : f = Data(o) /\ fs[f] = None

\* A directory d bears out all that clients were answered.
Answered(d) ==
    /\ \A o \in Objects : d[Data(o)] # None => d[Json(o)] # None /\ d[Data(o)] = d[Json(o)].hash
    /\ \A a \in granted : d[Operation(a.op)] = a /\ d[Json(a.obj)] = a
    /\ \A o \in receipts : d[Tombstone(o)] # None \/ d[Data(o)] # None
    /\ \A o \in reclaimed : d[Tombstone(o)] # None

\* So does the directory the processes see; and, while no fsync was given up,
\* the secured one and every mixture of the two.
AnsweredInv ==
    /\ ~exposed => Answered(fs)
    /\ ~exposed /\ ~window =>
          /\ Answered(disk)
          /\ \A o \in Objects : Exists(Data(o)) => disk[Json(o)] # None
          /\ \A o \in receipts : disk[Tombstone(o)] # None \/ Exists(Data(o))

Inv == RequestInv /\ SecuredInv /\ AnsweredInv

\* The kinds of step, by what they do to the files and to what is answered.
KeepsSyncing == \A f : Syncing(f) => Syncing(f)'
Calm == (window => window') /\ (up' /\ ~window' => up /\ ~window /\ KeepsSyncing)
Quiet == Calm /\ UNCHANGED <<files, history>>
Linking(r, f) ==
    /\ LinkStep(r) /\ f = req[r].file
    /\ Syncing(f)' /\ up /\ KeepsSyncing /\ UNCHANGED <<disk, history, window>>
Securing == disk' = fs /\ UNCHANGED <<fs, history>>

LEMMA MoveCalm ==
    ASSUME TypeInv, NEW r \in Requests, NEW q, Moves(r, q), UNCHANGED up,
           window' = window, ~At(r, "sync") \/ (q.at = "sync" /\ q.file = req[r].file)
    PROVE  Calm /\ KeepsSyncing
<1>1. /\ req'[r] = q
      /\ \A u \in Requests \ {r} : req'[u] = req[u]
  BY MovesType
<1>2. KeepsSyncing
  BY <1>1 DEF KeepsSyncing, Syncing, At
<1> QED
  BY <1>2 DEF Calm

LEMMA EndCalm ==
    ASSUME TypeInv, NEW r \in Requests, End(r), UNCHANGED up,
           (window' = window /\ ~At(r, "sync")) \/ window'
    PROVE  Calm
BY EndType, MoveCalm DEF Calm

LEMMA StepKinds ==
    ASSUME RequestInv, [Next]_vars
    PROVE  \/ Quiet
           \/ \E r \in Requests, f \in Files : Linking(r, f)
           \/ Securing
           \/ \E r \in Requests : ReclaimRemove(r) /\ Calm
           \/ \E r \in Requests : AdmitGrant(r) /\ Calm
           \/ \E o \in Objects : Verify(o) /\ Calm
           \/ PowerLoss
<1>0. TypeInv /\ \A r \in Requests : Shape(req[r])
  BY DEF RequestInv, TypeInv
<1>u. \A r \in Requests : req[r].at # "idle" => up
  BY <1>0 DEF TypeInv, Idle
<1> USE DEF files, history
<1>1. ASSUME NEW r \in Requests, PublishLink(r)
      PROVE  Quiet \/ \E f \in Files : Linking(r, f)
  <2>1. CASE Exists(req[r].file)
    BY <1>0, <1>1, <2>1, EndCalm DEF PublishLink, Quiet, At
  <2>2. CASE ~Exists(req[r].file)
    <3> DEFINE q == [req[r] EXCEPT !.at = "sync"]
    <3>1. LinkStep(r) /\ Moves(r, q) /\ up /\ At(r, "publish")
      BY <1>0, <1>u, <1>1, <2>2, GotoShape DEF PublishLink, LinkStep, Goto, Moves, At
    <3>2. q.at = "sync" /\ q.file = req[r].file
      BY <1>0 DEF Shape, Fields
    <3> HIDE DEF q
    <3>3. PICK f \in Files : f = req[r].file
      BY <1>0, <3>1, LinkKeeps
    <3>4. Syncing(f)'
      BY <1>0, <3>1, <3>2, <3>3, MovesType DEF Syncing, At
    <3> QED
      BY <1>0, <1>1, <3>1, <3>2, <3>3, <3>4, MoveCalm DEF PublishLink, Linking
  <2> QED
    BY <2>1, <2>2
<1>2. ASSUME NEW r \in Requests, PublishSync(r) PROVE Securing
  BY <1>2 DEF PublishSync, Secure, Securing
<1>3. ASSUME NEW r \in Requests, PublishSyncFails(r) PROVE Quiet
  BY <1>0, <1>3, EndCalm DEF PublishSyncFails, Quiet
<1>4. ASSUME NEW r \in Requests, Cancel(r) PROVE Quiet
  BY <1>0, <1>4, EndCalm DEF Cancel, Quiet, TypeInv
<1>5. ASSUME NEW r \in Requests, NEW k \in Keys, NEW q, Begin(r, k, q), Shape(q),
             UNCHANGED <<up, window, files, history>>
      PROVE  Quiet
  <2>1. Moves(r, q) /\ ~At(r, "sync")
    BY <1>5 DEF Begin, Moves, At, Idle
  <2> QED
    BY <1>0, <1>5, <2>1, MoveCalm DEF Quiet
<1>6. ASSUME NEW r \in Requests, NEW a \in Admissions, Admit(r, a) PROVE Quiet
  BY <1>5, <1>6, RunningShape, AdmissionType DEF Admit, Keys
<1>7. ASSUME NEW r \in Requests, NEW o \in Objects, PutBytes(r, o) PROVE Quiet
  <2>1. fs[Json(o)] \in Admissions
    BY <1>0, <1>7 DEF PutBytes, Live, Exists, TypeInv, Sound
  <2> QED
    BY <1>5, <1>7, <2>1, RunningShape DEF PutBytes, Keys
<1>8. ASSUME NEW r \in Requests, NEW o \in Objects, Reclaim(r, o) PROVE Quiet
  <2> DEFINE q == IF Exists(Tombstone(o)) THEN Running(o, None, "remove")
                  ELSE Publishing(o, None, Tombstone(o), "cancelled", "remove")
  <2> HIDE DEF q
  <2>1. Begin(r, o, q)
    BY <1>8 DEF Reclaim, q
  <2>2. Shape(q)
    BY <1>0, <2>1, TypeStep DEF TypeInv, Begin
  <2> QED
    BY <1>5, <1>8, <2>1, <2>2 DEF Reclaim, Keys
<1>9. ASSUME NEW r \in Requests, AdmitLock(r) PROVE Quiet
  <2>1. Moves(r, [req[r] EXCEPT !.at = "operation"]) /\ ~At(r, "sync")
    BY <1>0, <1>9, GotoShape DEF AdmitLock, Goto, Moves, At
  <2> QED
    BY <1>0, <1>9, <2>1, MoveCalm DEF AdmitLock, Quiet
<1>10. ASSUME NEW r \in Requests, AdmitTimeout(r) PROVE Quiet
  BY <1>0, <1>10, EndCalm DEF AdmitTimeout, Quiet, At
<1>11. ASSUME NEW r \in Requests, AdmitOperation(r) PROVE Quiet
  BY <1>0, <1>11, RecordOnceType, EndCalm, MoveCalm, Zenon DEF AdmitOperation, Quiet, At
<1>12. ASSUME NEW r \in Requests, AdmitObject(r) PROVE Quiet
  <2>1. End(r) \/ RecordOnce(r, Json(req[r].obj), "grant")
    BY <1>12 DEF AdmitObject
  <2> QED
    BY <1>0, <1>12, <2>1, RecordOnceType, EndCalm, MoveCalm, Zenon DEF AdmitObject, Quiet, At
<1>13. ASSUME NEW r \in Requests, AdmitGrant(r) PROVE Calm
  BY <1>0, <1>13, EndCalm DEF AdmitGrant, At
<1>14. ASSUME NEW r \in Requests, NEW body \in Hashes, PutPublish(r, body) PROVE Quiet
  <2>1. CASE ~BodyVerified(r, body)
    BY <1>0, <1>14, <2>1, EndCalm DEF PutPublish, Quiet, At
  <2>2. CASE BodyVerified(r, body)
    <3>1. req[r].adm \in Admissions /\ req[r].obj \in Objects /\ ~At(r, "sync")
      BY <1>0, <1>14 DEF PutPublish, At, Shape, Putting
    <3>2. Moves(r, Publishing(req[r].obj, req[r].adm, Data(req[r].obj), body, "idle"))
      BY <1>0, <1>14, <2>2, <3>1, PublishingShape DEF PutPublish, BodyVerified, Moves, TypeInv
    <3> QED
      BY <1>0, <1>14, <3>1, <3>2, MoveCalm DEF PutPublish, Quiet
  <2> QED
    BY <2>1, <2>2
<1>15. ASSUME NEW r \in Requests, ReclaimRemove(r) PROVE Calm
  BY <1>0, <1>15, EndCalm DEF ReclaimRemove, At
<1>16. ASSUME NEW j \in detached, DetachedLink(j) PROVE Quiet
  BY <1>0, <1>16 DEF DetachedLink, TypeInv, Quiet, Calm, KeepsSyncing, Syncing, At
<1>17. ASSUME NEW j \in detached, DetachedSync(j) PROVE Securing
  BY <1>17 DEF DetachedSync, Secure, Securing
<1>19. ASSUME NEW a \in Admissions, Expire(a) PROVE Quiet
  BY <1>19 DEF Expire, Quiet, Calm, KeepsSyncing, Syncing, At
<1>20. CASE Crash
  BY <1>20 DEF Crash, Died, Quiet, Calm
<1>21. CASE StoreOpen
  BY <1>21 DEF StoreOpen, Secure, Securing
<1>22. CASE UNCHANGED vars
  BY <1>22 DEF vars, Quiet, Calm, KeepsSyncing, Syncing, At
<1>23. ASSUME NEW o \in Objects, Verify(o) PROVE Calm
  BY <1>23 DEF Verify, Calm, KeepsSyncing, Syncing, At
<1> QED
  BY <1>1, <1>2, <1>3, <1>4, <1>6, <1>7, <1>8, <1>9, <1>10, <1>11, <1>12, <1>13, <1>14, <1>15,
     <1>16, <1>17, <1>19, <1>20, <1>21, <1>22, <1>23 DEF Next, Step

LEMMA SecuredStep == RequestInv /\ SecuredInv /\ [Next]_vars => SecuredInv'
<1> SUFFICES ASSUME RequestInv, SecuredInv, [Next]_vars PROVE SecuredInv'
  OBVIOUS
<1>0. TypeInv /\ fs \in [Files -> Values] /\ disk \in [Files -> Values]
  BY DEF RequestInv, TypeInv, Sound
<1> USE DEF files, history
<1>1. ASSUME Calm, UNCHANGED files PROVE SecuredInv'
  BY <1>1 DEF SecuredInv, Calm, KeepsSyncing
<1>2. ASSUME NEW r \in Requests, NEW g \in Files, Linking(r, g) PROVE SecuredInv'
  <2>1. /\ fs[g] = None /\ UNCHANGED <<disk, window>> /\ up
        /\ Syncing(g)' /\ KeepsSyncing
        /\ \A f \in Files : f # g => fs'[f] = fs[f]
    BY <1>0, <1>2, LinkKeeps DEF Linking, LinkStep, Exists
  <2>2. \A f \in Files : disk[f] # None /\ (\A o \in Objects : f # Data(o)) => f # g
    BY <2>1 DEF SecuredInv
  <2>3. ASSUME ~window, NEW f \in Files
        PROVE  \/ fs'[f] = disk'[f] \/ Syncing(f)'
               \/ \E o \in Objects : f = Data(o) /\ fs'[f] = None
    BY <2>1, <2>3 DEF SecuredInv, KeepsSyncing
  <2> QED
    BY <2>1, <2>2, <2>3 DEF SecuredInv
<1>3. ASSUME Securing PROVE SecuredInv'
  BY <1>3 DEF Securing, SecuredInv
<1>4. ASSUME NEW r \in Requests, ReclaimRemove(r), Calm PROVE SecuredInv'
  <2>1. /\ RemoveStep(r) /\ UNCHANGED disk
        /\ req[r].obj \in Objects /\ fs'[Data(req[r].obj)] = None
        /\ \A f \in Files : f # Data(req[r].obj) => fs'[f] = fs[f]
    BY <1>0, <1>4, RemoveKeeps, Zenon DEF ReclaimRemove, RemoveStep
  <2> QED
    BY <1>4, <2>1 DEF SecuredInv, Calm, KeepsSyncing
<1>5. CASE PowerLoss
  BY <1>5 DEF PowerLoss, SecuredInv
<1> QED
  BY <1>1, <1>2, <1>3, <1>4, <1>5, StepKinds DEF Quiet, AdmitGrant, Verify

\* The lock of an object, or of an operation, covers the fsync of its files.
LEMMA Settled ==
    ASSUME RequestInv, SecuredInv, up, ~window, NEW k \in Keys,
           \A u \in Requests : lock[k] = u => ~At(u, "sync")
    PROVE  /\ k \in Operations => fs[Operation(k)] = disk[Operation(k)]
           /\ k \in Objects => /\ fs[Json(k)] = disk[Json(k)]
                               /\ fs[Tombstone(k)] = disk[Tombstone(k)]
                               /\ Exists(Data(k)) => fs[Data(k)] = disk[Data(k)]
<1>1. ASSUME NEW f \in {Operation(k), Json(k), Data(k), Tombstone(k)}, Syncing(f) PROVE FALSE
  <2>1. PICK u \in Requests : At(u, "sync") /\ req[u].file = f
    BY <1>1 DEF Syncing
  <2>2. Shape(req[u]) /\ Held(u) /\ Published(req[u]) /\ req[u].at = "sync"
    BY <2>1 DEF RequestInv, TypeInv, At, Published
  <2>3. req[u].next \in {"object", "grant", "idle", "remove"}
    BY <2>2, ShapeFields
  <2>4. CASE req[u].next = "object"
    BY <2>1, <2>2, <2>4, Names DEF Shape, Held, Admitting
  <2>5. CASE req[u].next # "object"
    BY <2>1, <2>2, <2>3, <2>5, Names DEF Shape, Held
  <2> QED
    BY <2>4, <2>5
<1>2. ASSUME k \in Operations PROVE fs[Operation(k)] = disk[Operation(k)]
  BY <1>1, <1>2, InFiles, Names DEF SecuredInv
<1>3. ASSUME k \in Objects
      PROVE  fs[Json(k)] = disk[Json(k)] /\ fs[Tombstone(k)] = disk[Tombstone(k)]
  BY <1>1, <1>3, InFiles, Names DEF SecuredInv
<1>4. ASSUME k \in Objects, Exists(Data(k)) PROVE fs[Data(k)] = disk[Data(k)]
  BY <1>1, <1>4, InFiles, Names DEF SecuredInv, Exists
<1> QED
  BY <1>2, <1>3, <1>4

\* The same for the locks that a request holds while it does not sync.
LEMMA HolderSettled ==
    ASSUME RequestInv, SecuredInv, ~window, NEW r \in Requests, req[r].at \notin {"idle", "lock", "sync"}
    PROVE  /\ req[r].obj \in Objects
           /\ fs[Json(req[r].obj)] = disk[Json(req[r].obj)]
           /\ fs[Tombstone(req[r].obj)] = disk[Tombstone(req[r].obj)]
           /\ Admitting(req[r]) => fs[Operation(req[r].adm.op)] = disk[Operation(req[r].adm.op)]
<1>1. TypeInv /\ Held(r) /\ Shape(req[r]) /\ up
  BY DEF RequestInv, TypeInv, Idle
<1>2. req[r].obj \in Objects /\ req[r].obj \in Keys /\ lock[req[r].obj] = r
  BY <1>1, HeldKeys DEF Held
<1>3. ~At(r, "sync")
  BY DEF At
<1>4. ASSUME Admitting(req[r])
      PROVE  fs[Operation(req[r].adm.op)] = disk[Operation(req[r].adm.op)]
  <2>1. req[r].adm.op \in Operations /\ req[r].adm.op \in Keys /\ lock[req[r].adm.op] = r
    BY <1>1, <1>4, HeldKeys, AdmissionType DEF Held, Shape
  <2> QED
    BY <1>1, <1>3, <2>1, Settled
<1> QED
  BY <1>1, <1>2, <1>3, <1>4, Settled

\* A request that links the data of an object has its admission at hand.
LEMMA DataLinked ==
    ASSUME RequestInv, NEW r \in Requests, LinkStep(r), NEW o \in Objects, req[r].file = Data(o)
    PROVE  /\ req[r].obj = o /\ fs[Tombstone(o)] = None
           /\ fs[Json(o)] # None /\ req[r].value = fs[Json(o)].hash
<1>1. Shape(req[r]) /\ Seen(r) /\ Published(req[r]) /\ TypeInv
  BY DEF RequestInv, TypeInv, LinkStep, At, Published
<1>2. req[r].next = "idle"
  BY <1>1, Names, ShapeFields DEF Shape
<1>3. Putting(req[r]) /\ req[r].obj = o /\ req[r].value = req[r].adm.hash
  BY <1>1, <1>2, Names DEF Shape, Putting
<1> QED
  BY <1>1, <1>3, SeenFiles DEF Seen, Exists

LEMMA AnsweredStep == Inv /\ [Next]_vars => AnsweredInv'
<1> SUFFICES ASSUME Inv, [Next]_vars PROVE AnsweredInv'
  OBVIOUS
<1>0. /\ RequestInv /\ SecuredInv /\ TypeInv
      /\ fs \in [Files -> Values] /\ disk \in [Files -> Values]
      /\ granted \subseteq Admissions /\ receipts \subseteq Objects /\ reclaimed \subseteq Objects
  BY DEF Inv, RequestInv, TypeInv, Sound
<1>f. /\ \A a \in granted : /\ a # None /\ Operation(a.op) \in Files /\ Json(a.obj) \in Files
      /\ \A o \in Objects : Json(o) \in Files /\ Data(o) \in Files /\ Tombstone(o) \in Files
  BY <1>0, AdmissionType, InFiles
<1>a. AnsweredInv
  BY DEF Inv
<1> USE DEF files, history
<1>1. CASE Quiet
  BY <1>a, <1>1 DEF Quiet, Calm, AnsweredInv, Answered, Exists
<1>2. ASSUME NEW r \in Requests, NEW g \in Files, Linking(r, g) PROVE AnsweredInv'
  <2>1. /\ LinkStep(r) /\ g = req[r].file /\ fs[g] = None
        /\ UNCHANGED <<disk, granted, receipts, reclaimed, exposed, window>>
        /\ fs'[g] = req[r].value
        /\ \A f \in Files : f # g => fs'[f] = fs[f]
        /\ \A f \in Files : fs[f] # None => fs'[f] = fs[f]
    BY <1>0, <1>2, LinkKeeps DEF Linking, LinkStep, Exists
  <2>2. ASSUME ~exposed, NEW o \in Objects, fs'[Data(o)] # None
        PROVE  fs'[Json(o)] # None /\ fs'[Data(o)] = fs'[Json(o)].hash
    <3>1. CASE g = Data(o)
      <4>1. req[r].file = Data(o) /\ LinkStep(r) /\ RequestInv
        BY <1>0, <2>1, <3>1
      <4>2. fs[Json(o)] # None /\ req[r].value = fs[Json(o)].hash
        BY <4>1, DataLinked
      <4> QED
        BY <1>f, <2>1, <3>1, <4>2
    <3>2. CASE g # Data(o)
      BY <1>a, <1>f, <2>1, <2>2, <3>2 DEF AnsweredInv, Answered
    <3> QED
      BY <3>1, <3>2
  <2>3. ~exposed => Answered(fs')
    BY <1>a, <1>f, <1>0, <2>1, <2>2 DEF AnsweredInv, Answered
  <2>4. ASSUME ~exposed, ~window, NEW o \in Objects, fs'[Data(o)] # None
        PROVE  disk[Json(o)] # None
    <3>1. CASE g = Data(o)
      <4>0. req[r].file = Data(o) /\ LinkStep(r) /\ RequestInv
        BY <1>0, <2>1, <3>1
      <4>1. req[r].obj = o /\ fs[Json(o)] # None
        BY <4>0, DataLinked
      <4>2. req[r].at \notin {"idle", "lock", "sync"}
        BY <2>1 DEF LinkStep, At
      <4> QED
        BY <1>0, <2>4, <4>1, <4>2, HolderSettled
    <3>2. CASE g # Data(o)
      BY <1>a, <1>f, <2>1, <2>4, <3>2 DEF AnsweredInv, Exists
    <3> QED
      BY <3>1, <3>2
  <2>5. ASSUME ~exposed, ~window, NEW o \in receipts
        PROVE  disk[Tombstone(o)] # None \/ fs'[Data(o)] # None
    BY <1>a, <1>f, <1>0, <2>1, <2>5 DEF AnsweredInv, Exists
  <2>6. ~exposed /\ ~window => Answered(disk)'
    BY <1>a, <2>1 DEF AnsweredInv, Answered
  <2>7. ~exposed => Answered(fs)'
    BY <2>1, <2>3 DEF Answered
  <2> QED
    BY <2>1, <2>4, <2>5, <2>6, <2>7 DEF AnsweredInv, Exists
<1>3. CASE Securing
  BY <1>a, <1>3 DEF Securing, AnsweredInv, Answered, Exists
<1>4. ASSUME NEW r \in Requests, ReclaimRemove(r) PROVE AnsweredInv'
  <2> DEFINE o == req[r].obj
  <2>1. /\ RemoveStep(r) /\ UNCHANGED <<disk, granted, receipts, exposed, window>>
        /\ reclaimed' = reclaimed \cup {o}
    BY <1>4 DEF ReclaimRemove, RemoveStep
  <2>2. /\ o \in Objects /\ fs'[Data(o)] = None
        /\ \A f \in Files : f # Data(o) => fs'[f] = fs[f]
    BY <1>0, <2>1, RemoveKeeps
  <2>3. fs[Tombstone(o)] # None /\ req[r].at \notin {"idle", "lock", "sync"}
    BY <1>0, <2>1 DEF RequestInv, Seen, Exists, RemoveStep, At
  <2>4. ~window => disk[Tombstone(o)] # None
    BY <1>0, <2>3, HolderSettled
  <2> HIDE DEF o
  <2>5. \A p \in Objects : fs'[Json(p)] = fs[Json(p)] /\ fs'[Tombstone(p)] = fs[Tombstone(p)]
    BY <1>f, <2>2, Names
  <2>6. \A p \in Objects : p # o => fs'[Data(p)] = fs[Data(p)]
    BY <1>f, <2>2, Names
  <2>7. \A a \in granted : /\ fs'[Operation(a.op)] = fs[Operation(a.op)]
                           /\ fs'[Json(a.obj)] = fs[Json(a.obj)]
    BY <1>f, <2>2, Names
  <2>8. ASSUME ~exposed PROVE Answered(fs)'
    <3>1. Answered(fs)
      BY <1>a, <2>8 DEF AnsweredInv
    <3>2. \A p \in Objects : fs'[Data(p)] # None => fs'[Json(p)] # None /\ fs'[Data(p)] = fs'[Json(p)].hash
      BY <2>2, <2>5, <2>6, <3>1 DEF Answered
    <3>3. \A p \in receipts : fs'[Tombstone(p)] # None \/ fs'[Data(p)] # None
      BY <1>0, <2>3, <2>5, <2>6, <3>1 DEF Answered
    <3>4. \A p \in reclaimed' : fs'[Tombstone(p)] # None
      BY <1>0, <2>1, <2>2, <2>3, <2>5, <3>1 DEF Answered
    <3> QED
      BY <2>1, <2>7, <3>1, <3>2, <3>3, <3>4 DEF Answered
  <2>9. ~exposed /\ ~window => Answered(disk)'
    BY <1>a, <1>0, <2>1, <2>4 DEF AnsweredInv, Answered
  <2>10. ASSUME ~exposed, ~window, NEW p \in Objects, fs'[Data(p)] # None
        PROVE  disk[Json(p)] # None
    <3>1. fs[Data(p)] # None
      BY <2>2, <2>6, <2>10
    <3> QED
      BY <1>a, <2>10, <3>1 DEF AnsweredInv, Exists
  <2>11. ASSUME ~exposed, ~window, NEW p \in receipts
        PROVE  disk[Tombstone(p)] # None \/ fs'[Data(p)] # None
    <3>1. p \in Objects /\ (disk[Tombstone(p)] # None \/ fs[Data(p)] # None)
      BY <1>a, <1>0, <2>11 DEF AnsweredInv, Exists
    <3> QED
      BY <2>4, <2>6, <2>11, <3>1
  <2> QED
    BY <2>1, <2>8, <2>9, <2>10, <2>11 DEF AnsweredInv, Exists
<1>5. ASSUME NEW r \in Requests, AdmitGrant(r) PROVE AnsweredInv'
  <2> DEFINE a == req[r].adm
  <2>1. /\ UNCHANGED <<fs, disk, receipts, reclaimed, exposed, window>>
        /\ granted' = granted \cup {a} /\ req[r].at = "grant"
    BY <1>5 DEF AdmitGrant, At
  <2>2. Admitting(req[r]) /\ req[r].obj = a.obj
    BY <1>0, <2>1 DEF TypeInv, Shape, Admitting
  <2>3. fs[Operation(a.op)] = a /\ fs[Json(a.obj)] = a
    BY <1>0, <2>1, <2>2 DEF RequestInv, Seen
  <2>4. ~window => disk[Operation(a.op)] = a /\ disk[Json(a.obj)] = a
    BY <1>0, <2>1, <2>2, <2>3, HolderSettled
  <2> HIDE DEF a
  <2>5. ~exposed => Answered(fs)'
    BY <1>a, <2>1, <2>3 DEF AnsweredInv, Answered
  <2>6. ~exposed /\ ~window => Answered(disk)'
    BY <1>a, <2>1, <2>4 DEF AnsweredInv, Answered
  <2> QED
    BY <1>a, <2>1, <2>5, <2>6 DEF AnsweredInv, Exists
<1>6. ASSUME NEW o \in Objects, Verify(o) PROVE AnsweredInv'
  <2>1. /\ UNCHANGED <<fs, disk, granted, reclaimed, exposed, window>>
        /\ receipts' = receipts \cup {o} /\ fs[Data(o)] # None
        /\ up /\ lock[o] = None
    BY <1>6 DEF Verify, Exists
  <2>2. o \in Keys /\ \A u \in Requests : lock[o] # u
    BY <2>1, CustodyAssumption DEF Keys
  <2>3. ~window => disk[Data(o)] # None
    BY <1>0, <2>1, <2>2, Settled DEF Exists
  <2>4. ~exposed => Answered(fs)'
    BY <1>a, <2>1 DEF AnsweredInv, Answered
  <2>5. ~exposed /\ ~window => Answered(disk)'
    BY <1>a, <2>1, <2>3 DEF AnsweredInv, Answered
  <2> QED
    BY <1>a, <2>1, <2>4, <2>5 DEF AnsweredInv, Exists
<1>7. CASE PowerLoss
  <2>1. /\ \A f \in Files : fs'[f] \in {fs[f], disk[f]}
        /\ disk' = fs' /\ UNCHANGED <<granted, receipts, reclaimed>>
        /\ ~exposed' => ~exposed /\ ~window
    BY <1>7, Zenon DEF PowerLoss
  <2>2. SUFFICES ASSUME ~exposed, ~window PROVE Answered(fs')
    BY <2>1, <2>2 DEF AnsweredInv, Answered, Exists
  <2>3. /\ \A o \in Objects : disk[Json(o)] # None => fs[Json(o)] = disk[Json(o)]
        /\ \A o \in Objects : disk[Tombstone(o)] # None => fs[Tombstone(o)] = disk[Tombstone(o)]
    BY <1>0, <1>f, Names DEF SecuredInv
  <2>4. Answered(fs) /\ Answered(disk)
    BY <1>a, <2>2 DEF AnsweredInv
  <2>5. ASSUME NEW o \in Objects, fs'[Data(o)] # None
        PROVE  fs'[Json(o)] # None /\ fs'[Data(o)] = fs'[Json(o)].hash
    <3>1. disk[Json(o)] # None
      BY <1>a, <1>f, <2>1, <2>2, <2>4, <2>5 DEF AnsweredInv, Answered, Exists
    <3>2. fs[Json(o)] = disk[Json(o)] /\ fs'[Json(o)] = disk[Json(o)]
      BY <1>f, <2>1, <2>3, <3>1
    <3> QED
      BY <1>f, <2>1, <2>4, <2>5, <3>1, <3>2 DEF Answered
  <2>6. \A a \in granted : fs'[Operation(a.op)] = a /\ fs'[Json(a.obj)] = a
    BY <1>f, <2>1, <2>4 DEF Answered
  <2>7. ASSUME NEW o \in receipts PROVE fs'[Tombstone(o)] # None \/ fs'[Data(o)] # None
    <3>1. CASE disk[Tombstone(o)] # None
      BY <1>0, <1>f, <2>1, <2>3, <3>1
    <3>2. CASE disk[Tombstone(o)] = None
      <4>1. fs[Data(o)] # None /\ disk[Data(o)] # None
        BY <1>a, <1>0, <2>2, <2>4, <3>2 DEF AnsweredInv, Answered, Exists
      <4> QED
        BY <1>0, <1>f, <2>1, <4>1
    <3> QED
      BY <3>1, <3>2
  <2>8. \A o \in reclaimed : fs'[Tombstone(o)] # None
    BY <1>0, <1>f, <2>1, <2>3, <2>4 DEF Answered
  <2> QED
    BY <2>1, <2>5, <2>6, <2>7, <2>8 DEF Answered
<1> QED
  BY <1>0, <1>1, <1>2, <1>3, <1>4, <1>5, <1>6, <1>7, StepKinds

-----------------------------------------------------------------------------
(* The theorems.                                                           *)

LEMMA InitInv == Init => Inv
<1> SUFFICES ASSUME Init PROVE Inv
  OBVIOUS
<1>1. TypeInv
  BY InitType
<1>2. \A r \in Requests : Held(r) /\ Seen(r)
  BY IdleShape DEF Init, Held, Seen
<1>3. SecuredInv
  BY DEF Init, SecuredInv
<1>4. AnsweredInv
  <2>1. /\ \A o \in Objects : fs[Data(o)] = None
        /\ granted = {} /\ receipts = {} /\ reclaimed = {} /\ disk = fs
    BY InFiles DEF Init
  <2> QED
    BY <2>1 DEF AnsweredInv, Answered, Exists
<1> QED
  BY <1>1, <1>2, <1>3, <1>4 DEF Inv, RequestInv

LEMMA InvStep == Inv /\ [Next]_vars => Inv'
BY RequestStep, SecuredStep, AnsweredStep DEF Inv

\* The inductive invariant holds throughout.
THEOREM Invariance == Spec => []Inv
BY InitInv, InvStep, PTL DEF Spec

\* A client's admissions and the content of its objects stay what it was told
\* (Store::admit, Store::put): an operation id and an object are bound to one
\* admission, and a stored object is the content that admission announced.
THEOREM ContentBoundTheorem == Spec => []ContentBound
<1>1. Inv => ContentBound
  <2> SUFFICES ASSUME Inv PROVE ContentBound
    OBVIOUS
  <2>1. ~exposed => Answered(fs)
    BY DEF Inv, AnsweredInv
  <2>2. AdmissionFixed
    BY <2>1 DEF AdmissionFixed, Answered
  <2>3. DataVerified
    BY <2>1 DEF DataVerified, Answered, Exists
  <2> QED
    BY <2>2, <2>3 DEF ContentBound
<1> QED
  BY <1>1, Invariance, PTL

\* Receipts and confirmed reclaims survive every crash and power loss outside
\* of the window of a given-up fsync (Store::verify_file, Store::reclaim).
THEOREM AnswersKeptTheorem == Spec => []AnswersKept
<1>1. Inv => AnswersKept
  <2> SUFFICES ASSUME Inv PROVE AnswersKept
    OBVIOUS
  <2>1. receipts \subseteq Objects /\ SecuredInv /\ AnsweredInv
    BY DEF Inv, RequestInv, TypeInv
  <2>2. ReclaimRemembered
    BY <2>1 DEF ReclaimRemembered, AnsweredInv, Answered, Exists
  <2>3. ASSUME ~exposed, ~window, NEW o \in receipts
        PROVE  Exists(Tombstone(o)) \/ (disk[Data(o)] # None /\ Exists(Data(o)))
    <3>1. CASE disk[Tombstone(o)] # None
      <4>1. Tombstone(o) \in Files /\ \A p \in Objects : Tombstone(o) # Data(p)
        BY <2>1, InFiles, Names
      <4> QED
        BY <2>1, <3>1, <4>1 DEF SecuredInv, Exists
    <3>2. CASE disk[Tombstone(o)] = None
      BY <2>1, <2>3, <3>2 DEF AnsweredInv, Answered
    <3> QED
      BY <3>1, <3>2
  <2> QED
    BY <2>2, <2>3 DEF AnswersKept, ReceiptDurable
<1> QED
  BY <1>1, Invariance, PTL

\* The data of an object is linked once, by an upload that sees no tombstone
\* under the object's lock, and removed only behind a tombstone; no step of a
\* dropped request changes it (publish_sync, Store::reclaim, PartialFile).
THEOREM ObjectLifeTheorem == Spec => ObjectLife
<1> DEFINE Kept == \A o \in Objects : up' /\ fs'[Data(o)] # fs[Data(o)] =>
                       IF Exists(Data(o)) THEN fs'[Data(o)] = None /\ Exists(Tombstone(o))
                       ELSE ~Exists(Tombstone(o))
<1>1. Inv /\ [Next]_vars => [Kept]_vars
  <2> SUFFICES ASSUME Inv, [Next]_vars, NEW o \in Objects, up', fs'[Data(o)] # fs[Data(o)]
               PROVE  IF Exists(Data(o)) THEN fs'[Data(o)] = None /\ Exists(Tombstone(o))
                      ELSE ~Exists(Tombstone(o))
    OBVIOUS
  <2>1. RequestInv /\ TypeInv /\ Data(o) \in Files
    BY InFiles DEF Inv, RequestInv
  <2>2. ASSUME NEW r \in Requests, NEW f \in Files, Linking(r, f)
        PROVE  ~Exists(Data(o)) /\ ~Exists(Tombstone(o))
    <3>1. LinkStep(r) /\ req[r].file = Data(o) /\ ~Exists(Data(o))
      BY <2>1, <2>2, LinkKeeps DEF Linking
    <3> QED
      BY <2>1, <3>1, DataLinked DEF Exists
  <2>3. ASSUME NEW r \in Requests, ReclaimRemove(r)
        PROVE  Exists(Data(o)) /\ fs'[Data(o)] = None /\ Exists(Tombstone(o))
    <3>1. RemoveStep(r)
      BY <2>3 DEF ReclaimRemove, RemoveStep
    <3>2. Data(o) = Data(req[r].obj) /\ fs'[Data(o)] = None
      BY <2>1, <3>1, RemoveKeeps
    <3>3. req[r].obj = o /\ Exists(Data(o))
      BY <3>2, Names DEF Exists
    <3> QED
      BY <2>1, <3>1, <3>2, <3>3 DEF RequestInv, Seen, RemoveStep, At
  <2>4. fs' = fs \/ (\E r \in Requests, f \in Files : Linking(r, f))
                \/ (\E r \in Requests : ReclaimRemove(r))
    BY <2>1, StepKinds, Zenon DEF Quiet, Securing, AdmitGrant, Verify, PowerLoss, Died, files
  <2> QED
    BY <2>2, <2>3, <2>4
<1> QED
  BY <1>1, Invariance, PTL DEF Spec, ObjectLife
=============================================================================
