------------------------------ MODULE Custody ------------------------------
(***************************************************************************)
(* The store of opaque objects kept for another server (synergos-custody): *)
(* admissions, uploads, receipts and reclaims, as concurrent HTTP requests *)
(* that take a lock per operation id and per object.                       *)
(*                                                                         *)
(* Every file is written to a temporary and published by a blocking job:   *)
(* a hard link, which fails when the name is taken, and an fsync of the    *)
(* one directory.  The job outlives its request when that is dropped (the  *)
(* client went away, the upload timed out).  `fs` is the directory as the  *)
(* processes see it, `disk` what the last fsync of the directory secured;  *)
(* a power loss keeps or loses every later change on its own.              *)
(***************************************************************************)
EXTENDS Naturals, FiniteSets

CONSTANTS
    Operations,     \* operation ids
    Objects,        \* opaque object ids
    Hashes,         \* contents, by their hash
    Admissions,     \* the admissions that are asked for
    Requests,       \* HTTP requests that may be under way at once
    MaxDetached,    \* bound of the publications whose request is gone
    None

ASSUME CustodyAssumption ==
    /\ Admissions \subseteq [op : Operations, obj : Objects, hash : Hashes]
    /\ Requests # {} /\ MaxDetached \in Nat
    /\ None \notin Admissions \cup Hashes \cup Requests /\ None # "cancelled"

VARIABLES
    up,         \* is the store open?
    fs, disk,   \* the files of the storage root
    lock,       \* lock[k]: the request that holds the lock of key k, or None
    req,        \* req[r]: the request and where it is suspended
    detached,   \* publications whose request is gone
    expired,    \* admissions whose deadline has passed
    urls,       \* objects with an upload URL that is still valid
    granted,    \* history: admissions answered with an upload URL
    receipts,   \* history: objects a receipt was issued for
    reclaimed,  \* history: objects a reclaim was confirmed for
    window,     \* history: a name is linked and its directory fsync was given up
    exposed     \* history: the power failed in such a window

files == <<fs, disk>>
history == <<granted, receipts, reclaimed, exposed>>
vars == <<up, files, lock, req, detached, expired, urls, granted, receipts,
          reclaimed, window, exposed>>

Operation(i) == <<"operation", i>>
Json(o) == <<"json", o>>
Data(o) == <<"data", o>>
Tombstone(o) == <<"reclaimed", o>>
Files == {Operation(i) : i \in Operations} \cup
         UNION {{Json(o), Data(o), Tombstone(o)} : o \in Objects}

\* A request: where it is, what it is about, and the file it publishes.
Idle == [at |-> "idle", obj |-> None, adm |-> None,
         file |-> None, value |-> None, next |-> "idle"]

Init ==
    /\ up = TRUE
    /\ fs = [f \in Files |-> None] /\ disk = fs
    /\ lock = [k \in Operations \cup Objects |-> None]
    /\ req = [r \in Requests |-> Idle]
    /\ detached = {} /\ expired = {} /\ urls = {}
    /\ granted = {} /\ receipts = {} /\ reclaimed = {}
    /\ window = FALSE /\ exposed = FALSE

-----------------------------------------------------------------------------
Exists(f) == fs[f] # None
At(r, place) == req[r].at = place
Goto(r, place) == req' = [req EXCEPT ![r].at = place]

\* The guards of a request are dropped when it ends.
End(r) ==
    /\ req' = [req EXCEPT ![r] = Idle]
    /\ lock' = [k \in DOMAIN lock |-> IF lock[k] = r THEN None ELSE lock[k]]

\* Store::lock.  A request that gives up waiting has changed nothing.
Acquire(r, k) == lock[k] = None /\ lock' = [lock EXCEPT ![k] = r]

\* write_new and publish: the job is handed to a blocking thread.
Publishing(o, a, file, value, next) ==
    [at |-> "publish", obj |-> o, adm |-> a, file |-> file, value |-> value, next |-> next]

Running(o, a, place) ==
    [at |-> place, obj |-> o, adm |-> a, file |-> None, value |-> None, next |-> "idle"]

Begin(r, k, request) ==
    /\ up /\ req[r] = Idle
    /\ Acquire(r, k)
    /\ req' = [req EXCEPT ![r] = request]

-----------------------------------------------------------------------------
(* Publication.                                                            *)

PublishLink(r) ==
    /\ At(r, "publish")
    /\ IF ~Exists(req[r].file)
       THEN /\ fs' = [fs EXCEPT ![req[r].file] = req[r].value]
            /\ Goto(r, "sync") /\ UNCHANGED lock
       ELSE End(r) /\ UNCHANGED fs
    /\ UNCHANGED <<up, disk, detached, expired, urls, history, window>>

\* Mutant: the directory is not synced.
SecureNothing == UNCHANGED disk /\ window' = FALSE

Secure == disk' = fs /\ window' = FALSE

PublishSync(r) ==
    /\ At(r, "sync")
    /\ Secure
    /\ IF req[r].next = "idle" THEN End(r)
       ELSE /\ req' = [req EXCEPT ![r] = Running(@.obj, @.adm, @.next)]
            /\ UNCHANGED lock
    /\ UNCHANGED <<up, fs, detached, expired, urls, history>>

\* The fsync fails: the caller gets an error, the name is there.
PublishSyncFails(r) ==
    /\ At(r, "sync")
    /\ window' = TRUE /\ End(r)
    /\ UNCHANGED <<up, files, detached, expired, urls, history>>

\* Mutant: the temporary outlives the request.
DetachedWithPart(r) ==
    IF req[r].at \in {"publish", "sync"}
    THEN {[file |-> req[r].file, value |-> req[r].value, at |-> req[r].at, part |-> TRUE]}
    ELSE {}

\* What is left of a dropped request: the temporary is removed before the
\* guards are released, so a link that was not made yet will fail.
Detached(r) ==
    IF req[r].at \in {"publish", "sync"}
    THEN {[file |-> req[r].file, value |-> req[r].value, at |-> req[r].at, part |-> FALSE]}
    ELSE {}

Cancel(r) ==
    /\ req[r] # Idle
    /\ detached' = detached \cup Detached(r) /\ Cardinality(detached') <= MaxDetached
    /\ window' = (window \/ At(r, "sync"))
    /\ End(r)
    /\ UNCHANGED <<up, files, expired, urls, history>>

DetachedLink(j) ==
    /\ j.at = "publish"
    /\ LET linked == j.part /\ ~Exists(j.file)
       IN  /\ fs' = IF linked THEN [fs EXCEPT ![j.file] = j.value] ELSE fs
           /\ detached' = (detached \ {j}) \cup
                          (IF linked THEN {[j EXCEPT !.at = "sync"]} ELSE {})
    /\ UNCHANGED <<up, disk, lock, req, expired, urls, history, window>>

DetachedSync(j) ==
    /\ j.at = "sync"
    /\ Secure /\ detached' = detached \ {j}
    /\ UNCHANGED <<up, fs, lock, req, expired, urls, history>>

-----------------------------------------------------------------------------
(* POST admissions.                                                        *)

\* The lock of the operation, then the one of the object.
Admit(r, a) ==
    /\ a \notin expired
    /\ Begin(r, a.op, Running(a.obj, a, "lock"))
    /\ UNCHANGED <<up, files, detached, expired, urls, history, window>>

AdmitLock(r) ==
    /\ At(r, "lock") /\ Acquire(r, req[r].obj) /\ Goto(r, "operation")
    /\ UNCHANGED <<up, files, detached, expired, urls, history, window>>

AdmitTimeout(r) ==
    /\ At(r, "lock") /\ lock[req[r].obj] # None /\ End(r)
    /\ UNCHANGED <<up, files, detached, expired, urls, history, window>>

\* Mutant: what another request recorded is not compared.
AgreesAlways(file, a) == Exists(file)

Agrees(file, a) == fs[file] = a

\* Record the admission in the file, go on if it says the same, or refuse.
RecordOnce(r, file, next) ==
    LET q == req[r]
    IN  IF ~Exists(file)
        THEN /\ req' = [req EXCEPT ![r] = Publishing(q.obj, q.adm, file, q.adm, next)]
             /\ UNCHANGED lock
        ELSE IF Agrees(file, q.adm) THEN Goto(r, next) /\ UNCHANGED lock ELSE End(r)

AdmitOperation(r) ==
    /\ At(r, "operation")
    /\ RecordOnce(r, Operation(req[r].adm.op), "object")
    /\ UNCHANGED <<up, files, detached, expired, urls, history, window>>

AdmitObject(r) ==
    /\ At(r, "object")
    /\ IF Exists(Tombstone(req[r].obj)) THEN End(r)
       ELSE RecordOnce(r, Json(req[r].obj), "grant")
    /\ UNCHANGED <<up, files, detached, expired, urls, history, window>>

AdmitGrant(r) ==
    /\ At(r, "grant")
    /\ urls' = urls \cup {req[r].obj}
    /\ granted' = granted \cup {req[r].adm}
    /\ End(r)
    /\ UNCHANGED <<up, files, detached, expired, receipts, reclaimed, window, exposed>>

-----------------------------------------------------------------------------
(* PUT transfer, POST verify and POST reclaim.                             *)

\* Admitted, not reclaimed and within the deadline.
Live(o) ==
    Exists(Json(o)) /\ ~Exists(Tombstone(o)) /\ fs[Json(o)] \notin expired

PutBytes(r, o) ==
    /\ o \in urls /\ Live(o) /\ ~Exists(Data(o))
    /\ Begin(r, o, Running(o, fs[Json(o)], "stream"))
    /\ UNCHANGED <<up, files, detached, expired, urls, history, window>>

BodyVerified(r, body) == body = req[r].adm.hash /\ req[r].adm \notin expired

\* The stream has ended: size, hash and deadline are checked.
PutPublish(r, body) ==
    /\ At(r, "stream")
    /\ IF BodyVerified(r, body)
       THEN /\ req' = [req EXCEPT ![r] = Publishing(@.obj, @.adm, Data(@.obj), body, "idle")]
            /\ UNCHANGED lock
       ELSE End(r)
    /\ UNCHANGED <<up, files, detached, expired, urls, history, window>>

Verify(o) ==
    /\ up /\ lock[o] = None
    /\ Live(o) /\ Exists(Data(o)) /\ fs[Data(o)] = fs[Json(o)].hash
    /\ receipts' = receipts \cup {o}
    /\ UNCHANGED <<up, files, lock, req, detached, expired, urls, granted, reclaimed, window, exposed>>

Reclaim(r, o) ==
    /\ Begin(r, o, IF Exists(Tombstone(o)) THEN Running(o, None, "remove")
                   ELSE Publishing(o, None, Tombstone(o), "cancelled", "remove"))
    /\ UNCHANGED <<up, files, detached, expired, urls, history, window>>

\* The removal is not synced.
ReclaimRemove(r) ==
    /\ At(r, "remove")
    /\ fs' = [fs EXCEPT ![Data(req[r].obj)] = None]
    /\ reclaimed' = reclaimed \cup {req[r].obj}
    /\ End(r)
    /\ UNCHANGED <<up, disk, detached, expired, urls, granted, receipts, window, exposed>>

-----------------------------------------------------------------------------
(* Time, crashes and restarts.                                             *)

\* The deadline of an admission bounds its upload URL.
Expire(a) ==
    /\ a \notin expired
    /\ expired' = expired \cup {a}
    /\ urls' = IF fs[Json(a.obj)] = a THEN urls \ {a.obj} ELSE urls
    /\ UNCHANGED <<up, files, lock, req, detached, history, window>>

Died ==
    /\ up /\ up' = FALSE
    /\ req' = [r \in Requests |-> Idle] /\ detached' = {}
    /\ lock' = [k \in DOMAIN lock |-> None]

Crash ==
    /\ Died
    /\ UNCHANGED <<files, expired, urls, history, window>>

PowerLoss ==
    /\ Died
    /\ \E kept \in SUBSET {f \in Files : fs[f] # disk[f]} :
          fs' = [f \in Files |-> IF f \in kept THEN fs[f] ELSE disk[f]]
    /\ disk' = fs'
    /\ exposed' = (exposed \/ window)
    /\ window' = FALSE
    /\ UNCHANGED <<expired, urls, granted, receipts, reclaimed>>

\* Store::open publishes a probe, which syncs the directory.
StoreOpen ==
    /\ ~up /\ up' = TRUE
    /\ Secure
    /\ UNCHANGED <<fs, lock, req, detached, expired, urls, history>>

-----------------------------------------------------------------------------
Step(r) ==
    \/ PublishLink(r) \/ PublishSync(r) \/ PublishSyncFails(r) \/ Cancel(r)
    \/ AdmitLock(r) \/ AdmitTimeout(r)
    \/ AdmitOperation(r) \/ AdmitObject(r) \/ AdmitGrant(r)
    \/ ReclaimRemove(r)
    \/ \E body \in Hashes : PutPublish(r, body)

Next ==
    \/ \E r \in Requests : Step(r)
    \/ \E r \in Requests, a \in Admissions : Admit(r, a)
    \/ \E r \in Requests, o \in Objects : PutBytes(r, o) \/ Reclaim(r, o)
    \/ \E o \in Objects : Verify(o)
    \/ \E j \in detached : DetachedLink(j) \/ DetachedSync(j)
    \/ \E a \in Admissions : Expire(a)
    \/ Crash \/ PowerLoss \/ StoreOpen

Spec == Init /\ [][Next]_vars

-----------------------------------------------------------------------------
(* Properties.                                                             *)

\* The shape of the storage root, and a lock is held by a live request only.
TypeOK ==
    /\ DOMAIN fs = Files /\ DOMAIN disk = Files
    /\ \A i \in Operations : fs[Operation(i)] \in Admissions \cup {None}
    /\ \A o \in Objects : /\ fs[Json(o)] \in Admissions \cup {None}
                          /\ fs[Data(o)] \in Hashes \cup {None}
    /\ \A k \in DOMAIN lock : lock[k] # None => up /\ req[lock[k]] # Idle

\* Admissions answered with an upload URL agree: an operation id and an object
\* are bound to one admission for good, over retries, crashes and power losses
\* (Store::admit), unless the power failed in the window of a given-up fsync.
AdmissionFixed ==
    ~exposed => \A a, b \in granted : a.op = b.op \/ a.obj = b.obj => a = b

\* A stored object is the content its admission announced (Store::put), which
\* is all that GET and head rely on; with the same exception.
DataVerified ==
    ~exposed => \A o \in Objects :
        Exists(Data(o)) => Exists(Json(o)) /\ fs[Data(o)] = fs[Json(o)].hash

\* A receipt says "durable": no power loss can take the object away before it
\* is reclaimed (Store::verify_file, publish_sync), outside of such a window.
ReceiptDurable ==
    ~exposed /\ ~window => \A o \in receipts :
        Exists(Tombstone(o)) \/ (disk[Data(o)] # None /\ Exists(Data(o)))

\* A confirmed reclaim is remembered for good (Store::reclaim).
ReclaimRemembered ==
    ~exposed => \A o \in reclaimed : Exists(Tombstone(o))

\* What a client was told stays so: the admissions it was given an upload URL
\* for, and the content its objects were admitted with (Store::admit,
\* Store::put).
ContentBound == AdmissionFixed /\ DataVerified

\* What a client was answered survives: its receipts and its reclaims
\* (Store::verify_file, Store::reclaim).
AnswersKept == ReceiptDurable /\ ReclaimRemembered

\* The life of an object in the running server: it is published once and then
\* immutable, it goes only behind a tombstone, and behind one no old upload
\* brings it back, not even the publication of a dropped request
\* (publish_sync, Store::reclaim, PartialFile).
ObjectLife ==
    [][\A o \in Objects : up' /\ fs'[Data(o)] # fs[Data(o)] =>
          IF Exists(Data(o)) THEN fs'[Data(o)] = None /\ Exists(Tombstone(o))
          ELSE ~Exists(Tombstone(o))]_vars
=============================================================================
