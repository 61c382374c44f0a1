-------------------------- MODULE RotationBackends --------------------------
(***************************************************************************)
(* The backends old versions are moved to (history/rotation/local.rs,      *)
(* s3.rs, gdrive.rs), seen from what rotate and fetch do with one object.  *)
(* HistoryStore takes a call of a backend as one step; here it is the      *)
(* requests it consists of, each of which may fail before or after it took *)
(* effect, and several daemons with the same project use the same backend. *)
(*                                                                         *)
(* The key of an object is its hash, so that all daemons mean the same     *)
(* bytes by it: Whole.  Torn has another length, Rotten the right length   *)
(* and other bytes.                                                        *)
(***************************************************************************)
EXTENDS Naturals, FiniteSets

CONSTANTS Daemons,
          Kinds,     \* RotationBackendConfig: "local_path", "s3", "gdrive"
          MaxFiles   \* bound: files created on the Drive

VARIABLES kind,      \* the configured backend
          reach,     \* is the folder mounted, are there credentials?
          copies,    \* what the backend holds under the key: file -> bytes
          nfiles,    \* files created so far
          tmp,       \* temporary file of a daemon beside the copy
          obj,       \* the object in a daemon's own store
          entry,     \* its index entry: local or offloaded
          op,        \* its operation: which, where it is, the file it found
          robbed     \* history: daemons whose copy another one has touched

backendVars == <<kind, reach, copies, nfiles, tmp, obj, entry, op, robbed>>

Whole   == "whole"
Torn    == "torn"
Rotten  == "rotten"
Missing == "missing"
NoFile  == 0
Fixed   == 1     \* the one name of a key in a folder or a bucket

Idle == [is |-> "none", at |-> "idle", file |-> NoFile]

build_backend ==
    /\ kind \in Kinds
    /\ copies = [f \in {} |-> Whole] /\ nfiles = 0

Init ==
    /\ build_backend
    /\ reach = TRUE
    /\ tmp = [d \in Daemons |-> Missing]
    /\ obj = [d \in Daemons |-> Whole]
    /\ entry = [d \in Daemons |-> "local"]
    /\ op = [d \in Daemons |-> Idle]
    /\ robbed = {}

-----------------------------------------------------------------------------
At(d, step)   == op[d].at = step
Goes(d, step) == op' = [op EXCEPT ![d].at = step]
Fails(d)      == op' = [op EXCEPT ![d] = Idle]

Put(f, bytes) == [g \in DOMAIN copies \cup {f} |-> IF g = f THEN bytes ELSE copies[g]]
Drop(f)       == [g \in DOMAIN copies \ {f} |-> copies[g]]

(* What the others may hold against d: it took the copy away, or replaced  *)
(* it by the bytes of an object that is damaged.  When two files with      *)
(* different bytes have come to be there, everybody may get the wrong one. *)
Touched(d) == robbed \cup (Daemons \ {d})
Mixed == \E f, g \in DOMAIN copies : copies[f] # copies[g]
Upload(d, f) ==
    /\ copies' = Put(f, obj[d])
    /\ robbed' = CASE Mixed' -> Daemons
                   [] ~Mixed' /\ obj[d] # Whole -> Touched(d)
                   [] OTHER -> robbed
Removal(d, f) == copies' = Drop(f) /\ robbed' = Touched(d)
Nothing == UNCHANGED <<copies, robbed>>

(* A request that is answered took effect; one that fails may have.        *)
Request(d, effect, next) ==
    \/ effect /\ Goes(d, next)
    \/ (effect \/ Nothing) /\ Fails(d)

own == <<kind, reach, obj, entry>>

-----------------------------------------------------------------------------
(* local_path: a folder.                                                   *)
ensure_mounted == kind = "local_path" /\ reach
unmounted(d) ==
    /\ kind = "local_path" /\ ~reach /\ Fails(d)
    /\ UNCHANGED <<own, copies, nfiles, tmp, robbed>>

(* Mutant: the copy is written where it will be read.                      *)
local_put_in_place(d) ==
    /\ At(d, "put") /\ ensure_mounted
    /\ \/ copies' = Put(Fixed, obj[d]) /\ Goes(d, "exists")
       \/ copies' = Put(Fixed, Torn) /\ Fails(d)
    /\ robbed' = IF obj[d] = Whole THEN robbed ELSE Touched(d)
    /\ UNCHANGED <<own, nfiles, tmp>>

(* put: a temporary file is written and synced ...                         *)
local_put(d) ==
    /\ At(d, "put") /\ ensure_mounted
    /\ \/ tmp' = [tmp EXCEPT ![d] = obj[d]] /\ Goes(d, "replace")
       \/ tmp' = [tmp EXCEPT ![d] = Torn] /\ Fails(d)
    /\ UNCHANGED <<own, copies, nfiles, robbed>>

(* ... and renamed; if that fails it is removed.                           *)
local_replace(d) ==
    /\ At(d, "replace")
    /\ \/ Upload(d, Fixed) /\ Goes(d, "exists")
       \/ Nothing /\ Fails(d)
    /\ tmp' = [tmp EXCEPT ![d] = Missing]
    /\ UNCHANGED <<own, nfiles>>

local_exists == Fixed \in DOMAIN copies
local_size   == IF Fixed \in DOMAIN copies THEN copies[Fixed] ELSE Missing
local_get    == IF Fixed \in DOMAIN copies THEN copies[Fixed] ELSE Missing

(* delete: a copy that is not there counts as removed.                     *)
local_delete(d) ==
    /\ At(d, "delete") /\ ensure_mounted
    /\ \/ Removal(d, Fixed) /\ Goes(d, "index")
       \/ Nothing /\ Fails(d)
    /\ UNCHANGED <<own, nfiles, tmp>>

-----------------------------------------------------------------------------
(* s3: a bucket that replaces an object as a whole.                        *)
store == kind = "s3" /\ reach
no_store(d) ==
    /\ kind = "s3" /\ ~reach /\ Fails(d)
    /\ UNCHANGED <<own, copies, nfiles, tmp, robbed>>

s3_put(d) ==
    /\ At(d, "put") /\ store
    /\ Request(d, Upload(d, Fixed), "exists")
    /\ UNCHANGED <<own, nfiles, tmp>>

s3_exists == Fixed \in DOMAIN copies
s3_size   == IF Fixed \in DOMAIN copies THEN copies[Fixed] ELSE Missing
s3_get    == IF Fixed \in DOMAIN copies THEN copies[Fixed] ELSE Missing

s3_delete(d) ==
    /\ At(d, "delete") /\ store
    /\ Request(d, Removal(d, Fixed), "index")
    /\ UNCHANGED <<own, nfiles, tmp>>

-----------------------------------------------------------------------------
(* gdrive: files with an id of their own, found by a property.             *)
load_key == kind = "gdrive" /\ reach
access_token(d, step) == At(d, step) /\ load_key
no_token(d) ==
    /\ kind = "gdrive" /\ ~reach /\ Fails(d)
    /\ UNCHANGED <<own, copies, nfiles, tmp, robbed>>

(* find_file: the first file listed, in an order the service chooses.      *)
find_file == IF DOMAIN copies = {} THEN {NoFile} ELSE DOMAIN copies

(* put, delete and get look for the file first; it may be gone, or another *)
(* one there, when the second request comes.                               *)
gdrive_find(d, step, next) ==
    /\ access_token(d, step)
    /\ \/ \E f \in find_file : op' = [op EXCEPT ![d].at = next, ![d].file = f]
       \/ Fails(d)
    /\ UNCHANGED <<own, copies, nfiles, tmp, robbed>>

gdrive_put(d) ==
    /\ At(d, "upload")
    /\ IF op[d].file # NoFile
       THEN /\ IF op[d].file \in DOMAIN copies
               THEN Request(d, Upload(d, op[d].file), "exists") ELSE Nothing /\ Fails(d)
            /\ UNCHANGED nfiles
       ELSE \/ /\ nfiles < MaxFiles /\ nfiles' = nfiles + 1
               /\ Upload(d, nfiles') /\ (Goes(d, "exists") \/ Fails(d))
            \/ Nothing /\ Fails(d) /\ UNCHANGED nfiles
    /\ UNCHANGED <<own, tmp>>

gdrive_exists == find_file # {NoFile}
gdrive_size   == {IF f = NoFile THEN Missing ELSE copies[f] : f \in find_file}
gdrive_get(d) == IF op[d].file \in DOMAIN copies THEN copies[op[d].file] ELSE Missing

gdrive_delete(d) ==
    /\ At(d, "remove")
    /\ IF op[d].file \in DOMAIN copies
       THEN Request(d, Removal(d, op[d].file), "index")
       ELSE Nothing /\ (Goes(d, "index") \/ Fails(d))
    /\ UNCHANGED <<own, nfiles, tmp>>

-----------------------------------------------------------------------------
(* rotate and fetch                                                        *)
exists == CASE kind = "local_path" -> local_exists
            [] kind = "s3" -> s3_exists
            [] kind = "gdrive" -> gdrive_exists
size == CASE kind = "local_path" -> {local_size}
          [] kind = "s3" -> {s3_size}
          [] kind = "gdrive" -> gdrive_size
get(d) == CASE kind = "local_path" -> local_get
            [] kind = "s3" -> s3_get
            [] kind = "gdrive" -> gdrive_get(d)

validate_fetched(bytes) == bytes = Whole

Begin(d, is, step) == op' = [op EXCEPT ![d] = [is |-> is, at |-> step, file |-> NoFile]]

(* rotate_store calls rotate; fetch_offloaded starts from the local object *)
(* if an earlier attempt left a valid one.                                 *)
rotate(d) ==
    /\ At(d, "idle") /\ entry[d] = "local" /\ Begin(d, "rotate", "put")
    /\ UNCHANGED <<own, copies, nfiles, tmp, robbed>>
fetch_offloaded(d) ==
    /\ At(d, "idle") /\ entry[d] = "offloaded"
    /\ Begin(d, "fetch", IF validate_fetched(obj[d]) THEN "delete" ELSE "size")
    /\ UNCHANGED <<own, copies, nfiles, tmp, robbed>>

check_exists(d) ==
    /\ At(d, "exists") /\ reach
    /\ \/ exists /\ Goes(d, "size")
       \/ Fails(d)
    /\ UNCHANGED <<own, copies, nfiles, tmp, robbed>>

check_size(d) ==
    /\ At(d, "size") /\ reach
    /\ \/ (\E b \in size : b \in {Whole, Rotten}) /\ Goes(d, "get")
       \/ Fails(d)
    /\ UNCHANGED <<own, copies, nfiles, tmp, robbed>>

(* The copy is downloaded and compared with the entry; fetch puts it in    *)
(* the place of the object.                                                *)
download(d) ==
    /\ At(d, IF kind = "gdrive" THEN "download" ELSE "get") /\ reach
    /\ IF validate_fetched(get(d))
       THEN \/ /\ Goes(d, IF op[d].is = "rotate" THEN "index" ELSE "delete")
               /\ obj' = IF op[d].is = "rotate" THEN obj ELSE [obj EXCEPT ![d] = get(d)]
            \/ Fails(d) /\ UNCHANGED obj
       ELSE Fails(d) /\ UNCHANGED obj
    /\ UNCHANGED <<kind, reach, entry, copies, nfiles, tmp, robbed>>

(* The sidecar and the index; rotate then removes the local object.        *)
index(d) ==
    /\ At(d, "index")
    /\ \/ /\ entry' = [entry EXCEPT ![d] = IF op[d].is = "rotate" THEN "offloaded" ELSE "local"]
          /\ obj' = IF op[d].is = "rotate" THEN [obj EXCEPT ![d] = Missing] ELSE obj
       \/ UNCHANGED <<entry, obj>>
    /\ Fails(d)
    /\ UNCHANGED <<kind, reach, copies, nfiles, tmp, robbed>>

(* The world: a drive is unplugged, an object decays, and is archived anew.*)
Plug == /\ reach' = ~reach
        /\ UNCHANGED <<kind, copies, nfiles, tmp, obj, entry, op, robbed>>
Decay(d) ==
    /\ At(d, "idle") /\ entry[d] = "local"
    /\ \E b \in {Whole, Torn, Rotten} : obj' = [obj EXCEPT ![d] = b]
    /\ UNCHANGED <<kind, reach, copies, nfiles, tmp, entry, op, robbed>>

Remote(d) == ~At(d, "idle") /\ ~At(d, "index")

Next ==
    \/ Plug
    \/ \E d \in Daemons :
         \/ rotate(d) \/ fetch_offloaded(d) \/ Decay(d)
         \/ Remote(d) /\ (unmounted(d) \/ no_store(d) \/ no_token(d))
         \/ local_put(d) \/ local_replace(d) \/ local_delete(d)
         \/ s3_put(d) \/ s3_delete(d)
         \/ gdrive_find(d, "put", "upload") \/ gdrive_find(d, "get", "download")
         \/ gdrive_find(d, "delete", "remove") \/ gdrive_put(d) \/ gdrive_delete(d)
         \/ check_exists(d) \/ check_size(d) \/ download(d) \/ index(d)

-----------------------------------------------------------------------------
(* What a backend is for: a version whose object has left the daemon's own *)
(* store can be had back.  All the backend lists under its key is whole,   *)
(* and there is something, or an interrupted fetch has already brought the *)
(* object home; unless another daemon with the same project took the copy  *)
(* back or wrote a damaged one over it (rotate, fetch, RotationBackend).   *)
CopyKept == \A d \in Daemons : entry[d] = "offloaded" =>
    \/ obj[d] = Whole
    \/ DOMAIN copies # {} /\ \A f \in DOMAIN copies : copies[f] = Whole
    \/ d \in robbed
=============================================================================
