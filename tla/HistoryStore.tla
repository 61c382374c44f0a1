---------------------------- MODULE HistoryStore ----------------------------
(***************************************************************************)
(* The archive of a history node: HistoryStore::archive, gc, purge, rotate *)
(* and fetch_offloaded, the tags, and the index and sidecar files they     *)
(* keep on disk.                                                           *)
(*                                                                         *)
(* A stored version is a key, standing for a (rel, version) pair.  A       *)
(* content stands for the bytes of a file together with their blake3 hash, *)
(* size and crc.  One entry of index.json and one reference of a sidecar   *)
(* are the same record [key, hash, at]: at = Here is `offloaded: None`,    *)
(* at = b is a copy moved to the external backend b.                       *)
(*                                                                         *)
(* Every operation that changes the store runs under the project's Mutex,  *)
(* so at most one is under way: pc says how far it is.  Each step is one   *)
(* atomic change of the disk (a rename or an unlink) or of a backend, and  *)
(* the process may die, or a call may fail, before any of them (Abort).    *)
(***************************************************************************)
EXTENDS Naturals, FiniteSets

CONSTANTS
    Keys,          \* the (rel, version) pairs in use
    Contents,      \* file contents, identified with their hashes
    Backends,      \* rotation backend configurations
    Here,          \* the place of a version kept locally
    NoRef,         \* "no reference": the idle value of cur
    Publishable,   \* the <<key, content>> pairs the node may archive
    TagNames,      \* names of tags
    Temporaries,   \* the kinds of temporary files that are followed
    CanFail,       \* whether calls may fail and the process may die
    CanCorrupt     \* whether index.json may become unreadable

Places == Backends \cup {Here}
Refs == [key : Keys, hash : Contents, at : Places]

ASSUME HistoryAssumption ==
    /\ Here \notin Backends
    /\ NoRef \notin Refs
    /\ Publishable \subseteq Keys \X Contents
    /\ Temporaries \subseteq {"archive", "index", "meta", "verify", "fetch"}
    /\ CanFail \in BOOLEAN /\ CanCorrupt \in BOOLEAN

VARIABLES
    index,      \* the entries of index.json
    corrupt,    \* index.json does not parse
    sidecars,   \* the references in all <hash>.meta.json files
    objects,    \* the contents present under objects/
    remote,     \* remote[b]: the contents held by backend b
    stale,      \* kinds of temporary files left behind by a dead operation
    tags,       \* tags[t]: the keys tag t pins (empty: no such tag)
    backend,    \* the backend the daemon is configured with now
    pc,         \* step of the operation that holds the project lock
    mem,        \* that operation's HistoryIndex in memory
    cur,        \* the reference it is working on
    todo,       \* the references it has still to process
    scan        \* an index rebuilt by a reader that holds no lock

disk == <<index, corrupt, sidecars, objects, remote, stale, tags, backend>>
op == <<pc, mem, cur, todo>>
vars == <<disk, op, scan>>

-----------------------------------------------------------------------------
(* HistoryIndex and the sidecars.                                          *)

\* The reference with another place (the `offloaded` field set or cleared).
MovedTo(r, place) == [key |-> r.key, hash |-> r.hash, at |-> place]

\* HistoryIndex::insert: one entry per key.
Insert(ix, r) == {e \in ix : e.key # r.key} \cup {r}

\* Mutant: only local references are written to the sidecars.
AppendLocalOnly(sc, r) ==
    {e \in sc : e.hash # r.hash \/ e.key # r.key} \cup (IF r.at = Here THEN {r} ELSE {})

\* append_object_ref: the reference replaces the one for the same key in the
\* same sidecar.
Append(sc, r) == {e \in sc : e.hash # r.hash \/ e.key # r.key} \cup {r}

\* remove_object_ref; a sidecar with no reference left is deleted.
RemoveRef(sc, r) == {e \in sc : e.hash # r.hash \/ e.key # r.key}

\* HistoryIndex::referenced_hashes: offloaded entries count as well.
Referenced(ix) == {e.hash : e \in ix}

\* The sidecar references rebuild_from_sidecars does not drop.
Eligible == {r \in sidecars : r.hash \in objects \/ r.at # Here}

\* rebuild_from_sidecars: the directory order decides which of several
\* references to one key is inserted last.
Rebuilds ==
    {ix \in SUBSET Eligible :
        /\ \A r \in Eligible : \E e \in ix : e.key = r.key
        /\ \A e, f \in ix : e.key = f.key => e = f}

\* HistoryIndex::save writes the whole index.
Save(m) == index' = m /\ corrupt' = FALSE

\* load_or_rebuild: what may be read; a rebuilt index is saved at once.
Loaded == IF corrupt THEN Rebuilds ELSE {index}

\* lookup can produce the bytes of r: from objects/, or by fetching them from
\* the backend the reference names.
Retrievable(r) == r.hash \in objects \/ (r.at \in Backends /\ r.hash \in remote[r.at])

-----------------------------------------------------------------------------
Init ==
    /\ index = {} /\ corrupt = FALSE /\ sidecars = {} /\ objects = {}
    /\ remote = [b \in Backends |-> {}]
    /\ stale = {}
    /\ tags = [t \in TagNames |-> {}]
    /\ backend \in Backends
    /\ pc = "idle" /\ mem = {} /\ cur = NoRef /\ todo = {}
    /\ scan = {}

Done == pc' = "idle" /\ mem' = {} /\ cur' = NoRef /\ todo' = {}

-----------------------------------------------------------------------------
(* archive: snapshot, object, sidecar, index.                              *)

\* The key is indexed with other content.
Conflicts(ix, k, c) == \E e \in ix : e.key = k /\ e.hash # c

\* The snapshot has been copied into objects/.archive-*.tmp and verified.
\* If the key is indexed with other content the call ends with an error.
ArchiveBegin(k, c) ==
    /\ pc = "idle"
    /\ \E m \in Loaded :
        /\ Save(m)
        /\ IF Conflicts(m, k, c)
           THEN UNCHANGED op
           ELSE /\ pc' = "archive_object" /\ mem' = m /\ todo' = {}
                /\ cur' = [key |-> k, hash |-> c, at |-> Here]
    /\ UNCHANGED <<sidecars, objects, remote, stale, tags, backend, scan>>

\* validate_object, then either drop the snapshot or rename it to the object.
\* AlreadyIndexed keeps the existing entry, its offloaded mark included.
ArchiveObject ==
    /\ pc = "archive_object"
    /\ objects' = objects \cup {cur.hash}
    /\ LET known == {e \in mem : e.key = cur.key}
       IN IF cur.hash \in objects /\ known # {}
          THEN pc' = "archive_touch" /\ cur' \in known
          ELSE pc' = "archive_ref" /\ cur' = cur
    /\ UNCHANGED <<index, corrupt, sidecars, remote, stale, tags, backend, mem, todo, scan>>

\* AlreadyIndexed: append_object_ref repairs the sidecar and archive returns.
ArchiveTouch ==
    /\ pc = "archive_touch"
    /\ sidecars' = Append(sidecars, cur)
    /\ Done
    /\ UNCHANGED <<index, corrupt, objects, remote, stale, tags, backend, scan>>

ArchiveRef ==
    /\ pc = "archive_ref"
    /\ sidecars' = Append(sidecars, cur)
    /\ pc' = "archive_save"
    /\ UNCHANGED <<index, corrupt, objects, remote, stale, tags, backend, mem, cur, todo, scan>>

ArchiveSave ==
    /\ pc = "archive_save"
    /\ Save(Insert(mem, cur))
    /\ Done
    /\ UNCHANGED <<sidecars, objects, remote, stale, tags, backend, scan>>

-----------------------------------------------------------------------------
(* Tags: small files of their own, written under the same lock.            *)

TagAdd(t, pins) ==
    /\ pc = "idle"
    /\ tags' = [tags EXCEPT ![t] = pins]
    /\ UNCHANGED <<index, corrupt, sidecars, objects, remote, stale, backend, op, scan>>

TagRemove(t) == TagAdd(t, {})

\* The tags' part of protected_versions.
Pinned == UNION {tags[t] : t \in TagNames}

-----------------------------------------------------------------------------
(* gc: new index first, then sidecar references, then the objects nobody   *)
(* refers to.  Which local versions exceed the retention limits, and are   *)
(* not in the caller's keep list, depends on sizes, times and the manifest:*)
(* any set of versions no tag pins may be chosen.  The module Retention    *)
(* models the choice itself.                                               *)

Removable(ix) == {e \in ix : e.at = Here /\ e.key \notin Pinned}

GcBegin ==
    /\ pc = "idle"
    /\ \E m \in Loaded :
        /\ Save(m)
        /\ \E victims \in SUBSET Removable(m) :
            /\ mem' = m \ victims
            /\ todo' = victims
    /\ pc' = "gc_save" /\ cur' = NoRef
    /\ UNCHANGED <<sidecars, objects, remote, stale, tags, backend, scan>>

GcSave ==
    /\ pc = "gc_save"
    /\ Save(mem)
    /\ pc' = "gc_refs"
    /\ UNCHANGED <<sidecars, objects, remote, stale, tags, backend, mem, cur, todo, scan>>

GcRef ==
    /\ pc = "gc_refs"
    /\ \/ \E r \in todo :
            /\ sidecars' = RemoveRef(sidecars, r)
            /\ todo' = todo \ {r}
            /\ UNCHANGED <<pc, objects>>
       \/ /\ todo = {}
          /\ pc' = "gc_objects"
          /\ UNCHANGED <<sidecars, todo, objects>>
    /\ UNCHANGED <<index, corrupt, remote, stale, tags, backend, mem, cur, scan>>

\* The kinds of temporary file sweep_stale_temporaries removes.
Swept == {"archive", "index", "meta"}

\* An unreferenced object goes, and its sidecar after it; a failure to unlink
\* the sidecar is ignored.  With no such object left the sweep ends the gc.
GcObject ==
    /\ pc = "gc_objects"
    /\ \/ \E c \in objects \ Referenced(mem) :
            /\ objects' = objects \ {c}
            /\ sidecars' \in {sidecars, {r \in sidecars : r.hash # c}}
            /\ UNCHANGED <<stale, op>>
       \/ /\ objects \subseteq Referenced(mem)
          /\ stale' = stale \ Swept
          /\ Done
          /\ UNCHANGED <<objects, sidecars>>
    /\ UNCHANGED <<index, corrupt, remote, tags, backend, scan>>

\* gc with purge: refused while a version is offloaded; otherwise the empty
\* index is saved before the objects directory goes.
PurgeBegin ==
    /\ pc = "idle"
    /\ \E m \in Loaded :
        /\ Save(m)
        /\ IF \E e \in m : e.at # Here
           THEN UNCHANGED op
           ELSE pc' = "purge_save" /\ mem' = {} /\ UNCHANGED <<cur, todo>>
    /\ UNCHANGED <<sidecars, objects, remote, stale, tags, backend, scan>>

PurgeSave ==
    /\ pc = "purge_save"
    /\ Save({})
    /\ pc' = "purge_objects"
    /\ UNCHANGED <<sidecars, objects, remote, stale, tags, backend, mem, cur, todo, scan>>

\* remove_dir_all removes file after file.
PurgeObjects ==
    /\ pc = "purge_objects"
    /\ \/ \E c \in objects : objects' = objects \ {c} /\ UNCHANGED <<sidecars, stale, op>>
       \/ \E r \in sidecars : /\ sidecars' = {s \in sidecars : s.hash # r.hash}
                              /\ UNCHANGED <<objects, stale, op>>
       \/ /\ objects = {} /\ sidecars = {}
          /\ stale' = {}
          /\ Done
          /\ UNCHANGED <<objects, sidecars>>
    /\ UNCHANGED <<index, corrupt, remote, tags, backend, scan>>

-----------------------------------------------------------------------------
(* rotate: move unprotected old versions to the configured backend.        *)

RotateBegin ==
    /\ pc = "idle"
    /\ \E m \in Loaded :
        /\ Save(m)
        /\ \E candidates \in SUBSET Removable(m) :
            /\ mem' = m /\ todo' = candidates
    /\ pc' = "rotate_next" /\ cur' = NoRef
    /\ UNCHANGED <<sidecars, objects, remote, stale, tags, backend, scan>>

\* put, skipped when an entry with this hash is already offloaded there.  A
\* failed put leaves everything as it is and the candidate is skipped.
RotatePut ==
    /\ pc = "rotate_next"
    /\ \E r \in todo :
        /\ todo' = todo \ {r}
        /\ \/ /\ IF \E e \in mem : e.hash = r.hash /\ e.at = backend
                 THEN UNCHANGED remote
                 ELSE /\ r.hash \in objects
                      /\ remote' = [remote EXCEPT ![backend] = @ \cup {r.hash}]
              /\ cur' = r /\ pc' = "rotate_verify"
           \/ CanFail /\ UNCHANGED <<remote, cur, pc>>
    /\ UNCHANGED <<index, corrupt, sidecars, objects, stale, tags, backend, mem, scan>>

RotateEnd ==
    /\ pc = "rotate_next" /\ todo = {}
    /\ Done
    /\ UNCHANGED <<disk, scan>>

\* exists, size and a verifying download.
Verified(h) == h \in remote[backend]

\* After a successful verification the sidecar records the new place,
\* otherwise the candidate is skipped.
RotateVerify ==
    /\ pc = "rotate_verify"
    /\ \/ /\ Verified(cur.hash)
          /\ sidecars' = Append(sidecars, MovedTo(cur, backend))
          /\ pc' = "rotate_save" /\ UNCHANGED cur
       \/ /\ CanFail \/ ~Verified(cur.hash)
          /\ pc' = "rotate_next" /\ cur' = NoRef
          /\ UNCHANGED sidecars
    /\ UNCHANGED <<index, corrupt, objects, remote, stale, tags, backend, mem, todo, scan>>

RotateSave ==
    /\ pc = "rotate_save"
    /\ mem' = Insert(mem, MovedTo(cur, backend))
    /\ Save(mem')
    /\ pc' = "rotate_drop"
    /\ UNCHANGED <<sidecars, objects, remote, stale, tags, backend, cur, todo, scan>>

\* The object goes only when no local version shares it.
HasLocalReference(ix, h) == \E e \in ix : e.hash = h /\ e.at = Here

RotateDrop ==
    /\ pc = "rotate_drop"
    /\ objects' = IF HasLocalReference(mem, cur.hash)
                  THEN objects ELSE objects \ {cur.hash}
    /\ pc' = "rotate_next" /\ cur' = NoRef
    /\ UNCHANGED <<index, corrupt, sidecars, remote, stale, tags, backend, mem, todo, scan>>

-----------------------------------------------------------------------------
(* fetch_offloaded, called by `history fetch` and by lookup: bring the     *)
(* object back from the backend named in the entry.  A version that is not *)
(* offloaded, or cannot be read there, changes nothing.                    *)

FetchBegin(k) ==
    /\ pc = "idle"
    /\ \E m \in Loaded :
        /\ Save(m)
        /\ LET offloaded == {e \in m : e.key = k /\ e.at # Here /\ Retrievable(e)}
           IN IF offloaded = {}
              THEN UNCHANGED op
              ELSE /\ cur' \in offloaded /\ mem' = m /\ todo' = {}
                   /\ pc' = IF cur'.hash \in objects THEN "fetch_delete" ELSE "fetch_install"
    /\ UNCHANGED <<sidecars, objects, remote, stale, tags, backend, scan>>

\* Mutant: the download stays under its temporary name.
FetchInstallForgotten ==
    /\ pc = "fetch_install"
    /\ pc' = "fetch_delete"
    /\ UNCHANGED <<disk, mem, cur, todo, scan>>

\* The verified download is renamed to the object.
FetchInstall ==
    /\ pc = "fetch_install"
    /\ objects' = objects \cup {cur.hash}
    /\ pc' = "fetch_delete"
    /\ UNCHANGED <<index, corrupt, sidecars, remote, stale, tags, backend, mem, cur, todo, scan>>

\* The external copy goes unless another entry is offloaded to it.
HasOtherOffloadedReference(ix, r) ==
    \E e \in ix : e.key # r.key /\ e.hash = r.hash /\ e.at = r.at

FetchDelete ==
    /\ pc = "fetch_delete"
    /\ remote' = IF HasOtherOffloadedReference(mem, cur)
                 THEN remote
                 ELSE [remote EXCEPT ![cur.at] = @ \ {cur.hash}]
    /\ pc' = "fetch_ref"
    /\ UNCHANGED <<index, corrupt, sidecars, objects, stale, tags, backend, mem, cur, todo, scan>>

FetchRef ==
    /\ pc = "fetch_ref"
    /\ sidecars' = Append(sidecars, MovedTo(cur, Here))
    /\ pc' = "fetch_save"
    /\ UNCHANGED <<index, corrupt, objects, remote, stale, tags, backend, mem, cur, todo, scan>>

FetchSave ==
    /\ pc = "fetch_save"
    /\ Save(Insert(mem, MovedTo(cur, Here)))
    /\ Done
    /\ UNCHANGED <<sidecars, objects, remote, stale, tags, backend, scan>>

-----------------------------------------------------------------------------
(* What happens around the operations.                                     *)

\* The kinds of temporary file that exist while a step is under way.
Unfinished(p) ==
    CASE p = "archive_object" -> {"archive"}
      [] p \in {"archive_touch", "archive_ref", "gc_refs", "fetch_ref"} -> {"meta"}
      [] p \in {"archive_save", "gc_save", "purge_save", "rotate_save", "fetch_save"} -> {"index"}
      [] p = "rotate_verify" -> {"verify", "meta"}
      [] p = "fetch_install" -> {"fetch"}
      [] OTHER -> {}

\* An I/O error or the death of the process ends the operation where it is.
Abort ==
    /\ CanFail /\ pc # "idle"
    /\ \E left \in SUBSET (Unfinished(pc) \cap Temporaries) : stale' = stale \cup left
    /\ Done
    /\ UNCHANGED <<index, corrupt, sidecars, objects, remote, tags, backend, scan>>

\* index.json is renamed into place without fsync: after a power failure it
\* may not parse.
Corrupt ==
    /\ CanCorrupt /\ pc = "idle" /\ ~corrupt
    /\ corrupt' = TRUE
    /\ UNCHANGED <<index, sidecars, objects, remote, stale, tags, backend, op, scan>>

\* lookup, list, offloaded and protected_versions call load_or_rebuild
\* without the lock: the directory scan, and later the save of its result.
ReaderScan ==
    /\ corrupt /\ scan = {}
    /\ scan' \in {{m} : m \in Rebuilds}
    /\ UNCHANGED <<disk, op>>

ReaderSave ==
    /\ scan # {}
    /\ \E m \in scan : Save(m)
    /\ scan' = {}
    /\ UNCHANGED <<sidecars, objects, remote, stale, tags, backend, op>>

\* The operator points the daemon at another backend and restarts it.
Reconfigure ==
    /\ pc = "idle"
    /\ \E b \in Backends \ {backend} : backend' = b
    /\ UNCHANGED <<index, corrupt, sidecars, objects, remote, stale, tags, op, scan>>

-----------------------------------------------------------------------------
Begin ==
    \/ \E p \in Publishable : ArchiveBegin(p[1], p[2])
    \/ \E t \in TagNames, pins \in SUBSET Keys : TagAdd(t, pins)
    \/ \E t \in TagNames : TagRemove(t)
    \/ GcBegin \/ PurgeBegin \/ RotateBegin
    \/ \E k \in Keys : FetchBegin(k)

Step ==
    \/ ArchiveObject \/ ArchiveTouch \/ ArchiveRef \/ ArchiveSave
    \/ GcSave \/ GcRef \/ GcObject
    \/ PurgeSave \/ PurgeObjects
    \/ RotatePut \/ RotateVerify \/ RotateSave \/ RotateDrop \/ RotateEnd
    \/ FetchInstall \/ FetchDelete \/ FetchRef \/ FetchSave

Next == Begin \/ Step \/ Abort \/ Corrupt \/ ReaderScan \/ ReaderSave \/ Reconfigure

Spec == Init /\ [][Next]_vars

-----------------------------------------------------------------------------
(* Properties.                                                             *)

Steps == {"idle", "archive_object", "archive_touch", "archive_ref", "archive_save",
          "gc_save", "gc_refs", "gc_objects", "purge_save", "purge_objects",
          "rotate_next", "rotate_verify", "rotate_save", "rotate_drop",
          "fetch_install", "fetch_delete", "fetch_ref", "fetch_save"}

\* The type of every variable, and one entry per key in the index, on disk
\* and in memory (HistoryIndex is a map).
TypeOK ==
    /\ index \subseteq Refs /\ mem \subseteq Refs
    /\ \A e, f \in index : e.key = f.key => e = f
    /\ \A e, f \in mem : e.key = f.key => e = f
    /\ corrupt \in BOOLEAN
    /\ sidecars \subseteq Refs /\ todo \subseteq Refs
    /\ objects \subseteq Contents
    /\ remote \in [Backends -> SUBSET Contents]
    /\ stale \subseteq Temporaries
    /\ tags \in [TagNames -> SUBSET Keys]
    /\ backend \in Backends
    /\ pc \in Steps
    /\ cur \in Refs \cup {NoRef}
    /\ scan \subseteq SUBSET Refs

\* Every indexed version can be served: whatever archive, gc, rotate and fetch
\* did, and wherever they died, an entry never points at bytes that are gone.
Fetchable == \A e \in index : Retrievable(e)

\* All the contents that exist somewhere.
Copies == objects \cup UNION {remote[b] : b \in DOMAIN remote}

\* The bytes of an indexed version are never destroyed: they are in objects/
\* or on some backend, whatever the entry says.
ContentKept ==
    \A e \in index : e.hash \in Copies

\* Losing index.json at any moment loses no version: the sidecars still name
\* each indexed version with its content, at a place it can be read from.
RebuildSafe ==
    \A e \in index : \E r \in Eligible :
        r.key = e.key /\ r.hash = e.hash /\ Retrievable(r)

\* A version in the index keeps its content as long as it is there: archive
\* refuses other bytes under the same (rel, version).
VersionImmutable ==
    [][\A e \in index, f \in index' : e.key = f.key => e.hash = f.hash]_vars

\* gc without purge never drops a version that a tag pins while it runs, from
\* reading the tags to saving the index.
TagsProtect ==
    [][pc = "gc_save" => \A e \in index \ index' : e.key \notin Pinned]_vars

\* Only gc destroys bytes: archive, rotate and fetch never remove the last copy
\* of a content, local or external, even when index.json was damaged, a stale
\* rebuild overwrote it, or the backend was reconfigured in between.
OnlyGcDestroys ==
    [][pc \notin {"gc_objects", "purge_objects"} => Copies \subseteq Copies']_vars

=============================================================================
