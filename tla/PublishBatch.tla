---------------------------- MODULE PublishBatch ----------------------------
(***************************************************************************)
(* The command PublishUpdate (ipc_server.rs) with the hooks around it      *)
(* (hooks/runner.rs, project_file.rs, wiring.rs): every path of the batch  *)
(* is resolved, the pre-publish hooks run, every path is resolved and read *)
(* again, and only then versions are given out, archived and offered, and  *)
(* post-publish hooks are started.                                         *)
(*                                                                         *)
(* Hooks and the user change the tree at any time.  A version number is    *)
(* what ProjectVersions makes it; here it only has to grow.                *)
(***************************************************************************)
EXTENDS Naturals, Sequences, FiniteSets, SequencesExt

CONSTANTS Files, Contents,
          Missing, Outside,  \* no such file; a link that leaves the project
          Requests,          \* per batch: the paths of the command
          Slots,             \* MAX_CONCURRENT_POST_HOOK_BATCHES
          MaxChanges,        \* bound: changes of the tree
          MaxReceived        \* bound: files received from peers

Batches == DOMAIN Requests

VARIABLES tree,      \* what is at each path: a content, a link to a file, or neither
          allow,     \* allow_project_hooks
          hooksfile, \* .synergos/hooks.toml: absent, a hook for every event, or broken
          archiving, \* is this a history node?
          manifest,  \* per file: its version and what was published as it
          archive,   \* the versions kept
          shared,    \* shared_files: the version this node serves
          batch,     \* per command: where it is and what it has gathered
          posts,     \* tasks of post hooks, oldest first
          changes, received,
          cleared,   \* history: per batch under way, the files whose hooks have passed
          since,     \* history: per batch under way, what each path has been since then
          issued     \* history: the versions given out, and whether the hooks of the
                     \* whole batch had passed and the file was that since then

batchVars == <<tree, allow, hooksfile, archiving, manifest, archive, shared, batch,
               posts, changes, received, cleared, since, issued>>
stores == <<manifest, archive, shared, issued>>
config == <<allow, hooksfile, archiving>>

Fresh == [pc |-> "ready", at |-> 1, files |-> <<>>, todo |-> 0, seen |-> <<>>, versions |-> <<>>]

Init ==
    /\ tree \in [Files -> {CHOOSE c \in Contents : TRUE}]
    /\ allow \in BOOLEAN
    /\ hooksfile \in {"absent", "hook", "broken"}
    /\ archiving \in BOOLEAN
    /\ manifest = [f \in Files |-> [version |-> 0, is |-> Missing]]
    /\ archive = {}
    /\ shared = [f \in Files |-> [version |-> 0, is |-> Missing]]
    /\ batch = [b \in Batches |-> Fresh]
    /\ posts = <<>>
    /\ changes = 0
    /\ received = 0
    /\ cleared = [b \in Batches |-> {}]
    /\ since = [b \in Batches |-> [f \in Files |-> {}]]
    /\ issued = {}

At(b, pc) == batch[b].pc = pc
Current(b) == batch[b].files[batch[b].at]
AtLast(b) == batch[b].at = Len(batch[b].files)
(* The batch moves to its next file, or after its last to the next phase.  *)
Step(b, r, phase) == [r EXCEPT !.at = IF AtLast(b) THEN 1 ELSE @ + 1,
                               !.pc = IF AtLast(b) THEN phase ELSE @]
End(b, pc) ==
    /\ batch' = [batch EXCEPT ![b] = [Fresh EXCEPT !.pc = pc]]
    /\ cleared' = [cleared EXCEPT ![b] = {}]
    /\ since' = [since EXCEPT ![b] = [f \in Files |-> {}]]
Go(b, r) == batch' = [batch EXCEPT ![b] = r] /\ UNCHANGED <<cleared, since>>

-----------------------------------------------------------------------------
(* Paths and hooks.                                                        *)

(* resolve_publish_path: the file a path leads to, which must be a regular *)
(* file of the project.                                                    *)
resolve_publish_path(f) ==
    LET target == IF tree[f] \in Files THEN tree[f] ELSE f
    IN  IF tree[target] \in Contents THEN target ELSE Missing

(* matching_hooks: how many hooks match, daemon hooks first.  The daemon   *)
(* has one hook for every event here.                                      *)
matching_hooks == IF allow /\ hooksfile = "hook" THEN 2 ELSE 1
load_fails == allow /\ hooksfile = "broken"

(* What a hook or the user does to the tree: nothing, or one change.       *)
Changed ==
    \/ UNCHANGED <<tree, changes>>
    \/ /\ changes < MaxChanges /\ changes' = changes + 1
       /\ \E f \in Files : \E is \in Contents \cup {Missing, Outside} \cup (Files \ {f}) :
            is # tree[f] /\ tree' = [tree EXCEPT ![f] = is]

Gated(b) == batch[b].pc \in {"check", "bump", "archive", "offer"}
(* What the tree has become, for the batches past their hooks; `ran` is    *)
(* the batch whose hook this was, `ended` the one it ends.                 *)
Noted(ran, ended) == since' = [c \in Batches |-> [f \in Files |->
    CASE c \in ended -> {}
      [] c \in ran   -> {tree'[f]}
      [] Gated(c)    -> since[c][f] \cup {tree'[f]}
      [] OTHER       -> since[c][f]]]

Edit ==
    /\ Changed /\ tree' # tree
    /\ Noted({}, {})
    /\ UNCHANGED <<config, stores, batch, posts, received, cleared>>

(* HooksRun, with run_manual: the hooks of one event are run on request,   *)
(* and may change the tree; nothing is published.                          *)
HooksRun ==
    /\ ~load_fails
    /\ Changed /\ tree' # tree
    /\ Noted({}, {})
    /\ UNCHANGED <<config, stores, batch, posts, received, cleared>>

-----------------------------------------------------------------------------
(* PublishUpdate                                                           *)

(* The whole batch is resolved before any hook runs.                       *)
resolve(b) ==
    /\ At(b, "ready")
    /\ LET path == Requests[b][Len(batch[b].files) + 1]
           f == resolve_publish_path(path)
           files == Append(batch[b].files, f)
       IN  IF f = Missing THEN End(b, "failed")
           ELSE Go(b, [batch[b] EXCEPT !.files = files, !.seen = Append(@, tree[f]),
                         !.pc = IF Len(files) = Len(Requests[b]) THEN "hooks" ELSE @])
    /\ UNCHANGED <<tree, config, stores, posts, changes, received>>

(* run_pre_publish: the hooks of the next file are looked up ...           *)
run_pre_publish(b) ==
    /\ At(b, "hooks")
    /\ IF load_fails THEN End(b, "failed")
       ELSE Go(b, [batch[b] EXCEPT !.pc = "execute", !.todo = matching_hooks])
    /\ UNCHANGED <<tree, config, stores, posts, changes, received>>

(* ... and executed; the first that fails, cannot be started or runs out   *)
(* of time ends the command.                                               *)
execute(b) ==
    /\ At(b, "execute")
    /\ Changed
    /\ \/ /\ batch' = [batch EXCEPT ![b] = [Fresh EXCEPT !.pc = "failed"]]
          /\ cleared' = [cleared EXCEPT ![b] = {}]
          /\ Noted({}, {b})
       \/ LET r == [batch[b] EXCEPT !.todo = @ - 1] IN
          /\ IF r.todo > 0
             THEN batch' = [batch EXCEPT ![b] = r] /\ UNCHANGED cleared
             ELSE /\ cleared' = [cleared EXCEPT ![b] = @ \cup {Current(b)}]
                  /\ batch' = [batch EXCEPT ![b] =
                       [Step(b, r, "check") EXCEPT !.pc = IF AtLast(b) THEN @ ELSE "hooks"]]
          /\ Noted({b}, {})
    /\ UNCHANGED <<config, stores, posts, received>>

(* Mutant: what was found before the hooks ran is published.               *)
check_before(b) ==
    /\ At(b, "check")
    /\ IF resolve_publish_path(Current(b)) # Current(b) THEN End(b, "failed")
       ELSE Go(b, Step(b, batch[b], "bump"))
    /\ UNCHANGED <<tree, config, stores, posts, changes, received>>

(* Every path is resolved again, must still be the same file, and is read. *)
check(b) ==
    /\ At(b, "check")
    /\ IF resolve_publish_path(Current(b)) # Current(b) THEN End(b, "failed")
       ELSE Go(b, Step(b, [batch[b] EXCEPT !.seen[batch[b].at] = tree[Current(b)]], "bump"))
    /\ UNCHANGED <<tree, config, stores, posts, changes, received>>

(* bump_file_version: content that is the same keeps its version.          *)
bump(b) ==
    /\ At(b, "bump")
    /\ LET f == Current(b)
           is == batch[b].seen[batch[b].at]
           v == IF manifest[f].is = is THEN manifest[f].version ELSE manifest[f].version + 1
       IN  \/ End(b, "failed") /\ UNCHANGED <<manifest, issued>>
           \/ /\ manifest' = [manifest EXCEPT ![f] = [version |-> v, is |-> is]]
              /\ issued' = issued \cup {[file |-> f, version |-> v, is |-> is,
                    gated |-> ToSet(batch[b].files) = cleared[b] /\ is \in since[b][f]]}
              /\ Go(b, [batch[b] EXCEPT !.versions = Append(@, v), !.pc = "archive"])
    /\ UNCHANGED <<tree, config, archive, shared, posts, changes, received>>

(* archive_to_history on a history node: the copy must be what was read.   *)
(* A failure here leaves the versions given out so far, and offers none.   *)
archive_to_history(b) ==
    /\ At(b, "archive")
    /\ LET f == Current(b)
           is == batch[b].seen[batch[b].at]
       IN  IF archiving /\ tree[f] # is
           THEN End(b, "failed") /\ UNCHANGED archive
           ELSE /\ archive' = IF archiving
                     THEN archive \cup {[file |-> f, version |-> batch[b].versions[batch[b].at],
                                         is |-> tree[f]]} ELSE archive
                /\ Go(b, [Step(b, batch[b], "offer") EXCEPT !.pc = IF AtLast(b) THEN @ ELSE "bump"])
    /\ UNCHANGED <<tree, config, manifest, shared, issued, posts, changes, received>>

Post(event, f, v) == [event |-> event, file |-> f, version |-> v, pc |-> "waiting", todo |-> 0]

(* publish_updates: the record every peer is served from is replaced and   *)
(* offered; then one task per file is spawned for its post-publish hooks.  *)
publish_updates(b) ==
    /\ At(b, "offer")
    /\ LET r == batch[b] IN
       /\ shared' = [f \in Files |->
            IF \E i \in DOMAIN r.files : r.files[i] = f
            THEN LET i == CHOOSE i \in DOMAIN r.files :
                       r.files[i] = f /\ \A j \in DOMAIN r.files : r.files[j] = f => j <= i
                 IN  [version |-> r.versions[i], is |-> r.seen[i]]
            ELSE shared[f]]
       /\ posts' = posts \o [i \in DOMAIN r.files |-> Post("post-publish", r.files[i], r.versions[i])]
    /\ End(b, "done")
    /\ UNCHANGED <<tree, config, manifest, archive, issued, changes, received>>

-----------------------------------------------------------------------------
(* spawn_post_hooks                                                        *)

(* The hook of a file received from a peer: skipped if its path leads      *)
(* outside the project; whether the file is still there is not asked.      *)
post_receive_hook(f) ==
    /\ received < MaxReceived /\ received' = received + 1
    /\ posts' = IF tree[f] # Outside
                THEN Append(posts, Post("post-receive", f, 0)) ELSE posts
    /\ UNCHANGED <<tree, config, stores, batch, changes, cleared, since>>

Running == {i \in DOMAIN posts : posts[i].pc = "running"}

(* acquire_owned on the semaphore.                                         *)
free_slot == Cardinality(Running) < Slots

acquire(i) ==
    /\ i \in DOMAIN posts /\ posts[i].pc = "waiting" /\ free_slot
    /\ posts' = IF load_fails THEN RemoveAt(posts, i)
                ELSE [posts EXCEPT ![i].pc = "running", ![i].todo = matching_hooks]
    /\ UNCHANGED <<tree, config, stores, batch, changes, received, cleared, since>>

(* A hook that fails is logged and the next one runs; the permit is given  *)
(* back after the last.                                                    *)
post_execute(i) ==
    /\ i \in DOMAIN posts /\ posts[i].pc = "running"
    /\ Changed /\ Noted({}, {})
    /\ posts' = IF posts[i].todo = 1 THEN RemoveAt(posts, i) ELSE [posts EXCEPT ![i].todo = @ - 1]
    /\ UNCHANGED <<config, stores, batch, received, cleared>>

Next ==
    \/ \E b \in Batches :
         \/ resolve(b) \/ run_pre_publish(b) \/ execute(b) \/ check(b) \/ bump(b)
         \/ archive_to_history(b) \/ publish_updates(b)
    \/ Edit \/ HooksRun
    \/ \E f \in Files : post_receive_hook(f)
    \/ \E i \in DOMAIN posts : acquire(i) \/ post_execute(i)

-----------------------------------------------------------------------------
(* What the command promises about its hooks: a version is given out only  *)
(* after the hooks of every file of its batch have passed, for something   *)
(* the file has been since the last of them ran; what is archived under    *)
(* the version, or served as it, is the same; a post-publish hook runs     *)
(* only for a version that was given out; and at most Slots of them run at *)
(* a time (PublishUpdate, HookRunner).                                     *)
PublishGated ==
    /\ \A p \in issued : p.gated
    /\ \A a \in archive : \E p \in issued :
         p.file = a.file /\ p.version = a.version /\ p.is = a.is
    /\ \A f \in Files : shared[f].version > 0 => \E p \in issued :
         p.file = f /\ p.version = shared[f].version /\ p.is = shared[f].is
    /\ \A i \in DOMAIN posts : posts[i].event = "post-publish" =>
         \E p \in issued : p.file = posts[i].file /\ p.version = posts[i].version
    /\ Cardinality(Running) <= Slots
=============================================================================
