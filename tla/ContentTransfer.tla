-------------------------- MODULE ContentTransfer --------------------------
(***************************************************************************)
(* Content over HTTP (synergos-core/src/content_http): a file is cut into  *)
(* blocks and described by a manifest (prepare), its blocks are uploaded   *)
(* to object storage (push) and downloaded elsewhere (pull), by commands   *)
(* that may be killed at any time and run again.                           *)
(*                                                                         *)
(* A block id is the sequence of what it stands for: <<x>> is a data block *)
(* and a longer sequence the root block that lists its chunks, so that an  *)
(* id determines the bytes as a hash does.  A stored copy is "good" (it    *)
(* verifies), "bad" or "absent".                                           *)
(***************************************************************************)
EXTENDS Naturals, Sequences, FiniteSets, Functions

CONSTANTS
  Source0, Source1,  \* the source file before and after an edit (chunks)
  Concurrency,       \* blocks in transfer at the same time
  Retries,           \* further attempts after a transient failure
  MaxFaults,         \* transient failures of the storage
  MaxMishaps,        \* edits, damage, kills, files appearing at the destination
  MaxPulls           \* pull commands

Data(s) == {<<s[i]>> : i \in DOMAIN s}
Chunks == Data(Source0) \cup Data(Source1)
Roots == [1..Len(Source0) -> {c[1] : c \in Chunks}]
Files == {Source0, Source1}
Ids == Chunks \cup Roots
Closure(root) == Data(root) \cup {root}
States == {"absent", "good", "bad"}
NoPlan == [blocks |-> {}, gets |-> {}, puts |-> {}]
NoRoot == <<>>

ASSUME ContentAssumption ==
  /\ Source0 \in Seq(Range(Source0)) /\ Source1 \in Seq(Range(Source1))
  /\ Len(Source0) = Len(Source1) /\ Len(Source0) > 1
  /\ Concurrency \in 1..16 /\ Retries \in 0..5
  /\ {MaxFaults, MaxMishaps, MaxPulls} \subseteq Nat

VARIABLES
  source,     \* [bytes, mtime]: the file at the sender
  cache,      \* cache[w][id]: BlockCache of the sender ("push") and receiver ("pull")
  remote,     \* remote[id]: the object storage
  dest,       \* the destination: <<>> if absent, else what it contains
  cmd,        \* cmd[w]: the command that holds the lock of that cache
  manifests,  \* roots that prepare has printed
  budget      \* what the environment may still do

vars == <<source, cache, remote, dest, cmd, manifests, budget>>

Sides == {"push", "pull"}
Idle == [pc |-> "idle", root |-> NoRoot, plan |-> NoPlan, todo |-> {},
         active |-> <<>>, read |-> <<>>, mtime |-> 0]
Foreign == <<"foreign">>

Init ==
  /\ source = [bytes |-> Source0, mtime |-> 0]
  /\ cache = [w \in Sides |-> [id \in Ids |-> "absent"]]
  /\ \E b \in {NoRoot, <<Source0[1]>>, Source0} : remote = [id \in Ids |-> IF id = b THEN "bad" ELSE "absent"]
  /\ dest = <<>>
  /\ cmd = [w \in Sides |-> Idle]
  /\ manifests = {}
  /\ budget = [faults |-> MaxFaults, mishaps |-> MaxMishaps, pulls |-> MaxPulls]

Spend(what) ==
  /\ budget[what] > 0
  /\ budget' = [budget EXCEPT ![what] = @ - 1]

(* One command at a time has the cache: the lock on its directory. *)
BlockCache_open(w) == cmd[w].pc = "idle"

(* A command returns, with a result or an error: its tasks are aborted, its
   temporaries removed and the lock released. *)
Return(w) == cmd' = [cmd EXCEPT ![w] = Idle]

(***************************************************************************)
(* The cache: only a copy that verifies counts.                            *)
(***************************************************************************)

load(w, id) == cache[w][id] = "good"

(* A good copy is kept.  A bad one is removed before the rename; a kill in
   between leaves none, which load does not tell from a bad one. *)
save(w, id) == cache' = [cache EXCEPT ![w][id] = "good"]

(***************************************************************************)
(* prepare: read the source chunk by chunk, save each block, check that    *)
(* the source did not change, save the root and print the manifest.        *)
(***************************************************************************)
prepare_open ==
  /\ BlockCache_open("push") /\ manifests = {}
  /\ cmd' = [cmd EXCEPT !["push"] = [Idle EXCEPT !.pc = "prepare", !.mtime = source.mtime]]
  /\ UNCHANGED <<source, cache, remote, dest, manifests, budget>>

prepare_chunk ==
  /\ cmd["push"].pc = "prepare" /\ Len(cmd["push"].read) < Len(Source0)
  /\ LET x == source.bytes[Len(cmd["push"].read) + 1]
     IN /\ IF x \in Range(cmd["push"].read) THEN UNCHANGED cache ELSE save("push", <<x>>)
        /\ cmd' = [cmd EXCEPT !["push"].read = Append(@, x)]
  /\ UNCHANGED <<source, remote, dest, manifests, budget>>

source_unchanged == cmd["push"].mtime = source.mtime

prepare_root ==
  /\ cmd["push"].pc = "prepare" /\ Len(cmd["push"].read) = Len(Source0)
  /\ \/ /\ source_unchanged
        /\ save("push", cmd["push"].read)
        /\ manifests' = manifests \cup {cmd["push"].read}
     \/ ~source_unchanged /\ UNCHANGED <<cache, manifests>>
  /\ Return("push")
  /\ UNCHANGED <<source, remote, dest, budget>>

(***************************************************************************)
(* Starting a transfer.  The plan describes blocks and grants requests;    *)
(* the root is trusted independently of it.                                *)
(***************************************************************************)
Plans(root) ==
  {[blocks |-> b, gets |-> g, puts |-> {}] :
     b \in {Closure(root), {root}, Ids}, g \in {Closure(root), Data(root)}}
    \cup {[blocks |-> Closure(root), gets |-> Closure(root), puts |-> p] :
            p \in {Closure(root), Data(root)}}

manifest_validate(root, plan) == root \in plan.blocks

Session_new(root, plan) ==
  /\ manifest_validate(root, plan)
  /\ plan.gets \cup plan.puts \subseteq plan.blocks

(* The manifest describes exactly the blocks of the root. *)
validated_dag(root, plan) == plan.blocks = Closure(root)

PushReady(root, plan) ==
  /\ BlockCache_open("push") /\ root \in manifests
  /\ Session_new(root, plan)
  /\ load("push", root) /\ validated_dag(root, plan)
  /\ \A id \in plan.blocks : id \in plan.puts /\ load("push", id)

(* As it would be with the root among the others. *)
push_all_at_once(root, plan) ==
  /\ PushReady(root, plan)
  /\ cmd' = [cmd EXCEPT !["push"] =
       [Idle EXCEPT !.pc = "children", !.root = root, !.plan = plan, !.todo = plan.blocks]]
  /\ UNCHANGED <<source, cache, remote, dest, manifests, budget>>

push_begin(root, plan) ==
  /\ PushReady(root, plan)
  /\ cmd' = [cmd EXCEPT !["push"] =
       [Idle EXCEPT !.pc = "children", !.root = root, !.plan = plan, !.todo = plan.blocks \ {root}]]
  /\ UNCHANGED <<source, cache, remote, dest, manifests, budget>>

pull_begin(root, plan) ==
  /\ BlockCache_open("pull") /\ root \in manifests
  /\ dest = <<>> /\ Session_new(root, plan) /\ plan.puts = {}
  /\ Spend("pulls")
  /\ cmd' = [cmd EXCEPT !["pull"] =
       [Idle EXCEPT !.pc = "root", !.root = root, !.plan = plan, !.todo = {root}]]
  /\ UNCHANGED <<source, cache, remote, dest, manifests>>

(***************************************************************************)
(* One block: Session::one under retry_one.  A task is at "get", "put",    *)
(* "readback" or "save"; a transient failure starts it over.               *)
(***************************************************************************)
Task(w, id) == cmd[w].active[id]
Runs(w, id, at) == id \in DOMAIN cmd[w].active /\ Task(w, id).at = at
Moved(w, id, at) == cmd' = [cmd EXCEPT ![w].active[id].at = at]
Drop(f, id) == [i \in DOMAIN f \ {id} |-> f[i]]
Finish(w, id) == cmd' = [cmd EXCEPT ![w].active = Drop(@, id)]

(* `parallel` keeps up to Concurrency tasks; a pull that finds the block in
   its cache is done with it at once. *)
spawn_block(w, id) ==
  /\ id \in cmd[w].todo /\ Cardinality(DOMAIN cmd[w].active) < Concurrency
  /\ \/ /\ w = "pull" /\ load(w, id)
        /\ cmd' = [cmd EXCEPT ![w].todo = @ \ {id}]
     \/ /\ ~(w = "pull" /\ load(w, id)) /\ id \in cmd[w].plan.gets
        /\ cmd' = [cmd EXCEPT ![w].todo = @ \ {id},
                     ![w].active = [i \in DOMAIN @ \cup {id} |->
                        IF i = id THEN [at |-> "get", tries |-> 0] ELSE @[i]]]
     \/ /\ ~(w = "pull" /\ load(w, id)) /\ id \notin cmd[w].plan.gets
        /\ Return(w)
  /\ UNCHANGED <<source, cache, remote, dest, manifests, budget>>

(* A GET returns the object or says that there is none; http_put replaces no
   object, and reports neither that one is there nor whether it is sound. *)
http_get(id) == remote[id]
http_put(id) == remote' = IF remote[id] = "absent" THEN [remote EXCEPT ![id] = "good"] ELSE remote

(* Bytes that do not verify are an error and are not tried again. *)
fetch(w, id) ==
  /\ Runs(w, id, "get")
  /\ CASE http_get(id) = "good" -> IF w = "pull" THEN Moved(w, id, "save") ELSE Finish(w, id)
       [] http_get(id) = "absent" /\ w = "push" /\ load(w, id) -> Moved(w, id, "put")
       [] OTHER -> Return(w)
  /\ UNCHANGED <<source, cache, remote, dest, manifests, budget>>

put(id) ==
  /\ Runs("push", id, "put")
  /\ http_put(id)
  /\ Moved("push", id, "readback")
  /\ UNCHANGED <<source, cache, dest, manifests, budget>>

readback(id) ==
  /\ Runs("push", id, "readback")
  /\ IF http_get(id) = "good" THEN Finish("push", id) ELSE Return("push")
  /\ UNCHANGED <<source, cache, remote, dest, manifests, budget>>

save_block(id) ==
  /\ Runs("pull", id, "save")
  /\ save("pull", id)
  /\ Finish("pull", id)
  /\ UNCHANGED <<source, remote, dest, manifests, budget>>

(* A timeout, a broken connection or a status worth trying again; a PUT may
   have taken effect. *)
Transient(w, id) ==
  /\ id \in DOMAIN cmd[w].active /\ Task(w, id).at # "save"
  /\ Spend("faults")
  /\ UNCHANGED remote \/ (Task(w, id).at = "put" /\ http_put(id))
  /\ UNCHANGED <<source, cache, dest, manifests>>

retry_one(w, id) ==
  /\ Transient(w, id)
  /\ IF Task(w, id).tries < Retries
       THEN cmd' = [cmd EXCEPT ![w].active[id] = [at |-> "get", tries |-> @.tries + 1]]
       ELSE Return(w)

(***************************************************************************)
(* After the blocks.                                                       *)
(***************************************************************************)
Quiet(w, pc) == cmd[w].pc = pc /\ cmd[w].todo = {} /\ cmd[w].active = <<>>

(* push: the root last. *)
push_root ==
  /\ Quiet("push", "children")
  /\ cmd' = [cmd EXCEPT !["push"].pc = "root", !["push"].todo = {cmd["push"].root}]
  /\ UNCHANGED <<source, cache, remote, dest, manifests, budget>>

push_done ==
  /\ Quiet("push", "root")
  /\ cmd' = [cmd EXCEPT !["push"] = Idle]
  /\ UNCHANGED <<source, cache, remote, dest, manifests, budget>>

(* pull: the root is decoded and the plan held against it. *)
pull_children ==
  /\ Quiet("pull", "root")
  /\ LET c == cmd["pull"]
     IN IF load("pull", c.root) /\ validated_dag(c.root, c.plan)
          THEN cmd' = [cmd EXCEPT !["pull"].pc = "children",
                                  !["pull"].todo = c.plan.blocks \ {c.root}]
          ELSE Return("pull")
  /\ UNCHANGED <<source, cache, remote, dest, manifests, budget>>

(* assemble: if the destination is still absent, the chunks in the order of
   the root, each verified as it is read, into a temporary; then a link that replaces nothing. *)
assemble_chunk ==
  /\ Quiet("pull", "children") /\ Len(cmd["pull"].read) < Len(cmd["pull"].root)
  /\ LET x == cmd["pull"].root[Len(cmd["pull"].read) + 1]
     IN IF load("pull", <<x>>) /\ (cmd["pull"].read = <<>> => dest = <<>>)
          THEN cmd' = [cmd EXCEPT !["pull"].read = Append(@, x)]
          ELSE Return("pull")
  /\ UNCHANGED <<source, cache, remote, dest, manifests, budget>>

(* As it would be with a rename. *)
rename_over ==
  /\ Quiet("pull", "children") /\ Len(cmd["pull"].read) = Len(cmd["pull"].root)
  /\ dest' = cmd["pull"].read
  /\ Return("pull")
  /\ UNCHANGED <<source, cache, remote, manifests, budget>>

hard_link ==
  /\ Quiet("pull", "children") /\ Len(cmd["pull"].read) = Len(cmd["pull"].root)
  /\ dest' = IF dest = <<>> THEN cmd["pull"].read ELSE dest
  /\ Return("pull")
  /\ UNCHANGED <<source, cache, remote, manifests, budget>>

(***************************************************************************)
(* What happens around the commands.                                       *)
(***************************************************************************)
EditSource ==
  /\ source.bytes = Source0 /\ Spend("mishaps")
  /\ source' = [bytes |-> Source1, mtime |-> source.mtime + 1]
  /\ UNCHANGED <<cache, remote, dest, cmd, manifests>>

DamageCache(w, id) ==
  /\ cache[w][id] = "good" /\ Spend("mishaps")
  /\ cache' = [cache EXCEPT ![w][id] = "bad"]
  /\ UNCHANGED <<source, remote, dest, cmd, manifests>>

Kill(w) ==
  /\ cmd[w].pc # "idle" /\ Spend("mishaps")
  /\ Return(w)
  /\ UNCHANGED <<source, cache, remote, dest, manifests>>

FileAppears ==
  /\ dest = <<>> /\ Spend("mishaps")
  /\ dest' = Foreign
  /\ UNCHANGED <<source, cache, remote, cmd, manifests>>

BlockStep(w) == \E id \in Ids : spawn_block(w, id) \/ fetch(w, id)
PushStep ==
  \/ prepare_open \/ prepare_chunk \/ prepare_root \/ push_root \/ push_done
  \/ \E id \in Ids : put(id) \/ readback(id)
PullStep == pull_children \/ assemble_chunk \/ hard_link \/ \E id \in Ids : save_block(id)

Next ==
  \/ PushStep \/ PullStep
  \/ \E root \in manifests, w \in Sides : \E plan \in Plans(root) :
       (w = "push" /\ push_begin(root, plan)) \/ (w = "pull" /\ pull_begin(root, plan))
  \/ \E w \in Sides : BlockStep(w) \/ Kill(w) \/ \E id \in Ids : retry_one(w, id) \/ DamageCache(w, id)
  \/ EditSource \/ FileAppears

Spec == Init /\ [][Next]_vars

-----------------------------------------------------------------------------
TypeOK ==
  /\ cache \in [Sides -> [Ids -> States]] /\ remote \in [Ids -> States]
  /\ manifests \subseteq Roots
  /\ \A w \in Sides : cmd[w].todo \subseteq Ids /\ DOMAIN cmd[w].active \subseteq Ids

(* Where the whole is offered: an object, or the destination file. *)
Place(whole, other) == IF whole THEN "whole" ELSE IF other THEN "taken" ELSE "empty"

Storage(root) == INSTANCE VerifiedContent WITH
  Blocks <- Data(root),
  held <- {id \in Data(root) : remote[id] = "good"},
  place <- Place(remote[root] = "good", remote[root] = "bad")

Destination(root) == INSTANCE VerifiedContent WITH
  Blocks <- Data(root),
  held <- {id \in Data(root) : load("pull", id) \/ id \in Data(cmd["pull"].read)},
  place <- Place(dest = root, dest # <<>> /\ dest # root)

(* The storage shows a root only once every block it lists can be read there,
   whatever uploads failed, were repeated or were killed (push, one), and
   what it shows is not replaced: the storage implements VerifiedContent for
   every version of the file. *)
PushImplements ==
  /\ \A root \in Files : Storage(root)!Init
  /\ [][\A root \in Files : Storage(root)!Step]_vars

(* The destination appears only as a whole, made of blocks that were each
   verified, and never replaces a file that appeared meanwhile (pull,
   validated_dag, assemble): it implements VerifiedContent for every
   version of the file. *)
PullImplements ==
  /\ \A root \in Files : Destination(root)!Init
  /\ [][\A root \in Files : Destination(root)!Step]_vars
=============================================================================
