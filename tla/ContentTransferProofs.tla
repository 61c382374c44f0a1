----------------------- MODULE ContentTransferProofs ------------------------
(***************************************************************************)
(* Proofs about ContentTransfer, for every file of two or more chunks and  *)
(* every edit of it, every number of retries, parallel transfers, faults,  *)
(* kills and pulls: the storage and the destination implement              *)
(* VerifiedContent.                                                        *)
(***************************************************************************)
EXTENDS ContentTransfer, TLAPS

\* Every leaf without a prover of its own is tried with Zenon, then with SMT.
USE ZenonT(5), SMTT(30)

Bytes == {c[1] : c \in Chunks}

LEMMA SourceTypes ==
    /\ Files \subseteq Roots
    /\ Len(Source0) \in Nat /\ Len(Source0) > 1 /\ Len(Source0) # 1
    /\ \A root \in Roots : root \in Seq(Bytes) /\ Len(root) = Len(Source0)
<1>1. /\ Source0 \in Seq(Range(Source0)) /\ Source1 \in Seq(Range(Source1))
      /\ Len(Source0) = Len(Source1) /\ Len(Source0) > 1 /\ Len(Source0) \in Nat
      /\ Len(Source0) # 1
  BY ContentAssumption
<1>2. ASSUME NEW s \in Files PROVE DOMAIN s = 1..Len(Source0) /\ s = [i \in DOMAIN s |-> s[i]]
  BY <1>1 DEF Files
<1>3. ASSUME NEW s \in Files, NEW i \in DOMAIN s PROVE s[i] \in Bytes
  <2>1. <<s[i]>> \in Chunks
    BY DEF Chunks, Data, Files
  <2>2. <<s[i]>>[1] = s[i]
    OBVIOUS
  <2> QED
    BY <2>1, <2>2 DEF Bytes
<1>4. Files \subseteq Roots
  BY <1>2, <1>3 DEF Roots, Bytes
<1>5. ASSUME NEW root \in Roots PROVE root \in Seq(Bytes) /\ Len(root) = Len(Source0)
  BY <1>1 DEF Roots, Bytes
<1> QED
  BY <1>1, <1>4, <1>5

\* The id of a data block is never that of a root, and the blocks of a root
\* have ids.
LEMMA BlockIds ==
    ASSUME NEW root \in Roots
    PROVE  /\ Data(root) \subseteq Ids /\ root \in Ids
           /\ \A id \in Data(root) : id \notin Roots
<1>1. root = [i \in 1..Len(Source0) |-> root[i]] /\ \A i \in 1..Len(Source0) : root[i] \in Bytes
  BY DEF Roots, Bytes
<1>2. ASSUME NEW x \in Bytes PROVE <<x>> \in Chunks
  <2>1. PICK c \in Chunks : x = c[1]
    BY DEF Bytes
  <2>2. c = <<c[1]>>
    BY DEF Chunks, Data
  <2> QED
    BY <2>1, <2>2
<1>3. Data(root) \subseteq Chunks
  BY <1>1, <1>2 DEF Data
<1>4. ASSUME NEW id \in Data(root) PROVE id \notin Roots
  <2>1. PICK i \in DOMAIN root : id = <<root[i]>>
    BY DEF Data
  <2>2. Len(<<root[i]>>) = 1
    OBVIOUS
  <2>3. Len(id) = 1
    BY <2>1, <2>2, Zenon
  <2>4. ASSUME id \in Roots PROVE Len(id) = Len(Source0)
    BY <2>4, SourceTypes, Zenon
  <2> QED
    BY <2>3, <2>4, SourceTypes, Zenon
<1> QED
  BY <1>3, <1>4 DEF Ids

LEMMA DataAppend ==
    ASSUME NEW S, NEW s \in Seq(S), NEW x \in S
    PROVE  Data(Append(s, x)) = Data(s) \cup {<<x>>}
<1>1. /\ DOMAIN Append(s, x) = DOMAIN s \cup {Len(s) + 1}
      /\ \A i \in DOMAIN s : Append(s, x)[i] = s[i]
      /\ Append(s, x)[Len(s) + 1] = x
  OBVIOUS
<1> QED
  BY <1>1 DEF Data

-----------------------------------------------------------------------------
(* Types.                                                                  *)

Fields == {"pc", "root", "plan", "todo", "active", "read", "mtime"}

Attempt == [at : {"get", "put", "readback", "save"}, tries : Nat]

\* The attempts at single blocks; a pull uploads nothing.
Going(w, active) ==
    \A id \in DOMAIN active : active[id] \in Attempt /\ (w = "pull" => active[id].at # "put")

CommandOK(w, c) ==
    /\ DOMAIN c = Fields /\ Going(w, c.active)
    /\ c.pc \in {"idle", "prepare", "children", "root"}
    /\ c.pc \in {"children", "root"} => c.root \in Roots
    /\ c.plan.blocks \subseteq Ids /\ c.todo \subseteq Ids /\ DOMAIN c.active \subseteq Ids
    /\ c.read \in Seq(Bytes)

TypeInv ==
    /\ source.bytes \in Files
    /\ cache \in [Sides -> [Ids -> States]] /\ remote \in [Ids -> States]
    /\ manifests \subseteq Roots
    /\ DOMAIN cmd = Sides /\ \A w \in Sides : CommandOK(w, cmd[w])

LEMMA IdleOK ==
    /\ \A w \in Sides : CommandOK(w, Idle)
    /\ Idle.todo = {} /\ DOMAIN Idle.active = {} /\ Idle.read = <<>> /\ Idle.pc = "idle"
<1>1. DOMAIN Idle = Fields
  BY DEF Idle, Fields
<1>2. DOMAIN <<>> = {}
  OBVIOUS
<1> QED
  BY <1>1, <1>2 DEF CommandOK, Going, Idle, NoPlan

\* What a step does to the commands: one of them moves.
Moves(w, c) == DOMAIN cmd' = Sides /\ cmd'[w] = c /\ \A v \in Sides \ {w} : cmd'[v] = cmd[v]

LEMMA ReturnMoves == ASSUME TypeInv, NEW w \in Sides, Return(w) PROVE Moves(w, Idle)
BY DEF Return, Moves, TypeInv

\* How the command that moves changes: it ends, begins, reads a chunk, goes on
\* with its blocks, or has done with them.
Ends(c) == c = Idle

Begins(w, c) ==
    /\ c.read = <<>> /\ DOMAIN c.active = {}
    /\ \/ c.pc = "prepare" /\ c.todo = {}
       \/ w = "push" /\ c.pc = "children" /\ c.todo = Data(c.root)
       \/ w = "pull" /\ c.pc = "root"

Keeps(w, c) == c.pc = cmd[w].pc /\ c.root = cmd[w].root

Reads(w, c) ==
    /\ Keeps(w, c) /\ c.todo = cmd[w].todo /\ DOMAIN c.active = DOMAIN cmd[w].active
    /\ \E x \in Bytes : c.read = Append(cmd[w].read, x) /\ (w = "pull" => load("pull", <<x>>))

Transfers(w, c) ==
    /\ Keeps(w, c) /\ c.read = cmd[w].read
    /\ c.todo \subseteq cmd[w].todo
    /\ DOMAIN c.active \subseteq cmd[w].todo \cup DOMAIN cmd[w].active
    /\ w = "push" => \A id \in cmd[w].todo \cup DOMAIN cmd[w].active :
                         id \in c.todo \cup DOMAIN c.active \/ remote[id] = "good"

Advances(w, c) ==
    /\ c.read = cmd[w].read /\ c.root = cmd[w].root
    /\ cmd[w].todo = {} /\ DOMAIN cmd[w].active = {} /\ DOMAIN c.active = {}
    /\ w = "push" => cmd[w].pc = "children" /\ c.pc = "root" /\ c.todo = {c.root}

Change(w, c) ==
    /\ Moves(w, c) /\ CommandOK(w, c)
    /\ Ends(c) \/ Begins(w, c) \/ Reads(w, c) \/ Transfers(w, c) \/ Advances(w, c)

LEMMA ReturnChange == ASSUME TypeInv, NEW w \in Sides, Return(w) PROVE \E c : Change(w, c)
BY ReturnMoves, IdleOK DEF Change, Ends

LEMMA FinishChange ==
    ASSUME TypeInv, NEW w \in Sides, NEW id, Finish(w, id), w = "push" => remote[id] = "good"
    PROVE  \E c : Change(w, c) /\ Transfers(w, c)
<1> DEFINE c == [cmd[w] EXCEPT !.active = Drop(@, id)]
<1>1. DOMAIN cmd[w] = Fields
  BY DEF TypeInv, CommandOK
<1>2. Moves(w, c)
  BY DEF Finish, Moves, TypeInv
<1>3. /\ DOMAIN c = Fields /\ c.pc = cmd[w].pc /\ c.root = cmd[w].root /\ c.plan = cmd[w].plan
      /\ c.todo = cmd[w].todo /\ c.read = cmd[w].read /\ c.active = Drop(cmd[w].active, id)
  BY <1>1 DEF Fields
<1>4. /\ DOMAIN Drop(cmd[w].active, id) = DOMAIN cmd[w].active \ {id}
      /\ Going(w, Drop(cmd[w].active, id))
  BY DEF Drop, Going, TypeInv, CommandOK
<1> HIDE DEF c
<1>5. CommandOK(w, c)
  BY <1>3, <1>4 DEF TypeInv, CommandOK
<1>6. Transfers(w, c)
  BY <1>3, <1>4 DEF Transfers, Keeps
<1> QED
  BY <1>2, <1>5, <1>6 DEF Change

LEMMA RetryChange ==
    ASSUME TypeInv, NEW w \in Sides, NEW id, NEW t \in Attempt, w = "pull" => t.at # "put",
           cmd' = [cmd EXCEPT ![w].active[id] = t]
    PROVE  \E c : Change(w, c)
<1> DEFINE c == [cmd[w] EXCEPT !.active[id] = t]
<1>1. DOMAIN cmd[w] = Fields
  BY DEF TypeInv, CommandOK
<1>2. Moves(w, c)
  BY DEF Moves, TypeInv
<1>3. /\ DOMAIN c = Fields /\ c.pc = cmd[w].pc /\ c.root = cmd[w].root /\ c.plan = cmd[w].plan
      /\ c.todo = cmd[w].todo /\ c.read = cmd[w].read
      /\ c.active = [cmd[w].active EXCEPT ![id] = t]
      /\ DOMAIN c.active = DOMAIN cmd[w].active
  BY <1>1 DEF Fields
<1> HIDE DEF c
<1>4. CommandOK(w, c)
  <2>1. Going(w, c.active)
    BY <1>3 DEF Going, TypeInv, CommandOK
  <2> QED
    BY <1>3, <2>1 DEF TypeInv, CommandOK
<1>5. Transfers(w, c)
  BY <1>3 DEF Transfers, Keeps
<1> QED
  BY <1>2, <1>4, <1>5 DEF Change

LEMMA MovedChange ==
    ASSUME TypeInv, NEW w \in Sides, NEW id \in DOMAIN cmd[w].active,
           NEW at \in {"put", "readback", "save"}, w = "pull" => at = "save", Moved(w, id, at)
    PROVE  \E c : Change(w, c)
<1> DEFINE t == [cmd[w].active[id] EXCEPT !.at = at]
<1>1. cmd' = [cmd EXCEPT ![w].active[id] = t]
  BY DEF Moved
<1>2. cmd[w].active[id] \in Attempt
  BY DEF TypeInv, CommandOK, Going
<1>3. t \in Attempt /\ t.at = at
  BY <1>2 DEF Attempt
<1> HIDE DEF t
<1> QED
  BY <1>1, <1>3, RetryChange

\* A command that starts over the cache with these fields.
LEMMA BeginChange ==
    ASSUME TypeInv, NEW w \in Sides, NEW c, cmd' = [cmd EXCEPT ![w] = c], CommandOK(w, c), Begins(w, c)
    PROVE  Change(w, c)
<1>1. Moves(w, c)
  BY DEF Moves, TypeInv
<1> QED
  BY <1>1 DEF Change

\* Every step leaves the commands alone or changes one of them in these ways.
LEMMA SpawnChange ==
    ASSUME TypeInv, NEW w \in Sides, NEW id \in Ids, spawn_block(w, id)
    PROVE  \E c : Change(w, c)
<1>1. DOMAIN cmd = Sides /\ DOMAIN cmd[w] = Fields /\ CommandOK(w, cmd[w])
  BY DEF TypeInv, CommandOK
<1>2. CASE w = "pull" /\ cmd' = [cmd EXCEPT ![w].todo = @ \ {id}]
  <2> DEFINE c == [cmd[w] EXCEPT !.todo = @ \ {id}]
  <2>1. Moves(w, c)
    BY <1>1, <1>2 DEF Moves
  <2>2. /\ DOMAIN c = Fields /\ c.pc = cmd[w].pc /\ c.root = cmd[w].root /\ c.plan = cmd[w].plan
        /\ c.todo = cmd[w].todo \ {id} /\ c.read = cmd[w].read /\ c.active = cmd[w].active
    BY <1>1 DEF Fields
  <2> HIDE DEF c
  <2> QED
    BY <1>1, <1>2, <2>1, <2>2 DEF Change, CommandOK, Transfers, Keeps
<1>3. CASE cmd' = [cmd EXCEPT ![w].todo = @ \ {id},
                     ![w].active = [i \in DOMAIN @ \cup {id} |->
                        IF i = id THEN [at |-> "get", tries |-> 0] ELSE @[i]]]
  <2> DEFINE a == [i \in DOMAIN cmd[w].active \cup {id} |->
                     IF i = id THEN [at |-> "get", tries |-> 0] ELSE cmd[w].active[i]]
             c == [cmd[w] EXCEPT !.todo = @ \ {id}, !.active = a]
  <2>1. Moves(w, c)
    BY <1>1, <1>3 DEF Moves, Fields
  <2>2. /\ DOMAIN c = Fields /\ c.pc = cmd[w].pc /\ c.root = cmd[w].root /\ c.plan = cmd[w].plan
        /\ c.todo = cmd[w].todo \ {id} /\ c.read = cmd[w].read
        /\ c.active = a
    BY <1>1 DEF Fields
  <2>3. id \in cmd[w].todo
    BY DEF spawn_block
  <2>4. [at |-> "get", tries |-> 0] \in Attempt
    BY DEF Attempt
  <2>5. DOMAIN a = DOMAIN cmd[w].active \cup {id} /\ Going(w, a)
    BY <1>1, <2>4 DEF CommandOK, Going
  <2> HIDE DEF a, c
  <2> QED
    BY <1>1, <2>1, <2>2, <2>3, <2>5 DEF Change, CommandOK, Transfers, Keeps
<1> QED
  BY <1>2, <1>3, ReturnChange DEF spawn_block

Started(pc, root, plan, todo) ==
    [Idle EXCEPT !.pc = pc, !.root = root, !.plan = plan, !.todo = todo]

LEMMA StartedOK ==
    ASSUME NEW root \in Roots, NEW plan, plan.blocks \subseteq Ids,
           NEW pc \in {"children", "root"}, NEW todo \in SUBSET Ids
    PROVE  LET c == Started(pc, root, plan, todo)
           IN  /\ \A w \in Sides : CommandOK(w, c)
               /\ c.pc = pc /\ c.root = root /\ c.todo = todo
               /\ c.read = <<>> /\ DOMAIN c.active = {}
<1> DEFINE c == Started(pc, root, plan, todo)
<1>1. /\ DOMAIN c = Fields /\ c.pc = pc /\ c.root = root /\ c.plan = plan /\ c.todo = todo
      /\ c.active = <<>> /\ c.read = <<>>
  BY DEF Started, Idle, Fields
<1>2. DOMAIN <<>> = {}
  OBVIOUS
<1> HIDE DEF c
<1>3. \A w \in Sides : CommandOK(w, c)
  BY <1>1, <1>2 DEF CommandOK, Going
<1>4. /\ \A w \in Sides : CommandOK(w, c)
      /\ c.pc = pc /\ c.root = root /\ c.todo = todo
      /\ c.read = <<>> /\ DOMAIN c.active = {}
  BY <1>1, <1>2, <1>3
<1> QED
  BY <1>4 DEF c

LEMMA StartChange ==
    ASSUME TypeInv, NEW root \in manifests, NEW plan \in Plans(root)
    PROVE  /\ push_begin(root, plan) => \E c : Change("push", c)
           /\ pull_begin(root, plan) => \E c : Change("pull", c)
<1>1. root \in Roots /\ Data(root) \subseteq Ids /\ root \in Ids /\ root \notin Data(root)
  BY BlockIds DEF TypeInv
<1>2. plan.blocks \subseteq Ids
  BY <1>1 DEF Plans, Closure
<1>3. ASSUME push_begin(root, plan) PROVE \E c : Change("push", c)
  <2> DEFINE c == Started("children", root, plan, Data(root))
  <2>1. plan.blocks \ {root} = Data(root)
    BY <1>1, <1>3 DEF push_begin, PushReady, validated_dag, Closure
  <2>2. cmd' = [cmd EXCEPT !["push"] = c]
    BY <1>3, <2>1 DEF push_begin, Started
  <2>3. /\ CommandOK("push", c) /\ c.pc = "children" /\ c.root = root /\ c.todo = Data(root)
        /\ c.read = <<>> /\ DOMAIN c.active = {}
    BY <1>1, <1>2, StartedOK DEF Sides
  <2> HIDE DEF c
  <2> QED
    BY <2>2, <2>3, BeginChange DEF Begins, Sides
<1>4. ASSUME pull_begin(root, plan) PROVE \E c : Change("pull", c)
  <2> DEFINE c == Started("root", root, plan, {root})
  <2>1. cmd' = [cmd EXCEPT !["pull"] = c]
    BY <1>4 DEF pull_begin, Started
  <2>2. CommandOK("pull", c) /\ c.pc = "root" /\ c.read = <<>> /\ DOMAIN c.active = {}
    BY <1>1, <1>2, StartedOK DEF Sides
  <2> HIDE DEF c
  <2> QED
    BY <2>1, <2>2, BeginChange DEF Begins, Sides
<1> QED
  BY <1>3, <1>4

LEMMA PrepareChange ==
    ASSUME TypeInv, prepare_open \/ prepare_chunk \/ prepare_root
    PROVE  \E c : Change("push", c)
<1>1. DOMAIN cmd = Sides /\ DOMAIN cmd["push"] = Fields /\ CommandOK("push", cmd["push"]) /\ "push" \in Sides
  BY DEF TypeInv, CommandOK, Sides
<1>2. CASE prepare_open
  <2> DEFINE c == [Idle EXCEPT !.pc = "prepare", !.mtime = source.mtime]
  <2>1. cmd' = [cmd EXCEPT !["push"] = c]
    BY <1>2 DEF prepare_open
  <2>2. /\ DOMAIN c = Fields /\ c.pc = "prepare" /\ c.plan = Idle.plan /\ c.todo = Idle.todo
        /\ c.active = Idle.active /\ c.read = Idle.read
    BY DEF Idle, Fields
  <2> HIDE DEF c
  <2>3. CommandOK("push", c) /\ Begins("push", c)
    BY <1>1, <2>2, IdleOK DEF CommandOK, Begins
  <2> QED
    BY <1>1, <2>1, <2>3, BeginChange
<1>3. CASE prepare_chunk
  <2> DEFINE x == source.bytes[Len(cmd["push"].read) + 1]
             c == [cmd["push"] EXCEPT !.read = Append(@, x)]
  <2>1. Moves("push", c)
    BY <1>1, <1>3 DEF prepare_chunk, Moves
  <2>2. x \in Bytes
    <3>1. Len(cmd["push"].read) + 1 \in 1..Len(Source0)
      BY <1>1, <1>3, SourceTypes DEF prepare_chunk, CommandOK
    <3>2. source.bytes \in Roots
      BY SourceTypes DEF TypeInv
    <3> QED
      BY <3>1, <3>2 DEF Roots, Bytes
  <2>3. /\ DOMAIN c = Fields /\ c.pc = cmd["push"].pc /\ c.root = cmd["push"].root
        /\ c.plan = cmd["push"].plan /\ c.todo = cmd["push"].todo
        /\ c.active = cmd["push"].active /\ c.read = Append(cmd["push"].read, x)
    BY <1>1 DEF Fields
  <2> HIDE DEF c, x
  <2>4. c.read \in Seq(Bytes)
    BY <1>1, <2>2, <2>3 DEF CommandOK
  <2> QED
    BY <1>1, <2>1, <2>2, <2>3, <2>4 DEF Change, CommandOK, Reads, Keeps
<1> QED
  BY <1>1, <1>2, <1>3, ReturnChange DEF prepare_root

LEMMA QuietPhase ==
    ASSUME NEW w \in Sides, NEW pc, Quiet(w, pc)
    PROVE  cmd[w].pc = pc /\ cmd[w].todo = {} /\ DOMAIN cmd[w].active = {}
<1>1. DOMAIN <<>> = {}
  OBVIOUS
<1> QED
  BY <1>1 DEF Quiet

LEMMA PhaseChange ==
    ASSUME TypeInv, push_root \/ push_done \/ pull_children
    PROVE  \E w \in Sides : \E c : Change(w, c)
<1>1. /\ DOMAIN cmd = Sides /\ "push" \in Sides /\ "pull" \in Sides
      /\ \A w \in Sides : DOMAIN cmd[w] = Fields /\ CommandOK(w, cmd[w])
  BY DEF TypeInv, CommandOK, Sides
<1>2. ASSUME NEW w \in Sides, NEW pc \in {"children", "root"}, NEW todo \in SUBSET Ids,
             Quiet(w, "children") \/ Quiet(w, "root"),
             w = "push" => cmd[w].pc = "children" /\ pc = "root" /\ todo = {cmd[w].root},
             cmd' = [cmd EXCEPT ![w].pc = pc, ![w].todo = todo]
      PROVE  \E c : Change(w, c)
  <2> DEFINE c == [cmd[w] EXCEPT !.pc = pc, !.todo = todo]
  <2>1. Moves(w, c)
    BY <1>1, <1>2 DEF Moves, Fields
  <2>2. /\ DOMAIN c = Fields /\ c.pc = pc /\ c.root = cmd[w].root /\ c.plan = cmd[w].plan
        /\ c.todo = todo /\ c.active = cmd[w].active /\ c.read = cmd[w].read
    BY <1>1 DEF Fields
  <2> HIDE DEF c
  <2>3. cmd[w].pc \in {"children", "root"} /\ cmd[w].todo = {} /\ DOMAIN cmd[w].active = {}
    BY <1>2, QuietPhase
  <2>4. CommandOK(w, c)
    BY <1>1, <2>2, <2>3 DEF CommandOK
  <2>5. Advances(w, c)
    BY <1>2, <2>2, <2>3 DEF Advances
  <2> QED
    BY <2>1, <2>4, <2>5 DEF Change
<1>3. CASE push_root
  <2>1. cmd["push"].pc = "children"
    BY <1>1, <1>3, QuietPhase DEF push_root
  <2>2. cmd["push"].root \in Ids
    BY <1>1, <2>1, BlockIds DEF CommandOK
  <2> QED
    BY <1>1, <1>2, <1>3, <2>1, <2>2 DEF push_root
<1>4. CASE push_done
  BY <1>1, <1>4, ReturnChange DEF push_done, Return
<1>5. CASE pull_children
  <2>1. CASE Return("pull")
    BY <1>1, <2>1, ReturnChange
  <2>2. CASE cmd' = [cmd EXCEPT !["pull"].pc = "children",
                                !["pull"].todo = cmd["pull"].plan.blocks \ {cmd["pull"].root}]
    <3>1. cmd["pull"].plan.blocks \ {cmd["pull"].root} \in SUBSET Ids
      BY <1>1 DEF CommandOK
    <3> QED
      BY <1>1, <1>2, <1>5, <2>2, <3>1 DEF pull_children
  <2> QED
    BY <1>5, <2>1, <2>2 DEF pull_children
<1> QED
  BY <1>3, <1>4, <1>5

LEMMA AssembleChange ==
    ASSUME TypeInv, assemble_chunk
    PROVE  \E c : Change("pull", c)
<1>1. DOMAIN cmd = Sides /\ DOMAIN cmd["pull"] = Fields /\ CommandOK("pull", cmd["pull"]) /\ "pull" \in Sides
  BY DEF TypeInv, CommandOK, Sides
<1> DEFINE x == cmd["pull"].root[Len(cmd["pull"].read) + 1]
           c == [cmd["pull"] EXCEPT !.read = Append(@, x)]
<1>2. CASE load("pull", <<x>>) /\ cmd' = [cmd EXCEPT !["pull"].read = Append(@, x)]
  <2>1. Moves("pull", c)
    BY <1>1, <1>2 DEF Moves
  <2>2. x \in Bytes
    <3>1. cmd["pull"].root \in Roots
      BY <1>1, QuietPhase DEF assemble_chunk, CommandOK
    <3>2. Len(cmd["pull"].read) + 1 \in 1..Len(Source0)
      BY <1>1, <3>1, SourceTypes DEF assemble_chunk, CommandOK
    <3> QED
      BY <3>1, <3>2 DEF Roots, Bytes
  <2>3. /\ DOMAIN c = Fields /\ c.pc = cmd["pull"].pc /\ c.root = cmd["pull"].root
        /\ c.plan = cmd["pull"].plan /\ c.todo = cmd["pull"].todo
        /\ c.active = cmd["pull"].active /\ c.read = Append(cmd["pull"].read, x)
    BY <1>1 DEF Fields
  <2>4. load("pull", <<x>>)
    BY <1>2
  <2> HIDE DEF c, x
  <2>5. c.read \in Seq(Bytes)
    BY <1>1, <2>2, <2>3 DEF CommandOK
  <2> QED
    BY <1>1, <2>1, <2>2, <2>3, <2>4, <2>5 DEF Change, CommandOK, Reads, Keeps
<1>3. Return("pull") \/ (load("pull", <<x>>) /\ cmd' = [cmd EXCEPT !["pull"].read = Append(@, x)])
  BY DEF assemble_chunk
<1> QED
  BY <1>1, <1>2, <1>3, ReturnChange

\* What a step does besides: objects are only added to the storage, for a
\* block a push is sending; the destination and the receiver's cache.
Grows(x) == x \in DOMAIN cmd["push"].active /\ http_put(x)

Receives ==
    \/ UNCHANGED dest /\ cache'["pull"] = cache["pull"]
    \/ /\ UNCHANGED dest /\ cmd'["pull"].read = cmd["pull"].read
       /\ \E id \in Ids, s \in States : cache'["pull"] = [cache["pull"] EXCEPT ![id] = s]
    \/ hard_link /\ cmd'["pull"].read = <<>>
    \/ FileAppears

Effect ==
    /\ UNCHANGED cmd \/ \E w \in Sides : \E c : Change(w, c)
    /\ UNCHANGED remote \/ \E x \in Ids : Grows(x)
    /\ Receives
    /\ source'.bytes \in Files /\ cache' \in [Sides -> [Ids -> States]] /\ manifests' \subseteq Roots

LEMMA SaveType ==
    ASSUME TypeInv, NEW w \in Sides, NEW id \in Ids, NEW s \in States,
           cache' = [cache EXCEPT ![w][id] = s]
    PROVE  /\ cache' \in [Sides -> [Ids -> States]]
           /\ w = "push" => cache'["pull"] = cache["pull"]
           /\ w = "pull" => cache'["pull"] = [cache["pull"] EXCEPT ![id] = s]
BY DEF TypeInv, Sides

LEMMA StepEffect == ASSUME TypeInv, [Next]_vars PROVE Effect
<1>0. /\ source.bytes \in Files /\ cache \in [Sides -> [Ids -> States]] /\ manifests \subseteq Roots
      /\ DOMAIN cmd = Sides /\ "push" \in Sides /\ "pull" \in Sides
  BY DEF TypeInv, Sides
\* A step that only changes a command.
<1>1. ASSUME UNCHANGED <<source, cache, remote, dest, manifests>>, NEW w \in Sides, \E c : Change(w, c)
      PROVE  Effect
  BY <1>0, <1>1 DEF Effect, Receives
<1>2. ASSUME NEW w \in Sides, Return(w), UNCHANGED <<source, cache, remote, dest, manifests>> PROVE Effect
  BY <1>1, <1>2, ReturnChange
<1>3. CASE prepare_open
  BY <1>0, <1>1, <1>3, PrepareChange DEF prepare_open
<1>4. CASE prepare_chunk
  <2>1. \E c : Change("push", c)
    BY <1>4, PrepareChange
  <2>2. CASE UNCHANGED cache
    BY <1>0, <1>1, <1>4, <2>1, <2>2 DEF prepare_chunk
  <2>3. ASSUME NEW x, save("push", <<x>>), <<x>> \in Ids PROVE Effect
    <3>1. cache' \in [Sides -> [Ids -> States]] /\ cache'["pull"] = cache["pull"]
      BY <1>0, <2>3, SaveType DEF save, States
    <3> QED
      BY <1>0, <1>4, <2>1, <3>1 DEF Effect, Receives, prepare_chunk
  <2>4. <<source.bytes[Len(cmd["push"].read) + 1]>> \in Ids
    <3>1. cmd["push"].read \in Seq(Bytes) /\ Len(cmd["push"].read) < Len(Source0)
      BY <1>0, <1>4 DEF prepare_chunk, TypeInv, CommandOK
    <3>2. source.bytes \in Roots
      BY <1>0, SourceTypes
    <3>3. Len(cmd["push"].read) + 1 \in DOMAIN source.bytes
      BY <3>1, <3>2, SourceTypes DEF Roots
    <3>4. <<source.bytes[Len(cmd["push"].read) + 1]>> \in Data(source.bytes)
      BY <3>3 DEF Data
    <3> QED
      BY <3>2, <3>4, BlockIds
  <2> QED
    BY <1>4, <2>2, <2>3, <2>4 DEF prepare_chunk
<1>5. CASE prepare_root
  <2>1. \E c : Change("push", c)
    BY <1>5, PrepareChange
  <2>2. CASE UNCHANGED <<cache, manifests>>
    BY <1>0, <1>1, <1>5, <2>1, <2>2 DEF prepare_root
  <2>3. CASE save("push", cmd["push"].read) /\ manifests' = manifests \cup {cmd["push"].read}
    <3>1. cmd["push"].read \in Roots
      <4>1. cmd["push"].read \in Seq(Bytes) /\ Len(cmd["push"].read) = Len(Source0)
        BY <1>0, <1>5 DEF prepare_root, TypeInv, CommandOK
      <4> QED
        BY <4>1, SourceTypes DEF Roots, Bytes
    <3>2. cmd["push"].read \in Ids
      BY <3>1 DEF Ids
    <3>3. cache' \in [Sides -> [Ids -> States]] /\ cache'["pull"] = cache["pull"]
      BY <1>0, <2>3, <3>2, SaveType DEF save, States
    <3> QED
      BY <1>0, <1>5, <2>1, <2>3, <3>1, <3>3 DEF Effect, Receives, prepare_root
  <2> QED
    BY <1>5, <2>2, <2>3 DEF prepare_root
<1>6. CASE push_root \/ push_done \/ pull_children
  <2>1. PICK w \in Sides : \E c : Change(w, c)
    BY <1>6, PhaseChange
  <2> QED
    BY <1>1, <1>6, <2>1 DEF push_root, push_done, pull_children
<1>7. ASSUME NEW id \in Ids, put(id) PROVE Effect
  <2>1. \E c : Change("push", c)
    BY <1>0, <1>7, MovedChange DEF put, Runs
  <2>2. Grows(id)
    BY <1>7 DEF put, Grows, Runs
  <2> QED
    BY <1>0, <1>7, <2>1, <2>2 DEF Effect, Receives, put
<1>8. ASSUME NEW id \in Ids, readback(id) PROVE Effect
  <2>1. \E c : Change("push", c)
    BY <1>0, <1>8, FinishChange, ReturnChange DEF readback, http_get
  <2> QED
    BY <1>0, <1>1, <1>8, <2>1 DEF readback
<1>9. CASE assemble_chunk
  BY <1>0, <1>1, <1>9, AssembleChange DEF assemble_chunk
<1>10. CASE hard_link
  <2>1. (\E c : Change("pull", c)) /\ cmd'["pull"].read = <<>>
    BY <1>0, <1>10, ReturnChange, ReturnMoves, IdleOK DEF hard_link, Moves
  <2> QED
    BY <1>0, <1>10, <2>1 DEF Effect, Receives, hard_link
<1>11. ASSUME NEW id \in Ids, save_block(id) PROVE Effect
  <2>1. PICK c : Change("pull", c) /\ Transfers("pull", c)
    BY <1>0, <1>11, FinishChange DEF save_block
  <2>2. cmd'["pull"].read = cmd["pull"].read
    BY <2>1 DEF Change, Moves, Transfers
  <2>3. /\ cache' \in [Sides -> [Ids -> States]]
        /\ cache'["pull"] = [cache["pull"] EXCEPT ![id] = "good"]
    BY <1>0, <1>11, SaveType DEF save_block, save, States
  <2> QED
    BY <1>0, <1>11, <2>1, <2>2, <2>3 DEF Effect, Receives, save_block, States
<1>12. ASSUME NEW root \in manifests, NEW plan \in Plans(root), push_begin(root, plan) PROVE Effect
  BY <1>0, <1>1, <1>12, StartChange DEF push_begin
<1>13. ASSUME NEW root \in manifests, NEW plan \in Plans(root), pull_begin(root, plan) PROVE Effect
  BY <1>0, <1>1, <1>13, StartChange DEF pull_begin
<1>14. ASSUME NEW w \in Sides, NEW id \in Ids, spawn_block(w, id) PROVE Effect
  BY <1>1, <1>14, SpawnChange DEF spawn_block
<1>15. ASSUME NEW w \in Sides, NEW id \in Ids, fetch(w, id) PROVE Effect
  <2>1. \E c : Change(w, c)
    BY <1>15, MovedChange, FinishChange, ReturnChange DEF fetch, http_get, Runs, Sides
  <2> QED
    BY <1>1, <1>15, <2>1 DEF fetch
<1>16. ASSUME NEW w \in Sides, Kill(w) PROVE Effect
  BY <1>2, <1>16 DEF Kill
<1>17. ASSUME NEW w \in Sides, NEW id \in Ids, retry_one(w, id) PROVE Effect
  <2>1. \E c : Change(w, c)
    <3> DEFINE t == [at |-> "get", tries |-> cmd[w].active[id].tries + 1]
    <3>1. cmd[w].active[id] \in Attempt
      BY <1>17 DEF retry_one, Transient, TypeInv, CommandOK, Going
    <3>2. t \in Attempt /\ t.at # "put"
      BY <3>1 DEF Attempt
    <3>3. Return(w) \/ cmd' = [cmd EXCEPT ![w].active[id] = t]
      BY <1>17 DEF retry_one, Task
    <3> HIDE DEF t
    <3> QED
      BY <3>2, <3>3, RetryChange, ReturnChange
  <2>2. UNCHANGED remote \/ Grows(id)
    BY <1>17 DEF retry_one, Transient, Task, Grows, TypeInv, CommandOK, Going, Sides
  <2> QED
    BY <1>0, <1>17, <2>1, <2>2 DEF Effect, Receives, retry_one, Transient
<1>18. ASSUME NEW w \in Sides, NEW id \in Ids, DamageCache(w, id) PROVE Effect
  <2>1. /\ cache' \in [Sides -> [Ids -> States]]
        /\ \/ cache'["pull"] = cache["pull"]
           \/ cache'["pull"] = [cache["pull"] EXCEPT ![id] = "bad"]
    BY <1>0, <1>18, SaveType DEF DamageCache, States, Sides
  <2> QED
    BY <1>0, <1>18, <2>1 DEF Effect, Receives, DamageCache, States
<1>19. CASE EditSource
  BY <1>0, <1>19 DEF Effect, Receives, EditSource, Files
<1>20. CASE FileAppears
  BY <1>0, <1>20 DEF Effect, Receives, FileAppears
<1>21. CASE UNCHANGED vars
  BY <1>0, <1>21 DEF Effect, Receives, vars
<1> QED
  BY <1>3, <1>4, <1>5, <1>6, <1>7, <1>8, <1>9, <1>10, <1>11, <1>12, <1>13, <1>14, <1>15,
     <1>16, <1>17, <1>18, <1>19, <1>20, <1>21
  DEF Next, PushStep, PullStep, BlockStep

LEMMA PutType ==
    ASSUME TypeInv, NEW x \in Ids, http_put(x)
    PROVE  /\ remote' \in [Ids -> States]
           /\ remote[x] = "absent" => remote' = [remote EXCEPT ![x] = "good"]
           /\ remote[x] # "absent" => remote' = remote
BY DEF TypeInv, http_put, States

LEMMA TypeStep == ASSUME TypeInv, [Next]_vars PROVE TypeInv'
<1>1. Effect
  BY StepEffect
<1>2. remote' \in [Ids -> States]
  BY <1>1, PutType DEF Effect, Grows, TypeInv
<1>3. DOMAIN cmd' = Sides /\ \A w \in Sides : CommandOK(w, cmd'[w])
  <2>1. CASE UNCHANGED cmd
    BY <2>1 DEF TypeInv
  <2>2. ASSUME NEW w \in Sides, NEW c, Change(w, c)
        PROVE  DOMAIN cmd' = Sides /\ \A v \in Sides : CommandOK(v, cmd'[v])
    BY <2>2 DEF TypeInv, Change, Moves
  <2> QED
    BY <1>1, <2>1, <2>2 DEF Effect
<1> QED
  BY <1>1, <1>2, <1>3 DEF TypeInv, Effect, CommandOK, Going

LEMMA InitType == Init => TypeInv
<1> SUFFICES ASSUME Init PROVE TypeInv
  OBVIOUS
<1>1. source.bytes \in Files /\ manifests \subseteq Roots
  BY DEF Init, Files
<1>2. cache \in [Sides -> [Ids -> States]] /\ remote \in [Ids -> States]
  BY DEF Init, States
<1>3. DOMAIN cmd = Sides /\ \A w \in Sides : CommandOK(w, cmd[w])
  BY IdleOK DEF Init
<1> QED
  BY <1>1, <1>2, <1>3 DEF TypeInv

\* The caches and the storage hold one copy per block, a manifest is a root,
\* and transfers concern blocks that exist.
THEOREM TypeCorrect == Spec => []TypeOK
<1>1. TypeInv => TypeOK
  BY DEF TypeInv, TypeOK, CommandOK
<1> QED
  BY <1>1, InitType, TypeStep, PTL DEF Spec

-----------------------------------------------------------------------------
(* The storage.                                                            *)

\* What a push has secured when it comes to the root: while it sends the data
\* blocks, those it has done with are good; when it sends the root, all are.
PushOK(c, objects) ==
    /\ c.pc \in {"idle", "prepare"} => c.todo = {} /\ DOMAIN c.active = {}
    /\ c.pc = "children" =>
          /\ c.todo \cup DOMAIN c.active \subseteq Data(c.root)
          /\ \A id \in Data(c.root) \ (c.todo \cup DOMAIN c.active) : objects[id] = "good"
    /\ c.pc = "root" =>
          /\ c.todo \cup DOMAIN c.active \subseteq {c.root}
          /\ \A id \in Data(c.root) : objects[id] = "good"

RootLast == PushOK(cmd["push"], remote)

LEMMA RootLastStep == ASSUME TypeInv, RootLast, [Next]_vars PROVE RootLast'
<1> DEFINE d == cmd["push"]
<1>0. /\ Effect /\ CommandOK("push", d) /\ remote \in [Ids -> States]
  BY StepEffect DEF TypeInv, Sides
\* A good object stays good.
<1>1. ASSUME NEW id \in Ids, remote[id] = "good" PROVE remote'[id] = "good"
  BY <1>0, <1>1, PutType DEF Effect, Grows
<1>2. d.pc \in {"children", "root"} => Data(d.root) \subseteq Ids
  BY <1>0, BlockIds DEF CommandOK
<1>3. CASE cmd'["push"] = d
  <2>1. PushOK(d, remote')
    BY <1>1, <1>2 DEF RootLast, PushOK
  <2> QED
    BY <1>3, <2>1 DEF RootLast
<1>4. ASSUME NEW c, Change("push", c) PROVE RootLast'
  <2>1. cmd'["push"] = c /\ CommandOK("push", c)
    BY <1>4 DEF Change, Moves
  <2>2. c.pc \in {"children", "root"} => Data(c.root) \subseteq Ids
    BY <2>1, BlockIds DEF CommandOK
  <2> SUFFICES PushOK(c, remote')
    BY <2>1 DEF RootLast
  <2>3. CASE Ends(c)
    BY <2>3, IdleOK DEF Ends, PushOK
  <2>4. CASE Begins("push", c)
    BY <2>4 DEF Begins, PushOK
  <2>5. CASE Reads("push", c)
    BY <1>1, <1>2, <2>5 DEF Reads, Keeps, RootLast, PushOK
  <2>6. CASE Transfers("push", c)
    BY <1>1, <1>2, <2>6 DEF Transfers, Keeps, RootLast, PushOK
  <2>7. CASE Advances("push", c)
    BY <1>1, <1>2, <2>7 DEF Advances, RootLast, PushOK
  <2> QED
    BY <1>4, <2>3, <2>4, <2>5, <2>6, <2>7 DEF Change
<1> QED
  <2>1. ASSUME NEW w \in Sides, NEW c, Change(w, c), w # "push" PROVE cmd'["push"] = d
    BY <2>1 DEF Change, Moves, Sides
  <2> QED
    BY <1>0, <1>3, <1>4, <2>1 DEF Effect

\* The storage, for one version of the file: an object appears for a block
\* that is being sent, and a root only after all its blocks.
LEMMA StorageStep ==
    ASSUME TypeInv, RootLast, [Next]_vars, NEW root \in Files
    PROVE  Storage(root)!Step
<1> DEFINE held == {id \in Data(root) : remote[id] = "good"}
           place == Place(remote[root] = "good", remote[root] = "bad")
<1>0. /\ root \in Roots /\ root \in Ids /\ Data(root) \subseteq Ids /\ root \notin Data(root)
      /\ remote \in [Ids -> States]
  BY SourceTypes, BlockIds DEF TypeInv
<1>1. CASE UNCHANGED remote
  <2>1. held' = held /\ place' = place
    BY <1>1
  <2> QED
    BY <2>1 DEF Storage!Step
<1>2. ASSUME NEW x \in Ids, Grows(x), remote[x] = "absent" PROVE Storage(root)!Step
  <2>1. remote' = [remote EXCEPT ![x] = "good"]
    BY <1>2, PutType DEF Grows
  <2>2. CASE x = root
    <3>1. Data(root) \subseteq held
      <4>1. x \in DOMAIN cmd["push"].active /\ CommandOK("push", cmd["push"])
        BY <1>2 DEF Grows, TypeInv, Sides
      <4>2. cmd["push"].pc # "children"
        <5> SUFFICES ASSUME cmd["push"].pc = "children" PROVE FALSE
          OBVIOUS
        <5>1. cmd["push"].root \in Roots /\ x \in Data(cmd["push"].root)
          BY <4>1 DEF CommandOK, RootLast, PushOK
        <5> QED
          BY <1>0, <2>2, <5>1, BlockIds
      <4>3. cmd["push"].pc = "root" /\ cmd["push"].root = root
        BY <2>2, <4>1, <4>2 DEF CommandOK, RootLast, PushOK
      <4> QED
        BY <4>3 DEF RootLast, PushOK
    <3>2. held' = held
      BY <1>0, <2>1, <2>2
    <3>3. place = "empty" /\ place' = "whole"
      BY <1>0, <1>2, <2>1, <2>2 DEF Place
    <3> QED
      BY <3>1, <3>2, <3>3 DEF Storage!Step, Storage!Next, Storage!Offer
  <2>3. CASE x # root
    <3>1. held \subseteq held' /\ held' \subseteq Data(root)
      BY <1>0, <2>1
    <3>2. place' = place
      BY <1>0, <2>1, <2>3 DEF Place
    <3> QED
      BY <3>1, <3>2 DEF Storage!Step, Storage!Next, Storage!Obtain
  <2> QED
    BY <2>2, <2>3
<1> QED
  BY <1>1, <1>2, StepEffect, PutType DEF Effect, Grows

\* The storage shows a root only once every block it lists can be read there
\* (push, one): whatever is retried, killed or damaged, the objects of each
\* version of the file implement VerifiedContent.
THEOREM PushImplementsTheorem == Spec => PushImplements
<1>1. Init => \A root \in Files : Storage(root)!Init
  <2> SUFFICES ASSUME Init, NEW root \in Files PROVE Storage(root)!Init
    OBVIOUS
  <2>1. root \in Ids
    BY SourceTypes, BlockIds
  <2>2. remote[root] \in {"absent", "bad"}
    BY <2>1 DEF Init
  <2> QED
    BY <2>2 DEF Storage!Init, Place
<1>2. Init => TypeInv /\ RootLast
  <2>1. Init => RootLast
    BY IdleOK DEF Init, RootLast, PushOK, Sides
  <2> QED
    BY <2>1, InitType
<1>3. TypeInv /\ RootLast /\ [Next]_vars => TypeInv' /\ RootLast'
  BY TypeStep, RootLastStep
<1>4. TypeInv /\ RootLast /\ [Next]_vars => [\A root \in Files : Storage(root)!Step]_vars
  BY StorageStep
<1> QED
  BY <1>1, <1>2, <1>3, <1>4, PTL DEF Spec, PushImplements

-----------------------------------------------------------------------------
(* The destination.                                                        *)

LEMMA DestinationStep ==
    ASSUME TypeInv, [Next]_vars, NEW root \in Files
    PROVE  Destination(root)!Step
<1> DEFINE read == cmd["pull"].read
           held == {id \in Data(root) : load("pull", id) \/ id \in Data(read)}
           place == Place(dest = root, dest # <<>> /\ dest # root)
<1>0. /\ Data(root) \subseteq Ids /\ root # <<>> /\ root # Foreign
      /\ cache \in [Sides -> [Ids -> States]] /\ read \in Seq(Bytes)
  <2>1. root \in Roots
    BY SourceTypes
  <2>2. Len(root) # 1 /\ Len(root) # 0
    BY <2>1, SourceTypes
  <2>3. Len(Foreign) = 1 /\ Len(<<>>) = 0
    BY DEF Foreign
  <2>4. root # Foreign /\ root # <<>>
    BY <2>2, <2>3, Zenon
  <2>5. cache \in [Sides -> [Ids -> States]] /\ read \in Seq(Bytes)
    BY DEF TypeInv, CommandOK, Sides
  <2> QED
    BY <2>1, <2>4, <2>5, BlockIds
<1>1. Data(<<>>) = {}
  BY DEF Data
<1>2. Effect
  BY StepEffect
\* What has been assembled is kept, thrown away, or longer by a block that
\* has just been verified.
<1> DEFINE Assembles == \/ read' = read \/ read' = <<>>
                        \/ \E x \in Bytes : read' = Append(read, x) /\ load("pull", <<x>>)
<1>3. Assembles
  <2>1. ASSUME NEW w \in Sides, NEW c, Change(w, c), w # "pull" PROVE read' = read
    BY <2>1 DEF Change, Moves, Sides
  <2>2. ASSUME NEW c, Change("pull", c) PROVE Assembles
    <3>1. cmd'["pull"] = c
      BY <2>2 DEF Change, Moves
    <3>2. CASE Ends(c) \/ Begins("pull", c)
      BY <3>1, <3>2, IdleOK DEF Ends, Begins
    <3>3. CASE Reads("pull", c)
      BY <3>1, <3>3 DEF Reads
    <3>4. CASE Transfers("pull", c) \/ Advances("pull", c)
      BY <3>1, <3>4 DEF Transfers, Advances
    <3> QED
      BY <2>2, <3>2, <3>3, <3>4 DEF Change
  <2> QED
    BY <1>2, <2>1, <2>2 DEF Effect
<1>4. CASE UNCHANGED dest /\ cache'["pull"] = cache["pull"]
  <2>1. place' = place
    BY <1>4
  <2>2. CASE read' = read \/ read' = <<>>
    <3>1. held' \subseteq held
      BY <1>1, <1>4, <2>2 DEF load
    <3> QED
      BY <2>1, <3>1 DEF Destination!Step, Destination!Next, Destination!Lose
  <2>3. ASSUME NEW x \in Bytes, read' = Append(read, x) PROVE Destination(root)!Step
    <3>1. Data(read') = Data(read) \cup {<<x>>}
      BY <1>0, <2>3, DataAppend
    <3>2. held \subseteq held' /\ held' \subseteq Data(root)
      BY <1>4, <3>1 DEF load
    <3> QED
      BY <2>1, <3>2 DEF Destination!Step, Destination!Next, Destination!Obtain
  <2> QED
    BY <1>3, <2>2, <2>3
<1>5. ASSUME UNCHANGED dest, read' = read, NEW id \in Ids, NEW s \in States,
             cache'["pull"] = [cache["pull"] EXCEPT ![id] = s]
      PROVE  Destination(root)!Step
  <2>1. place' = place
    BY <1>5
  <2>2. \A b \in Ids \ {id} : load("pull", b)' <=> load("pull", b)
    BY <1>0, <1>5 DEF load, Sides
  <2>3. held' \subseteq held \/ (held \subseteq held' /\ held' \subseteq Data(root))
    BY <1>0, <1>5, <2>2
  <2> QED
    BY <2>1, <2>3 DEF Destination!Step, Destination!Next, Destination!Obtain, Destination!Lose
<1>6. ASSUME hard_link, read' = <<>> PROVE Destination(root)!Step
  <2>1. held' \subseteq held
    BY <1>1, <1>6 DEF hard_link, load
  <2>2. CASE dest # <<>>
    <3>1. place' = place
      BY <1>6, <2>2 DEF hard_link
    <3> QED
      BY <2>1, <3>1 DEF Destination!Step, Destination!Next, Destination!Lose
  <2>3. CASE dest = <<>> /\ read = root
    <3>1. place = "empty" /\ place' = "whole"
      BY <1>0, <1>6, <2>3 DEF hard_link, Place
    <3>2. Data(root) \subseteq held
      BY <2>3
    <3> QED
      BY <2>1, <3>1, <3>2 DEF Destination!Step, Destination!Next, Destination!Offer
  <2>4. CASE dest = <<>> /\ read # root
    <3>1. read # <<>>
      <4>1. cmd["pull"].root \in Roots /\ Len(read) = Len(cmd["pull"].root)
        BY <1>6, QuietPhase DEF hard_link, TypeInv, CommandOK, Sides
      <4>2. Len(read) # 0
        BY <4>1, SourceTypes
      <4> QED
        BY <4>2
    <3>2. place = "empty" /\ place' = "taken"
      BY <1>0, <1>6, <2>4, <3>1 DEF hard_link, Place
    <3> QED
      BY <2>1, <3>2 DEF Destination!Step, Destination!Next, Destination!Take
  <2> QED
    BY <2>2, <2>3, <2>4
<1>7. CASE FileAppears
  <2>1. held' = held
    BY <1>7 DEF FileAppears, load
  <2>2. place = "empty" /\ place' = "taken"
    BY <1>0, <1>7 DEF FileAppears, Place, Foreign
  <2> QED
    BY <2>1, <2>2 DEF Destination!Step, Destination!Next, Destination!Take
<1> QED
  BY <1>2, <1>4, <1>5, <1>6, <1>7 DEF Effect, Receives

\* The destination appears only as a whole, made of blocks that were each
\* verified, and replaces nothing (pull, assemble): for each version of the
\* file it implements VerifiedContent.
THEOREM PullImplementsTheorem == Spec => PullImplements
<1>1. Init => \A root \in Files : Destination(root)!Init
  <2> SUFFICES ASSUME Init, NEW root \in Files PROVE Destination(root)!Init
    OBVIOUS
  <2>1. root # <<>>
    <3>1. Len(root) # 0 /\ Len(<<>>) = 0
      BY SourceTypes
    <3> QED
      BY <3>1, Zenon
  <2>2. dest = <<>>
    BY DEF Init
  <2> QED
    BY <2>1, <2>2 DEF Destination!Init, Place
<1>2. TypeInv /\ [Next]_vars => [\A root \in Files : Destination(root)!Step]_vars
  BY DestinationStep
<1> QED
  BY <1>1, <1>2, InitType, TypeStep, PTL DEF Spec, PullImplements
=============================================================================
