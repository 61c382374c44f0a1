--------------------------- MODULE BlockExchange ---------------------------
(***************************************************************************)
(* Blocks between daemons (synergos-net/src/content) and the catalog sync  *)
(* that rests on them (synergos-core/src/catalog_sync.rs).  A publisher    *)
(* puts a catalog into its in-memory store and gossips its id; a reader    *)
(* fetches the block, and a caller of the library whole DAGs, in batches   *)
(* over streams that can break.  The publisher loses its store when it     *)
(* restarts.  A block that does not verify never enters a store, so a      *)
(* store is the set of ids it holds.                                       *)
(***************************************************************************)
EXTENDS Naturals, Sequences, SequencesExt, FiniteSets

CONSTANTS
  Requests,     \* the syncs and DAG fetches that can happen
  Wants,        \* Wants[r]: [job, cid, publisher], cid and publisher may be None
  None,
  DagChunks,    \* the chunks a DAG root lists
  Catalogs,     \* ids of blocks that decode as a catalog
  DagRoots,     \* ids of blocks that decode as a ChunkDag
  BatchSize,    \* SESSION_WANTLIST_CHUNK
  MaxInflight,  \* max_inflight_streams
  EventCap,     \* capacity of the event bus
  MaxMishaps    \* lost connections, cut or damaged answers, restarts

Chunks == ToSet(DagChunks)
Cids == Chunks \cup DagRoots \cup ({Wants[r].cid : r \in Requests} \ {None})
Syncs == {r \in Requests : Wants[r].job = "sync"}

VARIABLES
  theirs,    \* the store of the publisher
  mine,      \* the store of the reader
  gossip,    \* CatalogUpdates on their way
  needed,    \* CatalogSyncNeededEvents the service has not received
  tasks,     \* tasks[r]: the fetch, once begun
  result,    \* result[r]: "none", "ok" or "error"
  linked,    \* whether the two nodes are connected
  mishaps

vars == <<theirs, mine, gossip, needed, tasks, result, linked, mishaps>>

Idle == [pc |-> "idle", missing |-> <<>>, next |-> 1, flying |-> <<>>, absent |-> {}]
Asked == <<"asked">>

Init ==
  /\ theirs \in {Chunks \cup DagRoots, DagRoots, {}}
  /\ mine \in {{}, {DagChunks[1]}}
  /\ gossip = {} /\ needed = <<>>
  /\ tasks = [r \in Requests |-> Idle]
  /\ result = [r \in Requests |-> "none"]
  /\ linked = TRUE /\ mishaps = 0

(***************************************************************************)
(* From the publish to the event.                                          *)
(***************************************************************************)
(* Steps 4 and 5: the snapshot into the store, its id into the gossip. *)
publish_catalog(r) ==
  /\ r \in Syncs /\ tasks[r].pc = "idle"
  /\ tasks' = [tasks EXCEPT ![r].pc = "gossiped"]
  /\ theirs' = theirs \cup ({Wants[r].cid} \ {None})
  /\ gossip' = gossip \cup {r}
  /\ UNCHANGED <<mine, needed, result, linked, mishaps>>

(* An event bus channel that is full forgets its oldest event. *)
emit(queue, e) == IF Len(queue) < EventCap THEN Append(queue, e) ELSE Append(Tail(queue), e)

(* The reader has no files in its own catalog, so every update differs; an
   update for a project that is not open counts as in sync. *)
on_catalog_update(r, open) ==
  /\ r \in gossip
  /\ gossip' = gossip \ {r}
  /\ needed' = IF open THEN emit(needed, r) ELSE needed
  /\ UNCHANGED <<theirs, mine, tasks, result, linked, mishaps>>

(* The service spawns a task for each event. *)
sync_service ==
  /\ needed # <<>>
  /\ needed' = Tail(needed)
  /\ tasks' = [tasks EXCEPT ![Head(needed)].pc = "start"]
  /\ UNCHANGED <<theirs, mine, gossip, result, linked, mishaps>>

(***************************************************************************)
(* BitswapSession.  fetch_blocks asks for what the store lacks, a batch    *)
(* per stream, and gives up at the first batch that fails: the streams     *)
(* still open are dropped.                                                 *)
(***************************************************************************)
Report(r, what) ==
  /\ result' = [result EXCEPT ![r] = what]
  /\ tasks' = [tasks EXCEPT ![r] = [Idle EXCEPT !.pc = "done"]]

fetch_blocks(r, cids, pc) ==
  tasks' = [tasks EXCEPT ![r] =
    [Idle EXCEPT !.pc = pc, !.missing = SelectSeq(cids, LAMBDA c : c \notin mine)]]

Fetching(r) == tasks[r].pc \in {"root", "chunks"}
Batches(r) == (Len(tasks[r].missing) + BatchSize - 1) \div BatchSize
Batch(r, b) ==
  LET m == tasks[r].missing
  IN SubSeq(m, (b - 1) * BatchSize + 1, IF b * BatchSize < Len(m) THEN b * BatchSize ELSE Len(m))

(* Mutant: only the first streams are opened. *)
open_first_batches(r) ==
  /\ Fetching(r) /\ tasks[r].next <= Batches(r) /\ tasks[r].next <= MaxInflight
  /\ IF linked
       THEN /\ tasks' = [tasks EXCEPT ![r].next = @ + 1,
                           ![r].flying = [b \in DOMAIN @ \cup {tasks[r].next} |->
                                            IF b \in DOMAIN @ THEN @[b] ELSE Asked]]
            /\ UNCHANGED result
       ELSE Report(r, "error")
  /\ UNCHANGED <<theirs, mine, gossip, needed, linked, mishaps>>

open_batch(r) ==
  /\ Fetching(r) /\ tasks[r].next <= Batches(r)
  /\ Cardinality(DOMAIN tasks[r].flying) < MaxInflight
  /\ IF linked
       THEN /\ tasks' = [tasks EXCEPT ![r].next = @ + 1,
                           ![r].flying = [b \in DOMAIN @ \cup {tasks[r].next} |->
                                            IF b \in DOMAIN @ THEN @[b] ELSE Asked]]
            /\ UNCHANGED result
       ELSE Report(r, "error")
  /\ UNCHANGED <<theirs, mine, gossip, needed, linked, mishaps>>

(* The publisher answers the ids in order. *)
handle_bitswap_stream(r, b) ==
  /\ b \in DOMAIN tasks[r].flying /\ tasks[r].flying[b] = Asked /\ linked
  /\ tasks' = [tasks EXCEPT ![r].flying[b] =
       [i \in DOMAIN Batch(r, b) |-> IF Batch(r, b)[i] \in theirs THEN "block" ELSE "notfound"]]
  /\ UNCHANGED <<theirs, mine, gossip, needed, result, linked, mishaps>>

(* An answer is cut short or a block in it damaged. *)
AnswerSpoiled(r, b) ==
  /\ b \in DOMAIN tasks[r].flying /\ tasks[r].flying[b] # Asked /\ mishaps < MaxMishaps
  /\ \/ tasks' = [tasks EXCEPT ![r].flying[b] = Front(@)]
     \/ \E i \in DOMAIN tasks[r].flying[b] :
          tasks' = [tasks EXCEPT ![r].flying[b][i] = "damaged"]
  /\ mishaps' = mishaps + 1
  /\ UNCHANGED <<theirs, mine, gossip, needed, result, linked>>

(* request_many reads to the end of the stream: fewer frames than ids are an
   error. *)
wrong_length(r, b, frames) == Len(frames) # Len(Batch(r, b))

(* The frames are paired with the ids; blocks enter the store one by one up
   to the first that does not verify. *)
fetch_batch(r, b) ==
  /\ b \in DOMAIN tasks[r].flying /\ tasks[r].flying[b] # Asked
  /\ LET frames == tasks[r].flying[b]
         ids == Batch(r, b)
         bad == {i \in DOMAIN frames : frames[i] = "damaged"}
         upto == {i \in DOMAIN frames : \A j \in bad : i < j}
     IN IF wrong_length(r, b, frames)
          THEN Report(r, "error") /\ UNCHANGED mine
          ELSE /\ mine' = mine \cup {ids[i] : i \in {k \in upto : frames[k] = "block"}}
               /\ IF bad # {} THEN Report(r, "error")
                  ELSE /\ tasks' = [tasks EXCEPT
                            ![r].flying = [k \in DOMAIN @ \ {b} |-> @[k]],
                            ![r].absent = @ \cup {ids[i] : i \in {k \in upto : frames[k] = "notfound"}}]
                       /\ UNCHANGED result
  /\ UNCHANGED <<theirs, gossip, needed, linked, mishaps>>

(* The connection ends under an open stream. *)
StreamLost(r, b) ==
  /\ ~linked /\ b \in DOMAIN tasks[r].flying /\ tasks[r].flying[b] = Asked
  /\ Report(r, "error")
  /\ UNCHANGED <<theirs, mine, gossip, needed, linked, mishaps>>

Fetched(r, pc) == tasks[r].pc = pc /\ tasks[r].next > Batches(r) /\ tasks[r].flying = <<>>

(***************************************************************************)
(* What is done with the blocks.                                           *)
(***************************************************************************)
process_sync_event(r) ==
  /\ tasks[r].pc = "start" /\ r \in Syncs
  /\ CASE Wants[r].cid = None \/ Wants[r].publisher = None -> Report(r, "error")
       [] Wants[r].cid \in mine -> Report(r, "ok")
       [] OTHER -> fetch_blocks(r, <<Wants[r].cid>>, "root") /\ UNCHANGED result
  /\ UNCHANGED <<theirs, mine, gossip, needed, linked, mishaps>>

fetch_root_catalog(r) ==
  /\ Fetched(r, "root") /\ r \in Syncs
  /\ Report(r, IF Wants[r].cid \in Catalogs \ tasks[r].absent THEN "ok" ELSE "error")
  /\ UNCHANGED <<theirs, mine, gossip, needed, linked, mishaps>>

fetch_dag_begin(r) ==
  /\ Wants[r].job = "dag" /\ tasks[r].pc = "idle"
  /\ fetch_blocks(r, <<Wants[r].cid>>, "root")
  /\ UNCHANGED <<theirs, mine, gossip, needed, result, linked, mishaps>>

fetch_dag_root(r) ==
  /\ Fetched(r, "root") /\ Wants[r].job = "dag"
  /\ IF Wants[r].cid \in mine \cap DagRoots
       THEN fetch_blocks(r, DagChunks, "chunks") /\ UNCHANGED result
       ELSE Report(r, "error")
  /\ UNCHANGED <<theirs, mine, gossip, needed, linked, mishaps>>

(* Mutant: blocks the publisher does not have are not looked for in the
   outcomes. *)
fetch_dag_any(r) ==
  /\ Fetched(r, "chunks")
  /\ Report(r, "ok")
  /\ UNCHANGED <<theirs, mine, gossip, needed, linked, mishaps>>

fetch_dag_end(r) ==
  /\ Fetched(r, "chunks")
  /\ Report(r, IF tasks[r].absent = {} THEN "ok" ELSE "error")
  /\ UNCHANGED <<theirs, mine, gossip, needed, linked, mishaps>>

(***************************************************************************)
(* Around them.                                                            *)
(***************************************************************************)
Disconnect ==
  /\ linked /\ mishaps < MaxMishaps
  /\ linked' = FALSE /\ mishaps' = mishaps + 1
  /\ UNCHANGED <<theirs, mine, gossip, needed, tasks, result>>

Reconnect ==
  /\ ~linked /\ linked' = TRUE
  /\ UNCHANGED <<theirs, mine, gossip, needed, tasks, result, mishaps>>

PublisherRestarts ==
  /\ mishaps < MaxMishaps
  /\ theirs' = {} /\ linked' = FALSE /\ mishaps' = mishaps + 1
  /\ UNCHANGED <<mine, gossip, needed, tasks, result>>

TaskStep(r) ==
  \/ process_sync_event(r) \/ fetch_root_catalog(r) \/ fetch_dag_root(r) \/ fetch_dag_end(r)
  \/ open_batch(r)
  \/ \E b \in DOMAIN tasks[r].flying : fetch_batch(r, b) \/ handle_bitswap_stream(r, b) \/ StreamLost(r, b)

Next ==
  \/ sync_service \/ Disconnect \/ Reconnect \/ PublisherRestarts
  \/ \E r \in Requests :
       \/ publish_catalog(r) \/ fetch_dag_begin(r) \/ TaskStep(r)
       \/ \E open \in BOOLEAN : on_catalog_update(r, open)
       \/ \E b \in DOMAIN tasks[r].flying : AnswerSpoiled(r, b)

(* Tasks and streams are polled until they end; a stream to a peer that is
   gone is ended by the idle timeout of the connection. *)
Fairness == WF_vars(sync_service) /\ \A r \in Requests : WF_vars(TaskStep(r))
Spec == Init /\ [][Next]_vars /\ Fairness

-----------------------------------------------------------------------------
TypeOK ==
  /\ {theirs, mine} \subseteq SUBSET Cids /\ gossip \subseteq Syncs
  /\ needed \in Seq(Syncs) /\ Len(needed) <= EventCap
  /\ result \in [Requests -> {"none", "ok", "error"}]

Wanted(r) == IF Wants[r].job = "dag" THEN Chunks \cup {Wants[r].cid} ELSE {Wants[r].cid}

Delivery(r) == INSTANCE VerifiedContent WITH
  Blocks <- Wanted(r),
  held <- mine \cap Wanted(r),
  place <- IF result[r] = "ok" THEN "whole" ELSE "empty"

(* A fetch of a DAG or a catalog reports success only when every block of it
   is in the store, through broken streams, short and damaged answers,
   batches in any order and fetches of the same blocks by another task
   (fetch_dag, fetch_root_catalog): it implements VerifiedContent. *)
FetchImplements ==
  /\ \A r \in Requests : Delivery(r)!Init
  /\ [][\A r \in Requests : Delivery(r)!Step]_vars

(* A fetch that has begun ends with a result, however many batches it needs
   and whatever happens to their streams (fetch_blocks, process_sync_event). *)
FetchSettles == \A r \in Requests : tasks[r].pc = "root" ~> result[r] # "none"
=============================================================================
