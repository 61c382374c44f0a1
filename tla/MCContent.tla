------------------------------ MODULE MCContent ------------------------------
(* Content over HTTP, and content between daemons.  The two share no state: *)
(* a behaviour is one of the first with the second at rest, or the other    *)
(* way round.                                                               *)
EXTENDS ContentTransfer

CONSTANTS Requests, Wants, None, DagChunks, Catalogs, DagRoots, BatchSize, MaxInflight, EventCap
VARIABLES theirs, mine, gossip, needed, tasks, result, linked, mishaps, active

Peers == INSTANCE BlockExchange
peerVars == <<theirs, mine, gossip, needed, tasks, result, linked, mishaps>>

\* A file of two chunks, and an edit that swaps them.
MCSource0 == <<"x", "y">>
MCSource1 == <<"y", "x">>

\* A sync, a sync of a publisher that names no catalog, and the fetch of a
\* DAG that lists a chunk twice.
MCWants == [s1 |-> [job |-> "sync", cid |-> "cat", publisher |-> "p"],
            s2 |-> [job |-> "sync", cid |-> "none", publisher |-> "p"],
            d1 |-> [job |-> "dag", cid |-> "root", publisher |-> "p"]]
MCRequests == DOMAIN MCWants
MCChunks == <<"x", "y", "x">>

MCInit ==
  /\ Init /\ Peers!Init
  /\ \/ active = "http" /\ theirs = {} /\ mine = {}
     \/ active = "peers" /\ \A id \in Ids : remote[id] = "absent"

MCNext ==
  \/ active = "http" /\ Next /\ UNCHANGED <<peerVars, active>>
  \/ active = "peers" /\ Peers!Next /\ UNCHANGED <<vars, active>>

MCSpec == MCInit /\ [][MCNext]_<<vars, peerVars, active>> /\ Peers!Fairness

(* A fetch of a DAG or a catalog between daemons reports success only when
   every block of it is in the store, through broken streams, short and
   damaged answers, batches in any order and fetches of the same blocks by
   another task (fetch_dag, fetch_root_catalog): it implements
   VerifiedContent. *)
FetchImplements == Peers!FetchImplements

(* A fetch that has begun ends with a result, however many batches it needs
   and whatever happens to their streams (fetch_blocks, process_sync_event). *)
FetchSettles == Peers!FetchSettles
=============================================================================
