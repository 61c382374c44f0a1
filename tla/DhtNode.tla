------------------------------ MODULE DhtNode ------------------------------
(***************************************************************************)
(* The distributed table of peers: routing table, record store and the     *)
(* iterative lookup (synergos-net/src/dht/).  An identifier is a number of *)
(* Bits bits.  The store and the table of a node are sequences, ordered by *)
(* published_at and last_seen; time is what makes a record expire and an   *)
(* entry stale.  A request is served in one step.                          *)
(***************************************************************************)
EXTENDS Naturals, Sequences, FiniteSets, SequencesExt

CONSTANTS Ids,          \* the nodes, as numbers below 2^Bits
          Bits,
          Seeker,       \* the node that looks up Target
          Target,
          Alpha,        \* opts.alpha: requests of a round
          KClosest,     \* opts.k, and the limit of an answer
          MaxHops,      \* opts.max_hops
          BucketSize,   \* k_bucket_size
          StoreMax,     \* DHT_STORE_MAX
          MaxAnnounces, \* bound: announcements
          MaxAging      \* bound: records that expire and entries that go stale

VARIABLES store,     \* store: the records of each node, oldest first
          table,     \* routing_table: the entries of each node, oldest first
          lookup,    \* find_peer_iterative at Seeker
          announces, aging,
          told,      \* history: the nodes that announced themselves
          heard,     \* history: the peers the lookup was told of
          dropped,   \* history: candidates given up unasked
          asked,     \* history: the peers asked, in order
          sure       \* history: has a peer answered with the record?

dhtVars == <<store, table, lookup, announces, aging, told, heard, dropped, asked, sure>>

(* xor_distance: the bits in which two identifiers differ, as a number.    *)
Bit(a, i) == (a \div 2^i) % 2
xor_distance(a, b) ==
    MapThenSumSet(LAMBDA i : IF Bit(a, i) = Bit(b, i) THEN 0 ELSE 2^i, 0..(Bits - 1))

(* leading_zeros: of the distance, in Bits bits.                           *)
leading_zeros(a, b) == Cardinality({i \in 0..(Bits - 1) : 2^i > xor_distance(a, b)})

(* bucket_index: an identical identifier goes to the last bucket.          *)
bucket_index(local, id) ==
    LET zeros == leading_zeros(local, id) IN IF zeros < Bits - 1 THEN zeros ELSE Bits - 1

IdsOf(s) == {s[i].id : i \in DOMAIN s}
Without(s, id) == SelectSeq(s, LAMBDA e : e.id # id)
\* no reply yet: a list no node sends
Pending == [exact |-> FALSE, closest |-> <<2^Bits>>]
Failed  == [exact |-> FALSE, closest |-> <<>>]
ByDistance(S) == SetToSortSeq(S, LAMBDA a, b : xor_distance(a, Target) < xor_distance(b, Target))
Take(s, n) == SubSeq(s, 1, IF Len(s) < n THEN Len(s) ELSE n)

Init ==
    /\ store = [n \in Ids |-> <<>>]
    /\ table = [n \in Ids |-> <<>>]
    /\ lookup = [pc |-> "idle", hop |-> 0, queried |-> {}, candidates |-> <<>>,
                 round |-> <<>>, replies |-> <<>>, found |-> FALSE]
    /\ announces = 0 /\ aging = 0
    /\ told = {} /\ heard = {} /\ dropped = {} /\ asked = <<>> /\ sure = FALSE

-----------------------------------------------------------------------------
(* The routing table                                                       *)

(* upsert: a known peer becomes the newest; a new one needs room in its    *)
(* bucket, or takes the place of the oldest entry if that is stale.        *)
upsert(local, entries, id) ==
    LET bucket == SelectSeq(entries, LAMBDA e : bucket_index(local, e.id) = bucket_index(local, id))
        entry  == [id |-> id, fresh |-> TRUE]
    IN IF id \in IdsOf(entries) \/ Len(bucket) < BucketSize
       THEN Append(Without(entries, id), entry)
       ELSE IF ~bucket[1].fresh THEN Append(Without(entries, bucket[1].id), entry)
       ELSE entries

(* closest, for the node's table                                           *)
closest_peers(n, count) == Take(ByDistance(IdsOf(table[n])), count)

-----------------------------------------------------------------------------
(* The store                                                               *)

(* is_expired, gc_expired                                                  *)
gc_expired(records) == SelectSeq(records, LAMBDA r : r.live)

(* announce: at the limit expired records go first, then the oldest one.   *)
(* The record counts as published now.                                     *)
announce(records, id) ==
    LET swept == gc_expired(records)
        room  == IF Len(records) < StoreMax \/ id \in IdsOf(records) THEN records
                 ELSE IF Len(swept) < StoreMax THEN swept ELSE Tail(swept)
    IN Append(Without(room, id), [id |-> id, live |-> TRUE])

find_peer_local(n, id) == \E i \in DOMAIN store[n] : store[n][i].id = id /\ store[n][i].live

-----------------------------------------------------------------------------
(* handle_request                                                          *)

(* FindNode: the record itself, and those of the closest peers the node    *)
(* has a record of, expired ones included.                                 *)
FindNode(p) ==
    [exact   |-> find_peer_local(p, Target),
     closest |-> SelectSeq(closest_peers(p, KClosest), LAMBDA id : id \in IdsOf(store[p]))]

(* Announce: n makes itself known to m.                                    *)
Announce(n, m) ==
    /\ n # m /\ announces < MaxAnnounces
    /\ announces' = announces + 1
    /\ store' = [store EXCEPT ![m] = announce(@, n)]
    /\ table' = [table EXCEPT ![m] = upsert(m, @, n)]
    /\ told' = told \cup {n}
    /\ UNCHANGED <<lookup, aging, heard, dropped, asked, sure>>

(* The clean-up task of a node.                                            *)
gc(n) ==
    /\ gc_expired(store[n]) # store[n]
    /\ store' = [store EXCEPT ![n] = gc_expired(@)]
    /\ UNCHANGED <<table, lookup, announces, aging, told, heard, dropped, asked, sure>>

(* Time passes: a record reaches its TTL, or the oldest fresh entry the    *)
(* threshold.                                                              *)
Age(n) ==
    /\ aging < MaxAging /\ aging' = aging + 1
    /\ \/ /\ \E i \in DOMAIN store[n] :
                store[n][i].live /\ store' = [store EXCEPT ![n][i].live = FALSE]
          /\ UNCHANGED table
       \/ /\ \E i \in DOMAIN table[n] :
                /\ table[n][i].fresh /\ \A j \in 1..(i - 1) : ~table[n][j].fresh
                /\ table' = [table EXCEPT ![n][i].fresh = FALSE]
          /\ UNCHANGED store
    /\ UNCHANGED <<lookup, announces, told, heard, dropped, asked, sure>>

-----------------------------------------------------------------------------
(* find_peer_iterative                                                     *)

(* The local store, then the closest entries of the table.                 *)
find_peer_iterative ==
    /\ lookup.pc = "idle"
    /\ IF find_peer_local(Seeker, Target)
       THEN lookup' = [lookup EXCEPT !.pc = "done", !.found = TRUE] /\ UNCHANGED heard
       ELSE LET first == SelectSeq(closest_peers(Seeker, Alpha), LAMBDA p : p # Seeker)
            IN /\ lookup' = [lookup EXCEPT !.pc = "hop", !.queried = {Seeker}, !.candidates = first]
               /\ heard' = ToSet(first)
    /\ UNCHANGED <<store, table, announces, aging, told, dropped, asked, sure>>

(* The head of the loop: alpha candidates are asked.  drain(..) takes the  *)
(* others out as well.                                                     *)
next_hop ==
    /\ lookup.pc = "hop" /\ lookup.hop < MaxHops /\ lookup.candidates # <<>>
    /\ LET round == Take(lookup.candidates, Alpha)
       IN /\ lookup' = [lookup EXCEPT !.pc = "wait", !.round = round, !.candidates = <<>>,
                                      !.queried = @ \cup ToSet(round),
                                      !.replies = [i \in DOMAIN round |-> Pending]]
          /\ asked' = asked \o round
          /\ dropped' = dropped \cup (ToSet(lookup.candidates) \ ToSet(round))
    /\ UNCHANGED <<store, table, announces, aging, told, heard, sure>>

(* request: one peer answers, ...                                          *)
request(i) ==
    /\ lookup.pc = "wait" /\ lookup.replies[i] = Pending
    /\ LET answer == FindNode(lookup.round[i])
       IN /\ lookup' = [lookup EXCEPT !.replies[i] = answer]
          /\ heard' = heard \cup ToSet(answer.closest)
          /\ sure' = (sure \/ answer.exact)
    /\ UNCHANGED <<store, table, announces, aging, told, dropped, asked>>

(* ... fails or times out.                                                 *)
timeout(i) ==
    /\ lookup.pc = "wait" /\ lookup.replies[i] = Pending
    /\ lookup' = [lookup EXCEPT !.replies[i] = Failed]
    /\ UNCHANGED <<store, table, announces, aging, told, heard, dropped, asked, sure>>

(* Mutant: a peer that was asked before becomes a candidate again.         *)
unasked_again(ids) == ids

(* ... "if !queried.contains"                                              *)
unasked(ids) == ids \ lookup.queried

(* All have answered: in the order of the round, up to the first that has  *)
(* the record itself, the peers told of enter the table and become         *)
(* candidates, nearest first and at most k.                                *)
gather ==
    /\ lookup.pc = "wait" /\ \A i \in DOMAIN lookup.replies : lookup.replies[i] # Pending
    /\ LET hits    == {i \in DOMAIN lookup.replies : lookup.replies[i].exact}
           before  == {i \in DOMAIN lookup.replies : \A h \in hits : i < h}
           closest == FlattenSeq([i \in 1..Cardinality(before) |-> lookup.replies[i].closest])
           next    == ByDistance(unasked(ToSet(closest)))
       IN /\ table' = [table EXCEPT ![Seeker] =
                          FoldLeft(LAMBDA t, id : upsert(Seeker, t, id), @, closest)]
          /\ IF hits # {}
             THEN /\ store' = [store EXCEPT ![Seeker] = announce(@, Target)]
                  /\ lookup' = [lookup EXCEPT !.pc = "done", !.found = TRUE]
                  /\ UNCHANGED dropped
             ELSE /\ lookup' = [lookup EXCEPT !.pc = "hop", !.hop = @ + 1, !.round = <<>>,
                                              !.replies = <<>>, !.candidates = Take(next, KClosest)]
                  /\ dropped' = dropped \cup (ToSet(next) \ ToSet(Take(next, KClosest)))
                  /\ UNCHANGED store
    /\ UNCHANGED <<announces, aging, told, heard, asked, sure>>

(* The loop ends: the local store once more.                               *)
finish ==
    /\ lookup.pc = "hop" /\ (lookup.hop = MaxHops \/ lookup.candidates = <<>>)
    /\ lookup' = [lookup EXCEPT !.pc = "done", !.found = find_peer_local(Seeker, Target)]
    /\ UNCHANGED <<store, table, announces, aging, told, heard, dropped, asked, sure>>

Next ==
    \/ \E n \in Ids : gc(n) \/ Age(n) \/ \E m \in Ids : Announce(n, m)
    \/ find_peer_iterative \/ next_hop \/ gather \/ finish
    \/ \E i \in DOMAIN lookup.replies : request(i) \/ timeout(i)

-----------------------------------------------------------------------------
(* What a lookup promises (find_peer_iterative): it asks nobody twice and  *)
(* never itself; if a peer it asked had the record it returns it; what it  *)
(* returns was announced by the target; and it gives up only at the hop    *)
(* limit or when every peer it was told of has been asked, but for the     *)
(* candidates beyond alpha or k.                                           *)
LookupSound ==
    /\ \A i, j \in DOMAIN asked : i # j => asked[i] # asked[j]
    /\ \A i \in DOMAIN asked : asked[i] # Seeker
    /\ lookup.pc = "done" => /\ sure => lookup.found
                             /\ lookup.found => Target \in told
    /\ lookup.pc = "done" /\ ~lookup.found /\ lookup.hop < MaxHops =>
          heard \subseteq (ToSet(asked) \cup dropped \cup {Seeker})
=============================================================================
