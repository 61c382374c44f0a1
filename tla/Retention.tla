----------------------------- MODULE Retention -----------------------------
(***************************************************************************)
(* apply_retention of the history store: which versions gc may delete.     *)
(*                                                                         *)
(* The input is an index, a protected set and three limits (0 switches a   *)
(* limit off).  The three rules run one after the other; the last one is a *)
(* loop that keeps a reference count per object and a running total.       *)
(***************************************************************************)
EXTENDS Naturals, FiniteSets, FiniteSetsExt

CONSTANTS
    Keys,         \* <<rel, version>> pairs; paths are numbers, in name order
    Hashes,       \* object hashes
    Size,         \* Size[h]: bytes of object h
    MaxTime,      \* stored_at ranges over 1..MaxTime
    MaxVersions,  \* values tried for max_versions_per_file
    MaxBytes      \* values tried for max_bytes

Attributes == [hash : Hashes, offloaded : BOOLEAN, stored : 1..MaxTime]

VARIABLES
    index,        \* index[k]: the attributes of version k
    keep,         \* the protected keys
    maxVersions,  \* max_versions_per_file
    cutoff,       \* now - max_age_days; 0: no age limit
    maxBytes,     \* max_bytes
    pc, victims,
    oldest,       \* the keys the byte loop has still to visit
    refs,         \* refs[h]: local entries of object h that are no victims
    total         \* bytes of the objects that had a reference and kept one

input == <<index, keep, maxVersions, cutoff, maxBytes>>
vars == <<input, pc, victims, oldest, refs, total>>

-----------------------------------------------------------------------------
Local(k) == ~index[k].offloaded
Deletable(k) == Local(k) /\ k \notin keep

\* The local versions of k's file that are newer than k.
Newer(k) == {j \in DOMAIN index : Local(j) /\ j[1] = k[1] /\ j[2] > k[2]}

\* Rust's order on (stored_at, rel, version).
Before(j, k) ==
    LET s == index[j].stored  t == index[k].stored
    IN s < t \/ (s = t /\ (j[1] < k[1] \/ (j[1] = k[1] /\ j[2] < k[2])))

\* The bytes of the distinct objects of a set of versions.
UniqueBytes(S) == MapThenSumSet(LAMBDA h : Size[h], {index[k].hash : k \in S})

Init ==
    /\ \E present \in SUBSET Keys : index \in [present -> Attributes]
    /\ keep \in SUBSET DOMAIN index
    /\ maxVersions \in MaxVersions
    /\ cutoff \in 0..MaxTime
    /\ maxBytes \in MaxBytes
    /\ pc = "count" /\ victims = {} /\ oldest = {}
    /\ refs = [h \in Hashes |-> 0] /\ total = 0

\* At least max_versions_per_file newer local versions exist.
OverCount(k) == Cardinality(Newer(k)) >= maxVersions

Count ==
    /\ pc = "count" /\ pc' = "age"
    /\ victims' = IF maxVersions = 0 THEN {}
                  ELSE {k \in DOMAIN index : Deletable(k) /\ OverCount(k)}
    /\ UNCHANGED <<input, oldest, refs, total>>

Aged(k) == Deletable(k) /\ index[k].stored < cutoff

Age ==
    /\ pc = "age" /\ pc' = "total"
    /\ victims' = victims \cup {k \in DOMAIN index : Aged(k)}
    /\ UNCHANGED <<input, oldest, refs, total>>

\* The versions whose objects take space.
Counted == {k \in DOMAIN index : Local(k) /\ k \notin victims}

Total ==
    /\ pc = "total"
    /\ IF maxBytes = 0
       THEN pc' = "done" /\ UNCHANGED <<oldest, refs, total>>
       ELSE /\ pc' = "bytes"
            /\ refs' = [h \in Hashes |-> Cardinality({k \in Counted : index[k].hash = h})]
            /\ total' = UniqueBytes(Counted)
            /\ oldest' = {k \in DOMAIN index : Deletable(k)}
    /\ UNCHANGED <<input, victims>>

\* Mutant: every victim is taken to free the bytes of its object.
FreedAlways(h, n) == Size[h]

\* The bytes freed when object h is left with n references.
Freed(h, n) == IF n = 0 THEN Size[h] ELSE 0

\* One round of the loop over the versions, oldest first.
Bytes ==
    /\ pc = "bytes"
    /\ IF total <= maxBytes \/ oldest = {}
       THEN pc' = "done" /\ UNCHANGED <<victims, oldest, refs, total>>
       ELSE \E k \in oldest :
              /\ \A j \in oldest \ {k} : Before(k, j)
              /\ oldest' = oldest \ {k} /\ victims' = victims \cup {k}
              /\ IF k \in victims
                 THEN UNCHANGED <<refs, total>>
                 ELSE LET h == index[k].hash
                      IN /\ refs' = [refs EXCEPT ![h] = @ - 1]
                         /\ total' = total - Freed(h, refs[h] - 1)
              /\ UNCHANGED pc
    /\ UNCHANGED input

Finished == pc = "done" /\ UNCHANGED vars

Next == Count \/ Age \/ Total \/ Bytes \/ Finished
Spec == Init /\ [][Next]_vars

-----------------------------------------------------------------------------
\* The versions that survive on local disk.
Kept == {k \in DOMAIN index : Local(k) /\ k \notin victims}

\* No version that is protected (by the manifest or a tag) or offloaded is ever
\* chosen, by any of the three rules.
OnlyDeletable == \A k \in victims : k \in DOMAIN index /\ Deletable(k)

\* The outcome of the byte limit: the survivors fit, or nothing deletable is
\* left.
FitsOrExhausted ==
    pc = "done" /\ maxBytes > 0 =>
        UniqueBytes(Kept) <= maxBytes \/ \A k \in Kept : k \in keep

\* The byte limit takes versions strictly oldest first and takes no more than
\* needed: no deletable survivor is older than a version that only the byte
\* limit condemned, and with the last of those the limit was still exceeded.
OldestFirst ==
    LET ruled == {k \in victims : (maxVersions > 0 /\ OverCount(k)) \/ Aged(k)}
        taken == victims \ ruled
    IN pc = "done" =>
         /\ \A v \in taken, k \in Kept \ keep : index[v].stored <= index[k].stored
         /\ taken # {} => \E v \in taken :
                /\ \A u \in taken : index[u].stored <= index[v].stored
                /\ UniqueBytes(Kept \cup {v}) > maxBytes

\* The version limit alone: a file keeps at least its newest
\* max_versions_per_file local versions, at most that many that are not
\* protected, and every version it loses is older than those.
NewestKept ==
    pc = "done" /\ maxVersions > 0 /\ cutoff = 0 /\ maxBytes = 0 =>
        \A rel \in {k[1] : k \in DOMAIN index} :
            LET all == {k \in DOMAIN index : Local(k) /\ k[1] = rel}
                free == (all \cap Kept) \ keep
            IN /\ Cardinality(all \cap Kept) >= Min({maxVersions, Cardinality(all)})
               /\ Cardinality(free) <= maxVersions
               /\ \A k \in free, v \in all \ Kept : v[2] < k[2]

\* What apply_retention promises, all rules together: it takes what the limits
\* condemn, oldest first and no more, and nothing that is protected.
RetentionExact == OnlyDeletable /\ FitsOrExhausted /\ OldestFirst /\ NewestKept
=============================================================================
