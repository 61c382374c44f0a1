-------------------------- MODULE VersionAllocator --------------------------
(***************************************************************************)
(* What the numbering of a project's files promises, whatever files,       *)
(* mutexes and tasks it is made of: a durable mark per file that only      *)
(* rises, and numbers that are covered by the mark when they are given out *)
(* and above all the numbers the file has had before.                      *)
(***************************************************************************)
EXTENDS Naturals

CONSTANTS Files, Contents
VARIABLES highWater,  \* file -> the highest version known to be in use
          issued      \* the (file, version, content) given out

Init == highWater = [f \in Files |-> 0] /\ issued = {}

Raise ==
    /\ highWater' \in [Files -> Nat]
    /\ \A f \in Files : highWater[f] <= highWater'[f]
    /\ UNCHANGED issued

Give(f, v, c) ==
    /\ v \in 1..highWater[f]
    /\ \A i \in issued : i.file = f => i.version < v
    /\ issued' = issued \cup {[file |-> f, version |-> v, content |-> c]}
    /\ UNCHANGED highWater

Next == Raise \/ \E f \in Files, c \in Contents : \E v \in 1..highWater[f] : Give(f, v, c)

Spec == Init /\ [][Next]_<<highWater, issued>>
=============================================================================
