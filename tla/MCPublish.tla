----------------------------- MODULE MCPublish -----------------------------
(* A publish seen from both ends: the command with the hooks around it, on *)
(* one node, and what becomes of its versions among several.  A behaviour  *)
(* is one of the active part, with the variables of the other at rest.     *)
EXTENDS FileExchange, TLC

CONSTANTS Slots, MaxChanges, MaxReceived
VARIABLES files, allow, hooksfile, archiving, entries, stored, offered, batch,
          posts, changes, received, cleared, since, issued
Batch == INSTANCE PublishBatch WITH
    Files <- {"f", "g"}, Contents <- {"x", "y"}, Missing <- "missing", Outside <- "outside",
    Requests <- [b1 |-> <<"f", "g">>, b2 |-> <<"f">>],
    tree <- files, manifest <- entries, archive <- stored, shared <- offered
publishVars == <<files, allow, hooksfile, archiving, entries, stored, offered, batch,
                 posts, changes, received, cleared, since, issued>>

VARIABLE active

MCInit ==
    /\ active \in {"exchange", "command"}
    /\ Init /\ Batch!Init
    /\ active # "command" => allow /\ hooksfile = "hook" /\ archiving

MCNext ==
    \/ active = "exchange" /\ Next /\ UNCHANGED <<publishVars, active>>
    \/ active = "command" /\ Batch!Next /\ UNCHANGED <<vars, active>>

MCSpec == MCInit /\ [][MCNext]_<<vars, publishVars, active>>

-----------------------------------------------------------------------------
(* Contents are interchangeable.                                           *)
ContentSymmetry == Permutations(Contents)

(* A version is given out only for what the hooks of its batch have seen,  *)
(* and archived and served as what it was given out for (PublishUpdate).   *)
PublishGated == Batch!PublishGated
=============================================================================
