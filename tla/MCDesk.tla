------------------------------- MODULE MCDesk -------------------------------
(* A daemon's desk for TLC: a behaviour is one of the active part, with    *)
(* the variables of the others at rest.                                    *)
EXTENDS Desk, TLC

Symmetry == Permutations(Tasks)

Report(v, f, p) == [via |-> v, file |-> f, project |-> "p", peer |-> p]
MCReports == {Report("offer", "f", "a"), Report("fork", "f", "a"), Report("fork", "g", "b"),
              Report("alert", "f", "b"), Report("alert", "g", "a")}

VARIABLE active
MCvars == <<vars, disputeVars, whoVars, active>>

MCInit ==
    /\ active \in {"versions", "conflicts", "identity"}
    /\ Init /\ Disputes!Init /\ Who!Init
    /\ active # "identity" => env = None

MCNext ==
    \/ active = "versions" /\ Next /\ UNCHANGED <<disputeVars, whoVars, active>>
    \/ active = "conflicts" /\ Disputes!Next /\ UNCHANGED <<vars, whoVars, active>>
    \/ active = "identity" /\ Who!Next /\ UNCHANGED <<vars, disputeVars, active>>

MCSpec == MCInit /\ [][MCNext]_MCvars
=============================================================================
