-------------------------------- MODULE Desk --------------------------------
(***************************************************************************)
(* What a daemon keeps beside the files of a project: their version        *)
(* numbers, the conflicts it has met, and the identity it serves under.    *)
(* They share no state.                                                    *)
(***************************************************************************)
EXTENDS ProjectVersions

CONSTANTS Reports, Here, NoProject, Ttl, MaxTime, MaxReports, Windows
VARIABLES conflicts, hot_standby, finder, sweep, now, nreports, events, unresolved,
          records, kept, handed, dropped
Disputes == INSTANCE Conflicts
disputeVars == <<conflicts, hot_standby, finder, sweep, now, nreports, events,
                 unresolved, records, kept, handed, dropped>>
DisputeSpec == Disputes!Init /\ [][Disputes!Next]_disputeVars

CONSTANTS Starts, Keys, Passphrases, None
VARIABLES file, env, start, fresh, raced, used
Who == INSTANCE Identity
whoVars == <<file, env, start, fresh, raced, used>>
IdentitySpec == Who!Init /\ [][Who!Next]_whoVars

-----------------------------------------------------------------------------
(* A conflict that was met stays listed until it is resolved, and is       *)
(* announced once (ConflictManager).                                       *)
ConflictKept == Disputes!ConflictKept

(* Every start of a node serves under the identity in its file             *)
(* (load_or_generate).                                                     *)
IdentityStable == Who!IdentityStable
=============================================================================
