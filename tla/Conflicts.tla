------------------------------ MODULE Conflicts ------------------------------
(***************************************************************************)
(* The conflict manager (conflict/mod.rs): one record per file in          *)
(* conflict, and the notifications kept for peers that are away.           *)
(*                                                                         *)
(* Conflicts are found by one task, the gossip subscriber; commands, the   *)
(* periodic clean-up and a peer's return run beside it.  A step is one     *)
(* access to a table, or one event.                                        *)
(***************************************************************************)
EXTENDS Naturals

CONSTANTS Reports,    \* conflicts met: [via, file, project, peer]
          Here,       \* the local peer
          NoProject,  \* the project of a conflict known from an alert only
          Ttl, MaxTime, MaxReports,
          Windows     \* deviations: "lingering", "swept"

VARIABLES conflicts,   \* conflicts: the records, a set with one per file
          hot_standby, \* hot_standby: the notifications kept, numbered
          finder,      \* the task that finds conflicts: where it is, and with what
          sweep,       \* cleanup_expired_notifications: NoSweep, or the `now` it read
          now, nreports,
          events,      \* ConflictDetected events emitted, per file
          unresolved,  \* history: files in conflict nobody has resolved since
          records,     \* history: the records inserted, per file
          kept,        \* history: the number of notifications queued so far
          handed,      \* history: the numbers of those handed to their peer
          dropped      \* history: those dropped, with their age

conflictVars == <<conflicts, hot_standby, finder, sweep, now, nreports, events, unresolved,
                  records, kept, handed, dropped>>
standby == <<hot_standby, kept, handed, dropped>>
clock == <<sweep, now>>

ConflictFiles == {r.file : r \in Reports}
Idle == [pc |-> "idle"]
NoSweep == MaxTime + 1
Rec(f) == {c \in conflicts : c.file = f}

Init ==
    /\ conflicts = {} /\ hot_standby = {}
    /\ finder = Idle /\ sweep = NoSweep
    /\ now = 0 /\ nreports = 0
    /\ events = [f \in ConflictFiles |-> 0]
    /\ unresolved = {}
    /\ records = [f \in ConflictFiles |-> 0]
    /\ kept = 0 /\ handed = {} /\ dropped = {}

-----------------------------------------------------------------------------
(* What the finding task meets.  A conflict found while the last one of    *)
(* the file is resolved but not yet cleaned up is not recorded.            *)
Meets(r) ==
    /\ finder = Idle /\ nreports < MaxReports
    /\ nreports' = nreports + 1
    /\ unresolved' = IF "lingering" \notin Windows /\ \E c \in Rec(r.file) : c.state = "Resolved"
                     THEN unresolved ELSE unresolved \cup {r.file}

New(r, project, peers) == [file |-> r.file, project |-> project, peers |-> peers, state |-> "Active"]
Insert(c) ==
    /\ conflicts' = (conflicts \ Rec(c.file)) \cup {c}
    /\ records' = [records EXCEPT ![c.file] = @ + 1]
emit(f) == events' = [events EXCEPT ![f] = @ + 1]

(* record_version_conflict: nothing if there is a record already; else the *)
(* record is inserted, and then the event is emitted.                      *)
record_version_conflict(r) ==
    /\ r.via = "offer" /\ Meets(r)
    /\ IF Rec(r.file) # {}
       THEN UNCHANGED <<conflicts, records, finder>>
       ELSE /\ Insert(New(r, r.project, {Here, r.peer}))
            /\ finder' = [pc |-> "emit", report |-> r]
    /\ UNCHANGED <<standby, clock, events>>

(* detect_conflict, for a block that does not follow the head of the       *)
(* file's chain: the record is inserted ...                                *)
detect_conflict(r) ==
    /\ r.via = "fork" /\ Meets(r)
    /\ IF Rec(r.file) # {}
       THEN UNCHANGED <<conflicts, records, finder>>
       ELSE /\ Insert(New(r, r.project, {Here, r.peer}))
            /\ finder' = [pc |-> "queue", report |-> r]
    /\ UNCHANGED <<standby, clock, events>>

(* ... a notification is kept for the author of the block ...              *)
queue_notification ==
    /\ finder.pc = "queue"
    /\ kept' = kept + 1
    /\ hot_standby' = hot_standby \cup {[id |-> kept', peer |-> finder.report.peer, at |-> now]}
    /\ finder' = [finder EXCEPT !.pc = "emit"]
    /\ UNCHANGED <<conflicts, clock, nreports, events, unresolved, records, handed, dropped>>

(* ... and the event is emitted.                                           *)
emit_detected ==
    /\ finder.pc = "emit"
    /\ emit(finder.report.file)
    /\ finder' = Idle
    /\ UNCHANGED <<conflicts, standby, clock, nreports, unresolved, records>>

(* handle_conflict_alert: the peer joins the record there is; without one  *)
(* the event is emitted first ...                                          *)
handle_conflict_alert(r) ==
    /\ r.via = "alert" /\ Meets(r)
    /\ IF Rec(r.file) # {}
       THEN /\ conflicts' = {IF c.file = r.file THEN [c EXCEPT !.peers = @ \cup {r.peer}] ELSE c :
                               c \in conflicts}
            /\ UNCHANGED <<finder, events>>
       ELSE /\ emit(r.file)
            /\ finder' = [pc |-> "insert", report |-> r]
            /\ UNCHANGED conflicts
    /\ UNCHANGED <<standby, clock, records>>

(* ... and the record inserted after it, under no project.                 *)
insert_alerted ==
    /\ finder.pc = "insert"
    /\ Insert(New(finder.report, NoProject, {finder.report.peer}))
    /\ finder' = Idle
    /\ UNCHANGED <<standby, clock, nreports, events, unresolved>>

-----------------------------------------------------------------------------
(* Commands and clean-up.                                                  *)

(* resolve_conflict: only an active conflict can be resolved, and once.    *)
resolve_conflict(f) ==
    /\ \E c \in Rec(f) : c.state = "Active"
    /\ conflicts' = {IF c.file = f THEN [c EXCEPT !.state = "Resolved"] ELSE c : c \in conflicts}
    /\ unresolved' = unresolved \ {f}
    /\ UNCHANGED <<standby, clock, finder, nreports, events, records>>

(* Mutant: every record goes.                                              *)
cleanup_resolved_all == {}

(* cleanup_resolved: only active conflicts stay.                           *)
cleanup_resolved == {c \in conflicts : c.state = "Active"}

(* One round of the periodic clean-up begins: resolved conflicts go, and   *)
(* cleanup_expired_notifications reads the time ...                        *)
periodic_cleanup ==
    /\ sweep = NoSweep
    /\ conflicts' = cleanup_resolved
    /\ sweep' = now
    /\ UNCHANGED <<standby, finder, now, nreports, events, unresolved, records>>

(* The age is a difference of unsigned numbers: a notification queued      *)
(* since the time was read is, as it wraps, older than any limit.          *)
expired(n) == n.at > sweep \/ sweep - n.at >= Ttl

(* ... before it goes through the notifications.                           *)
cleanup_expired_notifications ==
    /\ sweep # NoSweep
    /\ LET late == {n \in hot_standby : expired(n)} IN
       /\ hot_standby' = hot_standby \ late
       /\ dropped' = dropped \cup {[id |-> n.id, age |-> now - n.at] : n \in late}
    /\ sweep' = NoSweep
    /\ UNCHANGED <<conflicts, finder, now, nreports, events, unresolved, records, kept, handed>>

(* drain_pending_notifications: what was kept for a peer that is back is   *)
(* taken out, all at once.                                                 *)
drain_pending_notifications(p) ==
    /\ LET mine == {n \in hot_standby : n.peer = p} IN
       /\ mine # {}
       /\ hot_standby' = hot_standby \ mine
       /\ handed' = handed \cup {n.id : n \in mine}
    /\ UNCHANGED <<conflicts, clock, finder, nreports, events, unresolved, records, kept, dropped>>

Tick ==
    /\ now < MaxTime /\ now' = now + 1
    /\ sweep # NoSweep => "swept" \in Windows
    /\ UNCHANGED <<conflicts, standby, finder, sweep, nreports, events, unresolved, records>>

Next ==
    \/ \E r \in Reports :
         record_version_conflict(r) \/ detect_conflict(r) \/ handle_conflict_alert(r)
    \/ queue_notification \/ emit_detected \/ insert_alerted
    \/ \E f \in ConflictFiles : resolve_conflict(f)
    \/ periodic_cleanup \/ cleanup_expired_notifications
    \/ \E r \in Reports : drain_pending_notifications(r.peer)
    \/ Tick

-----------------------------------------------------------------------------
(* What the manager promises: a conflict that was met stays on the list of *)
(* active ones, whatever else is met, until a command resolves it; every   *)
(* record is announced by exactly one event, before or right after it is   *)
(* inserted; and a notification kept for a peer waits for it, or has       *)
(* been handed over, or was dropped at the age of Ttl or more              *)
(* (ConflictManager).                                                      *)
ConflictKept ==
    /\ \A f \in unresolved :
         (\E c \in Rec(f) : c.state = "Active") \/ (finder # Idle /\ finder.report.file = f)
    /\ \A f \in ConflictFiles : finder = Idle => events[f] = records[f]
    /\ 1..kept = handed \cup {n.id : n \in hot_standby \cup dropped}
    /\ \A n \in dropped : n.age >= Ttl
=============================================================================
