--------------------------- MODULE MCHistoryStore ---------------------------
(* The archive of a node: the store, once with crashes and tags and once   *)
(* with a damaged index and two backends; the retention rules; the         *)
(* backends request by request; and the commands on the history.  A        *)
(* behaviour is one of the active part, with the variables of the others   *)
(* at rest.                                                                *)
EXTENDS HistoryStore

CONSTANTS k1, k2, c1, c2, b1, b2

\* In the first instance k1 may also be offered with other bytes: archive has
\* to refuse them.  The second has two versions with the same bytes only.
Conflicting == {<<k1, c1>>, <<k2, c1>>, <<k1, c2>>}
Damaged == INSTANCE HistoryStore WITH
    Contents <- {c1}, Backends <- {b1, b2}, Publishable <- {<<k1, c1>>, <<k2, c1>>},
    TagNames <- {}, Temporaries <- {"archive"}, CanCorrupt <- TRUE

VARIABLE mishaps    \* what went wrong so far
storeVars == <<vars, mishaps>>

\* Two versions of one file and one of another; two objects, the second twice
\* the size of the first; ages and limits of 0, 1 and 2.
CONSTANTS MaxTime, MaxVersions, MaxBytes
VARIABLES entries, keep, maxVersions, cutoff, maxBytes, rule, victims, oldest, refs, total
Limits == INSTANCE Retention WITH
    Keys <- {<<1, 1>>, <<1, 2>>, <<2, 1>>}, Hashes <- {1, 2}, Size <- <<1, 2>>,
    index <- entries, pc <- rule
limitVars == <<entries, keep, maxVersions, cutoff, maxBytes, rule, victims, oldest, refs, total>>

CONSTANTS Daemons, Kinds, MaxFiles
VARIABLES kind, reach, copies, nfiles, tmp, obj, entry, call, robbed
Remotes == INSTANCE RotationBackends WITH op <- call
remoteVars == <<kind, reach, copies, nfiles, tmp, obj, entry, call, robbed>>

CONSTANTS Clerks, Versions, Papers, MaxCommands, MaxOutside
Gc(p, ps)     == [is |-> "HistoryGc", purge |-> p, papers |-> ps]
Rotate(d, ps) == [is |-> "HistoryRotate", dry_run |-> d, papers |-> ps]
Tag(vs, ps)   == [is |-> "TagAdd", tag |-> "t", pins |-> vs, papers |-> ps]
OfTag(is)     == [is |-> is, tag |-> "t"]
Commands == {Gc(TRUE, {}), Gc(FALSE, {"m"}), Rotate(TRUE, {}), Rotate(FALSE, {"m"}),
             Tag({1}, {}), Tag({}, {"m"}), Tag({}, {}), OfTag("TagRm"), OfTag("TagShow"),
             OfTag("TagLs"), [is |-> "HistoryFetch", version |-> 1], [is |-> "HistoryList"],
             [is |-> "HistoryOffloaded"]}
VARIABLES open, covered, rotation, listed, store, tagfiles, papers, clerk, answer,
          ncommands, noutside, named
Desk == INSTANCE HistoryDesk WITH
    Tasks <- Clerks, TagNames <- {"t"}, manifest <- listed, tags <- tagfiles, task <- clerk
deskVars == <<open, covered, rotation, listed, store, tagfiles, papers, clerk, answer,
              ncommands, noutside, named>>

VARIABLE active
others == <<limitVars, remoteVars, deskVars>>

MCInit ==
    /\ active \in {"crashes", "damage", "limits", "remotes", "commands"}
    /\ IF active = "damage" THEN Damaged!Init ELSE Init
    /\ mishaps = {}
    /\ IF active = "limits" THEN Limits!Init
       ELSE /\ entries = <<>> /\ keep = {} /\ maxVersions = 0 /\ cutoff = 0 /\ maxBytes = 0
            /\ rule = "done" /\ victims = {} /\ oldest = {} /\ refs = <<0, 0>> /\ total = 0
    /\ Remotes!Init
    /\ active # "remotes" => kind = "s3"
    /\ Desk!Init
    /\ active # "commands" => open /\ covered /\ rotation

Crashes ==
    \/ (Begin \/ Step \/ ReaderScan \/ ReaderSave) /\ UNCHANGED mishaps
    \/ Abort /\ mishaps' = mishaps \cup {"died"}

Damage ==
    \/ (Damaged!Begin \/ Damaged!Step \/ Damaged!Abort \/ Damaged!Corrupt) /\ UNCHANGED mishaps
    \/ (Damaged!ReaderScan \/ Damaged!ReaderSave \/ Damaged!Reconfigure) /\ UNCHANGED mishaps

MCNext ==
    \/ active = "crashes" /\ Crashes /\ UNCHANGED <<others, active>>
    \/ active = "damage" /\ Damage /\ UNCHANGED <<others, active>>
    \/ active = "limits" /\ Limits!Next /\ UNCHANGED <<storeVars, remoteVars, deskVars, active>>
    \/ active = "remotes" /\ Remotes!Next /\ UNCHANGED <<storeVars, limitVars, deskVars, active>>
    \/ active = "commands" /\ Desk!Next /\ UNCHANGED <<storeVars, limitVars, remoteVars, active>>

MCSpec == MCInit /\ [][MCNext]_<<storeVars, others, active>>

-----------------------------------------------------------------------------
(* With one backend and an index file that is not damaged, every version   *)
(* the index lists can be served, wherever an operation died; and as long  *)
(* as none was cut off half-way, losing index.json at any step loses no    *)
(* version: rebuild_from_sidecars finds each one again.                    *)
Served == active = "crashes" =>
    Fetchable /\ ("died" \notin mishaps => RebuildSafe)

(* apply_retention takes exactly what the limits condemn.                  *)
RetentionExact == active = "limits" => Limits!RetentionExact

(* A version whose object was moved to a backend can be had back, whatever *)
(* request failed (rotate, fetch, RotationBackend).                        *)
CopyKept == Remotes!CopyKept

(* gc and rotation, by command or by the timer, spare what tags pin and    *)
(* what the manifests they were given name (HistoryGc, HistoryRotate).     *)
TidyingSpares == Desk!TidyingSpares
=============================================================================
