----------------------------- MODULE HistoryDesk -----------------------------
(***************************************************************************)
(* The commands about a project's history (ipc_server.rs), the timer that  *)
(* rotates it (daemon.rs) and the tags they obey (history/tags.rs).  What  *)
(* they do to the files of the store is HistoryStore's subject; here a     *)
(* version of the project's one file is in the store, on a backend, or     *)
(* nowhere.                                                                *)
(*                                                                         *)
(* A command collects the versions to keep before it waits for the mutex   *)
(* of the store, one await per manifest it was given.  Everything that     *)
(* changes the store or the tags does so under the mutex, in one step.     *)
(***************************************************************************)
EXTENDS Naturals, Sequences, FiniteSets

CONSTANTS Tasks,       \* commands under way at a time
          Versions,    \* versions of the file
          TagNames,
          Papers,      \* the manifest files a command may be given
          Commands,    \* bound: the commands given
          MaxCommands, MaxOutside

VARIABLES open,      \* is the project open?
          covered,   \* HistoryConfig.covers
          rotation,  \* HistoryConfig.rotation.enabled
          manifest,  \* the versions the project's manifest names
          store,     \* version -> "none", "here" or "away"
          tags,      \* name -> the tag file: its pins, and what it is like
          papers,    \* manifest file -> the versions it names, or unreadable
          task,      \* per task: where a command is, and what it holds
          answer,    \* the last answer
          ncommands, noutside,
          named      \* history: per task, the manifests its command goes by,
                     \* each with what it has named ever since the command began

deskVars == <<open, covered, rotation, manifest, store, tags, papers, task, answer, ncommands,
              noutside, named>>
settings == <<open, covered, rotation>>
outside == <<manifest, papers>>

(* A manifest file names versions even when it cannot be read as one.      *)
Paper == [names : {{v} : v \in Versions}, readable : BOOLEAN]
NoTag == [pins |-> {}, is |-> "absent"]
Idle == [pc |-> "idle"]
Answer(code, is) == [code |-> code, is |-> is]
Ok(is) == Answer(0, is)

Init ==
    /\ open \in BOOLEAN /\ covered \in BOOLEAN /\ rotation \in BOOLEAN
    /\ manifest = {}
    /\ store = [v \in Versions |-> "none"]
    /\ tags = [n \in TagNames |-> NoTag]
    /\ papers = [p \in Papers |-> [names |-> {}, readable |-> FALSE]]
    /\ task = [t \in Tasks |-> Idle]
    /\ answer = Ok({})
    /\ ncommands = 0 /\ noutside = 0
    /\ named = [t \in Tasks |-> {}]

In(place) == {v \in Versions : store[v] = place}
Put(vs, place) == [v \in Versions |-> IF v \in vs THEN place ELSE store[v]]

-----------------------------------------------------------------------------
(* The tag files.                                                          *)

(* validate_tag: a tag file that cannot be read as a tag of its name, or   *)
(* pins what cannot be a version.                                          *)
validate_tag(n) == tags[n].is # "damaged"

(* load: no tag, the tag, or an error; a tag of another project is one.    *)
load(n) == IF tags[n].is = "absent" THEN Answer(2, {})
           ELSE IF validate_tag(n) /\ tags[n].is = "ours" THEN Ok(tags[n].pins) ELSE Answer(3, {})

(* list: any tag that cannot be read fails the whole list; tags of another *)
(* project are passed over.                                                *)
Ours == {n \in TagNames : tags[n].is \in {"ours", "damaged"}}
list == IF \A n \in Ours : validate_tag(n) THEN Ok(Ours) ELSE Answer(3, {})

(* Mutant: a tag that cannot be read is passed over.                       *)
all_pins_readable == Ok(UNION {tags[n].pins : n \in {m \in Ours : validate_tag(m)}})

(* all_pins: what the tags pin together; a tag that cannot be read is an   *)
(* error.                                                                  *)
all_pins == IF \A n \in Ours : validate_tag(n) THEN Ok(UNION {tags[n].pins : n \in Ours})
            ELSE Answer(3, {})

(* save: the tag is replaced as a whole, whatever the old file is like.    *)
save(n, pins) == tags' = [tags EXCEPT ![n] = [pins |-> pins, is |-> "ours"]]

(* remove: only a tag that can be read is removed.                         *)
remove(n) == tags' = [tags EXCEPT ![n] = IF load(n).code = 0 THEN NoTag ELSE @]

-----------------------------------------------------------------------------
(* What the commands ask the store.                                        *)

(* protected_versions: the versions to keep, and the tags.                 *)
protected_versions(keep) ==
    IF all_pins.code = 0 THEN Ok(keep \cup all_pins.is) ELSE all_pins

(* gc: purge empties the store unless something is on a backend; else some *)
(* of the versions that are here and not protected go.                     *)
gc(r) ==
    IF r.cmd.purge
    THEN IF In("away") # {} THEN answer' = Answer(3, {}) /\ UNCHANGED store
         ELSE answer' = Ok(In("here")) /\ store' = Put(In("here"), "none")
    ELSE LET p == protected_versions(r.keep) IN
         IF p.code # 0 THEN answer' = p /\ UNCHANGED store
         ELSE \E gone \in SUBSET (In("here") \ p.is) :
                answer' = Ok(gone) /\ store' = Put(gone, "none")

(* select_candidates: versions old enough, here and not protected.         *)
select_candidates(protected) == SUBSET (In("here") \ protected)

(* rotate: nothing unless it is enabled; a dry run only lists; a candidate *)
(* the backend does not take is skipped.                                   *)
rotate(r) ==
    LET p == protected_versions(r.keep) IN
    IF ~rotation THEN answer' = Answer(3, {}) /\ UNCHANGED store
    ELSE IF p.code # 0 THEN answer' = p /\ UNCHANGED store
    ELSE \E candidates \in select_candidates(p.is) :
           IF r.cmd.dry_run THEN answer' = Ok(candidates) /\ UNCHANGED store
           ELSE \E moved \in SUBSET candidates :
                  answer' = Ok(moved) /\ store' = Put(moved, "away")

(* fetch_offloaded: a version on a backend comes back, or the backend      *)
(* fails; anything else is an error.                                       *)
fetch_offloaded(v) ==
    \/ rotation /\ store[v] = "away" /\ answer' = Ok({v}) /\ store' = Put({v}, "here")
    \/ answer' = Answer(3, {}) /\ UNCHANGED store

-----------------------------------------------------------------------------
(* The commands.                                                           *)
End(t) == /\ task' = [task EXCEPT ![t] = Idle]
          /\ named' = [named EXCEPT ![t] = {}]
Refused(cmd) ==
    CASE ~open -> 2
      [] ~covered /\ cmd.is \notin {"HistoryList"} ->
           IF cmd.is \in {"TagLs", "TagShow", "TagRm"} THEN 3 ELSE 4
      [] OTHER -> 0

(* HistoryList and HistoryOffloaded read the index without the mutex.      *)
HistoryList == Ok(In("here") \cup In("away"))
HistoryOffloaded == Ok(In("away"))
TagLs == list
TagShow(n) == load(n)

(* A command that only reads is answered at once.                          *)
Reply(cmd) ==
    CASE cmd.is = "HistoryList"      -> HistoryList
      [] cmd.is = "HistoryOffloaded" -> HistoryOffloaded
      [] cmd.is = "TagLs"            -> TagLs
      [] cmd.is = "TagShow"          -> TagShow(cmd.tag)

Reading(cmd) == cmd.is \in {"HistoryList", "HistoryOffloaded", "TagLs", "TagShow"}

(* The versions a command collects before its first await: what its own    *)
(* manifest names, unless it purges; TagAdd, only if it is given neither   *)
(* pins nor a manifest.                                                    *)
Own(cmd) ==
    CASE cmd.is = "HistoryGc"     -> IF cmd.purge THEN {} ELSE manifest
      [] cmd.is = "HistoryRotate" -> manifest
      [] cmd.is = "TagAdd"        -> IF cmd.pins # {} THEN cmd.pins
                                     ELSE IF cmd.papers # {} THEN {} ELSE manifest
      [] OTHER                    -> {}
ToRead(cmd) ==
    CASE cmd.is = "HistoryGc"     -> IF cmd.purge THEN {} ELSE cmd.papers
      [] cmd.is = "HistoryRotate" -> cmd.papers
      [] cmd.is = "TagAdd"        -> IF cmd.pins # {} THEN {} ELSE cmd.papers
      [] OTHER                    -> {}

(* Which manifests a command that tidies goes by, and what they name.      *)
Told(cmd, own, ps) ==
    IF cmd.is \notin {"HistoryGc", "HistoryRotate"} \/ (cmd.is = "HistoryGc" /\ cmd.purge) THEN {}
    ELSE {<<"own", v>> : v \in own} \cup UNION {{<<p, v>> : v \in ps[p].names} : p \in cmd.papers}

Begin(t, cmd) ==
    /\ task[t] = Idle /\ ncommands < MaxCommands
    /\ ncommands' = ncommands + 1
    /\ IF Refused(cmd) # 0
       THEN answer' = Answer(Refused(cmd), {}) /\ UNCHANGED <<task, named>>
       ELSE IF Reading(cmd) THEN answer' = Reply(cmd) /\ UNCHANGED <<task, named>>
       ELSE /\ task' = [task EXCEPT ![t] =
                 [pc |-> "read", cmd |-> cmd, keep |-> Own(cmd), todo |-> ToRead(cmd)]]
            /\ named' = [named EXCEPT ![t] = Told(cmd, manifest, papers)]
            /\ UNCHANGED answer
    /\ UNCHANGED <<settings, outside, store, tags, noutside>>

(* load_from_file: one that cannot be read ends the command.               *)
load_from_file(t, p) ==
    IF papers[p].readable
    THEN /\ task' = [task EXCEPT ![t].keep = @ \cup papers[p].names, ![t].todo = @ \ {p}]
         /\ UNCHANGED <<answer, named>>
    ELSE End(t) /\ answer' = Answer(3, {})

(* The next manifest a command was given is read.                          *)
ReadPaper(t) ==
    /\ task[t].pc = "read"
    /\ \E p \in task[t].todo : load_from_file(t, p)
    /\ UNCHANGED <<settings, outside, store, tags, ncommands, noutside>>

Ready(t, is) == task[t].pc = "read" /\ task[t].todo = {} /\ task[t].cmd.is = is
Keeps == <<settings, outside, ncommands, noutside>>

HistoryGc(t) ==
    /\ Ready(t, "HistoryGc") /\ gc(task[t]) /\ End(t)
    /\ UNCHANGED <<Keeps, tags>>

(* HistoryRotate; and what the timer does every interval for each open     *)
(* project of the node is the same with no manifest but the project's.     *)
HistoryRotate(t) ==
    /\ Ready(t, "HistoryRotate") /\ rotate(task[t]) /\ End(t)
    /\ UNCHANGED <<Keeps, tags>>
HistoryFetch(t) ==
    /\ Ready(t, "HistoryFetch") /\ fetch_offloaded(task[t].cmd.version) /\ End(t)
    /\ UNCHANGED <<Keeps, tags>>
TagAdd(t) ==
    /\ Ready(t, "TagAdd") /\ End(t)
    /\ IF task[t].keep = {} THEN answer' = Answer(3, {}) /\ UNCHANGED tags
       ELSE save(task[t].cmd.tag, task[t].keep) /\ answer' = Ok(task[t].keep)
    /\ UNCHANGED <<Keeps, store>>
TagRm(t) ==
    /\ Ready(t, "TagRm") /\ End(t)
    /\ remove(task[t].cmd.tag)
    /\ answer' = [load(task[t].cmd.tag) EXCEPT !.is = {}]
    /\ UNCHANGED <<Keeps, store>>

(* A tick of the rotation timer.                                           *)
rotation_timer(t) ==
    /\ rotation /\ open /\ covered
    /\ Begin(t, [is |-> "HistoryRotate", papers |-> {}, dry_run |-> FALSE])

-----------------------------------------------------------------------------
(* Beside the commands: publishing, and what happens to the files.         *)
Renamed(own, ps) == named' = [t \in Tasks |->
    IF task[t] = Idle THEN {} ELSE named[t] \cap Told(task[t].cmd, own, ps)]

(* A version is published: the manifest names it, and it is archived.  The *)
(* manifest may also be taken from git, and name any version.              *)
Publish ==
    /\ open /\ noutside < MaxOutside
    /\ \E v \in Versions :
         /\ manifest' = {v}
         /\ \/ covered /\ store[v] = "none" /\ store' = Put({v}, "here")
            \/ UNCHANGED store
    /\ Renamed(manifest', papers)
    /\ noutside' = noutside + 1
    /\ UNCHANGED <<settings, papers, tags, task, answer, ncommands>>

Outside ==
    /\ noutside < MaxOutside /\ noutside' = noutside + 1
    /\ \/ /\ \E p \in Papers : \E new \in Paper :
               papers' = [papers EXCEPT ![p] = new]
          /\ Renamed(manifest, papers') /\ UNCHANGED tags
       \/ /\ \E n \in TagNames : /\ tags[n].is = "ours"
                                 /\ \E is \in {"damaged", "foreign"} : tags' = [tags EXCEPT ![n].is = is]
          /\ UNCHANGED <<papers, named>>
    /\ UNCHANGED <<settings, manifest, store, task, answer, ncommands>>

Next ==
    \/ \E t \in Tasks :
         \/ \E cmd \in Commands : Begin(t, cmd)
         \/ rotation_timer(t) \/ ReadPaper(t) \/ HistoryGc(t) \/ HistoryRotate(t)
         \/ HistoryFetch(t) \/ TagAdd(t) \/ TagRm(t)
    \/ Publish \/ Outside

-----------------------------------------------------------------------------
(* What a user may rely on when history is tidied, by command or by the    *)
(* timer: unless it is a purge, a version is not removed or moved away if  *)
(* a tag of the project pins it, readable or not, when the command acts,   *)
(* or if the project's manifest or one given to the command has named it   *)
(* for the whole of the command; a purge takes nothing while a version is  *)
(* on a backend; and a version on a backend leaves it only to come back    *)
(* (HistoryGc, HistoryRotate, all_pins, protected_versions).               *)
TidyingSpares == [][
    \A v \in Versions : store[v] # store'[v] =>
      CASE store[v] = "away" -> store'[v] = "here"
        [] store[v] = "none" -> store'[v] = "here"
        [] store[v] = "here" -> \E t \in Tasks :
             /\ task[t] # Idle /\ task'[t] = Idle
             /\ \/ task[t].cmd.is = "HistoryGc" /\ task[t].cmd.purge /\ In("away") = {}
                \/ /\ \A n \in named[t] : n[2] # v
                   /\ \A n \in Ours : v \notin tags[n].pins]_deskVars

(* A version the manifest names when a command acts is spared.  It is not  *)
(* so: the manifest is read before the command waits for the store.        *)
CurrentSpared == [][\A v \in manifest : store[v] = "here" =>
    \/ store'[v] = "here"
    \/ \E t \in Tasks : task[t] # Idle /\ task[t].cmd.is = "HistoryGc" /\ task[t].cmd.purge]_deskVars
=============================================================================
