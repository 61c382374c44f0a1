---------------------------- MODULE ControlPlane ----------------------------
(***************************************************************************)
(* The control server: the registry of organisations and nodes             *)
(* (JsonStore, one JSON file), the handlers that keep it in step with the  *)
(* connectors of the Cloudflare account, the heartbeats of the nodes, and  *)
(* reconcile, which removes connectors the registry does not know.         *)
(*                                                                         *)
(* A handler runs concurrently with others and is dropped at its current   *)
(* await when its client goes away; a rename handed to the blocking pool   *)
(* by then is still carried out.  The store's mutex is held from the check *)
(* of a change to the end of its rename.  Cloudflare calls fail with or    *)
(* without having taken effect.                                            *)
(*                                                                         *)
(* Ids of nodes are fresh, so their kind and organisation are functions of *)
(* the id, and the connector of a Mesh node is named by the node's id.     *)
(***************************************************************************)
EXTENDS Naturals, FiniteSets

CONSTANTS Requests,    \* concurrent handlers
          Orgs, Emails,
          Rosters,     \* the member lists that requests carry
          NodeIds,     \* node ids a registration may draw
          Mesh,        \* the node ids of kind MeshNode; the others are client devices
          OrgOf,       \* the organisation a node id is registered in
          MaxKey,      \* bound on the keys issued to a node
          MaxDrops,    \* bound on the requests given up
          None

Node == [owner : Emails, key : 1..MaxKey, beaten : BOOLEAN]

ASSUME ConstantsOK ==
    /\ Mesh \subseteq NodeIds /\ Rosters \subseteq SUBSET Emails
    /\ OrgOf \in [NodeIds -> Orgs]
    /\ MaxKey \in Nat \ {0} /\ MaxDrops \in Nat
    /\ None \notin Requests \cup Orgs \cup Emails \cup NodeIds
    /\ \A list \in SUBSET Emails : None # list
    /\ \A node \in Node : None # node

VARIABLES mem,       \* JsonStore.state: the registry the server answers from
          disk,      \* the registry file
          lock,      \* who holds the mutex of JsonStore.state
          req,       \* the handlers under way
          jobs,      \* renames of dropped handlers, still in the blocking pool
          cf,        \* the live connectors of the Cloudflare account
          drops,     \* requests given up so far
          acked,     \* what the answers given so far promise of each node
          excused    \* history: what went wrong outside the registry's control

vars == <<mem, disk, lock, req, jobs, cf, drops, acked, excused>>

Registry == [members : [Orgs -> {None} \cup SUBSET Emails],
             nodes : [NodeIds -> {None} \cup Node]]
Empty == [members |-> [o \in Orgs |-> None], nodes |-> [n \in NodeIds |-> None]]

Registered(reg) == {n \in NodeIds : reg.nodes[n] # None}
IsMember(reg, o, e) == reg.members[o] # None /\ e \in reg.members[o]

Idle == [op |-> "none", at |-> "idle", node |-> None, org |-> None, who |-> None,
         list |-> {}, key |-> 0, snap |-> Empty, known |-> {}, dark |-> {}]
Ops == {"none", "create_org", "update_org", "rename_org", "register", "patch",
        "reissue", "heartbeat", "remove", "reconcile"}
Places == {"idle", "connector", "token", "cleanup", "delete", "store", "rename",
           "list", "sweep"}

TypeOK ==
    /\ mem \in Registry /\ disk \in Registry
    /\ lock \in Requests \cup {None}
    /\ \A r \in Requests :
          /\ req[r].op \in Ops /\ req[r].at \in Places
          /\ req[r].snap \in Registry /\ req[r].known \subseteq NodeIds
          /\ req[r].dark \subseteq Mesh
          /\ (req[r].at = "rename") <=> (lock = r)
    /\ \A j \in jobs : j.snap \in Registry /\ j.passed \in BOOLEAN
    /\ cf \subseteq Mesh
    /\ drops \in 0..MaxDrops

Init ==
    /\ mem = Empty /\ disk = Empty /\ lock = None
    /\ req = [r \in Requests |-> Idle] /\ jobs = {}
    /\ cf = {} /\ drops = 0
    /\ acked = [n \in NodeIds |->
                  [state |-> "fresh", key |-> 1, issued |-> 1, lost |-> {}, beaten |-> FALSE]]
    /\ excused = [orphan |-> {}, doomed |-> {}, swept |-> {}, late |-> FALSE]

-----------------------------------------------------------------------------
(* The store: a change is checked and computed under the mutex, written to  *)
(* a temporary file and renamed over the registry file.                     *)

Refused(q) ==
    LET o == IF q.node = None THEN q.org ELSE OrgOf[q.node]
    IN  CASE q.op = "create_org" -> mem.members[o] # None
          [] q.op \in {"update_org", "rename_org"} ->
               \/ mem.members[o] = None
               \/ \E n \in Registered(mem) : OrgOf[n] = o /\ mem.nodes[n].owner \notin q.list
          [] q.op = "register" ->
               ~ IsMember(mem, o, q.who) \/ q.node \in Registered(mem)
          [] q.op = "patch" ->
               \/ q.node \notin Registered(mem)
               \/ ~ IsMember(mem, o, q.who)
          [] q.op = "heartbeat" ->
               q.node \notin Registered(mem) \/ mem.nodes[q.node].key # q.key
          [] OTHER -> q.node \notin Registered(mem)

Changed(q) ==
    CASE q.op \in {"create_org", "update_org", "rename_org"} ->
           [mem EXCEPT !.members[q.org] = q.list]
      [] q.op = "register" ->
           [mem EXCEPT !.nodes[q.node] =
              [owner |-> q.who, key |-> 1, beaten |-> FALSE]]
      [] q.op = "patch" ->
           [mem EXCEPT !.nodes[q.node].owner = q.who]
      [] q.op = "reissue" -> [mem EXCEPT !.nodes[q.node].key = q.key]
      [] q.op = "heartbeat" -> [mem EXCEPT !.nodes[q.node].beaten = TRUE]
      [] q.op = "remove" -> [mem EXCEPT !.nodes[q.node] = None]

\* A handler that begins with the mutex; one that is refused leaves no trace.
Locked(r, q) ==
    /\ req[r] = Idle /\ lock = None /\ ~ Refused(q)
    /\ lock' = r
    /\ req' = [req EXCEPT ![r] = [q EXCEPT !.at = "rename", !.snap = Changed(q)]]
    /\ UNCHANGED <<mem, disk, jobs, cf, drops, excused>>

-----------------------------------------------------------------------------
(* The beginning of a handler.  A handler that reads nothing before it      *)
(* takes the mutex begins when it has the mutex: waiting changes nothing.   *)

Start(r, request) ==
    /\ req[r] = Idle
    /\ req' = [req EXCEPT ![r] = request]

CreateOrg(r, o, list) ==
    /\ Locked(r, [Idle EXCEPT !.op = "create_org", !.org = o, !.list = list])
    /\ UNCHANGED acked

\* The members come from the request, or, when it only names the organisation
\* anew, from the copy get_org returned.
UpdateOrg(r, o, list) ==
    /\ mem.members[o] # None
    /\ \/ Locked(r, [Idle EXCEPT !.op = "update_org", !.org = o, !.list = list])
       \/ /\ list = mem.members[o]
          /\ Start(r, [Idle EXCEPT !.op = "rename_org", !.at = "store", !.org = o,
                                  !.list = list])
          /\ UNCHANGED <<mem, disk, lock, jobs, cf, drops, excused>>
    /\ UNCHANGED acked

RegisterNode(r, n, e) ==
    /\ acked[n].state = "fresh" /\ IsMember(mem, OrgOf[n], e)
    /\ Start(r, [Idle EXCEPT !.op = "register", !.node = n, !.who = e,
                            !.at = IF n \in Mesh THEN "connector" ELSE "store"])
    /\ acked' = [acked EXCEPT ![n].state = "begun"]
    /\ UNCHANGED <<mem, disk, lock, jobs, cf, drops, excused>>

PatchNode(r, n, e) ==
    /\ n \in Registered(mem) /\ IsMember(mem, OrgOf[n], e)
    /\ Start(r, [Idle EXCEPT !.op = "patch", !.at = "store", !.node = n, !.who = e])
    /\ UNCHANGED <<mem, disk, lock, jobs, cf, drops, acked, excused>>

\* Keys are numbered in the order in which they are drawn.
ReissueNodeKey(r, n) ==
    /\ acked[n].issued < MaxKey
    /\ acked' = [acked EXCEPT ![n].issued = @ + 1]
    /\ Locked(r, [Idle EXCEPT !.op = "reissue", !.node = n, !.key = acked[n].issued + 1])

\* The node sends any key ever drawn for it.
Heartbeat(r, n, k) ==
    /\ k <= acked[n].issued
    /\ Locked(r, [Idle EXCEPT !.op = "heartbeat", !.node = n, !.key = k])
    /\ UNCHANGED acked

RemoveNode(r, n) ==
    /\ n \in Registered(mem)
    /\ Start(r, [Idle EXCEPT !.op = "remove", !.node = n,
                            !.at = IF n \in Mesh THEN "delete" ELSE "store"])
    /\ excused' = [excused EXCEPT !.doomed = @ \cup {n}]
    /\ UNCHANGED <<mem, disk, lock, jobs, cf, drops, acked>>

\* Of the snapshot, the connectors are compared with the node ids alone.
Reconcile(r) ==
    /\ Start(r, [Idle EXCEPT !.op = "reconcile", !.at = "list", !.known = Registered(mem)])
    /\ UNCHANGED <<mem, disk, lock, jobs, cf, drops, acked, excused>>

-----------------------------------------------------------------------------
(* The rest of a handler that changes the registry.                         *)

\* A registration that fails after its connector was made deletes the connector.
Failed(r) ==
    IF req[r].op = "register" /\ req[r].node \in Mesh
    THEN [req EXCEPT ![r].at = "cleanup", ![r].snap = Empty]
    ELSE [req EXCEPT ![r] = Idle]

Store(r) ==
    /\ req[r].at = "store" /\ lock = None
    /\ IF Refused(req[r])
       THEN req' = Failed(r) /\ UNCHANGED lock
       ELSE /\ lock' = r
            /\ req' = [req EXCEPT ![r].at = "rename", ![r].snap = Changed(req[r])]
    /\ UNCHANGED <<mem, disk, jobs, cf, drops, acked, excused>>

Answered(q) ==
    CASE q.op = "register" -> [acked EXCEPT ![q.node].state = "in"]
      [] q.op = "remove" -> [acked EXCEPT ![q.node].state = "out"]
      [] q.op = "reissue" -> [acked EXCEPT ![q.node].key = q.key]
      [] q.op = "heartbeat" -> [acked EXCEPT ![q.node].beaten = TRUE]
      [] OTHER -> acked

\* The rename, the assignment to the state in memory and the answer.
Commit(r) ==
    /\ lock = r
    /\ disk' = req[r].snap /\ mem' = req[r].snap
    /\ lock' = None
    /\ acked' = Answered(req[r])
    /\ req' = [req EXCEPT ![r] = Idle]
    /\ jobs' = {[j EXCEPT !.passed = TRUE] : j \in jobs}
    /\ UNCHANGED <<cf, drops, excused>>

\* Mutant: the state in memory is changed before it is persisted.
PersistFailsAfter(r) ==
    /\ lock = r
    /\ lock' = None
    /\ mem' = req[r].snap
    /\ req' = Failed(r)
    /\ UNCHANGED <<disk, jobs, cf, drops, acked, excused>>

\* persist returns an error: nothing has changed, in the file or in memory.
PersistFails(r) ==
    /\ lock = r
    /\ lock' = None
    /\ req' = Failed(r)
    /\ UNCHANGED <<mem, disk, jobs, cf, drops, acked, excused>>

-----------------------------------------------------------------------------
(* The calls to Cloudflare.                                                 *)

Orphaned(S) == [excused EXCEPT !.orphan = @ \cup S]

\* A create that fails may have made the connector all the same.
CreateConnector(r) ==
    LET n == req[r].node
    IN  /\ req[r].at = "connector"
        /\ \/ cf' = cf \cup {n} /\ req' = [req EXCEPT ![r].at = "token"]
              /\ UNCHANGED excused
           \/ req' = [req EXCEPT ![r] = Idle] /\ UNCHANGED <<cf, excused>>
           \/ cf' = cf \cup {n} /\ req' = [req EXCEPT ![r] = Idle]
              /\ excused' = Orphaned({n})
        /\ UNCHANGED <<mem, disk, lock, jobs, drops, acked>>

ConnectorToken(r) ==
    /\ req[r].at = "token"
    /\ \/ req[r].node \in cf /\ req' = [req EXCEPT ![r].at = "store"]
       \/ req' = [req EXCEPT ![r].at = "cleanup"]
    /\ UNCHANGED <<mem, disk, lock, jobs, cf, drops, acked, excused>>

\* A clean-up that fails is only logged.
CleanupConnector(r) ==
    LET n == req[r].node
    IN  /\ req[r].at = "cleanup"
        /\ \/ cf' = cf \ {n} /\ UNCHANGED excused
           \/ UNCHANGED cf /\ excused' = Orphaned({n})
        /\ req' = [req EXCEPT ![r] = Idle]
        /\ UNCHANGED <<mem, disk, lock, jobs, drops, acked>>

\* The delete of a removal.  A missing connector counts as deleted; a failed
\* call, which may have taken effect, ends the request.
DeleteConnector(r) ==
    LET n == req[r].node
    IN  /\ req[r].at = "delete"
        /\ \/ cf' = cf \ {n} /\ req' = [req EXCEPT ![r].at = "store"]
           \/ cf' \in {cf, cf \ {n}} /\ req' = [req EXCEPT ![r] = Idle]
        /\ UNCHANGED <<mem, disk, lock, jobs, drops, acked, excused>>

-----------------------------------------------------------------------------
(* Reconcile: the list of the account's connectors and what is done to the  *)
(* dark ones.                                                               *)

\* Mutant: no connector is matched with its node.
DarkUnmatched(q) == cf

\* classify: the connectors listed that no node of the snapshot has.
DarkConnectors(q) == cf \ q.known

\* The report; without revoke_dark, with nothing dark, or when one of the two
\* list calls fails, that is all.
ListConnectors(r) ==
    /\ req[r].at = "list"
    /\ \/ /\ DarkConnectors(req[r]) # {}
          /\ req' = [req EXCEPT ![r].at = "sweep", ![r].dark = DarkConnectors(req[r])]
       \/ req' = [req EXCEPT ![r] = Idle]
    /\ UNCHANGED <<mem, disk, lock, jobs, cf, drops, acked, excused>>

\* The device registrations that reconcile lists and revokes on the way touch
\* nothing of the registry and are left out.
\* One call per dark connector; a failure is reported and passed over.
SweepConnector(r, c) ==
    /\ req[r].at = "sweep" /\ c \in req[r].dark
    /\ \/ /\ cf' = cf \ {c}
          /\ excused' = IF c \in NodeIds \ req[r].known
                        THEN [excused EXCEPT !.swept = @ \cup {c}] ELSE excused
       \/ UNCHANGED <<cf, excused>>
    /\ req' = IF req[r].dark = {c} THEN [req EXCEPT ![r] = Idle]
              ELSE [req EXCEPT ![r].dark = @ \ {c}]
    /\ UNCHANGED <<mem, disk, lock, jobs, drops, acked>>

-----------------------------------------------------------------------------
(* What happens around the handlers.                                        *)

\* The connectors that registrations under way leave behind when they stop.
LeftBehind(R) ==
    {req[r].node : r \in {x \in R : /\ req[x].op = "register" /\ req[x].node \in cf}}

LostKeys(R) ==
    [n \in NodeIds |-> [acked[n] EXCEPT !.lost = @ \cup
        {req[r].key : r \in {x \in R : req[x].op = "reissue" /\ req[x].node = n}}]]

\* The client goes away and the handler is dropped.  If it was waiting for the
\* rename, the rename may have been handed over already and goes on by itself.
Drop(r) ==
    /\ req[r] # Idle /\ drops < MaxDrops
    /\ drops' = drops + 1
    /\ req' = [req EXCEPT ![r] = Idle]
    /\ lock' = IF lock = r THEN None ELSE lock
    /\ \/ UNCHANGED jobs
       \/ lock = r /\ jobs' = jobs \cup {[snap |-> req[r].snap, passed |-> FALSE]}
    /\ excused' = Orphaned(LeftBehind({r}))
    /\ acked' = LostKeys({r})
    /\ UNCHANGED <<mem, disk, cf>>

DetachedRename(j) ==
    /\ disk' = j.snap
    /\ jobs' = jobs \ {j}
    /\ excused' = [excused EXCEPT !.late = @ \/ j.passed]
    /\ UNCHANGED <<mem, lock, req, cf, drops, acked>>

\* The server dies and is started again: JsonStore::open reads the file.
Restart ==
    /\ mem' = disk
    /\ lock' = None /\ jobs' = {}
    /\ req' = [r \in Requests |-> Idle]
    /\ excused' = Orphaned(LeftBehind(Requests))
    /\ acked' = LostKeys(Requests)
    /\ UNCHANGED <<disk, cf, drops>>

Next ==
    \/ \E r \in Requests :
          \/ \E o \in Orgs, list \in Rosters : CreateOrg(r, o, list) \/ UpdateOrg(r, o, list)
          \/ \E n \in NodeIds, e \in Emails : RegisterNode(r, n, e) \/ PatchNode(r, n, e)
          \/ \E n \in NodeIds : ReissueNodeKey(r, n) \/ RemoveNode(r, n)
          \/ \E n \in NodeIds, k \in 1..MaxKey : Heartbeat(r, n, k)
          \/ Reconcile(r) \/ ListConnectors(r)
          \/ \E c \in Mesh : SweepConnector(r, c)
          \/ Store(r) \/ Commit(r) \/ PersistFails(r)
          \/ CreateConnector(r) \/ ConnectorToken(r) \/ CleanupConnector(r)
          \/ DeleteConnector(r)
          \/ Drop(r)
    \/ \E j \in jobs : DetachedRename(j)
    \/ Restart

Spec == Init /\ [][Next]_vars

-----------------------------------------------------------------------------
(* Every registered node belongs to an organisation that exists and has the *)
(* node's owner as a member, in memory and in the file, although            *)
(* register_node and patch_node look at the members before they call        *)
(* Cloudflare and update_org may change them meanwhile.                     *)
OwnerIsMember ==
    \A reg \in {mem, disk} : \A n \in Registered(reg) :
        IsMember(reg, OrgOf[n], reg.nodes[n].owner)

(* What an answer promised stays true, in memory and for the next start:    *)
(* a registered node is there until a removal of it is begun, a removed one *)
(* never comes back, the key that heartbeats are checked with is the last   *)
(* one handed out (or one of a reissue that was never answered), and a      *)
(* recorded heartbeat is not undone by another request's write of the same  *)
(* record.  The one way it fails: the rename of a dropped request is        *)
(* carried out after the rename of a later one.                             *)
AckedKept ==
    excused.late \/ \A reg \in {mem, disk}, n \in NodeIds :
        /\ acked[n].state = "out" => n \notin Registered(reg)
        /\ acked[n].state = "in" => n \in Registered(reg) \/ n \in excused.doomed
        /\ acked[n].state = "in" /\ n \in Registered(reg) =>
             /\ reg.nodes[n].key \in {acked[n].key} \cup acked[n].lost
             /\ acked[n].beaten => reg.nodes[n].beaten

(* Every connector this server made is that of a registered node or of a    *)
(* registration under way; the exceptions are those whose request was cut   *)
(* short or whose create or clean-up call failed.                           *)
ConnectorOwned ==
    excused.late \/ \A n \in cf \cap NodeIds :
        \/ n \in Registered(mem) \/ n \in excused.orphan
        \/ \E r \in Requests : req[r].op = "register" /\ req[r].node = n

(* A registered Mesh node has its connector, unless its removal was begun   *)
(* or a reconcile whose snapshot was taken before the node was registered   *)
(* swept the connector.                                                     *)
ConnectorLive ==
    excused.late \/ \A n \in Registered(mem) \cap Mesh :
        n \in cf \cup excused.doomed \cup excused.swept

(* The registry, in memory and in its file, holds what was answered, and    *)
(* every node in it has an owner who may own it (JsonStore, register_node,  *)
(* patch_node, update_org).                                                 *)
RegistryKept == OwnerIsMember /\ AckedKept

(* The connectors of the Cloudflare account and the registered nodes match, *)
(* but for what was excused above (register_node, delete_node, reconcile).  *)
ConnectorsMatch == ConnectorOwned /\ ConnectorLive
=============================================================================
