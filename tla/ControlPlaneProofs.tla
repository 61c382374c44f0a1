------------------------- MODULE ControlPlaneProofs -------------------------
(***************************************************************************)
(* Proofs about ControlPlane: that the registry keeps what the server      *)
(* answered and that the connectors match it, for every number of          *)
(* concurrent handlers, organisations, members, nodes and keys, with       *)
(* dropped handlers, failed calls, renames that outlive their handlers and *)
(* restarts at every point.                                                *)
(*                                                                         *)
(* The inductive invariant, Inv, is at the end.  Its parts follow each     *)
(* other: what a handler carries (Types) and what the holder of the lock   *)
(* has made of the registry (LockInv); owners who are members (SoundInv);  *)
(* an id is nowhere before its registration is written (BirthInv); the     *)
(* registries a start may read honor the answers (KeptInv); and the        *)
(* connectors, in both directions (OwnedInv, LiveInv).                     *)
(***************************************************************************)
EXTENDS ControlPlane, TLAPS

\* Every leaf without a prover of its own is tried with Zenon, then with SMT.
USE ZenonT(5), SMTT(30)

-----------------------------------------------------------------------------
(* What a handler is and carries.                                           *)
OrgOps == {"create_org", "update_org", "rename_org"}
NodeOps == {"register", "patch", "reissue", "heartbeat", "remove"}

Req == [op : Ops, at : Places, node : NodeIds \cup {None}, org : Orgs \cup {None},
        who : Emails \cup {None}, list : SUBSET Emails, key : 0..MaxKey, snap : Registry,
        known : SUBSET NodeIds, dark : SUBSET Mesh]

(* What a handler carries at the place it is at.                            *)
Fits(q) ==
    /\ q.op = "none" => q = Idle
    /\ q.op \in OrgOps => q.org \in Orgs /\ q.node = None
    /\ q.op \in NodeOps => q.node \in NodeIds
    /\ q.op \in {"register", "patch"} => q.who \in Emails
    /\ q.op \in {"reissue", "heartbeat"} => q.key \in 1..MaxKey
    /\ q.at \in {"connector", "token", "cleanup"} => q.op = "register" /\ q.node \in Mesh
    /\ q.at = "delete" => q.op = "remove" /\ q.node \in Mesh
    /\ q.at \in {"store", "rename"} => q.op \in OrgOps \cup NodeOps
    /\ q.at \in {"list", "sweep"} => q.op = "reconcile"
    /\ q.dark \cap q.known = {}

Promise == [state : {"fresh", "begun", "in", "out"}, key : 1..MaxKey, issued : 1..MaxKey,
            lost : SUBSET (1..MaxKey), beaten : BOOLEAN]

Excuses == [orphan : SUBSET NodeIds, doomed : SUBSET NodeIds,
            swept : SUBSET NodeIds, late : BOOLEAN]

Types ==
    /\ mem \in Registry /\ disk \in Registry /\ lock \in Requests \cup {None}
    /\ req \in [Requests -> Req] /\ \A r \in Requests : Fits(req[r])
    /\ jobs \subseteq [snap : Registry, passed : BOOLEAN]
    /\ cf \subseteq Mesh /\ drops \in 0..MaxDrops
    /\ acked \in [NodeIds -> Promise]
    /\ excused \in Excuses

Sound(reg) == \A n \in Registered(reg) : IsMember(reg, OrgOf[n], reg.nodes[n].owner)

(* What the registry s that a checked change q makes of m looks like.       *)
Follows(m, q, s) ==
    /\ Sound(m) => Sound(s)
    /\ q.op \in OrgOps => s.nodes = m.nodes
    /\ q.op \in NodeOps => \A n \in NodeIds \ {q.node} : s.nodes[n] = m.nodes[n]
    /\ q.op = "register" => /\ m.nodes[q.node] = None
                            /\ s.nodes[q.node].key = 1
    /\ q.op \in NodeOps \ {"register"} => m.nodes[q.node] # None
    /\ q.op = "remove" <=> (q.op \in NodeOps /\ s.nodes[q.node] = None)
    /\ q.op = "reissue" => s.nodes[q.node].key = q.key
    /\ q.op \in {"patch", "heartbeat"} => s.nodes[q.node].key = m.nodes[q.node].key
    /\ q.op \in {"patch", "reissue"} => s.nodes[q.node].beaten = m.nodes[q.node].beaten
    /\ q.op = "heartbeat" => s.nodes[q.node].beaten = TRUE

LockInv ==
    /\ \A r \in Requests : (req[r].at = "rename") <=> (lock = r)
    /\ \A r \in Requests : lock = r => Follows(mem, req[r], req[r].snap)

(* A server that was just started has well-formed handlers.                 *)
LEMMA IdleFits == Empty \in Registry /\ Idle \in Req /\ Fits(Idle)
<1>1. Empty \in Registry
  BY DEF Empty, Registry
<1>2. Idle \in Req
  BY <1>1, ConstantsOK DEF Idle, Req, Ops, Places
<1>3. Fits(Idle)
  BY DEF Idle, Fits, OrgOps, NodeOps
<1> QED BY <1>1, <1>2, <1>3

(* A change that JsonStore's checks let pass makes a registry that follows  *)
(* the one in memory.                                                       *)
LEMMA ChangedFollows ==
    ASSUME mem \in Registry, NEW q \in Req, Fits(q), q.op \in OrgOps \cup NodeOps, ~ Refused(q)
    PROVE  Changed(q) \in Registry /\ Follows(mem, q, Changed(q))
<1> USE ConstantsOK
<1>a. /\ mem.members \in [Orgs -> {None} \cup SUBSET Emails]
      /\ mem.nodes \in [NodeIds -> {None} \cup Node]
  BY DEF Registry
<1>1. CASE q.op \in OrgOps
  <2>1. Changed(q) = [mem EXCEPT !.members[q.org] = q.list]
    BY <1>1 DEF Changed, OrgOps
  <2>2. q.list \in SUBSET Emails /\ q.org \in Orgs /\ q.node = None /\ q.list # None
    BY <1>1 DEF Req, Fits
  <2>3. /\ Changed(q).nodes = mem.nodes
        /\ Changed(q).members = [mem.members EXCEPT ![q.org] = q.list]
        /\ Changed(q) \in Registry
    BY <2>1, <2>2, <1>a DEF Registry
  <2>4. ASSUME Sound(mem) PROVE Sound(Changed(q))
    <3> SUFFICES ASSUME NEW n \in NodeIds, mem.nodes[n] # None
                 PROVE  IsMember(Changed(q), OrgOf[n], mem.nodes[n].owner)
      BY <2>3 DEF Sound, Registered
    <3>1. IsMember(mem, OrgOf[n], mem.nodes[n].owner)
      BY <2>4 DEF Sound, Registered
    <3>2. OrgOf[n] = q.org => mem.nodes[n].owner \in q.list
      BY <1>1, <2>2, <3>1 DEF Refused, OrgOps, IsMember, Registered
    <3> QED BY <2>2, <2>3, <3>1, <3>2, <1>a DEF IsMember
  <2> QED BY <1>1, <2>3, <2>4 DEF Follows, OrgOps, NodeOps
<1>2. CASE q.op \in NodeOps
  <2> DEFINE m == mem.nodes[q.node]
             s == Changed(q).nodes[q.node]
  <2>1. q.node \in NodeIds /\ q.node # None
    BY <1>2 DEF Fits
  <2>2. /\ q.op = "register" => m = None /\ IsMember(mem, OrgOf[q.node], q.who)
        /\ q.op \in NodeOps \ {"register"} => m # None /\ m \in Node
        /\ q.op = "patch" => IsMember(mem, OrgOf[q.node], q.who)
    BY <1>2, <2>1, <1>a DEF Refused, Registered, NodeOps
  <2>3. /\ Changed(q).members = mem.members
        /\ Changed(q).nodes = [mem.nodes EXCEPT ![q.node] = s]
        /\ Changed(q) = [members |-> mem.members, nodes |-> Changed(q).nodes]
        /\ q.op = "register" => s = [owner |-> q.who, key |-> 1, beaten |-> FALSE]
        /\ q.op = "patch" => s = [m EXCEPT !.owner = q.who]
        /\ q.op = "reissue" => s = [m EXCEPT !.key = q.key]
        /\ q.op = "heartbeat" => s = [m EXCEPT !.beaten = TRUE]
        /\ q.op = "remove" => s = None
    BY <1>2, <2>1, <1>a, Zenon DEF Changed, NodeOps, Registry
  <2>4. /\ q.op # "remove" => s \in Node /\ s # None
        /\ q.op \in {"reissue", "heartbeat"} => s.owner = m.owner
        /\ q.op \in {"register", "patch"} => s.owner = q.who
        /\ q.op = "register" => s.key = 1
        /\ q.op = "reissue" => s.key = q.key
        /\ q.op \in {"patch", "heartbeat"} => s.key = m.key
        /\ q.op \in {"patch", "reissue"} => s.beaten = m.beaten
        /\ q.op = "heartbeat" => s.beaten = TRUE
    <3> HIDE DEF s, m
    <3>1. CASE q.op = "register"
      <4>1. s = [owner |-> q.who, key |-> 1, beaten |-> FALSE] /\ q.who \in Emails
        BY <2>3, <3>1 DEF Fits
      <4>2. 1 \in 1..MaxKey
        OBVIOUS
      <4>3. s \in Node
        BY <4>1, <4>2 DEF Node
      <4> QED BY <3>1, <4>1, <4>3, Zenon
    <3>2. CASE q.op \in NodeOps \ {"register"}
      <4>1. m \in Node
        BY <2>2, <3>2
      <4>2. q.op # "remove" => s \in Node
        <5>1. CASE q.op = "patch"
          <6>1. s = [m EXCEPT !.owner = q.who] /\ q.who \in Emails
            BY <2>3, <5>1 DEF Fits
          <6> QED BY <4>1, <6>1 DEF Node
        <5>2. CASE q.op = "reissue"
          <6>1. s = [m EXCEPT !.key = q.key] /\ q.key \in 1..MaxKey
            BY <2>3, <5>2 DEF Fits
          <6> QED BY <4>1, <6>1 DEF Node
        <5>3. CASE q.op = "heartbeat"
          <6>1. s = [m EXCEPT !.beaten = TRUE]
            BY <2>3, <5>3
          <6> QED BY <4>1, <6>1, Zenon DEF Node
        <5> QED BY <3>2, <5>1, <5>2, <5>3, Zenon DEF NodeOps
      <4>3. q.op # "remove" => s # None
        BY <4>2
      <4> QED BY <2>3, <3>2, <4>1, <4>2, <4>3 DEF Fits, Node, NodeOps
    <3> QED BY <1>2, <3>1, <3>2, Zenon DEF NodeOps
  <2> HIDE DEF s
  <2>5. /\ Changed(q) \in Registry
        /\ \A n \in NodeIds \ {q.node} : Changed(q).nodes[n] = mem.nodes[n]
    BY <1>2, <2>1, <2>3, <2>4, <1>a DEF Registry, NodeOps
  <2>6. ASSUME Sound(mem) PROVE Sound(Changed(q))
    <3> SUFFICES ASSUME NEW n \in NodeIds, Changed(q).nodes[n] # None
                 PROVE  IsMember(mem, OrgOf[n], Changed(q).nodes[n].owner)
      BY <2>3 DEF Sound, Registered, IsMember
    <3>1. CASE n # q.node
      BY <2>5, <2>6, <3>1 DEF Sound, Registered
    <3>2. CASE n = q.node
      BY <1>2, <2>1, <2>2, <2>3, <2>4, <2>6, <3>2 DEF Sound, Registered, NodeOps, s
    <3> QED BY <3>1, <3>2
  <2> QED BY <1>2, <2>2, <2>3, <2>4, <2>5, <2>6 DEF Follows, OrgOps, NodeOps, s
<1> QED BY <1>1, <1>2

Same(a, b) ==
    b.state = a.state /\ b.key = a.key /\ b.beaten = a.beaten /\ a.lost \subseteq b.lost

(* What the step that begins a handler does.                                *)
Begins(r, q) ==
    /\ req[r] = Idle /\ req' = [req EXCEPT ![r] = q]
    /\ UNCHANGED <<mem, disk, jobs, cf>>
    /\ q.op = "register" =>
         /\ q.node \in NodeIds /\ acked[q.node].state = "fresh"
         /\ acked' = [acked EXCEPT ![q.node].state = "begun"]
         /\ q.at = IF q.node \in Mesh THEN "connector" ELSE "store"
    /\ q.op # "register" => \A n \in NodeIds : Same(acked[n], acked'[n])
    /\ q.op = "remove" =>
         /\ q.node \in Registered(mem)
         /\ excused' = [excused EXCEPT !.doomed = @ \cup {q.node}]
         /\ q.at = IF q.node \in Mesh THEN "delete" ELSE "store"
    /\ q.op # "remove" => excused' = excused

(* A handler moves on, takes the lock with a checked change or lets it go.  *)
LEMMA ReqStep ==
    ASSUME Types, LockInv, NEW r \in Requests, NEW q \in Req, Fits(q),
           req' = [req EXCEPT ![r] = q],
           \/ q.at # "rename" /\ lock' = IF lock = r THEN None ELSE lock
           \/ q.at = "rename" /\ lock = None /\ lock' = r /\ Follows(mem, q, q.snap),
           mem' = mem \/ lock' = None
    PROVE  /\ req' \in [Requests -> Req] /\ \A s \in Requests : Fits(req'[s])
           /\ lock' \in Requests \cup {None} /\ LockInv'
<1>1. req'[r] = q /\ \A s \in Requests \ {r} : req'[s] = req[s]
  BY DEF Types
<1>2. req' \in [Requests -> Req] /\ \A s \in Requests : Fits(req'[s])
  BY <1>1 DEF Types
<1>3. lock' \in Requests \cup {None} /\ None \notin Requests
  BY ConstantsOK DEF Types
<1>4. \A s \in Requests : (req'[s].at = "rename") <=> (lock' = s)
  BY <1>1, <1>3 DEF LockInv
<1>5. ASSUME NEW s \in Requests, lock' = s PROVE Follows(mem', req'[s], req'[s].snap)
  BY <1>1, <1>3, <1>5 DEF LockInv
<1> QED BY <1>2, <1>3, <1>4, <1>5 DEF LockInv

LEMMA LockedStep ==
    ASSUME Types, LockInv, NEW r \in Requests, NEW q \in Req, Fits(q),
           q.op \in OrgOps \cup NodeOps, q.op \notin {"register", "remove"}, q.at = "idle",
           Locked(r, q), acked' \in [NodeIds -> Promise],
           \A n \in NodeIds : Same(acked[n], acked'[n])
    PROVE  Types' /\ LockInv' /\ \E p : Begins(r, p)
<1> DEFINE p == [q EXCEPT !.at = "rename", !.snap = Changed(q)]
<1>1. Changed(q) \in Registry /\ Follows(mem, q, Changed(q))
  BY ChangedFollows DEF Locked, Types
<1>2. p \in Req /\ Fits(p) /\ p.at = "rename" /\ Follows(mem, p, p.snap) /\ p.op = q.op
  <2>1. p \in Req /\ p.at = "rename" /\ p.snap = Changed(q)
        /\ p.op = q.op /\ p.node = q.node /\ p.key = q.key /\ p.org = q.org /\ p.who = q.who
        /\ p.known = q.known /\ p.dark = q.dark
    BY <1>1, Zenon DEF Req, Places
  <2> HIDE DEF p
  <2>2. Fits(p)
    BY <2>1 DEF Fits, OrgOps, NodeOps
  <2> QED BY <1>1, <2>1, <2>2 DEF Follows
<1>3. /\ req[r] = Idle /\ req' = [req EXCEPT ![r] = p] /\ lock = None /\ lock' = r
      /\ UNCHANGED <<mem, disk, jobs, cf, drops, excused>>
  BY DEF Locked
<1> HIDE DEF p
<1>4. /\ req' \in [Requests -> Req] /\ \A s \in Requests : Fits(req'[s])
      /\ lock' \in Requests \cup {None} /\ LockInv'
  BY <1>2, <1>3, ReqStep, Zenon
<1>5. Begins(r, p)
  BY <1>2, <1>3 DEF Begins
<1> QED BY <1>3, <1>4, <1>5 DEF Types

LEMMA StartStep ==
    ASSUME Types, LockInv, NEW r \in Requests, NEW q \in Req, Fits(q), q.at # "rename",
           Start(r, q), UNCHANGED <<mem, disk, lock, jobs, cf, drops>>,
           acked' \in [NodeIds -> Promise], excused' \in Excuses
    PROVE  Types' /\ LockInv'
<1>1. req' = [req EXCEPT ![r] = q] /\ lock # r
  BY DEF Start, LockInv, Idle
<1>2. /\ req' \in [Requests -> Req] /\ \A s \in Requests : Fits(req'[s])
      /\ lock' \in Requests \cup {None} /\ LockInv'
  BY <1>1, ReqStep, Zenon
<1> QED BY <1>2 DEF Types

LEMMA TypesInit == Init => Types /\ LockInv
<1> SUFFICES ASSUME Init PROVE Types /\ LockInv
  OBVIOUS
<1> USE ConstantsOK
<1>1. Types
  <2>1. [state |-> "fresh", key |-> 1, issued |-> 1, lost |-> {}, beaten |-> FALSE] \in Promise
    BY DEF Promise
  <2> QED BY <2>1, IdleFits DEF Init, Types, Excuses
<1>2. LockInv
  <2>1. \A r \in Requests : req[r].at = "idle" /\ lock # r
    BY DEF Init, Idle
  <2> QED BY <2>1 DEF LockInv
<1> QED BY <1>1, <1>2

(* The handlers that begin.                                                 *)
LEMMA TypesBegin ==
    ASSUME Types, LockInv, NEW r \in Requests,
           \/ \E o \in Orgs, list \in Rosters : CreateOrg(r, o, list) \/ UpdateOrg(r, o, list)
           \/ \E n \in NodeIds, e \in Emails : RegisterNode(r, n, e) \/ PatchNode(r, n, e)
           \/ \E n \in NodeIds : ReissueNodeKey(r, n) \/ RemoveNode(r, n)
           \/ \E n \in NodeIds, k \in 1..MaxKey : Heartbeat(r, n, k)
           \/ Reconcile(r)
    PROVE  Types' /\ LockInv' /\ \E p : Begins(r, p)
<1>a. acked \in [NodeIds -> Promise] /\ excused \in Excuses
  BY DEF Types
<1>1. ASSUME NEW o \in Orgs, NEW list \in Rosters, CreateOrg(r, o, list)
      PROVE  Types' /\ LockInv' /\ \E p : Begins(r, p)
  <2> DEFINE q == [Idle EXCEPT !.op = "create_org", !.org = o, !.list = list]
  <2>1. q.op = "create_org" /\ q.org = o /\ q.node = None /\ q.at = "idle" /\ q.dark = {}
    BY DEF Idle
  <2>2. q \in Req
    BY ConstantsOK, IdleFits, Zenon DEF Req, Ops
  <2> HIDE DEF q
  <2>3. Fits(q)
    BY <2>1 DEF Fits, OrgOps, NodeOps
  <2>4. Locked(r, q) /\ acked' = acked
    BY <1>1, Zenon DEF CreateOrg, q
  <2> QED BY <2>1, <2>2, <2>3, <2>4, <1>a, LockedStep DEF OrgOps, Same
<1>2. ASSUME NEW o \in Orgs, NEW list \in Rosters,
             Locked(r, [Idle EXCEPT !.op = "update_org", !.org = o, !.list = list]), acked' = acked
      PROVE  Types' /\ LockInv' /\ \E p : Begins(r, p)
  <2> DEFINE q == [Idle EXCEPT !.op = "update_org", !.org = o, !.list = list]
  <2>1. q.op = "update_org" /\ q.org = o /\ q.node = None /\ q.at = "idle" /\ q.dark = {}
    BY DEF Idle
  <2>2. q \in Req
    BY ConstantsOK, IdleFits, Zenon DEF Req, Ops
  <2> HIDE DEF q
  <2>3. Fits(q)
    BY <2>1 DEF Fits, OrgOps, NodeOps
  <2>4. Locked(r, q)
    BY <1>2 DEF q
  <2> QED BY <1>2, <2>1, <2>2, <2>3, <2>4, <1>a, LockedStep DEF OrgOps, Same
<1>3. ASSUME NEW o \in Orgs, NEW list \in Rosters,
             Start(r, [Idle EXCEPT !.op = "rename_org", !.at = "store", !.org = o,
                                   !.list = list]),
             UNCHANGED <<mem, disk, lock, jobs, cf, drops, excused, acked>>
      PROVE  Types' /\ LockInv' /\ \E p : Begins(r, p)
  <2> DEFINE q == [Idle EXCEPT !.op = "rename_org", !.at = "store", !.org = o, !.list = list]
  <2>1. q.op = "rename_org" /\ q.org = o /\ q.node = None /\ q.at = "store" /\ q.dark = {}
    BY DEF Idle
  <2>2. q \in Req
    BY ConstantsOK, IdleFits, Zenon DEF Req, Ops, Places
  <2> HIDE DEF q
  <2>3. Fits(q)
    BY <2>1 DEF Fits, OrgOps, NodeOps
  <2>4. Start(r, q)
    BY <1>3 DEF q
  <2>5. Begins(r, q)
    BY <1>3, <2>1, <2>4, Zenon DEF Begins, Start, Same
  <2> QED BY <1>3, <1>a, <2>1, <2>2, <2>3, <2>4, <2>5, StartStep
<1>4. ASSUME NEW n \in NodeIds, NEW e \in Emails, RegisterNode(r, n, e)
      PROVE  Types' /\ LockInv' /\ \E p : Begins(r, p)
  <2> DEFINE q == [Idle EXCEPT !.op = "register", !.node = n, !.who = e,
                               !.at = IF n \in Mesh THEN "connector" ELSE "store"]
  <2>1. q.op = "register" /\ q.node = n /\ q.who = e /\ q.dark = {}
        /\ q.at = IF n \in Mesh THEN "connector" ELSE "store"
    BY DEF Idle
  <2>2. q \in Req
    BY IdleFits, Zenon DEF Req, Ops, Places
  <2> HIDE DEF q
  <2>3. Fits(q)
    BY <2>1 DEF Fits, OrgOps, NodeOps
  <2>4. acked' \in [NodeIds -> Promise]
    BY <1>4, <1>a, Zenon DEF RegisterNode, Promise
  <2>5. Start(r, q) /\ UNCHANGED <<mem, disk, lock, jobs, cf, drops, excused>>
    BY <1>4, Zenon DEF RegisterNode, q
  <2>6. Begins(r, q)
    BY <1>4, <2>1, <2>5, Zenon DEF RegisterNode, Begins, Start
  <2> QED BY <1>a, <2>1, <2>2, <2>3, <2>4, <2>5, <2>6, StartStep
<1>5. ASSUME NEW n \in NodeIds, NEW e \in Emails, PatchNode(r, n, e)
      PROVE  Types' /\ LockInv' /\ \E p : Begins(r, p)
  <2> DEFINE q == [Idle EXCEPT !.op = "patch", !.at = "store", !.node = n, !.who = e]
  <2>1. q.op = "patch" /\ q.node = n /\ q.who = e /\ q.at = "store" /\ q.dark = {}
    BY DEF Idle
  <2>2. q \in Req
    BY IdleFits, Zenon DEF Req, Ops, Places
  <2> HIDE DEF q
  <2>3. Fits(q)
    BY <2>1 DEF Fits, OrgOps, NodeOps
  <2>4. Start(r, q) /\ UNCHANGED <<mem, disk, lock, jobs, cf, drops, acked, excused>>
    BY <1>5, Zenon DEF PatchNode, q
  <2>5. Begins(r, q)
    BY <2>1, <2>4 DEF Begins, Start, Same
  <2> QED BY <1>a, <2>1, <2>2, <2>3, <2>4, <2>5, StartStep
<1>6. ASSUME NEW n \in NodeIds, ReissueNodeKey(r, n)
      PROVE  Types' /\ LockInv' /\ \E p : Begins(r, p)
  <2> DEFINE q == [Idle EXCEPT !.op = "reissue", !.node = n, !.key = acked[n].issued + 1]
  <2>0. acked[n].issued + 1 \in 1..MaxKey /\ acked[n].issued + 1 \in 0..MaxKey
    <3>1. acked[n].issued < MaxKey
      BY <1>6, Zenon DEF ReissueNodeKey
    <3>2. acked[n].issued \in 1..MaxKey
      BY <1>a DEF Promise
    <3> QED BY <3>1, <3>2, ConstantsOK
  <2>1. q.op = "reissue" /\ q.node = n /\ q.key = acked[n].issued + 1 /\ q.at = "idle" /\ q.dark = {}
    BY DEF Idle
  <2>2. q \in Req
    BY <2>0, IdleFits, Zenon DEF Req, Ops
  <2> HIDE DEF q
  <2>3. Fits(q)
    BY <2>0, <2>1 DEF Fits, OrgOps, NodeOps
  <2>4. acked' \in [NodeIds -> Promise]
    <3>1. [acked[n] EXCEPT !.issued = @ + 1] \in Promise
      BY <2>0, <1>a, Zenon DEF Promise
    <3> QED BY <1>6, <3>1, <1>a, Zenon DEF ReissueNodeKey
  <2>5. Locked(r, q)
    BY <1>6, Zenon DEF ReissueNodeKey, q
  <2>6. \A m \in NodeIds : Same(acked[m], acked'[m])
    BY <1>6, <1>a, Zenon DEF ReissueNodeKey, Promise, Same
  <2> QED BY <2>1, <2>2, <2>3, <2>4, <2>5, <2>6, LockedStep DEF NodeOps
<1>7. ASSUME NEW n \in NodeIds, RemoveNode(r, n)
      PROVE  Types' /\ LockInv' /\ \E p : Begins(r, p)
  <2> DEFINE q == [Idle EXCEPT !.op = "remove", !.node = n,
                               !.at = IF n \in Mesh THEN "delete" ELSE "store"]
  <2>1. q.op = "remove" /\ q.node = n /\ q.dark = {}
        /\ q.at = IF n \in Mesh THEN "delete" ELSE "store"
    BY DEF Idle
  <2>2. q \in Req
    BY IdleFits, Zenon DEF Req, Ops, Places
  <2> HIDE DEF q
  <2>3. Fits(q)
    BY <2>1 DEF Fits, OrgOps, NodeOps
  <2>4. excused' \in Excuses
    BY <1>7, <1>a, Zenon DEF RemoveNode, Excuses
  <2>5. Start(r, q) /\ UNCHANGED <<mem, disk, lock, jobs, cf, drops, acked>>
    BY <1>7, Zenon DEF RemoveNode, q
  <2>6. Begins(r, q)
    BY <1>7, <2>1, <2>5, Zenon DEF RemoveNode, Begins, Start, Same
  <2> QED BY <1>a, <2>1, <2>2, <2>3, <2>4, <2>5, <2>6, StartStep
<1>8. ASSUME NEW n \in NodeIds, NEW k \in 1..MaxKey, Heartbeat(r, n, k)
      PROVE  Types' /\ LockInv' /\ \E p : Begins(r, p)
  <2> DEFINE q == [Idle EXCEPT !.op = "heartbeat", !.node = n, !.key = k]
  <2>0. k \in 0..MaxKey
    BY ConstantsOK
  <2>1. q.op = "heartbeat" /\ q.node = n /\ q.key = k /\ q.at = "idle" /\ q.dark = {}
    BY DEF Idle
  <2>2. q \in Req
    BY <2>0, IdleFits, Zenon DEF Req, Ops
  <2> HIDE DEF q
  <2>3. Fits(q)
    BY <2>0, <2>1 DEF Fits, OrgOps, NodeOps
  <2>4. Locked(r, q) /\ acked' = acked
    BY <1>8, Zenon DEF Heartbeat, q
  <2> QED BY <2>1, <2>2, <2>3, <2>4, <1>a, LockedStep DEF NodeOps, Same
<1>9. ASSUME Reconcile(r)
      PROVE  Types' /\ LockInv' /\ \E p : Begins(r, p)
  <2> DEFINE q == [Idle EXCEPT !.op = "reconcile", !.at = "list", !.known = Registered(mem)]
  <2>1. q.op = "reconcile" /\ q.at = "list" /\ q.dark = {}
    BY DEF Idle
  <2>2. q \in Req
    BY IdleFits, Zenon DEF Req, Ops, Places, Registered
  <2> HIDE DEF q
  <2>3. Fits(q)
    BY <2>1 DEF Fits, OrgOps, NodeOps
  <2>4. Start(r, q) /\ UNCHANGED <<mem, disk, lock, jobs, cf, drops, acked, excused>>
    BY <1>9 DEF Reconcile, q
  <2>5. Begins(r, q)
    BY <2>1, <2>4 DEF Begins, Start, Same
  <2> QED BY <1>a, <2>1, <2>2, <2>3, <2>4, <2>5, StartStep
<1> QED BY <1>1, <1>2, <1>3, <1>4, <1>5, <1>6, <1>7, <1>8, <1>9, Zenon DEF UpdateOrg

LEMMA AtFits ==
    ASSUME NEW q \in Req, NEW a \in Places
    PROVE  LET p == [q EXCEPT !.at = a] IN
           /\ p \in Req /\ p.at = a /\ p.op = q.op /\ p.node = q.node /\ p.org = q.org
           /\ p.who = q.who /\ p.key = q.key /\ p.snap = q.snap
           /\ p.known = q.known /\ p.dark = q.dark
BY Zenon DEF Req

(* What every other step of a handler does to its request.                  *)
Moves(r, p) ==
    /\ p \in Req /\ Fits(p) /\ req' = [req EXCEPT ![r] = p]
    /\ p = Idle \/ (p.op = req[r].op /\ p.node = req[r].node)
    /\ \/ p.at # "rename" /\ lock' = IF lock = r THEN None ELSE lock
       \/ p.at = "rename" /\ lock = None /\ lock' = r /\ Follows(mem, p, p.snap)
    /\ mem' = mem \/ lock' = None

LEMMA GoesOn ==
    ASSUME Types, LockInv, NEW r \in Requests, NEW a \in Places \ {"rename", "idle"},
           req' = [req EXCEPT ![r].at = a], lock # r, UNCHANGED <<mem, lock>>,
           a \in {"token", "cleanup"} => req[r].op = "register" /\ req[r].node \in Mesh,
           a = "store" => req[r].op \in NodeOps, a \notin {"connector", "delete", "list", "sweep"}
    PROVE  Moves(r, [req[r] EXCEPT !.at = a])
<1> DEFINE p == [req[r] EXCEPT !.at = a]
<1>1. req[r] \in Req /\ Fits(req[r])
  BY DEF Types
<1>2. /\ p \in Req /\ p.at = a /\ p.op = req[r].op /\ p.node = req[r].node /\ p.org = req[r].org
      /\ p.who = req[r].who /\ p.key = req[r].key /\ p.snap = req[r].snap
      /\ p.known = req[r].known /\ p.dark = req[r].dark
  BY <1>1, AtFits, Zenon
<1>3. req' = [req EXCEPT ![r] = p]
  BY Zenon
<1> HIDE DEF p
<1>4. req[r].op # "none"
  BY <1>1 DEF NodeOps, Places, Fits, Idle
<1>5. Fits(p)
  BY <1>1, <1>2, <1>4 DEF Fits, Places, OrgOps, NodeOps
<1>6. Moves(r, p)
  BY <1>2, <1>3, <1>5, Zenon DEF Moves
<1> QED BY <1>6 DEF p

LEMMA Ends ==
    ASSUME Types, LockInv, NEW r \in Requests, req' = [req EXCEPT ![r] = Idle],
           lock' = IF lock = r THEN None ELSE lock, mem' = mem \/ lock' = None
    PROVE  Moves(r, Idle)
<1>1. Idle.at = "idle"
  BY DEF Idle
<1> QED BY <1>1, IdleFits DEF Moves

LEMMA Fails ==
    ASSUME Types, LockInv, NEW r \in Requests, req' = Failed(r), req[r].op # "none",
           lock' = IF lock = r THEN None ELSE lock, mem' = mem
    PROVE  \E p : /\ Moves(r, p) /\ p.at \in {"idle", "cleanup"}
                  /\ req[r].op = "register" /\ req[r].node \in Mesh => p.op = "register"
<1>1. CASE ~ (req[r].op = "register" /\ req[r].node \in Mesh)
  <2>1. req' = [req EXCEPT ![r] = Idle] /\ Idle.at = "idle"
    BY <1>1, Zenon DEF Failed, Idle
  <2> QED BY <1>1, <2>1, Ends, Zenon
<1>2. CASE req[r].op = "register" /\ req[r].node \in Mesh
  <2> DEFINE q == [req[r] EXCEPT !.snap = Empty]
             p == [q EXCEPT !.at = "cleanup"]
  <2>1. req' = [req EXCEPT ![r] = p]
    BY <1>2, Zenon DEF Failed, Types
  <2>2. req[r] \in Req /\ Fits(req[r])
    BY DEF Types
  <2>3. /\ q \in Req /\ q.op = req[r].op /\ q.node = req[r].node /\ q.org = req[r].org
        /\ q.who = req[r].who /\ q.key = req[r].key
        /\ q.known = req[r].known /\ q.dark = req[r].dark
    BY <2>2, IdleFits, Zenon DEF Req
  <2> HIDE DEF q
  <2>4. "cleanup" \in Places
    BY DEF Places
  <2>5. /\ p \in Req /\ p.at = "cleanup" /\ p.op = req[r].op /\ p.node = req[r].node
        /\ p.org = req[r].org /\ p.who = req[r].who /\ p.key = req[r].key
        /\ p.known = req[r].known /\ p.dark = req[r].dark
    BY <2>3, <2>4, AtFits, Zenon
  <2> HIDE DEF p
  <2>6. Fits(p)
    BY <1>2, <2>2, <2>5 DEF Fits, OrgOps, NodeOps
  <2>7. Moves(r, p)
    BY <2>1, <2>5, <2>6 DEF Moves
  <2> QED BY <1>2, <2>5, <2>7
<1> QED BY <1>1, <1>2

LEMMA StoreMoves ==
    ASSUME Types, LockInv, NEW r \in Requests, Store(r)
    PROVE  \E p : /\ Moves(r, p)
                  /\ p.at \in {"idle", "cleanup", "rename"} 
                  /\ p = Idle => ~ (req[r].op = "register" /\ req[r].node \in Mesh)
<1>a. /\ req[r] \in Req /\ Fits(req[r]) /\ mem \in Registry
      /\ req[r].at = "store" /\ lock = None /\ lock # r /\ UNCHANGED mem
      /\ req[r].op \in OrgOps \cup NodeOps
  BY ConstantsOK DEF Types, Store, Fits
<1>1. CASE Refused(req[r])
  <2>1. req' = Failed(r) /\ UNCHANGED lock /\ req[r].op # "none"
    BY <1>1, <1>a DEF Store, OrgOps, NodeOps
  <2>2. PICK p : /\ Moves(r, p) /\ p.at \in {"idle", "cleanup"}
                 /\ req[r].op = "register" /\ req[r].node \in Mesh => p.op = "register"
    BY <2>1, <1>a, Fails
  <2> QED BY <2>2 DEF Idle
<1>2. CASE ~ Refused(req[r])
  <2> DEFINE q == [req[r] EXCEPT !.snap = Changed(req[r])]
             p == [q EXCEPT !.at = "rename"]
  <2>1. req' = [req EXCEPT ![r] = p] /\ lock' = r
    BY <1>2, Zenon DEF Store, Types
  <2>2. Changed(req[r]) \in Registry /\ Follows(mem, req[r], Changed(req[r]))
    BY <1>2, <1>a, ChangedFollows
  <2>3. /\ q \in Req /\ q.op = req[r].op /\ q.node = req[r].node /\ q.org = req[r].org
        /\ q.who = req[r].who /\ q.key = req[r].key /\ q.snap = Changed(req[r])
        /\ q.known = req[r].known /\ q.dark = req[r].dark
    BY <1>a, <2>2, Zenon DEF Req
  <2> HIDE DEF q
  <2>4. "rename" \in Places
    BY DEF Places
  <2>5. /\ p \in Req /\ p.at = "rename" /\ p.op = req[r].op /\ p.node = req[r].node
        /\ p.org = req[r].org /\ p.who = req[r].who /\ p.key = req[r].key
        /\ p.snap = Changed(req[r]) /\ p.known = req[r].known /\ p.dark = req[r].dark
    BY <2>3, <2>4, AtFits, Zenon
  <2> HIDE DEF p
  <2>6. Fits(p)
    BY <1>a, <2>5 DEF Fits, OrgOps, NodeOps
  <2>7. Follows(mem, p, p.snap)
    BY <2>2, <2>5 DEF Follows
  <2>8. Moves(r, p)
    BY <1>a, <2>1, <2>5, <2>6, <2>7 DEF Moves
  <2> QED BY <1>a, <2>5, <2>8 DEF Idle
<1> QED BY <1>1, <1>2

LEMMA MovesTypes ==
    ASSUME Types, LockInv, NEW r \in Requests, NEW p, Moves(r, p),
           mem' \in Registry, disk' \in Registry, jobs' \subseteq [snap : Registry, passed : BOOLEAN],
           cf' \subseteq Mesh, drops' \in 0..MaxDrops,
           acked' \in [NodeIds -> Promise], excused' \in Excuses
    PROVE  Types' /\ LockInv'
<1>1. /\ req' \in [Requests -> Req] /\ \A s \in Requests : Fits(req'[s])
      /\ lock' \in Requests \cup {None} /\ LockInv'
  BY ReqStep, Zenon DEF Moves
<1> QED BY <1>1 DEF Types

LEMMA ExcusesGrow ==
    ASSUME Types, NEW S \in SUBSET NodeIds
    PROVE  /\ Orphaned(S) \in Excuses /\ [excused EXCEPT !.swept = @ \cup S] \in Excuses
           /\ Orphaned(S).orphan = excused.orphan \cup S /\ Orphaned(S).late = excused.late
           /\ Orphaned(S).doomed = excused.doomed /\ Orphaned(S).swept = excused.swept
<1>1. excused \in Excuses
  BY DEF Types
<1> QED BY <1>1 DEF Orphaned, Excuses

(* The calls to Cloudflare.                                                 *)
LEMMA TypesCalls ==
    ASSUME Types, LockInv, NEW r \in Requests,
           CreateConnector(r) \/ ConnectorToken(r) \/ CleanupConnector(r) \/ DeleteConnector(r)
    PROVE  Types' /\ LockInv' /\ \E p : Moves(r, p)
<1>a. /\ mem \in Registry /\ disk \in Registry /\ jobs \subseteq [snap : Registry, passed : BOOLEAN]
      /\ cf \subseteq Mesh /\ drops \in 0..MaxDrops /\ Mesh \subseteq NodeIds
      /\ acked \in [NodeIds -> Promise] /\ excused \in Excuses /\ Fits(req[r])
  BY ConstantsOK DEF Types
<1>b. UNCHANGED <<mem, disk, lock, jobs, drops, acked>>
  BY DEF CreateConnector, ConnectorToken, CleanupConnector, DeleteConnector
<1>c. /\ req[r].at \in {"connector", "token", "cleanup", "delete"} /\ lock # r
      /\ req[r].node \in Mesh
      /\ req[r].at # "delete" => req[r].op = "register"
      /\ req[r].at = "delete" => req[r].op = "remove"
  BY <1>a DEF CreateConnector, ConnectorToken, CleanupConnector, DeleteConnector, LockInv, Fits
<1>d. cf' \subseteq Mesh
  BY <1>a, <1>c DEF CreateConnector, ConnectorToken, CleanupConnector, DeleteConnector
<1>e. excused' \in Excuses
  <2>1. Orphaned({req[r].node}) \in Excuses
    BY <1>a, <1>c, ExcusesGrow, Zenon
  <2> QED BY <1>a, <2>1, Zenon DEF CreateConnector, ConnectorToken, CleanupConnector, DeleteConnector
<1>f. \E p : Moves(r, p)
  <2>1. \/ req' = [req EXCEPT ![r] = Idle]
        \/ req[r].at = "connector" /\ req' = [req EXCEPT ![r].at = "token"]
        \/ req[r].at = "token" /\ req' = [req EXCEPT ![r].at = "store"]
        \/ req[r].at = "token" /\ req' = [req EXCEPT ![r].at = "cleanup"]
        \/ req[r].at = "delete" /\ req' = [req EXCEPT ![r].at = "store"]
    BY Zenon DEF CreateConnector, ConnectorToken, CleanupConnector, DeleteConnector
  <2>2. CASE req' = [req EXCEPT ![r] = Idle]
    BY <1>b, <1>c, <2>2, Ends, Zenon
  <2>3. ASSUME NEW a \in {"token", "store", "cleanup"}, req' = [req EXCEPT ![r].at = a],
               req[r].at = "delete" => a = "store"
        PROVE  \E p : Moves(r, p)
    <3>1. Moves(r, [req[r] EXCEPT !.at = a])
      BY <1>b, <1>c, <2>3, GoesOn, Zenon DEF Places, NodeOps
    <3> QED BY <3>1
  <2> QED BY <2>1, <2>2, <2>3
<1> QED BY <1>a, <1>b, <1>d, <1>e, <1>f, MovesTypes

LEMMA AnsweredType ==
    ASSUME Types, NEW q \in Req, Fits(q)
    PROVE  Answered(q) \in [NodeIds -> Promise]
<1>1. acked \in [NodeIds -> Promise]
  BY DEF Types
<1>2. q.op \in NodeOps => q.node \in NodeIds
  BY DEF Fits
<1>a. q.op \in NodeOps => acked[q.node] \in Promise
  BY <1>1, <1>2
<1>3. ASSUME NEW a \in {"in", "out"}, q.op \in NodeOps
      PROVE  [acked EXCEPT ![q.node].state = a] \in [NodeIds -> Promise]
  <2>1. [acked[q.node] EXCEPT !.state = a] \in Promise
    BY <1>3, <1>a DEF Promise
  <2> QED BY <1>1, <2>1, Zenon
<1>4. CASE q.op = "reissue"
  <2>1. q.node \in NodeIds /\ q.key \in 1..MaxKey /\ acked[q.node] \in Promise
    BY <1>4, <1>a DEF Fits, NodeOps
  <2>2. [acked[q.node] EXCEPT !.key = q.key] \in Promise
    BY <2>1 DEF Promise
  <2> QED BY <1>1, <1>4, <2>2, Zenon DEF Answered
<1>5. CASE q.op = "heartbeat"
  <2>1. [acked[q.node] EXCEPT !.beaten = TRUE] \in Promise
    BY <1>5, <1>a, Zenon DEF Promise, NodeOps
  <2> QED BY <1>1, <1>5, <2>1, Zenon DEF Answered
<1>6. CASE q.op \notin {"reissue", "heartbeat"}
  BY <1>1, <1>3, <1>6, Zenon DEF Answered, NodeOps
<1> QED BY <1>4, <1>5, <1>6

(* The keys of reissues that are cut short count as lost.                   *)
LEMMA LostType ==
    ASSUME Types, NEW R \in SUBSET Requests
    PROVE  /\ LostKeys(R) \in [NodeIds -> Promise]
           /\ \A n \in NodeIds :
                /\ Same(acked[n], LostKeys(R)[n])
                /\ \A r \in R : req[r].op = "reissue" /\ req[r].node = n =>
                     req[r].key \in LostKeys(R)[n].lost
<1> DEFINE K(n) == {req[r].key : r \in {x \in R : req[x].op = "reissue" /\ req[x].node = n}}
           L(n) == [acked[n] EXCEPT !.lost = @ \cup K(n)]
<1>1. LostKeys(R) = [n \in NodeIds |-> L(n)]
  BY Zenon DEF LostKeys
<1>2. \A n \in NodeIds : K(n) \subseteq 1..MaxKey
  BY DEF Types, Fits
<1>3. \A n \in NodeIds : \A r \in R : req[r].op = "reissue" /\ req[r].node = n => req[r].key \in K(n)
  OBVIOUS
<1>4. \A n \in NodeIds : acked[n] \in Promise
  BY DEF Types
<1> HIDE DEF K
<1>5. \A n \in NodeIds : /\ L(n) \in Promise /\ L(n).state = acked[n].state /\ L(n).key = acked[n].key
                         /\ L(n).beaten = acked[n].beaten /\ L(n).lost = acked[n].lost \cup K(n)
  BY <1>2, <1>4 DEF Promise
<1> HIDE DEF L
<1> QED BY <1>1, <1>3, <1>5 DEF Same

(* The steps with the lock, and those of reconcile.                         *)
LEMMA TypesLocked ==
    ASSUME Types, LockInv, NEW r \in Requests,
           Store(r) \/ Commit(r) \/ PersistFails(r) \/ Drop(r)
    PROVE  Types' /\ LockInv' /\ \E p : Moves(r, p)
<1>a. /\ mem \in Registry /\ disk \in Registry /\ jobs \subseteq [snap : Registry, passed : BOOLEAN]
      /\ cf \subseteq Mesh /\ drops \in 0..MaxDrops /\ req[r].snap \in Registry
      /\ acked \in [NodeIds -> Promise] /\ excused \in Excuses
      /\ req[r] \in Req /\ Fits(req[r])
  BY DEF Types, Req
<1>1. CASE Store(r)
  BY <1>1, <1>a, StoreMoves, MovesTypes DEF Store
<1>2. CASE Commit(r)
  <2>1. Moves(r, Idle)
    BY <1>2, Ends, Zenon DEF Commit
  <2>2. jobs' \subseteq [snap : Registry, passed : BOOLEAN]
    BY <1>2, <1>a, Zenon DEF Commit
  <2>3. acked' \in [NodeIds -> Promise]
    BY <1>2, <1>a, AnsweredType DEF Commit
  <2>4. mem' \in Registry /\ disk' \in Registry /\ UNCHANGED <<cf, drops, excused>>
    BY <1>2, <1>a DEF Commit
  <2> QED BY <1>a, <2>1, <2>2, <2>3, <2>4, MovesTypes
<1>3. CASE PersistFails(r)
  <2>1. req[r].op # "none"
    BY <1>3, <1>a DEF PersistFails, LockInv, Fits, OrgOps, NodeOps
  <2>2. \E p : Moves(r, p)
    BY <1>3, <2>1, Fails DEF PersistFails
  <2> QED BY <1>3, <1>a, <2>2, MovesTypes DEF PersistFails
<1>4. CASE Drop(r)
  <2>1. Moves(r, Idle)
    BY <1>4, Ends, Zenon DEF Drop
  <2>2. jobs' \subseteq [snap : Registry, passed : BOOLEAN]
    <3>1. [snap |-> req[r].snap, passed |-> FALSE] \in [snap : Registry, passed : BOOLEAN]
      BY <1>a
    <3> QED BY <1>4, <1>a, <3>1, Zenon DEF Drop
  <2>3. excused' \in Excuses
    <3>1. LeftBehind({r}) \subseteq NodeIds
      BY <1>a, ConstantsOK DEF LeftBehind
    <3> QED BY <1>4, <3>1, ExcusesGrow, Zenon DEF Drop
  <2>4. acked' \in [NodeIds -> Promise]
    BY <1>4, LostType DEF Drop
  <2>5. UNCHANGED <<mem, disk, cf>> /\ drops' \in 0..MaxDrops
    BY <1>4, <1>a, ConstantsOK DEF Drop
  <2> QED BY <1>a, <2>1, <2>2, <2>3, <2>4, <2>5, MovesTypes
<1> QED BY <1>1, <1>2, <1>3, <1>4

LEMMA TypesReconcile ==
    ASSUME Types, LockInv, NEW r \in Requests,
           ListConnectors(r) \/ \E c \in Mesh : SweepConnector(r, c)
    PROVE  Types' /\ LockInv' /\ \E p : Moves(r, p)
<1>a. /\ mem \in Registry /\ disk \in Registry /\ jobs \subseteq [snap : Registry, passed : BOOLEAN]
      /\ cf \subseteq Mesh /\ drops \in 0..MaxDrops /\ Mesh \subseteq NodeIds
      /\ acked \in [NodeIds -> Promise] /\ excused \in Excuses
      /\ req[r] \in Req /\ Fits(req[r]) /\ req[r].dark \subseteq Mesh
  BY ConstantsOK, Zenon DEF Types, Req
<1>b. UNCHANGED <<mem, disk, lock, jobs, drops, acked>>
  BY DEF ListConnectors, SweepConnector
<1>c. req[r].at \in {"list", "sweep"} /\ lock # r /\ req[r].op = "reconcile"
  BY <1>a DEF ListConnectors, SweepConnector, LockInv, Fits
<1>d. cf' \subseteq Mesh
  BY <1>a DEF ListConnectors, SweepConnector
<1>e. excused' \in Excuses
  <2>1. \A c \in Mesh : [excused EXCEPT !.swept = @ \cup {c}] \in Excuses
    BY <1>a, ExcusesGrow, Zenon
  <2> QED BY <1>a, <2>1, Zenon DEF ListConnectors, SweepConnector
<1>1. ASSUME NEW p \in Req, p.at = "sweep", p.op = req[r].op, p.node = req[r].node,
             p.known = req[r].known, p.dark \cap p.known = {}, req' = [req EXCEPT ![r] = p]
      PROVE  \E x : Moves(r, x)
  <2>1. Fits(p)
    BY <1>a, <1>1, <1>c DEF Fits, OrgOps, NodeOps
  <2>2. Moves(r, p)
    BY <1>1, <1>b, <1>c, <2>1 DEF Moves
  <2> QED BY <2>2
<1>2. \/ req' = [req EXCEPT ![r] = Idle]
      \/ req' = [req EXCEPT ![r].at = "sweep", ![r].dark = DarkConnectors(req[r])]
      \/ \E c \in Mesh : req[r].at = "sweep" /\ req' = [req EXCEPT ![r].dark = @ \ {c}]
  BY Zenon DEF ListConnectors, SweepConnector
<1>3. ASSUME req' = [req EXCEPT ![r] = Idle]
      PROVE  \E p : Moves(r, p)
  <2>1. mem' = mem /\ lock' = IF lock = r THEN None ELSE lock
    BY <1>b, <1>c
  <2> QED BY <1>3, <2>1, Ends, Zenon
<1>4. ASSUME req' = [req EXCEPT ![r].at = "sweep", ![r].dark = DarkConnectors(req[r])]
      PROVE  \E x : Moves(r, x)
  <2>1. /\ DarkConnectors(req[r]) \in SUBSET Mesh
        /\ DarkConnectors(req[r]) \cap req[r].known = {}
    BY <1>a DEF DarkConnectors
  <2> DEFINE q == [req[r] EXCEPT !.at = "sweep"]
             p == [q EXCEPT !.dark = DarkConnectors(req[r])]
  <2>2. q \in Req /\ q.at = "sweep" /\ q.op = req[r].op /\ q.node = req[r].node /\ q.known = req[r].known
    BY <1>a, AtFits, Zenon DEF Places
  <2>3. req' = [req EXCEPT ![r] = p]
    BY <1>4, Zenon DEF Types
  <2> HIDE DEF q
  <2>4. /\ p \in Req /\ p.at = "sweep" /\ p.op = req[r].op /\ p.node = req[r].node
        /\ p.known = req[r].known /\ p.dark = DarkConnectors(req[r])
    BY <2>1, <2>2, Zenon DEF Req
  <2> HIDE DEF p
  <2>5. p.dark \cap p.known = {}
    BY <2>1, <2>4
  <2> QED BY <2>3, <2>4, <2>5, <1>1, Zenon
<1>5. ASSUME NEW c \in Mesh, req[r].at = "sweep", req' = [req EXCEPT ![r].dark = @ \ {c}]
      PROVE  \E x : Moves(r, x)
  <2>1. /\ req[r].dark \ {c} \in SUBSET Mesh
        /\ (req[r].dark \ {c}) \cap req[r].known = {}
    BY <1>a DEF Fits
  <2> DEFINE p == [req[r] EXCEPT !.dark = req[r].dark \ {c}]
  <2>2. req' = [req EXCEPT ![r] = p]
    BY <1>5, Zenon
  <2>3. /\ p \in Req /\ p.at = "sweep" /\ p.op = req[r].op /\ p.node = req[r].node
        /\ p.known = req[r].known /\ p.dark = req[r].dark \ {c}
    BY <1>5, <1>a, <2>1, Zenon DEF Req
  <2> HIDE DEF p
  <2> QED BY <2>1, <2>2, <2>3, <1>1, Zenon
<1>6. \E p : Moves(r, p)
  BY <1>2, <1>3, <1>4, <1>5
<1> QED BY <1>a, <1>b, <1>d, <1>e, <1>6, MovesTypes

(* Every step keeps the handlers well-formed and the lock with the one that *)
(* writes.                                                                  *)
LEMMA TypesStep ==
    ASSUME Types, LockInv, [Next]_vars
    PROVE  Types' /\ LockInv'
<1>a. jobs \subseteq [snap : Registry, passed : BOOLEAN] /\ excused \in Excuses
  BY DEF Types
<1>1. CASE UNCHANGED vars
  BY <1>1 DEF vars, Types, LockInv
<1>2. ASSUME NEW j \in jobs, DetachedRename(j)
      PROVE  Types' /\ LockInv'
  <2>1. disk' \in Registry /\ jobs' \subseteq jobs /\ UNCHANGED <<mem, lock, req, cf, drops, acked>>
    BY <1>2, <1>a DEF DetachedRename
  <2>2. excused' \in Excuses
    BY <1>2, <1>a DEF DetachedRename, Excuses
  <2> QED BY <2>1, <2>2 DEF Types, LockInv
<1>3. CASE Restart
  <2>1. req' \in [Requests -> Req] /\ \A r \in Requests : Fits(req'[r]) /\ req'[r].at # "rename"
    BY <1>3, IdleFits DEF Restart, Idle
  <2>2. excused' \in Excuses /\ acked' \in [NodeIds -> Promise]
    <3>1. LeftBehind(Requests) \subseteq NodeIds
      BY ConstantsOK DEF LeftBehind, Types
    <3> QED BY <1>3, <3>1, ExcusesGrow, LostType, Zenon DEF Restart
  <2>3. lock' = None /\ jobs' = {} /\ mem' = disk /\ UNCHANGED <<disk, cf, drops>>
    BY <1>3 DEF Restart
  <2> QED BY <2>1, <2>2, <2>3, ConstantsOK DEF Types, LockInv
<1> QED BY <1>1, <1>2, <1>3, TypesBegin, TypesCalls, TypesLocked, TypesReconcile DEF Next

-----------------------------------------------------------------------------
(* The steps by what they do to the registry.                               *)
Works(r) ==
    \/ Store(r) \/ PersistFails(r)
    \/ CreateConnector(r) \/ ConnectorToken(r) \/ CleanupConnector(r) \/ DeleteConnector(r)
    \/ ListConnectors(r) \/ \E c \in Mesh : SweepConnector(r, c)

LEMMA StepKinds ==
    ASSUME Types, LockInv, [Next]_vars
    PROVE  \/ UNCHANGED vars
           \/ \E r \in Requests : (\E q : Begins(r, q)) \/ Works(r) \/ Commit(r) \/ Drop(r)
           \/ \E j \in jobs : DetachedRename(j)
           \/ Restart
BY TypesBegin, Zenon DEF Next, Works

LEMMA WorksQuiet ==
    ASSUME Types, LockInv, NEW r \in Requests, Works(r)
    PROVE  /\ \E p : Moves(r, p)
           /\ UNCHANGED <<mem, disk, jobs, acked>>
           /\ excused'.late = excused.late /\ excused'.doomed = excused.doomed
           /\ excused.orphan \subseteq excused'.orphan /\ excused.swept \subseteq excused'.swept
<1>1. \E p : Moves(r, p)
  BY TypesCalls, TypesLocked, TypesReconcile DEF Works
<1>2. UNCHANGED <<mem, disk, jobs, acked>>
  BY Zenon DEF Works, Store, PersistFails, CreateConnector, ConnectorToken, CleanupConnector,
               DeleteConnector, ListConnectors, SweepConnector
<1>3. \/ excused' = excused \/ \E n : excused' = Orphaned({n})
      \/ \E n : excused' = [excused EXCEPT !.swept = @ \cup {n}]
  BY Zenon DEF Works, Store, PersistFails, CreateConnector, ConnectorToken, CleanupConnector,
               DeleteConnector, ListConnectors, SweepConnector
<1>4. excused \in Excuses
  BY DEF Types
<1> QED BY <1>1, <1>2, <1>3, <1>4 DEF Orphaned, Excuses

(* A handler that moves leaves the others alone.                            *)
LEMMA MovesOne ==
    ASSUME Types, NEW r \in Requests, NEW p, Moves(r, p)
    PROVE  /\ req'[r] = p /\ \A s \in Requests \ {r} : req'[s] = req[s]
           /\ \A s \in Requests : req'[s].op # "none" =>
                 req'[s].op = req[s].op /\ req'[s].node = req[s].node
<1>1. req'[r] = p /\ \A s \in Requests \ {r} : req'[s] = req[s]
  BY DEF Types, Moves
<1>2. p.op # "none" => p.op = req[r].op /\ p.node = req[r].node
  BY DEF Moves, Idle
<1> QED BY <1>1, <1>2

-----------------------------------------------------------------------------
(* Every registry there is, the ones of renames still to come included, has *)
(* members for owners.                                                      *)
SoundInv == Sound(mem) /\ Sound(disk) /\ \A j \in jobs : Sound(j.snap)

LEMMA SoundStep ==
    ASSUME Types, LockInv, SoundInv, [Next]_vars
    PROVE  SoundInv'
<1>1. CASE UNCHANGED <<mem, disk, jobs>>
  BY <1>1 DEF SoundInv
<1>2. ASSUME NEW r \in Requests, lock = r
      PROVE  Sound(req[r].snap)
  BY <1>2 DEF LockInv, Follows, SoundInv
<1>3. ASSUME NEW r \in Requests, Commit(r) PROVE SoundInv'
  <2>1. mem' = req[r].snap /\ disk' = req[r].snap /\ lock = r
    BY <1>3 DEF Commit
  <2>2. \A j \in jobs' : \E i \in jobs : j.snap = i.snap
    BY <1>3, Zenon DEF Commit, Types
  <2> QED BY <1>2, <2>1, <2>2 DEF SoundInv
<1>4. ASSUME NEW r \in Requests, Drop(r) PROVE SoundInv'
  <2>1. UNCHANGED <<mem, disk>> /\ \A j \in jobs' : j \in jobs \/ (lock = r /\ j.snap = req[r].snap)
    BY <1>4 DEF Drop
  <2> QED BY <1>2, <2>1 DEF SoundInv
<1>5. ASSUME NEW j \in jobs, DetachedRename(j) PROVE SoundInv'
  BY <1>5 DEF DetachedRename, SoundInv
<1>6. CASE Restart
  BY <1>6 DEF Restart, SoundInv
<1> QED BY <1>1, <1>3, <1>4, <1>5, <1>6, StepKinds, WorksQuiet, Zenon DEF vars, Begins

-----------------------------------------------------------------------------
(* A node id is in no registry before its one registration is written: it   *)
(* is fresh, or one handler is registering it.  A removal concerns a node   *)
(* that was registered.                                                     *)
Registering(r, n) == req[r].op = "register" /\ req[r].node = n
Removing(r, n) == req[r].op = "remove" /\ req[r].node = n
Unborn(n) == acked[n].state = "fresh" \/ \E r \in Requests : Registering(r, n)
Nowhere(n) == mem.nodes[n] = None /\ disk.nodes[n] = None /\ \A j \in jobs : j.snap.nodes[n] = None

BirthInv ==
    \A n \in NodeIds :
        /\ Unborn(n) => acked[n].key = 1 /\ acked[n].beaten = FALSE /\ Nowhere(n)
        /\ \A r \in Requests : Registering(r, n) =>
              acked[n].state = "begun" /\ \A s \in Requests : Registering(s, n) => s = r
        /\ \A r \in Requests : Removing(r, n) => n \in excused.doomed /\ ~ Unborn(n)

LEMMA BirthKept ==
    ASSUME BirthInv,
           \A s \in Requests : req'[s].op \in {"register", "remove"} =>
               req'[s].op = req[s].op /\ req'[s].node = req[s].node,
           \A n \in NodeIds : acked'[n].state = "fresh" => acked[n].state = "fresh",
           \A n \in NodeIds : Unborn(n)' => Same(acked[n], acked'[n]) /\ Nowhere(n)',
           excused.doomed \subseteq excused'.doomed
    PROVE  BirthInv'
<1> SUFFICES ASSUME NEW n \in NodeIds
             PROVE  /\ Unborn(n)' => acked'[n].key = 1 /\ acked'[n].beaten = FALSE /\ Nowhere(n)'
                    /\ \A r \in Requests : Registering(r, n)' =>
                          /\ acked'[n].state = "begun"
                          /\ \A s \in Requests : Registering(s, n)' => s = r
                    /\ \A r \in Requests : Removing(r, n)' => n \in excused'.doomed /\ ~ Unborn(n)'
  BY Zenon DEF BirthInv
<1>1. \A r \in Requests : /\ Registering(r, n)' => Registering(r, n)
                          /\ Removing(r, n)' => Removing(r, n)
  BY DEF Registering, Removing
<1>2. Unborn(n)' => Unborn(n)
  BY <1>1 DEF Unborn
<1>3. \A r \in Requests : Registering(r, n)' => Unborn(n)'
  BY DEF Unborn
<1> QED BY <1>1, <1>2, <1>3 DEF BirthInv, Same

(* The registry about to be written has no unborn node but the one that its *)
(* handler registers.                                                       *)
LEMMA SnapUnborn ==
    ASSUME Types, LockInv, BirthInv, NEW r \in Requests, lock = r,
           NEW n \in NodeIds, Unborn(n), ~ Registering(r, n)
    PROVE  req[r].snap.nodes[n] = None /\ (req[r].op \in OrgOps \/ req[r].node # n)
<1>1. Follows(mem, req[r], req[r].snap) /\ req[r].op \in OrgOps \cup NodeOps
  BY DEF LockInv, Types, Fits
<1>2. mem.nodes[n] = None
  BY DEF BirthInv, Nowhere
<1> QED BY <1>1, <1>2 DEF Follows, Registering, OrgOps, NodeOps

LEMMA BirthBegins ==
    ASSUME Types, BirthInv, NEW r \in Requests, NEW q, Begins(r, q)
    PROVE  BirthInv'
<1>a. /\ req'[r] = q /\ \A s \in Requests \ {r} : req'[s] = req[s]
      /\ req[r].op = "none"
  BY DEF Begins, Types, Idle
<1>b. UNCHANGED <<mem, disk, jobs>>
  BY DEF Begins
<1>c. \A n \in NodeIds : Nowhere(n) => Nowhere(n)'
  BY <1>b DEF Nowhere
<1>d. excused.doomed \subseteq excused'.doomed
  BY DEF Begins, Types, Excuses
<1>1. CASE q.op \notin {"register", "remove"}
  <2>1. \A n \in NodeIds : Same(acked[n], acked'[n])
    BY <1>1 DEF Begins
  <2>2. \A s \in Requests : req'[s].op \in {"register", "remove"} =>
            req'[s].op = req[s].op /\ req'[s].node = req[s].node
    BY <1>1, <1>a
  <2>3. \A n \in NodeIds : Unborn(n)' => Unborn(n)
    BY <2>1, <2>2 DEF Unborn, Registering, Same
  <2>4. \A n \in NodeIds : Unborn(n)' => Same(acked[n], acked'[n]) /\ Nowhere(n)'
    BY <1>c, <2>1, <2>3 DEF BirthInv
  <2> QED BY <1>d, <2>1, <2>2, <2>4, BirthKept DEF Same
<1>2. CASE q.op = "register"
  <2> DEFINE m == q.node
  <2>1. /\ m \in NodeIds /\ acked[m].state = "fresh" /\ acked'[m].state = "begun"
        /\ acked'[m].key = acked[m].key /\ acked'[m].beaten = acked[m].beaten
        /\ \A n \in NodeIds \ {m} : acked'[n] = acked[n]
        /\ excused' = excused
    <3>1. /\ m \in NodeIds /\ acked[m].state = "fresh" /\ excused' = excused
          /\ acked' = [acked EXCEPT ![m].state = "begun"]
      BY <1>2 DEF Begins
    <3>2. acked \in [NodeIds -> Promise]
      BY DEF Types
    <3> HIDE DEF m
    <3> QED BY <3>1, <3>2 DEF Promise
  <2> HIDE DEF m
  <2>2. Unborn(m) /\ \A s \in Requests : ~ Registering(s, m)
    BY <2>1 DEF Unborn, BirthInv
  <2>3. \A s \in Requests, n \in NodeIds :
            /\ Registering(s, n)' <=> (s = r /\ n = m) \/ Registering(s, n)
            /\ Removing(s, n)' <=> Removing(s, n)
    BY <1>2, <1>a DEF Registering, Removing, m
  <2> SUFFICES ASSUME NEW n \in NodeIds
               PROVE  /\ Unborn(n)' => acked'[n].key = 1 /\ acked'[n].beaten = FALSE /\ Nowhere(n)'
                      /\ \A s \in Requests : Registering(s, n)' =>
                            /\ acked'[n].state = "begun"
                            /\ \A t \in Requests : Registering(t, n)' => t = s
                      /\ \A s \in Requests : Removing(s, n)' => n \in excused'.doomed /\ ~ Unborn(n)'
    BY Zenon DEF BirthInv
  <2>4. CASE n = m
    BY <1>c, <2>1, <2>2, <2>3, <2>4 DEF BirthInv
  <2>5. CASE n # m
    <3>1. Unborn(n)' <=> Unborn(n)
      BY <2>1, <2>3, <2>5 DEF Unborn
    <3> QED BY <1>c, <2>1, <2>3, <2>5, <3>1 DEF BirthInv
  <2> QED BY <2>4, <2>5, Zenon
<1>3. CASE q.op = "remove"
  <2>1. \A n \in NodeIds : Same(acked[n], acked'[n])
    BY <1>3 DEF Begins
  <2>2. \A s \in Requests, n \in NodeIds :
            /\ Registering(s, n)' <=> Registering(s, n)
            /\ Removing(s, n)' => (n = q.node) \/ Removing(s, n)
    BY <1>3, <1>a DEF Registering, Removing
  <2>3. /\ q.node \in NodeIds => mem.nodes[q.node] # None
        /\ q.node \in excused'.doomed
    BY <1>3 DEF Begins, Registered, Types, Excuses
  <2> SUFFICES ASSUME NEW n \in NodeIds
               PROVE  /\ Unborn(n)' => acked'[n].key = 1 /\ acked'[n].beaten = FALSE /\ Nowhere(n)'
                      /\ \A s \in Requests : Registering(s, n)' =>
                            /\ acked'[n].state = "begun"
                            /\ \A t \in Requests : Registering(t, n)' => t = s
                      /\ \A s \in Requests : Removing(s, n)' => n \in excused'.doomed /\ ~ Unborn(n)'
    BY Zenon DEF BirthInv
  <2>4. Unborn(n)' <=> Unborn(n)
    BY <2>1, <2>2 DEF Unborn, Same
  <2>5. n = q.node => ~ Unborn(n)
    BY <2>3 DEF BirthInv, Nowhere
  <2> QED BY <1>c, <1>d, <2>1, <2>2, <2>3, <2>4, <2>5 DEF BirthInv, Same
<1> QED BY <1>1, <1>2, <1>3

LEMMA BirthStep ==
    ASSUME Types, LockInv, BirthInv, [Next]_vars
    PROVE  BirthInv'
<1>a. excused \in Excuses
  BY DEF Types
<1>1. CASE UNCHANGED vars
  BY <1>1 DEF vars, BirthInv, Unborn, Registering, Removing, Nowhere
<1>2. ASSUME NEW r \in Requests, Works(r) PROVE BirthInv'
  <2>1. PICK p : Moves(r, p)
    BY <1>2, WorksQuiet
  <2>2. UNCHANGED <<mem, disk, jobs, acked>> /\ excused'.doomed = excused.doomed
    BY <1>2, WorksQuiet
  <2>3. \A s \in Requests : req'[s].op # "none" => req'[s].op = req[s].op /\ req'[s].node = req[s].node
    BY <2>1, MovesOne
  <2>4. \A n \in NodeIds : Unborn(n)' => Unborn(n)
    BY <2>2, <2>3 DEF Unborn, Registering
  <2>5. \A n \in NodeIds : Unborn(n)' => Same(acked[n], acked'[n]) /\ Nowhere(n)'
    BY <2>2, <2>4 DEF BirthInv, Same, Nowhere
  <2> QED BY <2>2, <2>3, <2>5, BirthKept
<1>3. ASSUME NEW r \in Requests, Commit(r) PROVE BirthInv'
  <2>1. req'[r] = Idle /\ \A s \in Requests \ {r} : req'[s] = req[s]
    BY <1>3 DEF Commit, Types
  <2>2. /\ lock = r /\ mem' = req[r].snap /\ disk' = req[r].snap /\ excused' = excused
        /\ acked' = Answered(req[r])
    BY <1>3 DEF Commit
  <2>3. \A j \in jobs' : \E i \in jobs : j.snap = i.snap
    BY <1>3, Zenon DEF Commit, Types
  <2>4. /\ \A n \in NodeIds \ {req[r].node} : acked'[n] = acked[n]
        /\ req[r].op \in OrgOps => acked' = acked
        /\ \A n \in NodeIds : acked'[n].state = "fresh" => acked[n].state = "fresh"
        /\ \A n \in NodeIds : Registering(r, n) => acked'[n].state = "in"
    <3>1. acked \in [NodeIds -> Promise]
      BY DEF Types
    <3> QED BY <2>2, <3>1, Zenon DEF Answered, OrgOps, Registering, Promise
  <2>5. \A s \in Requests : req'[s].op # "none" => req'[s].op = req[s].op /\ req'[s].node = req[s].node
    BY <2>1 DEF Idle
  <2>6. \A n \in NodeIds : Unborn(n)' => Unborn(n) /\ ~ Registering(r, n)
    <3> SUFFICES ASSUME NEW n \in NodeIds, Unborn(n)' PROVE Unborn(n) /\ ~ Registering(r, n)
      OBVIOUS
    <3>1. \A s \in Requests : Registering(s, n)' => s # r /\ Registering(s, n)
      BY <2>1, <2>5 DEF Registering, Idle
    <3> QED BY <2>4, <3>1 DEF Unborn, BirthInv
  <2>7. \A n \in NodeIds : Unborn(n)' => Same(acked[n], acked'[n]) /\ Nowhere(n)'
    <3> SUFFICES ASSUME NEW n \in NodeIds, Unborn(n)' PROVE Same(acked[n], acked'[n]) /\ Nowhere(n)'
      OBVIOUS
    <3>1. req[r].snap.nodes[n] = None /\ (req[r].op \in OrgOps \/ req[r].node # n)
      BY <2>2, <2>6, SnapUnborn
    <3>2. Nowhere(n)
      BY <2>6 DEF BirthInv
    <3> QED BY <2>2, <2>3, <2>4, <3>1, <3>2 DEF Same, Nowhere
  <2> QED BY <2>2, <2>4, <2>5, <2>7, BirthKept
<1>4. ASSUME NEW r \in Requests, Drop(r) PROVE BirthInv'
  <2>1. req'[r] = Idle /\ \A s \in Requests \ {r} : req'[s] = req[s]
    BY <1>4 DEF Drop, Types
  <2>2. UNCHANGED <<mem, disk>> /\ \A j \in jobs' : j \in jobs \/ (lock = r /\ j.snap = req[r].snap)
    BY <1>4 DEF Drop
  <2>3. \A n \in NodeIds : Same(acked[n], acked'[n])
    BY <1>4, LostType DEF Drop
  <2>4. excused'.doomed = excused.doomed
    BY <1>4, <1>a DEF Drop, Orphaned, Excuses
  <2>5. \A s \in Requests : req'[s].op # "none" => s # r /\ req'[s] = req[s]
    BY <2>1 DEF Idle
  <2>6. \A n \in NodeIds : Unborn(n)' => Unborn(n) /\ ~ Registering(r, n)
    BY <2>3, <2>5 DEF Unborn, Registering, BirthInv, Same
  <2>7. \A n \in NodeIds : Unborn(n)' => Nowhere(n)'
    <3> SUFFICES ASSUME NEW n \in NodeIds, Unborn(n)' PROVE Nowhere(n)'
      OBVIOUS
    <3>1. Nowhere(n) /\ (lock = r => req[r].snap.nodes[n] = None)
      BY <2>6, SnapUnborn DEF BirthInv
    <3> QED BY <2>2, <3>1 DEF Nowhere
  <2> QED BY <2>3, <2>4, <2>5, <2>7, BirthKept DEF Same
<1>5. ASSUME NEW j \in jobs, DetachedRename(j) PROVE BirthInv'
  <2>1. /\ disk' = j.snap /\ jobs' \subseteq jobs /\ UNCHANGED <<mem, req, acked>>
        /\ excused'.doomed = excused.doomed
    BY <1>5, <1>a DEF DetachedRename, Excuses
  <2> QED BY <2>1 DEF BirthInv, Unborn, Registering, Removing, Nowhere
<1>6. CASE Restart
  <2>1. req' = [r \in Requests |-> Idle] /\ mem' = disk /\ disk' = disk /\ jobs' = {}
    BY <1>6 DEF Restart
  <2>2. \A n \in NodeIds : Same(acked[n], acked'[n])
    BY <1>6, LostType DEF Restart
  <2>3. \A r \in Requests : req'[r].op = "none"
    BY <2>1 DEF Idle
  <2> QED BY <2>1, <2>2, <2>3 DEF BirthInv, Unborn, Registering, Removing, Nowhere, Same
<1> QED BY <1>1, <1>2, <1>3, <1>4, <1>5, <1>6, StepKinds, BirthBegins

-----------------------------------------------------------------------------
(* The registries a start may read: those in memory and in the file, and    *)
(* the ones of the renames that no later rename has passed.                 *)
Current == {mem, disk} \cup {j.snap : j \in {x \in jobs : x.passed = FALSE}}

(* While no rename has come late, a registry that becomes current is the    *)
(* one that the holder of the lock has made.                                *)
LEMMA CurrentStep ==
    ASSUME Types, LockInv, [Next]_vars, excused'.late = FALSE
    PROVE  /\ excused.late = FALSE
           /\ \A reg \in Current' : reg \in Current \/
                 \E r \in Requests : lock = r /\ (Commit(r) \/ Drop(r)) /\ reg = req[r].snap
           /\ \A r \in Requests : Commit(r) => \A reg \in Current' : reg = req[r].snap
<1>a. excused \in Excuses /\ jobs \subseteq [snap : Registry, passed : BOOLEAN]
  BY DEF Types
<1>1. ASSUME UNCHANGED <<mem, disk, jobs>> PROVE Current' = Current
  BY <1>1 DEF Current
<1>2. ASSUME NEW r \in Requests, Commit(r)
      PROVE  excused' = excused /\ lock = r /\ \A reg \in Current' : reg = req[r].snap
  <2>1. /\ excused' = excused /\ lock = r /\ mem' = req[r].snap /\ disk' = req[r].snap
        /\ jobs' = {[j EXCEPT !.passed = TRUE] : j \in jobs}
    BY <1>2 DEF Commit
  <2>2. \A j \in jobs' : j.passed = TRUE
    BY <2>1, <1>a
  <2> QED BY <2>1, <2>2 DEF Current
<1>3. ASSUME NEW r \in Requests, Drop(r)
      PROVE  /\ excused'.late = excused.late
             /\ \A reg \in Current' : reg \in Current \/ (lock = r /\ reg = req[r].snap)
  <2>1. /\ excused'.late = excused.late /\ UNCHANGED <<mem, disk>>
        /\ jobs' = jobs \/ (lock = r /\ jobs' = jobs \cup {[snap |-> req[r].snap, passed |-> FALSE]})
    BY <1>3, <1>a DEF Drop, Orphaned, Excuses
  <2> QED BY <2>1 DEF Current
<1>4. ASSUME NEW j \in jobs, DetachedRename(j)
      PROVE  excused.late = FALSE /\ \A reg \in Current' : reg \in Current
  <2>1. excused.late = FALSE /\ j.passed = FALSE
    BY <1>4, <1>a DEF DetachedRename, Excuses
  <2> QED BY <1>4, <2>1 DEF DetachedRename, Current
<1>5. CASE Restart
  <2>1. excused'.late = excused.late
    BY <1>5, <1>a DEF Restart, Orphaned, Excuses
  <2>2. \A reg \in Current' : reg \in Current
    BY <1>5 DEF Restart, Current
  <2> QED BY <1>2, <2>1, <2>2
<1>6. ASSUME NEW r \in Requests, NEW q, Begins(r, q)
      PROVE  excused'.late = excused.late /\ Current' = Current
  BY <1>6, <1>1, <1>a DEF Begins, Excuses
<1>7. ASSUME NEW r \in Requests, Works(r)
      PROVE  excused'.late = excused.late /\ Current' = Current
  BY <1>7, <1>1, WorksQuiet
<1>8. ASSUME UNCHANGED vars
      PROVE  excused'.late = excused.late /\ Current' = Current
  BY <1>8, <1>1 DEF vars
<1> QED BY <1>2, <1>3, <1>4, <1>5, <1>6, <1>7, <1>8, StepKinds, Zenon

(* Only an answer adds to what was promised.                                *)
LEMMA AckedStep ==
    ASSUME Types, LockInv, [Next]_vars
    PROVE  /\ excused.doomed \subseteq excused'.doomed
           /\ \/ \E r \in Requests : Commit(r)
              \/ \A n \in NodeIds : Same(acked[n], acked'[n]) \/ acked'[n].state = "begun"
<1>a. excused \in Excuses /\ acked \in [NodeIds -> Promise]
  BY DEF Types
<1>1. ASSUME NEW r \in Requests, NEW q, Begins(r, q)
      PROVE  /\ excused.doomed \subseteq excused'.doomed
             /\ \A n \in NodeIds : Same(acked[n], acked'[n]) \/ acked'[n].state = "begun"
  <2>1. excused.doomed \subseteq excused'.doomed
    BY <1>1, <1>a DEF Begins, Excuses
  <2>2. q.op = "register" =>
          \A n \in NodeIds : acked'[n] = acked[n] \/ acked'[n].state = "begun"
    BY <1>1, <1>a DEF Begins, Promise
  <2> QED BY <1>1, <2>1, <2>2 DEF Begins, Same
<1>2. ASSUME excused' = excused \/ \E S : excused' = Orphaned(S)
      PROVE  excused.doomed \subseteq excused'.doomed
  BY <1>2, <1>a DEF Orphaned, Excuses
<1>3. ASSUME \E R \in SUBSET Requests : acked' = LostKeys(R)
      PROVE  \A n \in NodeIds : Same(acked[n], acked'[n])
  BY <1>3, LostType
<1>4. ASSUME acked' = acked PROVE \A n \in NodeIds : Same(acked[n], acked'[n])
  BY <1>4 DEF Same
<1>5. ASSUME NEW r \in Requests, Drop(r)
      PROVE  /\ excused.doomed \subseteq excused'.doomed
             /\ \A n \in NodeIds : Same(acked[n], acked'[n])
  BY <1>5, <1>2, <1>3 DEF Drop
<1>6. ASSUME Restart
      PROVE  /\ excused.doomed \subseteq excused'.doomed
             /\ \A n \in NodeIds : Same(acked[n], acked'[n])
  BY <1>6, <1>2, <1>3 DEF Restart
<1>7. ASSUME NEW j \in jobs, DetachedRename(j)
      PROVE  excused.doomed \subseteq excused'.doomed /\ acked' = acked
  BY <1>7, <1>a DEF DetachedRename, Excuses
<1>8. ASSUME NEW r \in Requests, Commit(r) PROVE excused.doomed \subseteq excused'.doomed
  BY <1>8 DEF Commit
<1>9. UNCHANGED vars => excused' = excused /\ acked' = acked
  BY DEF vars
<1> QED BY <1>1, <1>2, <1>4, <1>5, <1>6, <1>7, <1>8, <1>9, StepKinds, WorksQuiet

-----------------------------------------------------------------------------
(* What the answers promise of a node holds in a registry.                  *)
Honors(a, doomed, n, reg) ==
    /\ a.state = "out" => reg.nodes[n] = None
    /\ a.state = "in" => reg.nodes[n] # None \/ n \in doomed
    /\ a.state = "in" /\ reg.nodes[n] # None =>
         /\ reg.nodes[n].key \in {a.key} \cup a.lost
         /\ a.beaten = TRUE => reg.nodes[n].beaten = TRUE

KeptInv ==
    excused.late = FALSE =>
        \A reg \in Current, n \in NodeIds : Honors(acked[n], excused.doomed, n, reg)

LEMMA HonorsOn ==
    ASSUME NEW a, NEW b, NEW D, NEW E, NEW n, NEW reg, Honors(a, D, n, reg),
           Same(a, b) \/ b.state = "begun", D \subseteq E
    PROVE  Honors(b, E, n, reg)
BY DEF Honors, Same

(* The registry that the holder of the lock has made honors all that was    *)
(* promised but the answer its handler will give.                           *)
LEMMA SnapHonors ==
    ASSUME Types, LockInv, BirthInv, KeptInv, excused.late = FALSE,
           NEW r \in Requests, lock = r, NEW n \in NodeIds
    PROVE  LET q == req[r]
               m == mem.nodes[n]
               s == q.snap.nodes[n]
           IN  /\ Honors(acked[n], excused.doomed, n, mem)
               /\ q.op \in OrgOps \/ q.node # n => s = m
               /\ q.op \in NodeOps /\ q.node = n =>
                    /\ q.op = "register" => /\ acked[n].state = "begun" /\ acked[n].key = 1
                                            /\ acked[n].beaten = FALSE /\ s # None /\ s.key = 1
                    /\ q.op # "register" => m # None /\ acked[n].state # "out"
                    /\ q.op = "remove" => s = None /\ n \in excused.doomed
                    /\ q.op # "remove" => s # None
                    /\ q.op = "reissue" => s.key = q.key
                    /\ q.op \in {"patch", "heartbeat"} => s.key = m.key
                    /\ q.op \in {"patch", "reissue"} => s.beaten = m.beaten
                    /\ q.op = "heartbeat" => s.beaten = TRUE
<1>1. Follows(mem, req[r], req[r].snap) /\ req[r].op \in OrgOps \cup NodeOps
  BY DEF LockInv, Types, Fits
<1>2. Honors(acked[n], excused.doomed, n, mem)
  BY DEF KeptInv, Current
<1>3. /\ Registering(r, n) => /\ acked[n].state = "begun" /\ acked[n].key = 1
                              /\ acked[n].beaten = FALSE
      /\ Removing(r, n) => n \in excused.doomed
  BY DEF BirthInv, Unborn
<1>4. req[r].op \in NodeOps \ {"register"} /\ req[r].node = n => mem.nodes[n] # None
  BY <1>1 DEF Follows
<1>5. req[r].op \in OrgOps \/ req[r].node # n => req[r].snap.nodes[n] = mem.nodes[n]
  BY <1>1 DEF Follows
<1>6. req[r].op \in NodeOps \ {"register"} /\ req[r].node = n => acked[n].state # "out"
  BY <1>2, <1>4 DEF Honors
<1> QED BY <1>1, <1>2, <1>3, <1>4, <1>5, <1>6 DEF Follows, Registering, Removing, NodeOps

(* What an answer adds to the promises made.                                *)
LEMMA AnsweredAdds ==
    ASSUME Types, NEW q \in Req, Fits(q), q.op \in OrgOps \cup NodeOps, NEW n \in NodeIds
    PROVE  LET b == Answered(q)[n]
               a == acked[n]
           IN  /\ b.lost = a.lost
               /\ q.op \in OrgOps \/ q.node # n => b = a
               /\ q.op \in NodeOps /\ q.node = n =>
                    /\ q.op = "register" => b.state = "in"
                    /\ q.op = "remove" => b.state = "out"
                    /\ q.op \notin {"register", "remove"} => b.state = a.state
                    /\ q.op = "reissue" => b.key = q.key
                    /\ q.op # "reissue" => b.key = a.key
                    /\ q.op # "heartbeat" => b.beaten = a.beaten
<1>1. acked \in [NodeIds -> Promise]
  BY DEF Types
<1>2. CASE q.op \in OrgOps
  BY <1>2, Zenon DEF OrgOps, NodeOps, Answered
<1>3. CASE q.op \in NodeOps
  <2>1. q.node \in NodeIds
    BY <1>3 DEF Fits
  <2>2. CASE q.node = n
    <3>1. CASE q.op = "register"
      BY <1>1, <2>2, <3>1 DEF Answered, Promise, OrgOps
    <3>2. CASE q.op = "remove"
      BY <1>1, <2>2, <3>2 DEF Answered, Promise, OrgOps
    <3>3. CASE q.op = "reissue"
      BY <1>1, <2>2, <3>3 DEF Answered, Promise, OrgOps
    <3>4. CASE q.op = "heartbeat"
      BY <1>1, <2>2, <3>4 DEF Answered, Promise, OrgOps
    <3>5. CASE q.op = "patch"
      BY <1>1, <2>2, <3>5 DEF Answered, Promise, OrgOps
    <3> QED BY <1>3, <3>1, <3>2, <3>3, <3>4, <3>5 DEF NodeOps
  <2>3. CASE q.node # n
    <3>1. Answered(q)[n] = acked[n]
      BY <1>1, <2>1, <2>3 DEF Answered
    <3> QED BY <2>3, <3>1 DEF OrgOps, NodeOps
  <2> QED BY <2>2, <2>3
<1> QED BY <1>2, <1>3

(* No step makes a current registry break a promise.                        *)
LEMMA KeptStep ==
    ASSUME Types, LockInv, BirthInv, KeptInv, [Next]_vars
    PROVE  KeptInv'
<1> SUFFICES ASSUME excused'.late = FALSE, NEW reg \in Current', NEW n \in NodeIds
             PROVE  Honors(acked'[n], excused'.doomed, n, reg)
  BY Zenon DEF KeptInv
<1>1. excused.late = FALSE
  BY CurrentStep, Zenon
<1>2. ASSUME NEW r \in Requests, Commit(r)
      PROVE  Honors(acked'[n], excused'.doomed, n, reg)
  <2>1. /\ reg = req[r].snap /\ lock = r /\ acked' = Answered(req[r]) /\ excused' = excused
    BY <1>2, CurrentStep, Zenon DEF Commit
  <2>2. req[r] \in Req /\ Fits(req[r]) /\ req[r].op \in OrgOps \cup NodeOps
    BY <2>1 DEF Types, LockInv, Fits
  <2> DEFINE q == req[r]
             a == acked[n]
             b == acked'[n]
             m == mem.nodes[n]
             s == reg.nodes[n]
  <2>3. /\ Honors(a, excused.doomed, n, mem)
        /\ q.op \in OrgOps \/ q.node # n => s = m
        /\ q.op \in NodeOps /\ q.node = n =>
             /\ q.op = "register" => /\ a.state = "begun" /\ a.key = 1
                                     /\ a.beaten = FALSE /\ s # None /\ s.key = 1
             /\ q.op # "register" => m # None /\ a.state # "out"
             /\ q.op = "remove" => s = None /\ n \in excused.doomed
             /\ q.op # "remove" => s # None
             /\ q.op = "reissue" => s.key = q.key
             /\ q.op \in {"patch", "heartbeat"} => s.key = m.key
             /\ q.op \in {"patch", "reissue"} => s.beaten = m.beaten
             /\ q.op = "heartbeat" => s.beaten = TRUE
    BY <1>1, <2>1, SnapHonors, Zenon
  <2>4. /\ b.lost = a.lost
        /\ q.op \in OrgOps \/ q.node # n => b = a
        /\ q.op \in NodeOps /\ q.node = n =>
             /\ q.op = "register" => b.state = "in"
             /\ q.op = "remove" => b.state = "out"
             /\ q.op \notin {"register", "remove"} => b.state = a.state
             /\ q.op = "reissue" => b.key = q.key
             /\ q.op # "reissue" => b.key = a.key
             /\ q.op # "heartbeat" => b.beaten = a.beaten
    BY <2>1, <2>2, AnsweredAdds
  <2> HIDE DEF q, a, b
  <2>5. Honors(b, excused.doomed, n, reg)
    <3>1. CASE q.op \in OrgOps \/ q.node # n
      BY <2>3, <2>4, <3>1 DEF Honors
    <3>2. CASE q.op \in NodeOps /\ q.node = n
      BY <2>3, <2>4, <3>2 DEF Honors, NodeOps
    <3> QED BY <2>2, <3>1, <3>2 DEF q
  <2> QED BY <2>1, <2>5 DEF b
<1>3. ASSUME \A r \in Requests : ~ Commit(r), reg \in Current
      PROVE  Honors(acked'[n], excused'.doomed, n, reg)
  BY <1>1, <1>3, AckedStep, HonorsOn DEF KeptInv
<1>4. ASSUME NEW r \in Requests, Drop(r), lock = r, reg = req[r].snap
      PROVE  Honors(acked'[n], excused'.doomed, n, reg)
  <2> DEFINE q == req[r]
             a == acked[n]
             b == acked'[n]
             m == mem.nodes[n]
             s == reg.nodes[n]
  <2>1. /\ Same(a, b) /\ (q.op = "reissue" /\ q.node = n => q.key \in b.lost)
        /\ excused.doomed \subseteq excused'.doomed
    BY <1>4, LostType, AckedStep, Zenon DEF Drop, Commit
  <2>2. q.op \in OrgOps \cup NodeOps
    BY <1>4 DEF Types, LockInv, Fits
  <2>3. /\ Honors(a, excused.doomed, n, mem)
        /\ q.op \in OrgOps \/ q.node # n => s = m
        /\ q.op \in NodeOps /\ q.node = n =>
             /\ q.op = "register" => a.state = "begun"
             /\ q.op # "register" => m # None /\ a.state # "out"
             /\ q.op = "remove" => s = None /\ n \in excused.doomed
             /\ q.op # "remove" => s # None
             /\ q.op = "reissue" => s.key = q.key
             /\ q.op \in {"patch", "heartbeat"} => s.key = m.key
             /\ q.op \in {"patch", "reissue"} => s.beaten = m.beaten
             /\ q.op = "heartbeat" => s.beaten = TRUE
    BY <1>1, <1>4, SnapHonors, Zenon
  <2> HIDE DEF q, a, b
  <2>4. Honors(b, excused'.doomed, n, reg)
    <3>1. CASE q.op \in OrgOps \/ q.node # n
      BY <2>1, <2>3, <3>1 DEF Honors, Same
    <3>2. CASE q.op \in NodeOps /\ q.node = n
      BY <2>1, <2>3, <3>2 DEF Honors, Same, NodeOps
    <3> QED BY <2>2, <3>1, <3>2
  <2> QED BY <2>4 DEF b
<1> QED BY <1>2, <1>3, <1>4, CurrentStep, Zenon

-----------------------------------------------------------------------------
(* A connector belongs to a node of every current registry or to a          *)
(* registration under way.  It is made after the id was drawn and is gone   *)
(* before the record of its node is.                                        *)
Owned(n, reg) ==
    \/ reg.nodes[n] # None \/ n \in excused.orphan
    \/ \E r \in Requests : Registering(r, n)

OwnedInv ==
    /\ excused.late = FALSE => \A reg \in Current, n \in cf : Owned(n, reg)
    /\ \A n \in cf : acked[n].state # "fresh"
    /\ \A r \in Requests, n \in cf :
          /\ Registering(r, n) => req[r].at # "connector"
          /\ Removing(r, n) => req[r].at \notin {"store", "rename"}

(* What the steps of a handler do to the connectors.                        *)
LEMMA WorksConnectors ==
    ASSUME Types, LockInv, NEW r \in Requests, Works(r), NEW n \in NodeIds
    PROVE  /\ n \in cf' \ cf => req[r].at = "connector" /\ Registering(r, n)
           /\ n \in cf \ cf' => \/ req[r].at = "cleanup" /\ Registering(r, n)
                                \/ req[r].at = "delete" /\ Removing(r, n)
                                \/ n \in excused'.swept
           /\ Registering(r, n) /\ n \in cf' =>
                 Registering(r, n)' \/ n \in excused'.orphan
                 \/ (req[r].at = "connector" /\ n \in cf)
           /\ req'[r].at # "connector"
           /\ req[r].at = "delete" /\ Removing(r, n) => req'[r].at = "idle" \/ n \notin cf'
           /\ req'[r].at \in {"store", "rename"} =>
                 \/ req[r].at = "store"
                 \/ req[r].at = "delete" /\ req[r].op = "remove"
                 \/ req[r].at = "token" /\ req[r].op = "register" /\ req[r].node \in cf'
<1>a. /\ req \in [Requests -> Req] /\ req[r] \in Req /\ Fits(req[r]) /\ excused \in Excuses
      /\ cf \subseteq Mesh /\ Mesh \subseteq NodeIds
  BY ConstantsOK DEF Types
<1>b. Idle.at = "idle"
  BY DEF Idle
<1>1. CASE Store(r)
  <2>1. PICK p : /\ Moves(r, p) /\ p.at \in {"idle", "cleanup", "rename"}
                 /\ p = Idle => ~ (req[r].op = "register" /\ req[r].node \in Mesh)
    BY <1>1, StoreMoves
  <2>2. req[r].at = "store" /\ UNCHANGED <<cf, excused>>
    BY <1>1 DEF Store
  <2>3. req'[r] = p /\ (p = Idle \/ (p.op = req[r].op /\ p.node = req[r].node))
    BY <2>1, <1>a DEF Moves
  <2> QED BY <2>1, <2>2, <2>3, <1>a DEF Registering, Removing
<1>2. CASE PersistFails(r)
  <2>1. req[r].at = "rename" /\ req' = Failed(r) /\ UNCHANGED <<cf, excused>>
    BY <1>2 DEF PersistFails, LockInv
  <2>2. req[r].op = "register" /\ req[r].node \in Mesh =>
           req'[r].at = "cleanup" /\ req'[r].op = req[r].op /\ req'[r].node = req[r].node
    BY <2>1, <1>a DEF Failed, Req
  <2>3. req[r].op # "register" \/ req[r].node \notin Mesh => req'[r] = Idle
    BY <2>1, <1>a DEF Failed
  <2> QED BY <2>1, <2>2, <2>3, <1>a, <1>b DEF Registering, Removing
<1>3. CASE CreateConnector(r)
  <2>1. req[r].at = "connector" /\ req[r].op = "register" /\ req[r].node \in Mesh
    BY <1>3, <1>a DEF CreateConnector, Fits
  <2>2. CASE cf' = cf \cup {req[r].node} /\ req' = [req EXCEPT ![r].at = "token"]
    <3>1. req'[r].at = "token" /\ req'[r].op = req[r].op /\ req'[r].node = req[r].node
      BY <2>2, <1>a DEF Req
    <3> QED BY <2>1, <2>2, <3>1 DEF Registering, Removing
  <2>3. CASE req' = [req EXCEPT ![r] = Idle] /\ UNCHANGED <<cf, excused>>
    BY <2>1, <2>3, <1>a, <1>b DEF Registering, Removing
  <2>4. CASE /\ cf' = cf \cup {req[r].node} /\ req' = [req EXCEPT ![r] = Idle]
             /\ excused' = Orphaned({req[r].node})
    <3>1. req[r].node \in excused'.orphan
      BY <2>4, <1>a DEF Orphaned, Excuses
    <3> QED BY <2>1, <2>4, <3>1, <1>a, <1>b DEF Registering, Removing
  <2> QED BY <1>3, <2>2, <2>3, <2>4 DEF CreateConnector
<1>4. CASE ConnectorToken(r)
  <2>1. /\ req[r].at = "token" /\ req[r].op = "register" /\ UNCHANGED <<cf, excused>>
    BY <1>4, <1>a DEF ConnectorToken, Fits
  <2>2. /\ req'[r].op = req[r].op /\ req'[r].node = req[r].node
        /\ (req'[r].at = "store" /\ req[r].node \in cf) \/ req'[r].at = "cleanup"
    BY <1>4, <1>a DEF ConnectorToken, Req
  <2> QED BY <2>1, <2>2 DEF Registering, Removing
<1>5. CASE CleanupConnector(r)
  <2>1. /\ req[r].at = "cleanup" /\ req[r].op = "register"
        /\ req'[r] = Idle
        /\ cf' = cf \ {req[r].node} \/ (cf' = cf /\ excused' = Orphaned({req[r].node}))
    BY <1>5, <1>a DEF CleanupConnector, Fits
  <2>2. excused' = Orphaned({req[r].node}) => req[r].node \in excused'.orphan
    BY <1>a DEF Orphaned, Excuses
  <2> QED BY <2>1, <2>2, <1>b DEF Registering, Removing
<1>6. CASE DeleteConnector(r)
  <2>1. /\ req[r].at = "delete" /\ req[r].op = "remove"
        /\ \/ cf' = cf \ {req[r].node} /\ req' = [req EXCEPT ![r].at = "store"]
           \/ cf' \in {cf, cf \ {req[r].node}} /\ req'[r] = Idle
    BY <1>6, <1>a DEF DeleteConnector, Fits
  <2>2. req' = [req EXCEPT ![r].at = "store"] => req'[r].at = "store"
    BY <1>a DEF Req
  <2> QED BY <2>1, <2>2, <1>b DEF Registering, Removing
<1>7. CASE ListConnectors(r)
  <2>1. /\ req[r].at = "list" /\ req[r].op = "reconcile" /\ UNCHANGED <<cf, excused>>
        /\ req'[r].at \in {"idle", "sweep"}
    BY <1>7, <1>a, <1>b DEF ListConnectors, Fits, Req
  <2> QED BY <2>1 DEF Registering, Removing
<1>8. ASSUME NEW c \in Mesh, SweepConnector(r, c)
      PROVE  /\ req[r].at = "sweep" /\ req[r].op = "reconcile"
             /\ req'[r].at \in {"idle", "sweep"} /\ cf' \subseteq cf
             /\ n \in cf \ cf' => n \in excused'.swept
  <2>1. /\ req[r].at = "sweep" /\ req[r].op = "reconcile" /\ c \in NodeIds \ req[r].known
        /\ cf' = cf \/ (cf' = cf \ {c} /\ excused' = [excused EXCEPT !.swept = @ \cup {c}])
    BY <1>8, <1>a DEF SweepConnector, Fits
  <2>2. req'[r] = Idle \/ req'[r].at = "sweep"
    BY <1>8, <1>a, <2>1 DEF SweepConnector, Req
  <2> QED BY <2>1, <2>2, <1>a, <1>b DEF Excuses
<1> QED BY <1>1, <1>2, <1>3, <1>4, <1>5, <1>6, <1>7, <1>8 DEF Works, Registering, Removing

LEMMA OwnedGoes ==
    ASSUME NEW n, NEW reg, Owned(n, reg), excused.orphan \subseteq excused'.orphan,
           \A r \in Requests : Registering(r, n) => Registering(r, n)' \/ n \in excused'.orphan
    PROVE  Owned(n, reg)'
BY DEF Owned

(* A node of the registry in memory is in the one that the holder of the    *)
(* lock has made, unless its handler removes it.                            *)
LEMMA SnapNodes ==
    ASSUME Types, LockInv, NEW r \in Requests, lock = r, NEW n \in NodeIds
    PROVE  /\ mem.nodes[n] # None => req[r].snap.nodes[n] # None \/ Removing(r, n)
           /\ req[r].snap.nodes[n] # None => mem.nodes[n] # None \/ Registering(r, n)
           /\ Registering(r, n) => req[r].snap.nodes[n] # None
           /\ req[r].at = "rename" /\ ~ (Registering(r, n) /\ Removing(r, n))
<1>1. Follows(mem, req[r], req[r].snap) /\ req[r].op \in OrgOps \cup NodeOps /\ req[r].at = "rename"
  BY DEF LockInv, Types, Fits
<1> QED BY <1>1 DEF Follows, Registering, Removing, OrgOps, NodeOps

(* The connectors that stopped handlers leave behind are accounted for.     *)
LEMMA LeftOrphans ==
    ASSUME Types, NEW R \in SUBSET Requests, excused' = Orphaned(LeftBehind(R))
    PROVE  /\ excused.orphan \subseteq excused'.orphan
           /\ \A r \in R : \A n \in cf : Registering(r, n) => n \in excused'.orphan
<1>1. excused \in Excuses
  BY DEF Types
<1>2. excused'.orphan = excused.orphan \cup LeftBehind(R)
  BY <1>1 DEF Orphaned, Excuses
<1>3. \A r \in R : \A n \in cf : Registering(r, n) => n \in LeftBehind(R)
  BY DEF LeftBehind, Registering
<1> QED BY <1>2, <1>3

LEMMA OwnedWorks ==
    ASSUME Types, LockInv, BirthInv, OwnedInv, NEW r \in Requests, Works(r)
    PROVE  OwnedInv'
<1>a. /\ UNCHANGED <<mem, disk, jobs, acked>> /\ excused'.late = excused.late
      /\ excused.orphan \subseteq excused'.orphan
  BY WorksQuiet
<1>b. /\ \A s \in Requests \ {r} : req'[s] = req[s]
      /\ \A s \in Requests : req'[s].op # "none" => req'[s].op = req[s].op /\ req'[s].node = req[s].node
  BY WorksQuiet, MovesOne
<1>c. cf \subseteq NodeIds /\ cf' \subseteq NodeIds /\ Current' = Current
  BY <1>a, TypesStep, ConstantsOK DEF Types, Current, Works, Next
<1>1. \A n \in cf' : n \in cf \/ Registering(r, n)
  BY <1>c, WorksConnectors
<1>2. ASSUME excused'.late = FALSE, NEW reg \in Current', NEW n \in cf' PROVE Owned(n, reg)'
  <2>1. n \in NodeIds
    BY <1>c
  <2>2. \A s \in Requests : Registering(s, n) => Registering(s, n)' \/ n \in excused'.orphan
    <3>1. Registering(r, n) => ~ (req[r].at = "connector" /\ n \in cf)
      BY DEF OwnedInv
    <3> QED BY <1>2, <2>1, <3>1, <1>b, WorksConnectors DEF Registering
  <2>3. n \in cf => Owned(n, reg)
    BY <1>2, <1>a, <1>c DEF OwnedInv
  <2>4. Registering(r, n) => Owned(n, reg)
    BY DEF Owned
  <2> QED BY <1>a, <1>1, <2>2, <2>3, <2>4, OwnedGoes
<1>3. ASSUME NEW n \in cf' PROVE acked'[n].state # "fresh"
  BY <1>3, <1>a, <1>1, <1>c DEF OwnedInv, BirthInv
<1>4. ASSUME NEW s \in Requests, NEW n \in cf', Registering(s, n)' PROVE req'[s].at # "connector"
  <2>1. n \in NodeIds /\ Registering(s, n)
    BY <1>4, <1>b, <1>c DEF Registering
  <2>2. CASE s = r
    BY <2>1, <2>2, WorksConnectors
  <2>3. CASE s # r
    BY <1>1, <1>b, <2>1, <2>3 DEF OwnedInv, BirthInv
  <2> QED BY <2>2, <2>3
<1>5. ASSUME NEW s \in Requests, NEW n \in cf', Removing(s, n)'
      PROVE  req'[s].at \notin {"store", "rename"}
  <2>1. n \in NodeIds /\ Removing(s, n)
    BY <1>5, <1>b, <1>c DEF Removing
  <2>2. n \in cf
    BY <1>1, <2>1 DEF BirthInv, Unborn
  <2>3. req[s].at \notin {"store", "rename"}
    BY <2>1, <2>2 DEF OwnedInv
  <2>4. CASE s = r
    BY <1>5, <2>1, <2>3, <2>4, <1>b, WorksConnectors DEF Removing
  <2>5. CASE s # r
    BY <2>3, <2>5, <1>b
  <2> QED BY <2>4, <2>5
<1> QED BY <1>2, <1>3, <1>4, <1>5, Zenon DEF OwnedInv

LEMMA OwnedBegins ==
    ASSUME Types, LockInv, BirthInv, OwnedInv, NEW r \in Requests, NEW q, Begins(r, q)
    PROVE  OwnedInv'
<1>a. /\ req'[r] = q /\ \A s \in Requests \ {r} : req'[s] = req[s]
      /\ req[r].op = "none"
  BY DEF Begins, Types, Idle
<1>b. UNCHANGED <<mem, disk, jobs, cf>> /\ Current' = Current
  BY DEF Begins, Current
<1>c. /\ excused'.late = excused.late /\ excused.orphan \subseteq excused'.orphan
      /\ cf \subseteq Mesh /\ cf \subseteq NodeIds
  BY ConstantsOK DEF Begins, Types, Excuses
<1>d. \A s \in Requests, n \in cf : Registering(s, n) => Registering(s, n)'
  BY <1>a DEF Registering
<1>1. ASSUME excused'.late = FALSE, NEW reg \in Current', NEW n \in cf' PROVE Owned(n, reg)'
  BY <1>1, <1>b, <1>c, <1>d, OwnedGoes DEF OwnedInv
<1>2. ASSUME NEW n \in cf' PROVE acked'[n].state # "fresh"
  <2>1. acked[n].state # "fresh" /\ n \in NodeIds
    BY <1>2, <1>b, <1>c DEF OwnedInv
  <2>2. acked \in [NodeIds -> Promise]
    BY DEF Types
  <2>3. CASE q.op = "register"
    BY <2>1, <2>2, <2>3 DEF Begins, Promise
  <2>4. CASE q.op # "register"
    BY <2>1, <2>4 DEF Begins, Same
  <2> QED BY <2>3, <2>4
<1>3. ASSUME NEW s \in Requests, NEW n \in cf'
      PROVE  /\ Registering(s, n)' => req'[s].at # "connector"
             /\ Removing(s, n)' => req'[s].at \notin {"store", "rename"}
  <2>1. CASE s = r
    BY <1>3, <1>a, <1>b, <1>c, <2>1 DEF Registering, Removing, Begins, OwnedInv
  <2>2. CASE s # r
    BY <1>3, <1>a, <1>b, <2>2 DEF Registering, Removing, OwnedInv
  <2> QED BY <2>1, <2>2
<1> QED BY <1>1, <1>2, <1>3, Zenon DEF OwnedInv

LEMMA OwnedStep ==
    ASSUME Types, LockInv, BirthInv, OwnedInv, [Next]_vars
    PROVE  OwnedInv'
<1>a. cf \subseteq NodeIds
  BY ConstantsOK DEF Types
(* A step that ends handlers and leaves the connectors as they are.         *)
<1>b. ASSUME cf' = cf, \A s \in Requests : req'[s] = Idle \/ req'[s] = req[s],
             \A n \in NodeIds : acked'[n].state = "fresh" => acked[n].state = "fresh",
             excused'.late = FALSE => \A reg \in Current', n \in cf : Owned(n, reg)'
      PROVE  OwnedInv'
  <2>1. \A s \in Requests, n \in NodeIds :
           /\ Registering(s, n)' => Registering(s, n) /\ req'[s].at = req[s].at
           /\ Removing(s, n)' => Removing(s, n) /\ req'[s].at = req[s].at
    BY <1>b DEF Registering, Removing, Idle
  <2> QED BY <1>a, <1>b, <2>1 DEF OwnedInv
<1>1. CASE UNCHANGED vars
  <2>1. UNCHANGED <<mem, disk, jobs, cf, req, acked, excused>>
    BY <1>1 DEF vars
  <2>2. Current' = Current /\ \A n \in cf : \A reg \in Current : Owned(n, reg) => Owned(n, reg)'
    BY <2>1 DEF Current, Owned, Registering
  <2>3. excused.late = FALSE => \A reg \in Current, n \in cf : Owned(n, reg)
    BY DEF OwnedInv
  <2> QED BY <1>b, <2>1, <2>2, <2>3, Zenon
<1>2. ASSUME NEW r \in Requests, Commit(r) PROVE OwnedInv'
  <2>1. /\ cf' = cf /\ excused' = excused /\ lock = r /\ req'[r] = Idle
        /\ \A s \in Requests \ {r} : req'[s] = req[s]
    BY <1>2 DEF Commit, Types
  <2>2. \A n \in NodeIds : acked'[n].state = "fresh" => acked[n].state = "fresh"
    <3>1. req[r] \in Req /\ Fits(req[r]) /\ req[r].op \in OrgOps \cup NodeOps
      BY <2>1 DEF Types, LockInv, Fits
    <3> QED BY <1>2, <3>1, AnsweredAdds DEF Commit, NodeOps, OrgOps
  <2>3. ASSUME excused'.late = FALSE, NEW reg \in Current', NEW n \in cf PROVE Owned(n, reg)'
    <3>1. reg = req[r].snap
      BY <1>2, <2>3, CurrentStep, Zenon
    <3>2. Owned(n, mem) /\ ~ Removing(r, n)
      BY <2>1, <2>3, <1>a, SnapNodes DEF OwnedInv, Current
    <3>3. Registering(r, n) => reg.nodes[n] # None
      BY <3>1, <2>1, <1>a, SnapNodes
    <3>4. \A s \in Requests : Registering(s, n) => s = r \/ Registering(s, n)'
      BY <2>1 DEF Registering
    <3>5. mem.nodes[n] # None => reg.nodes[n] # None
      BY <3>1, <3>2, <2>1, <1>a, SnapNodes
    <3> QED BY <2>1, <3>2, <3>3, <3>4, <3>5 DEF Owned
  <2> QED BY <1>b, <2>1, <2>2, <2>3, Zenon
<1>3. ASSUME NEW r \in Requests, Drop(r) PROVE OwnedInv'
  <2>1. /\ cf' = cf /\ excused' = Orphaned(LeftBehind({r})) /\ req'[r] = Idle
        /\ \A s \in Requests \ {r} : req'[s] = req[s]
    BY <1>3 DEF Drop, Types
  <2>2. \A n \in NodeIds : Same(acked[n], acked'[n])
    BY <1>3, LostType DEF Drop
  <2>3. ASSUME excused'.late = FALSE, NEW reg \in Current', NEW n \in cf PROVE Owned(n, reg)'
    <3>1. excused.late = FALSE /\ (reg \in Current \/ (lock = r /\ reg = req[r].snap))
      <4>1. \A s \in Requests : (Drop(s) \/ Commit(s)) /\ lock = s => s = r
        BY <1>3, <2>1 DEF Drop, Commit, Types, LockInv, Idle
      <4> QED BY <2>3, <4>1, CurrentStep, Zenon
    <3>2. /\ excused.orphan \subseteq excused'.orphan
          /\ \A s \in Requests : Registering(s, n) => Registering(s, n)' \/ n \in excused'.orphan
      BY <2>1, LeftOrphans, Zenon DEF Registering
    <3>3. reg \in Current => Owned(n, reg)
      BY <3>1 DEF OwnedInv
    <3>4. lock = r => ~ Removing(r, n) /\ Owned(n, mem)
      BY <3>1, <1>a, SnapNodes DEF OwnedInv, Current
    <3>5. lock = r /\ mem.nodes[n] # None => req[r].snap.nodes[n] # None
      BY <3>4, <1>a, SnapNodes
    <3>6. Owned(n, reg)
      BY <3>1, <3>3, <3>4, <3>5 DEF Owned
    <3> QED BY <3>2, <3>6, OwnedGoes
  <2> QED BY <1>b, <2>1, <2>2, <2>3, Zenon DEF Same
<1>4. ASSUME NEW j \in jobs, DetachedRename(j) PROVE OwnedInv'
  <2>1. /\ UNCHANGED <<cf, req, acked>> /\ excused'.orphan = excused.orphan
    BY <1>4 DEF DetachedRename, Types, Excuses
  <2>2. ASSUME excused'.late = FALSE, NEW reg \in Current', NEW n \in cf PROVE Owned(n, reg)'
    <3>1. excused.late = FALSE /\ reg \in Current
      <4>1. excused.late = FALSE /\ j.passed = FALSE
        BY <1>4, <2>2 DEF DetachedRename, Types, Excuses
      <4> QED BY <1>4, <2>2, <4>1 DEF DetachedRename, Current
    <3>2. Owned(n, reg)
      BY <3>1 DEF OwnedInv
    <3> QED BY <2>1, <3>2 DEF Owned, Registering
  <2> QED BY <1>b, <2>1, <2>2, Zenon
<1>5. CASE Restart
  <2>1. /\ cf' = cf /\ excused' = Orphaned(LeftBehind(Requests))
        /\ req' = [r \in Requests |-> Idle] /\ mem' = disk /\ disk' = disk /\ jobs' = {}
    BY <1>5 DEF Restart
  <2>2. \A n \in NodeIds : Same(acked[n], acked'[n])
    BY <1>5, LostType DEF Restart
  <2>3. ASSUME excused'.late = FALSE, NEW reg \in Current', NEW n \in cf PROVE Owned(n, reg)'
    <3>1. excused.late = FALSE /\ reg \in Current
      BY <2>1, <2>3, CurrentStep, Zenon DEF Current
    <3>2. /\ excused.orphan \subseteq excused'.orphan
          /\ \A s \in Requests : Registering(s, n) => n \in excused'.orphan
      BY <2>1, LeftOrphans
    <3> QED BY <3>1, <3>2, OwnedGoes DEF OwnedInv
  <2> QED BY <1>b, <2>1, <2>2, <2>3, Zenon DEF Same
<1> QED BY <1>1, <1>2, <1>3, <1>4, <1>5, StepKinds, OwnedWorks, OwnedBegins

-----------------------------------------------------------------------------
(* A Mesh node of a current registry has its connector, and so has one that *)
(* is about to be written.                                                  *)
Attached(n) == n \in cf \cup excused.doomed \cup excused.swept

LiveInv ==
    /\ excused.late = FALSE =>
         \A reg \in Current : \A n \in Mesh : reg.nodes[n] # None => Attached(n)
    /\ \A r \in Requests, n \in Mesh :
          Registering(r, n) /\ req[r].at \in {"store", "rename"} => n \in cf \cup excused.swept

LEMMA LiveWorks ==
    ASSUME Types, LockInv, BirthInv, LiveInv, NEW r \in Requests, Works(r)
    PROVE  LiveInv'
<1>a. /\ UNCHANGED <<mem, disk, jobs>> /\ excused'.late = excused.late
      /\ excused'.doomed = excused.doomed /\ excused.swept \subseteq excused'.swept
  BY WorksQuiet
<1>b. /\ \A s \in Requests \ {r} : req'[s] = req[s]
      /\ \A s \in Requests : req'[s].op # "none" => req'[s].op = req[s].op /\ req'[s].node = req[s].node
  BY WorksQuiet, MovesOne
<1>c. Mesh \subseteq NodeIds /\ Current' = Current
  BY <1>a, ConstantsOK DEF Current
<1>1. ASSUME NEW n \in Mesh, n \in cf \ cf', n \notin excused'.swept
      PROVE  \/ req[r].at = "cleanup" /\ Registering(r, n)
             \/ Removing(r, n)
  BY <1>1, <1>c, WorksConnectors
<1>2. ASSUME excused'.late = FALSE, NEW reg \in Current', NEW n \in Mesh, reg.nodes[n] # None
      PROVE  Attached(n)'
  <2>1. Attached(n)
    BY <1>2, <1>a, <1>c DEF LiveInv
  <2>2. ~ Registering(r, n)
    BY <1>2, <1>c DEF BirthInv, Unborn, Nowhere, Current
  <2>3. Removing(r, n) => n \in excused.doomed
    BY <1>c DEF BirthInv
  <2> QED BY <1>1, <1>a, <2>1, <2>2, <2>3 DEF Attached
<1>3. ASSUME NEW s \in Requests, NEW n \in Mesh, Registering(s, n)',
             req'[s].at \in {"store", "rename"}
      PROVE  n \in cf' \cup excused'.swept
  <2>1. Registering(s, n) /\ ~ Removing(r, n)
    BY <1>3, <1>b, <1>c DEF Registering, BirthInv, Unborn
  <2>2. CASE s = r
    <3>1. req[r].at \notin {"cleanup", "store", "rename"} => n \in cf'
      BY <1>3, <1>c, <2>1, <2>2, WorksConnectors DEF Registering
    <3>2. req[r].at # "cleanup"
      BY <1>3, <1>c, <2>2, WorksConnectors
    <3>3. req[r].at \in {"store", "rename"} => n \in cf \cup excused.swept
      BY <2>1, <2>2 DEF LiveInv
    <3> QED BY <1>1, <1>a, <2>1, <3>1, <3>2, <3>3
  <2>3. CASE s # r
    <3>1. n \in cf \cup excused.swept /\ ~ Registering(r, n)
      BY <1>3, <1>b, <1>c, <2>1, <2>3 DEF LiveInv, BirthInv
    <3> QED BY <1>1, <1>a, <2>1, <3>1
  <2> QED BY <2>2, <2>3
<1> QED BY <1>2, <1>3, Zenon DEF LiveInv

LEMMA LiveStep ==
    ASSUME Types, LockInv, BirthInv, LiveInv, [Next]_vars
    PROVE  LiveInv'
<1>a. Mesh \subseteq NodeIds /\ excused \in Excuses
  BY ConstantsOK DEF Types
(* A step that leaves the connectors as they are.                           *)
<1>b. ASSUME cf' = cf, excused.doomed \subseteq excused'.doomed, excused'.swept = excused.swept,
             \A s \in Requests, n \in Mesh :
                Registering(s, n)' /\ req'[s].at \in {"store", "rename"} =>
                Registering(s, n) /\ req'[s].at = req[s].at
      PROVE  LiveInv'
  <2>1. \A n \in Mesh : Attached(n) => Attached(n)'
    BY <1>b DEF Attached
  <2>2. ASSUME excused'.late = FALSE, NEW reg \in Current', NEW n \in Mesh, reg.nodes[n] # None
        PROVE  Attached(n)'
    <3>1. excused.late = FALSE
      BY <2>2, CurrentStep, Zenon
    <3>2. CASE reg \in Current
      BY <2>1, <2>2, <3>1, <3>2 DEF LiveInv
    <3>3. ASSUME NEW r \in Requests, lock = r, reg = req[r].snap PROVE Attached(n)'
      <4>1. mem.nodes[n] # None \/ (Registering(r, n) /\ req[r].at = "rename")
        BY <2>2, <3>3, <1>a, SnapNodes
      <4>2. Attached(n)
        BY <3>1, <4>1 DEF LiveInv, Current, Attached
      <4> QED BY <2>1, <4>2
    <3> QED BY <2>2, <3>2, <3>3, CurrentStep, Zenon
  <2> QED BY <1>b, <2>2, Zenon DEF LiveInv
<1>1. CASE UNCHANGED vars
  <2>1. UNCHANGED <<cf, req, excused>>
    BY <1>1 DEF vars
  <2> QED BY <1>b, <2>1 DEF Registering
<1>2. ASSUME NEW r \in Requests, NEW q, Begins(r, q) PROVE LiveInv'
  <2>1. req'[r] = q /\ cf' = cf /\ \A s \in Requests \ {r} : req'[s] = req[s]
    BY <1>2 DEF Begins, Types
  <2>2. excused.doomed \subseteq excused'.doomed /\ excused'.swept = excused.swept
    BY <1>2, <1>a DEF Begins, Excuses
  <2>3. q.op = "register" /\ q.node \in Mesh => q.at = "connector"
    BY <1>2 DEF Begins
  <2> QED BY <1>b, <2>1, <2>2, <2>3 DEF Registering
<1>3. ASSUME NEW r \in Requests, Commit(r) \/ Drop(r) PROVE LiveInv'
  <2>1. /\ req' = [req EXCEPT ![r] = Idle] /\ cf' = cf
        /\ excused' = excused \/ excused' = Orphaned(LeftBehind({r}))
    BY <1>3 DEF Commit, Drop
  <2>2. \A s \in Requests : req'[s] = Idle \/ req'[s] = req[s]
    BY <2>1 DEF Types
  <2>3. excused.doomed \subseteq excused'.doomed /\ excused'.swept = excused.swept
    BY <2>1, <1>a DEF Orphaned, Excuses
  <2> QED BY <1>b, <2>1, <2>2, <2>3 DEF Registering, Idle
<1>4. ASSUME NEW j \in jobs, DetachedRename(j) PROVE LiveInv'
  <2>1. UNCHANGED <<cf, req>> /\ excused'.doomed = excused.doomed /\ excused'.swept = excused.swept
    BY <1>4, <1>a DEF DetachedRename, Excuses
  <2> QED BY <1>b, <2>1 DEF Registering
<1>5. CASE Restart
  <2>1. /\ req' = [r \in Requests |-> Idle] /\ cf' = cf
        /\ excused' = Orphaned(LeftBehind(Requests))
    BY <1>5 DEF Restart
  <2>2. excused.doomed \subseteq excused'.doomed /\ excused'.swept = excused.swept
    BY <2>1, <1>a DEF Orphaned, Excuses
  <2> QED BY <1>b, <2>1, <2>2 DEF Registering, Idle
<1> QED BY <1>1, <1>2, <1>3, <1>4, <1>5, StepKinds, LiveWorks

-----------------------------------------------------------------------------
(* The inductive invariant of the control plane.                            *)
Inv == Types /\ LockInv /\ SoundInv /\ BirthInv /\ KeptInv /\ OwnedInv /\ LiveInv

LEMMA InvInit == Init => Inv
<1> SUFFICES ASSUME Init PROVE Inv
  OBVIOUS
<1>1. /\ mem = Empty /\ disk = Empty /\ jobs = {} /\ cf = {}
      /\ \A r \in Requests : req[r].op = "none" /\ req[r].at = "idle"
      /\ \A n \in NodeIds : /\ acked[n].state = "fresh" /\ acked[n].key = 1
                            /\ acked[n].beaten = FALSE /\ Empty.nodes[n] = None
  BY DEF Init, Idle, Empty
<1>2. SoundInv
  BY <1>1 DEF SoundInv, Sound, Registered
<1>3. BirthInv
  BY <1>1 DEF BirthInv, Unborn, Registering, Removing, Nowhere
<1>4. KeptInv
  BY <1>1 DEF KeptInv, Honors, Current
<1>5. OwnedInv
  BY <1>1 DEF OwnedInv
<1>6. LiveInv
  BY <1>1, ConstantsOK DEF LiveInv, Current, Registering
<1> QED BY <1>2, <1>3, <1>4, <1>5, <1>6, TypesInit, Zenon DEF Inv

LEMMA InvStep == Inv /\ [Next]_vars => Inv'
BY TypesStep, SoundStep, BirthStep, KeptStep, OwnedStep, LiveStep, Zenon DEF Inv

(* Every state the control server reaches satisfies the inductive           *)
(* invariant: its handlers, its registry and the account's connectors are   *)
(* as described above.                                                      *)
THEOREM InvTheorem == Spec => []Inv
BY InvInit, InvStep, PTL DEF Spec

(* The variables have their types; a handler is at its rename exactly while *)
(* it holds the mutex of JsonStore.                                         *)
THEOREM TypeCorrect == Spec => []TypeOK
<1>1. Inv => TypeOK
  BY DEF Inv, Types, LockInv, TypeOK, Req
<1> QED BY <1>1, InvTheorem, PTL

(* What was answered stays true of the registry, in memory and in its file, *)
(* and every node has an owner who may own it.                              *)
THEOREM RegistryKeptTheorem == Spec => []RegistryKept
<1>1. Inv => OwnerIsMember
  BY DEF Inv, SoundInv, Sound, OwnerIsMember
<1>2. ASSUME Inv PROVE AckedKept
  <2>1. excused.late \in BOOLEAN /\ acked \in [NodeIds -> Promise]
    BY <1>2 DEF Inv, Types, Excuses
  <2>2. ASSUME excused.late = FALSE, NEW reg \in {mem, disk}, NEW n \in NodeIds
        PROVE  /\ acked[n].state = "out" => n \notin Registered(reg)
               /\ acked[n].state = "in" => n \in Registered(reg) \/ n \in excused.doomed
               /\ acked[n].state = "in" /\ n \in Registered(reg) =>
                    /\ reg.nodes[n].key \in {acked[n].key} \cup acked[n].lost
                    /\ acked[n].beaten => reg.nodes[n].beaten
    <3>1. Honors(acked[n], excused.doomed, n, reg)
      BY <1>2, <2>2 DEF Inv, KeptInv, Current
    <3>2. acked[n].beaten \in BOOLEAN
      BY <2>1 DEF Promise
    <3> QED BY <3>1, <3>2 DEF Honors, Registered
  <2> QED BY <2>1, <2>2, Zenon DEF AckedKept
<1>3. Inv => RegistryKept
  BY <1>1, <1>2 DEF RegistryKept
<1> QED BY <1>3, InvTheorem, PTL

(* The connectors of the account and the registered nodes match, but for    *)
(* what was excused.                                                        *)
THEOREM ConnectorsMatchTheorem == Spec => []ConnectorsMatch
<1>1. ASSUME Inv PROVE ConnectorsMatch
  <2>1. excused.late \in BOOLEAN /\ mem \in Current /\ Mesh \subseteq NodeIds
    BY <1>1, ConstantsOK DEF Inv, Types, Excuses, Current
  <2>2. ConnectorOwned
    BY <1>1, <2>1 DEF Inv, OwnedInv, Owned, Registering, ConnectorOwned, Registered
  <2>3. ConnectorLive
    BY <1>1, <2>1 DEF Inv, LiveInv, Attached, ConnectorLive, Registered
  <2> QED BY <2>2, <2>3 DEF ConnectorsMatch
<1> QED BY <1>1, InvTheorem, PTL
=============================================================================
