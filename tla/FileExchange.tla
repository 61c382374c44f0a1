---------------------------- MODULE FileExchange ----------------------------
(***************************************************************************)
(* The update chain of one file of one project across several nodes: the   *)
(* publish of a version, the FileOffer and FileWant gossip it causes, the  *)
(* transfers that answer a FileWant from the working tree or from a        *)
(* history node's store, their reception, and the checkout / restore       *)
(* requests that pin an older version (exchange/mod.rs, checkout.rs,       *)
(* restore.rs, the gossip subscriber of daemon.rs, PublishUpdate of        *)
(* ipc_server.rs and the message cache of gossip/node.rs).                 *)
(*                                                                         *)
(* A handler that awaits, or that leaves its work to a spawned task, is    *)
(* split at that point: what it has yet to do is a record in tasks.  The   *)
(* constant Windows says which of these points other steps may fall into.  *)
(***************************************************************************)
EXTENDS Integers, FiniteSets, FiniteSetsExt

CONSTANTS Nodes,       \* the connected nodes that have the project open
          Publishers,  \* nodes whose user edits and publishes the file
          Historians,  \* nodes that run with [history] enabled
          Rewinders,   \* nodes whose user runs checkout, restore or fetch
          Restarters,  \* nodes whose daemon may be restarted
          Contents,    \* file contents, told apart by size and CRC
          MaxVersion,  \* bound: no publish numbers a version above it
          MaxRewinds,  \* bound: checkout, restore and fetch commands
          MaxRestarts, \* bound: daemon restarts
          CanLose,     \* may gossip sends and transfers fail?
          Windows,     \* the stages of tasks during which others may run
          None         \* no content

ASSUME ExchangeAssumption ==
    /\ Publishers \cup Historians \cup Rewinders \cup Restarters \subseteq Nodes
    /\ IsFiniteSet(Nodes) /\ None \notin Contents
    /\ {MaxVersion, MaxRewinds, MaxRestarts} \subseteq Nat
    /\ CanLose \in BOOLEAN
    /\ Windows \subseteq {"edit", "share", "send", "receive", "record"}

VARIABLES tree,      \* the file in the node's working tree
          shared,    \* Exchange.shared_files
          manifest,  \* the node's manifest entry
          high,      \* the node's high-water mark (state.json)
          archive,   \* the versions in the node's history store
          pin,       \* Exchange.pinned_fetches
          seen,      \* GossipNode.message_cache
          gossip,    \* gossip messages under way: <<receiver, message>>
          tasks,     \* handlers suspended at an await, and spawned tasks
          streams,   \* TXFR streams under way
          held,      \* history: the version the tree's content came as
          published, \* history: the entries some publish announced
          rewinds,   \* commands issued so far
          restarts   \* restarts so far

local == <<tree, shared, manifest, high, archive, pin, held>>
net   == <<seen, gossip>>
work  == <<tasks, streams>>
count == <<rewinds, restarts>>
vars  == <<local, net, work, published, count>>

Versions == 1 .. MaxVersion
NoRecord == [version |-> 0, content |-> None, path |-> "tree"]
NoEntry  == [version |-> 0, content |-> None]
Entry(v, c)     == [version |-> v, content |-> c]
Record(v, c, p) == [version |-> v, content |-> c, path |-> p]

(* The want as it would be without the version of the request.             *)
UnversionedWant(n, v) ==
    [type |-> "want", from |-> n, version |-> 0, content |-> None]

(* A gossip message is identified by its content, with no timestamp.       *)
Offer(n, v, c) == [type |-> "offer", from |-> n, version |-> v, content |-> c]
FileWant(n, v) == [type |-> "want", from |-> n, version |-> v, content |-> None]

Task(stage, n, peer, r, pinned) ==
    [stage |-> stage, node |-> n, peer |-> peer, version |-> r.version,
     content |-> r.content, path |-> r.path, pinned |-> pinned]

(* No task other than those of `mine` is at a point that the instance      *)
(* declares free of interleavings.                                         *)
Calm(mine) == \A t \in tasks \ mine : t.stage \in Windows

(* GossipNode: node n takes the messages of `got` from its peers, and      *)
(* publishes those of `put`: a message already in the cache is not sent.   *)
Gossip(n, got, put) ==
    /\ seen' = [seen EXCEPT ![n] = @ \cup got \cup put]
    /\ gossip' = (gossip \ ({n} \X got))
                     \cup ((Nodes \ {n}) \X (put \ seen[n]))

Init ==
    /\ tree = [n \in Nodes |-> None]
    /\ shared = [n \in Nodes |-> NoRecord]
    /\ manifest = [n \in Nodes |-> NoEntry]
    /\ high = [n \in Nodes |-> 0]
    /\ archive = [n \in Nodes |-> {}]
    /\ pin = [n \in Nodes |-> NoEntry]
    /\ seen = [n \in Nodes |-> {}]
    /\ held = [n \in Nodes |-> 0]
    /\ gossip = {} /\ tasks = {} /\ streams = {} /\ published = {}
    /\ rewinds = 0 /\ restarts = 0

-----------------------------------------------------------------------------
(* Publishing.                                                             *)

(* The user saves the file without publishing it.                          *)
Edit(n, c) ==
    /\ "edit" \in Windows /\ Calm({})
    /\ tree[n] # c /\ high[n] < MaxVersion
    /\ tree' = [tree EXCEPT ![n] = c]
    /\ UNCHANGED <<shared, manifest, high, archive, pin, held, net, work,
                   published, count>>

(* HistoryStore::archive: a version already held with other content is     *)
(* refused.                                                                *)
Archivable(n, e) == \A a \in archive[n] : a.version = e.version => a = e

Archived(n, e) ==
    IF n \in Historians /\ Archivable(n, e)
    THEN [archive EXCEPT ![n] = @ \cup {e}] ELSE archive

(* bump_file_version: the content of the manifest keeps its number, any    *)
(* other one is numbered above the high-water mark.                        *)
BumpedVersion(n, c) ==
    IF manifest[n].content = c THEN manifest[n].version ELSE high[n] + 1

(* PublishUpdate of content c, which is saved right before unless the      *)
(* instance lets edits stand unpublished.                                  *)
PublishUpdate(n, c) ==
    LET v == BumpedVersion(n, c)
    IN  /\ Calm({}) /\ v \in Versions
        /\ "edit" \in Windows => c = tree[n]
        /\ Archivable(n, Entry(v, c))
        /\ tree' = [tree EXCEPT ![n] = c]
        /\ manifest' = [manifest EXCEPT ![n] = Entry(v, c)]
        /\ high' = [high EXCEPT ![n] = Max({@, v})]
        /\ archive' = Archived(n, Entry(v, c))
        /\ pin' = [pin EXCEPT ![n] = NoEntry]
        /\ shared' = [shared EXCEPT ![n] = Record(v, c, "tree")]
        /\ held' = [held EXCEPT ![n] = v]
        /\ Gossip(n, {}, {Offer(n, v, c)})
        /\ published' = published \cup {Entry(v, c)}
        /\ UNCHANGED <<work, count>>

-----------------------------------------------------------------------------
(* The gossip subscriber.                                                  *)

(* GossipNode::deliver of a message that is in the cache.                  *)
DropDuplicate(n, m) ==
    /\ m \in seen[n] /\ Calm({})
    /\ Gossip(n, {m}, {})
    /\ UNCHANGED <<local, work, published, count>>

HasSharedFile(n, v) == shared[n].version >= v

(* A FileOffer makes the node want a version newer than the one it has.    *)
(* (An offer of the same version with other content is left to the         *)
(* conflict manager.)                                                      *)
HandleFileOffer(n, m) ==
    /\ m.type = "offer" /\ m \notin seen[n] /\ Calm({})
    /\ Gossip(n, {m}, IF HasSharedFile(n, m.version) THEN {}
                      ELSE {FileWant(n, m.version)})
    /\ UNCHANGED <<local, work, published, count>>

(* Serving the current record under whatever version was asked for.        *)
ServableAsAsked(n, v) ==
    IF shared[n].version # 0 /\ v # 0 THEN {[shared[n] EXCEPT !.version = v]}
    ELSE {}

(* What a node can serve for a FileWant: its shared record when the        *)
(* version asked for is 0 or the record's, else the stored version.        *)
Servable(n, v) ==
    IF shared[n].version # 0 /\ v \in {0, shared[n].version} THEN {shared[n]}
    ELSE {Record(a.version, a.content, "archive") :
             a \in {a \in archive[n] : a.version = v}}

(* handle_file_want spawns share_and_send with the record it found.        *)
HandleFileWant(n, m) ==
    /\ m.type = "want" /\ m \notin seen[n] /\ Calm({})
    /\ Gossip(n, {m}, {})
    /\ tasks' = tasks \cup {Task("share", n, m.from, r, FALSE) :
                              r \in Servable(n, m.version)}
    /\ UNCHANGED <<local, streams, published, count>>

-----------------------------------------------------------------------------
(* Sending.                                                                *)

(* share_file: registers the record it was given and offers it again.      *)
ShareFile(t) ==
    /\ t.stage = "share" /\ Calm({t})
    /\ shared' = [shared EXCEPT ![t.node] =
                     Record(t.version, t.content, t.path)]
    /\ Gossip(t.node, {}, {Offer(t.node, t.version, t.content)})
    /\ tasks' = (tasks \ {t}) \cup {[t EXCEPT !.stage = "send"]}
    /\ UNCHANGED <<tree, manifest, high, archive, pin, held, streams,
                   published, count>>

(* spawn_send_after_share: hashes and sends what is at the path by now.    *)
SendFile(t) ==
    LET c == IF t.path = "tree" THEN tree[t.node] ELSE t.content
    IN  /\ t.stage = "send" /\ Calm({t})
        /\ streams' = streams \cup {[to |-> t.peer, from |-> t.node,
                                     version |-> t.version, content |-> c]}
        /\ tasks' = tasks \ {t}
        /\ UNCHANGED <<local, net, published, count>>

-----------------------------------------------------------------------------
(* Receiving.                                                              *)

Pinned(n, v) == pin[n].version = v

(* Reception without the comparison with the local record ...              *)
AcceptableAlways(x) ==
    Pinned(x.to, x.version) => pin[x.to].content \in {None, x.content}

(* ... and with it even for a pinned version.                              *)
AcceptableUnpinned(x) ==
    \/ shared[x.to].version < x.version
    \/ shared[x.to].version = x.version /\ shared[x.to].content = x.content

(* The checks of handle_incoming_transfer: a pin on this version admits    *)
(* it if it has the content the pin expects; without a pin a version below *)
(* the record, or other content for the record's version, is refused.      *)
Acceptable(x) ==
    IF Pinned(x.to, x.version)
    THEN pin[x.to].content \in {None, x.content}
    ELSE \/ shared[x.to].version < x.version
         \/ shared[x.to].version = x.version /\ shared[x.to].content = x.content

AcceptTransfer(x) ==
    /\ Acceptable(x) /\ Calm({})
    /\ streams' = streams \ {x}
    /\ tasks' = tasks \cup {Task("receive", x.to, x.from,
                                 Record(x.version, x.content, "tree"),
                                 Pinned(x.to, x.version))}
    /\ UNCHANGED <<local, net, published, count>>

RefuseTransfer(x) ==
    /\ ~Acceptable(x) /\ Calm({})
    /\ streams' = streams \ {x}
    /\ UNCHANGED <<local, net, tasks, published, count>>

(* record_received_file: force is set for a pinned version.                *)
Recorded(n, e, force) ==
    IF force \/ manifest[n].version < e.version
    THEN [manifest EXCEPT ![n] = e] ELSE manifest

(* handle_incoming_transfer goes on: the file is replaced, and the record  *)
(* and the pin follow at once.                                             *)
InstallTransfer(t) ==
    LET n == t.node
    IN  /\ t.stage = "receive" /\ Calm({t})
        /\ tree' = [tree EXCEPT ![n] = t.content]
        /\ shared' = [shared EXCEPT ![n] = Record(t.version, t.content, "tree")]
        /\ pin' = [pin EXCEPT ![n] =
                      IF t.pinned /\ @.version # t.version THEN @ ELSE NoEntry]
        /\ held' = [held EXCEPT ![n] = t.version]
        /\ tasks' = (tasks \ {t}) \cup {[t EXCEPT !.stage = "record"]}
        /\ UNCHANGED <<manifest, high, archive, net, streams, published, count>>

(* The received hook without the high-water mark.                          *)
RecordWithoutMark(t) ==
    LET n == t.node
        e == Entry(t.version, t.content)
    IN  /\ t.stage = "record" /\ Calm({t})
        /\ manifest' = Recorded(n, e, t.pinned)
        /\ archive' = IF tree[n] = t.content THEN Archived(n, e) ELSE archive
        /\ tasks' = tasks \ {t}
        /\ UNCHANGED <<tree, shared, pin, high, held, net, streams, published,
                       count>>

(* ... then the received hook records the version in the manifest, and the *)
(* history store, if any, takes what is at the path if it still fits.      *)
RecordTransfer(t) ==
    LET n == t.node
        e == Entry(t.version, t.content)
    IN  /\ t.stage = "record" /\ Calm({t})
        /\ manifest' = Recorded(n, e, t.pinned)
        /\ high' = [high EXCEPT ![n] = Max({@, t.version})]
        /\ archive' = IF tree[n] = t.content THEN Archived(n, e) ELSE archive
        /\ tasks' = tasks \ {t}
        /\ UNCHANGED <<tree, shared, pin, held, net, streams, published, count>>

-----------------------------------------------------------------------------
(* Commands.                                                               *)

Command(n) ==
    /\ n \in Rewinders /\ rewinds < MaxRewinds /\ Calm({})
    /\ rewinds' = rewinds + 1
    /\ UNCHANGED <<work, published, restarts>>

(* request_version: pin the version, then ask for it.                      *)
RequestVersion(n, v, c) ==
    /\ pin' = [pin EXCEPT ![n] = Entry(v, c)]
    /\ Gossip(n, {}, {FileWant(n, v)})

(* checkout_project with a manifest that lists e.                          *)
Checkout(n, e) ==
    /\ Command(n)
    /\ manifest' = [manifest EXCEPT ![n] = e]
    /\ high' = [high EXCEPT ![n] = Max({@, e.version})]
    /\ UNCHANGED <<tree, archive>>
    /\ IF tree[n] = e.content
       THEN /\ shared' = [shared EXCEPT ![n] =
                             Record(e.version, e.content, "tree")]
            /\ pin' = [pin EXCEPT ![n] = NoEntry]
            /\ held' = [held EXCEPT ![n] = e.version]
            /\ UNCHANGED net
       ELSE /\ RequestVersion(n, e.version, e.content)
            /\ UNCHANGED <<shared, held>>

(* restore_file of a version in the node's own store.                      *)
RestoreLocally(n, e) ==
    /\ e \in archive[n] /\ Command(n)
    /\ tree' = [tree EXCEPT ![n] = e.content]
    /\ shared' = [shared EXCEPT ![n] = Record(e.version, e.content, "tree")]
    /\ pin' = [pin EXCEPT ![n] = NoEntry]
    /\ manifest' = Recorded(n, e, TRUE)
    /\ held' = [held EXCEPT ![n] = e.version]
    /\ high' = [high EXCEPT ![n] = Max({@, e.version})]
    /\ UNCHANGED <<archive, net>>

(* restore_file of any other version.                                      *)
RestoreRequest(n, v) ==
    /\ \A a \in archive[n] : a.version # v
    /\ Command(n)
    /\ RequestVersion(n, v, None)
    /\ UNCHANGED <<tree, shared, manifest, high, archive, held>>

(* TransferRequest asks for version 0, the latest one.                     *)
TransferRequest(n) ==
    /\ Command(n)
    /\ Gossip(n, {}, {FileWant(n, 0)})
    /\ UNCHANGED local

(* pinned_fetch finds the pin past PINNED_FETCH_TTL_MS, or cancel_transfer *)
(* of the fetch gives it up.                                               *)
PinExpires(n) ==
    /\ pin[n] # NoEntry /\ Calm({})
    /\ pin' = [pin EXCEPT ![n] = NoEntry]
    /\ UNCHANGED <<tree, shared, manifest, high, archive, held, net, work,
                   published, count>>

-----------------------------------------------------------------------------
(* Failures.                                                               *)

(* gossip send or open_stream fails: debug log, no retry.                  *)
LoseGossip(g) ==
    /\ CanLose /\ Calm({})
    /\ gossip' = gossip \ {g}
    /\ UNCHANGED <<local, seen, work, published, count>>

(* A transfer fails at either end: warn, no retry.                         *)
LoseTransfer(x) ==
    /\ CanLose /\ Calm({})
    /\ streams' = streams \ {x}
    /\ UNCHANGED <<local, net, tasks, published, count>>

(* The daemon restarts: the manifest, the marks, the tree and the store    *)
(* survive; restore_shared_files_from_manifests registers the file again   *)
(* if it still is what the manifest says.  The crash may fall anywhere     *)
(* except into a "record" stage that the instance declares closed.         *)
Restart(n) ==
    /\ n \in Restarters /\ restarts < MaxRestarts
    /\ Calm({t \in tasks : t.stage # "record"})
    /\ restarts' = restarts + 1
    /\ shared' = [shared EXCEPT ![n] =
                     IF manifest[n] # NoEntry /\ tree[n] = manifest[n].content
                     THEN Record(manifest[n].version, tree[n], "tree")
                     ELSE NoRecord]
    /\ pin' = [pin EXCEPT ![n] = NoEntry]
    /\ seen' = [seen EXCEPT ![n] = {}]
    /\ gossip' = {g \in gossip : g[1] # n}
    /\ tasks' = {t \in tasks : t.node # n}
    /\ streams' = {x \in streams : n \notin {x.to, x.from}}
    /\ UNCHANGED <<tree, manifest, high, archive, held, published, rewinds>>

-----------------------------------------------------------------------------
Subscriber == \E g \in gossip : \/ DropDuplicate(g[1], g[2])
                                \/ HandleFileOffer(g[1], g[2])
                                \/ HandleFileWant(g[1], g[2])
Sender     == \E t \in tasks : ShareFile(t) \/ SendFile(t)
Receiver   == \/ \E x \in streams : AcceptTransfer(x) \/ RefuseTransfer(x)
              \/ \E t \in tasks : InstallTransfer(t) \/ RecordTransfer(t)
User       == \/ \E n \in Publishers, c \in Contents :
                    Edit(n, c) \/ PublishUpdate(n, c)
              \/ \E n \in Rewinders : \/ \E e \in published : Checkout(n, e)
                                      \/ \E e \in archive[n] : RestoreLocally(n, e)
                                      \/ \E v \in Versions : RestoreRequest(n, v)
                                      \/ TransferRequest(n)
              \/ \E n \in Nodes : PinExpires(n)
Failure    == \/ \E g \in gossip : LoseGossip(g)
              \/ \E x \in streams : LoseTransfer(x)
              \/ \E n \in Restarters : Restart(n)

Next == Subscriber \/ Sender \/ Receiver \/ User \/ Failure

Spec == Init /\ [][Next]_vars

(* The tasks of the daemon's runtime and the streams it accepts make       *)
(* progress; users owe nothing.  Nothing is repeated, so that what is said *)
(* of progress is said without failures.                                   *)
Reliable == Subscriber \/ Sender \/ Receiver \/ User
FairSpec == Init /\ [][Reliable]_vars
                 /\ WF_vars(Subscriber) /\ WF_vars(Sender) /\ WF_vars(Receiver)

-----------------------------------------------------------------------------
(* Properties.                                                             *)

Entries == [version : Versions, content : Contents]

(* The state has the shape of Exchange, GossipNode and the files on disk.  *)
TypeOK ==
    /\ tree \in [Nodes -> Contents \cup {None}]
    /\ shared \in [Nodes -> {NoRecord} \cup
                     [version : Versions, content : Contents,
                      path : {"tree", "archive"}]]
    /\ manifest \in [Nodes -> Entries \cup {NoEntry}]
    /\ high \in [Nodes -> 0 .. MaxVersion] /\ held \in [Nodes -> 0 .. MaxVersion]
    /\ archive \in [Nodes -> SUBSET Entries]
    /\ pin \in [Nodes -> {NoEntry} \cup
                  [version : Versions, content : Contents \cup {None}]]
    /\ \A g \in gossip : g[1] \in Nodes /\ g[2].from \in Nodes \ {g[1]}
    /\ \A t \in tasks : t.node \in Nodes /\ t.peer \in Nodes \ {t.node}
    /\ \A x \in streams : x.to \in Nodes /\ x.from \in Nodes \ {x.to}
    /\ published \subseteq Entries

(* A received transfer replaces a newer version than its own, or other     *)
(* content of the same version, only while a checkout or restore still     *)
(* pins it (handle_incoming_transfer): ordinary and late transfers never   *)
(* turn the working tree back.                                             *)
NeverBackwards ==
    [][\A t \in tasks \ tasks' :
          t.stage = "receive" /\ restarts' = restarts =>
              \/ held[t.node] < t.version
              \/ held[t.node] = t.version /\ tree[t.node] = t.content
              \/ pin[t.node].version = t.version]_vars

(* The content of the working tree whose transfer was accepted as version  *)
(* v, and every stored version, is one that some node published as v: the  *)
(* label of share_and_send stays with the bytes it was made for.           *)
VersionNamesContent ==
    \A n \in Nodes :
        /\ shared[n] = NoRecord
               \/ Entry(shared[n].version, shared[n].content) \in published
        /\ archive[n] \subseteq published

(* A publish announces content under the number its manifest already has   *)
(* for that content, or under one above the version its tree came as: a    *)
(* received, restored or checked out version is recorded before the next   *)
(* bump_file_version.                                                      *)
PublishAboveHeld ==
    [][\A e \in published' \ published : \E n \in Publishers :
          manifest'[n] = e /\ (manifest[n] = e \/ held[n] < e.version)]_vars

(* The automatic update chain of the gossip subscriber: once a version is  *)
(* published every node with the project open gets it, or a newer one,     *)
(* unless somebody goes back to an older version.                          *)
AutoUpdate ==
    \A n \in Nodes, v \in Versions :
        (\E e \in published : e.version = v)
            ~> (HasSharedFile(n, v) \/ rewinds > 0)

(* A checkout or restore that has to wait for a version has asked for it:  *)
(* right after request_version its FileWant, or an answer to an earlier    *)
(* one, is under way.                                                      *)
RequestUnderWay ==
    [][\A n \in Nodes :
          pin'[n] # pin[n] /\ pin'[n] # NoEntry =>
              LET v == pin'[n].version
              IN  \/ \E k \in Nodes : <<k, FileWant(n, v)>> \in gossip'
                  \/ \E t \in tasks' : t.peer = n /\ t.version = v
                  \/ \E x \in streams' : x.to = n /\ x.version = v]_vars

(* A FileWant for a pinned version that reaches a history node which holds *)
(* the version with the content expected settles the pin: the version      *)
(* arrives, or the pin is overtaken by a later request, a newer version or *)
(* its expiry.                                                             *)
CheckoutServed ==
    \A n \in Rewinders, h \in Historians, v \in Versions :
        (/\ <<h, FileWant(n, v)>> \in gossip
         /\ FileWant(n, v) \notin seen[h]
         /\ pin[n].version = v
         /\ \E a \in archive[h] :
               a.version = v /\ pin[n].content \in {None, a.content})
        ~> pin[n].version # v

=============================================================================
