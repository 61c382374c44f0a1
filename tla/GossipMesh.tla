----------------------------- MODULE GossipMesh -----------------------------
(***************************************************************************)
(* The gossip layer of one node: the peers it passes messages to on each   *)
(* topic, and the cache that suppresses what it has seen                   *)
(* (synergos-net/src/gossip/node.rs, gossip/transport.rs).  The cache is a *)
(* sequence, oldest first.  The streams of the peers are read by tasks of  *)
(* their own; a received message is not passed on.                         *)
(***************************************************************************)
EXTENDS Naturals, Sequences, FiniteSets, SequencesExt

CONSTANTS Topics, Contents, Neighbours,
          CacheSize,    \* message_cache_size
          MeshHigh,     \* mesh_n_high
          MaxMessages,  \* bound: messages accepted
          CheckWindow   \* may another task come between check and insert?

VARIABLES cache,     \* message_cache.seen
          mesh,      \* mesh: the peers of each subscribed topic
          stream,    \* tasks that read a message: none, read or checked
          accepted,  \* history: identities accepted, in order
          refused    \* history: how long ago a suppressed identity was accepted

meshVars == <<cache, mesh, stream, accepted, refused>>

(* message_id: the topic is part of it.                                    *)
message_id(topic, content) == <<topic, content>>

Free == [pc |-> "free", id |-> <<>>]
Subscribed == DOMAIN mesh

Init ==
    /\ cache = <<>> /\ mesh = <<>>
    /\ stream = [p \in Neighbours |-> Free]
    /\ accepted = <<>> /\ refused = 0

-----------------------------------------------------------------------------
(* MessageCache                                                            *)

(* Mutant: the newest entries are dropped.                                 *)
gc_newest(seen) ==
    LET target == IF CacheSize \div 4 > 1 THEN CacheSize \div 4 ELSE 1
    IN IF Len(seen) <= target THEN <<>> ELSE SubSeq(seen, 1, Len(seen) - target)

(* gc: the oldest quarter goes, at least one.                              *)
gc(seen) ==
    LET target == IF CacheSize \div 4 > 1 THEN CacheSize \div 4 ELSE 1
    IN IF Len(seen) <= target THEN <<>> ELSE SubSeq(seen, target + 1, Len(seen))

(* check_and_insert, for an identity not in the cache.                     *)
insert(id) ==
    /\ cache' = Append(IF Len(cache) >= CacheSize THEN gc(cache) ELSE SelectSeq(cache, LAMBDA i : i # id), id)
    /\ accepted' = Append(accepted, id)
    /\ UNCHANGED refused

(* How many other messages were accepted since this one.                   *)
Age(id) == Len(accepted) - (CHOOSE i \in DOMAIN accepted :
             accepted[i] = id /\ \A j \in (i + 1)..Len(accepted) : accepted[j] # id)

suppress(id) ==
    /\ refused' = IF Age(id) > refused THEN Age(id) ELSE refused
    /\ UNCHANGED <<cache, accepted>>

-----------------------------------------------------------------------------
With(t, peers) == [u \in Subscribed \cup {t} |-> IF u = t THEN peers ELSE mesh[u]]
PeersOf(t) == IF t \in Subscribed THEN mesh[t] ELSE <<>>
Bounded(peers) == SubSeq(peers, 1, IF Len(peers) < MeshHigh THEN Len(peers) ELSE MeshHigh)

subscribe(t) ==
    /\ t \notin Subscribed /\ mesh' = With(t, <<>>)
    /\ UNCHANGED <<cache, stream, accepted, refused>>

unsubscribe(t) ==
    /\ t \in Subscribed /\ mesh' = [u \in Subscribed \ {t} |-> mesh[u]]
    /\ UNCHANGED <<cache, stream, accepted, refused>>

(* enforce_mesh_bounds, and with it heartbeat                              *)
enforce_mesh_bounds(peers) == Bounded(peers)

(* graft: the topic is created if it is not there, and the peer added even *)
(* if it is.                                                               *)
graft(t, p) ==
    /\ mesh' = With(t, enforce_mesh_bounds(Append(PeersOf(t), p)))
    /\ UNCHANGED <<cache, stream, accepted, refused>>

prune(t, p) ==
    /\ t \in Subscribed /\ mesh' = With(t, SelectSeq(mesh[t], LAMBDA q : q # p))
    /\ UNCHANGED <<cache, stream, accepted, refused>>

(* publish: to the subscribers of this node, and signed to the peers.      *)
publish(t, c) ==
    /\ Len(accepted) < MaxMessages
    /\ LET id == message_id(t, c) IN
       IF id \in ToSet(cache)
       THEN suppress(id) ELSE insert(id)
    /\ UNCHANGED <<mesh, stream>>

-----------------------------------------------------------------------------
(* handle_gossip_stream: a frame too long, cut short or not decodable, or  *)
(* a signature that does not verify, ends it.                              *)
Receive(p, t, c) ==
    /\ stream[p] = Free /\ Len(accepted) < MaxMessages
    /\ stream' = [stream EXCEPT ![p] = [pc |-> "read", id |-> message_id(t, c)]]
    /\ UNCHANGED <<cache, mesh, accepted, refused>>

discard(p) ==
    /\ stream[p].pc = "read" /\ stream' = [stream EXCEPT ![p] = Free]
    /\ UNCHANGED <<cache, mesh, accepted, refused>>

(* on_signed_message_received, deliver                                     *)
deliver(p) ==
    /\ stream[p].pc \in {"read", "checked"}
    /\ LET id == stream[p].id IN
       IF stream[p].pc = "read" /\ id \in ToSet(cache)
       THEN suppress(id) /\ stream' = [stream EXCEPT ![p] = Free]
       ELSE IF stream[p].pc = "read" /\ CheckWindow
       THEN stream' = [stream EXCEPT ![p].pc = "checked"] /\ UNCHANGED <<cache, accepted, refused>>
       ELSE insert(id) /\ stream' = [stream EXCEPT ![p] = Free]
    /\ UNCHANGED mesh

Next ==
    \/ \E t \in Topics : \/ subscribe(t) \/ unsubscribe(t)
                         \/ \E p \in Neighbours : graft(t, p) \/ prune(t, p)
                         \/ \E c \in Contents : publish(t, c) \/ \E p \in Neighbours : Receive(p, t, c)
    \/ \E p \in Neighbours : discard(p) \/ deliver(p)

-----------------------------------------------------------------------------
Kept == CacheSize - (IF CacheSize \div 4 > 1 THEN CacheSize \div 4 ELSE 1) + 1

(* A message is not accepted twice while fewer than the three quarters of  *)
(* the cache that survive a gc have been accepted since, and one is        *)
(* suppressed only if it is among the last CacheSize accepted, so that a   *)
(* message repeated later gets through again; no topic has more peers than *)
(* the bound (MessageCache, graft).                                        *)
RecentSuppressed ==
    /\ \A i, j \in DOMAIN accepted : i < j /\ j - i < Kept => accepted[i] # accepted[j]
    /\ refused < CacheSize
    /\ \A t \in Subscribed : Len(mesh[t]) <= MeshHigh
=============================================================================
