----------------------------- MODULE PeerStreams -----------------------------
(***************************************************************************)
(* Streams from one node to another over a connection.  The first four     *)
(* bytes of a stream, its magic, say which handler it is for               *)
(* (dispatch_peer_streams of daemon.rs); a magic no handler of the daemon  *)
(* has belongs to an application, which sends with PeerSendStream          *)
(* (ipc_server.rs) and receives an event.                                  *)
(*                                                                         *)
(* QUIC (external) delivers each stream on its own: data of a later one    *)
(* may arrive first, but streams are accepted in the order they were       *)
(* opened.                                                                 *)
(***************************************************************************)
EXTENDS Naturals, Sequences, FiniteSets, SequencesExt

CONSTANTS Opened,      \* what is sent: a sequence of [magic, size]
          Builtin,     \* DHT, transfer, gossip and bitswap
          MaxPayload   \* MAX_EXTENSION_PAYLOAD

VARIABLES conn,      \* is the connection there?
          stream,    \* per stream opened: what has been written, and has arrived
          answered,  \* PeerSendStream's answers: "none", "ok" or "error"
          loop,      \* dispatch_peer_streams: accept, magic or closed
          next,      \* the next stream to accept
          handler,   \* per stream: none, the handler that has it, or done
          emitted    \* PeerStreamReceived events, in order

streamVars == <<conn, stream, answered, loop, next, handler, emitted>>

Streams == DOMAIN Opened
Fresh == [written |-> "none", arrived |-> "none"]

Init ==
    /\ conn = TRUE
    /\ stream = [i \in Streams |-> Fresh]
    /\ answered = [i \in Streams |-> "none"]
    /\ loop = "accept" /\ next = 1
    /\ handler = [i \in Streams |-> "none"]
    /\ emitted = <<>>

Extension(i) == Opened[i].magic \notin Builtin
Before(i) == \A j \in Streams : j < i => stream[j].written # "none"

-----------------------------------------------------------------------------
(* The sender.                                                             *)

(* open_stream, and raw_connection with open_bi: not without a connection. *)
open_stream(i) == stream' = [stream EXCEPT ![i].written = "part"]

(* PeerSendStream, and the protocols of the daemon alike: the stream is    *)
(* opened ...                                                              *)
PeerSendStream(i) ==
    /\ stream[i].written = "none" /\ Before(i)
    /\ IF conn THEN open_stream(i) /\ UNCHANGED answered
       ELSE /\ answered' = [answered EXCEPT ![i] = "error"]
            /\ stream' = [stream EXCEPT ![i].written = "reset"]
    /\ UNCHANGED <<conn, loop, next, handler, emitted>>

(* ... magic and payload are written, and it is finished; or an error, or  *)
(* a task that is dropped, leaves it reset.                                *)
finish(i) ==
    /\ stream[i].written = "part"
    /\ \/ /\ conn
          /\ stream' = [stream EXCEPT ![i].written = "all"]
          /\ answered' = [answered EXCEPT ![i] = "ok"]
       \/ /\ stream' = [stream EXCEPT ![i].written = "reset"]
          /\ answered' = [answered EXCEPT ![i] = "error"]
    /\ UNCHANGED <<conn, loop, next, handler, emitted>>

-----------------------------------------------------------------------------
(* The connection (external): the magic of a stream arrives, and what      *)
(* follows, or the news that it was reset.                                 *)
Arrive(i) ==
    /\ conn
    /\ LET s == stream[i] IN
       \/ s.written \in {"part", "all"} /\ s.arrived = "none" /\ stream' = [stream EXCEPT ![i].arrived = "magic"]
       \/ s.written = "all" /\ s.arrived # "all" /\ stream' = [stream EXCEPT ![i].arrived = "all"]
       \/ s.written = "reset" /\ s.arrived # "reset" /\ answered[i] # "none"
          /\ stream' = [stream EXCEPT ![i].arrived = "reset"]
    /\ UNCHANGED <<conn, answered, loop, next, handler, emitted>>
Lose ==
    /\ conn /\ conn' = FALSE
    /\ UNCHANGED <<stream, answered, loop, next, handler, emitted>>

-----------------------------------------------------------------------------
(* The receiver.                                                           *)
Arrived(i) == stream[i].arrived # "none"
Later(i) == \E j \in Streams : j >= i /\ Arrived(j)

(* accept_bi: the next stream, once it or a later one is known of; an      *)
(* error when the connection is closed.                                    *)
accept_bi ==
    /\ loop = "accept"
    /\ \/ next \in Streams /\ Later(next) /\ loop' = "magic"
       \/ ~conn /\ loop' = "closed"
    /\ UNCHANGED <<conn, stream, answered, next, handler, emitted>>

(* As it would be if the loop gave up with a stream.                       *)
magic_failed_closes == "closed"

(* A stream whose magic cannot be read is passed over.                     *)
magic_failed == "accept"

(* dispatch_peer_streams: the magic is read, and a task spawned for the    *)
(* rest of the stream.                                                     *)
dispatch_peer_streams ==
    /\ loop = "magic"
    /\ \/ /\ stream[next].arrived \in {"magic", "all"}
          /\ handler' = [handler EXCEPT ![next] =
               IF Extension(next) THEN "extension" ELSE Opened[next].magic]
          /\ loop' = "accept"
       \/ /\ stream[next].arrived = "reset" \/ ~conn
          /\ loop' = magic_failed /\ UNCHANGED handler
    /\ next' = next + 1
    /\ UNCHANGED <<conn, stream, answered, emitted>>

(* read_to_end: all of it, or an error when it is reset or too long.       *)
read_to_end(i) ==
    /\ handler[i] = "extension"
    /\ \/ /\ stream[i].arrived = "all" /\ Opened[i].size <= MaxPayload
          /\ emitted' = Append(emitted, i)
       \/ /\ stream[i].arrived = "reset" \/ Opened[i].size > MaxPayload \/ (~conn /\ stream[i].arrived # "all")
          /\ UNCHANGED emitted
    /\ handler' = [handler EXCEPT ![i] = "done"]
    /\ UNCHANGED <<conn, stream, answered, loop, next>>

(* The handlers of DHT, transfer, gossip and bitswap streams.              *)
Handle(i) ==
    /\ handler[i] \in Builtin
    /\ handler' = [handler EXCEPT ![i] = "done"]
    /\ UNCHANGED <<conn, stream, answered, loop, next, emitted>>

Receive == accept_bi \/ dispatch_peer_streams
Next ==
    \/ Receive \/ Lose
    \/ \E i \in Streams :
         PeerSendStream(i) \/ finish(i) \/ Arrive(i) \/ read_to_end(i) \/ Handle(i)

(* Fairness: a stream that was begun is finished or reset, what is sent    *)
(* arrives while the connection lasts, and the tasks of the receiver run.  *)
Fairness ==
    /\ WF_streamVars(Receive)
    /\ WF_streamVars(\E i \in Streams : finish(i) \/ Arrive(i) \/ read_to_end(i))

-----------------------------------------------------------------------------
(* What was sent with PeerSendStream and answered with Ok reaches the      *)
(* application at the other end once and only once, unless it is too long  *)
(* or the connection is lost, whatever becomes of the streams before it    *)
(* (PeerSendStream, dispatch_peer_streams).                                *)
StreamDelivered ==
    /\ [](\A i, j \in DOMAIN emitted : emitted[i] = emitted[j] => i = j)
    /\ [](\A i \in DOMAIN emitted : Extension(emitted[i]) /\ answered[emitted[i]] = "ok")
    /\ \A i \in {j \in Streams : Extension(j) /\ Opened[j].size <= MaxPayload} :
         answered[i] = "ok" ~> ~conn \/ i \in ToSet(emitted)
=============================================================================
