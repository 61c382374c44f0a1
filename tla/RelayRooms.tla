----------------------------- MODULE RelayRooms -----------------------------
(***************************************************************************)
(* The relay: a WebSocket server that passes the binary frames of a client *)
(* to the others in its room (synergos-relay/src/server.rs), and the       *)
(* session a node opens with it (synergos-net/src/relay/mod.rs).           *)
(*                                                                         *)
(* A client stands for one connection.  The handlers of the connections    *)
(* run on several threads; a step is what one does to the table of rooms   *)
(* in one access.                                                          *)
(***************************************************************************)
EXTENDS Naturals, Sequences, FiniteSets

CONSTANTS Clients, RoomIds,
          Outside,     \* current_room: None
          MaxRooms,    \* max_rooms
          MaxClients,  \* max_clients_per_room
          QueueCap,    \* capacity of the channel to a client's writer
          Script       \* bound: the frames each client sends, a join first; a frame
                       \*   is a join, leave or close, or data with its number

VARIABLES rooms,    \* Rooms.rooms: the clients registered in each room
          handler,  \* per client: where handle_connection is, and its room
          up,       \* frames of the client the server has not read
          queue,    \* outbound channel of the client
          writer,   \* is the client's writer task running?
          net,      \* is the TCP connection there?
          session,  \* RelaySession at the client: none, open or dropped
          sent,     \* frames the client has sent
          inbox,    \* what the client's reader passed on
          cast      \* history: for each frame passed on, the clients it was for

relayVars == <<rooms, handler, up, queue, writer, net, session, sent, inbox, cast>>

Init ==
    /\ rooms = [r \in RoomIds |-> {}]
    /\ handler = [c \in Clients |-> [pc |-> "none", room |-> Outside]]
    /\ up = [c \in Clients |-> <<>>]
    /\ queue = [c \in Clients |-> <<>>]
    /\ writer = [c \in Clients |-> FALSE]
    /\ net = [c \in Clients |-> FALSE]
    /\ session = [c \in Clients |-> "none"]
    /\ sent = [c \in Clients |-> 0]
    /\ inbox = [c \in Clients |-> <<>>]
    /\ cast = {}

-----------------------------------------------------------------------------
(* The session of a node.                                                  *)

(* connect: the first frame is the join.  accept_async, alloc_id and the   *)
(* channel of the writer are the server's side of it.                      *)
connect(c) ==
    /\ session[c] = "none"
    /\ up' = [up EXCEPT ![c] = <<Script[c][1]>>]
    /\ session' = [session EXCEPT ![c] = "open"]
    /\ net' = [net EXCEPT ![c] = TRUE]
    /\ sent' = [sent EXCEPT ![c] = 1]
    /\ handler' = [handler EXCEPT ![c].pc = "read"]
    /\ writer' = [writer EXCEPT ![c] = TRUE]
    /\ UNCHANGED <<rooms, queue, inbox, cast>>

(* send, and the writer task of the session: the next frame, data or the   *)
(* control frame of a client that changes its room.                        *)
send(c) ==
    /\ session[c] = "open" /\ net[c] /\ sent[c] < Len(Script[c])
    /\ up' = [up EXCEPT ![c] = Append(@, Script[c][sent[c] + 1])]
    /\ sent' = [sent EXCEPT ![c] = @ + 1]
    /\ UNCHANGED <<rooms, handler, queue, writer, net, session, inbox, cast>>

(* shutdown and Drop: the supervisor is aborted, which leaves the reader   *)
(* and the connection as they are.                                         *)
drop(c) ==
    /\ session[c] = "open"
    /\ session' = [session EXCEPT ![c] = "dropped"]
    /\ UNCHANGED <<rooms, handler, up, queue, writer, net, sent, inbox, cast>>

(* The reader task: what arrives goes to recv, unless nobody can receive   *)
(* it any more; then the reader ends and the connection with it.           *)
reader(c, f) ==
    IF session[c] = "open"
    THEN inbox' = [inbox EXCEPT ![c] = Append(@, f)] /\ UNCHANGED net
    ELSE net' = [net EXCEPT ![c] = FALSE] /\ UNCHANGED inbox

-----------------------------------------------------------------------------
(* Rooms                                                                   *)
Full(r) == Cardinality({s \in RoomIds : rooms[s] # {}}) >= MaxRooms /\ rooms[r] = {}

(* Mutant: a client that leaves stays registered.                          *)
leave_forgotten(c) == UNCHANGED rooms

(* leave: the client is taken out; a room left empty disappears.           *)
leave(c) == rooms' = [r \in RoomIds |-> IF r = handler[c].room THEN rooms[r] \ {c} ELSE rooms[r]]

(* broadcast: everybody in the room but the sender.                        *)
mates(c) == rooms[handler[c].room] \ {c}

(* try_send: a frame for a full channel, or for a writer that has ended,   *)
(* is lost.                                                                *)
broadcast(c, f) ==
    /\ queue' = [d \in Clients |->
                   IF d \in mates(c) /\ writer[d] /\ Len(queue[d]) < QueueCap
                   THEN Append(queue[d], f) ELSE queue[d]]
    /\ cast' = cast \cup {[frame |-> f, to |-> mates(c)]}

(* The end of handle_connection: the client leaves its room and the        *)
(* channel closes, so that the writer ends after what is queued.           *)
cleanup(c) ==
    /\ handler' = [handler EXCEPT ![c] = [pc |-> "done", room |-> Outside]]
    /\ leave(c)
    /\ UNCHANGED <<queue, cast>>

(* handle_connection: one frame.                                           *)
handle_connection(c) ==
    /\ handler[c].pc = "read" /\ up[c] # <<>>
    /\ up' = [up EXCEPT ![c] = Tail(@)]
    /\ LET f == Head(up[c]) IN
       CASE f.frame = "join" /\ handler[c].room = Outside ->
              /\ handler' = [handler EXCEPT ![c] = [pc |-> "join", room |-> f.room]]
              /\ UNCHANGED <<rooms, queue, cast>>
         [] f.frame = "leave" /\ handler[c].room # Outside ->
              /\ leave(c)
              /\ handler' = [handler EXCEPT ![c].room = Outside]
              /\ UNCHANGED <<queue, cast>>
         [] f.frame = "data" /\ handler[c].room # Outside ->
              /\ broadcast(c, f) /\ UNCHANGED <<rooms, handler>>
         [] f.frame = "close" -> cleanup(c)
         [] OTHER -> UNCHANGED <<rooms, handler, queue, cast>>
    /\ UNCHANGED <<writer, net, session, sent, inbox>>

(* join: the number of rooms is looked at first, the room is entered in a  *)
(* second access.  A refused client is disconnected.                       *)
join(c) ==
    /\ handler[c].pc = "join"
    /\ IF Full(handler[c].room)
       THEN handler' = [handler EXCEPT ![c] = [pc |-> "done", room |-> Outside]]
       ELSE handler' = [handler EXCEPT ![c].pc = "enter"]
    /\ UNCHANGED <<rooms, up, queue, writer, net, session, sent, inbox, cast>>

enter(c) ==
    /\ handler[c].pc = "enter"
    /\ LET r == handler[c].room IN
       IF Cardinality(rooms[r]) >= MaxClients
       THEN /\ handler' = [handler EXCEPT ![c] = [pc |-> "done", room |-> Outside]]
            /\ UNCHANGED rooms
       ELSE /\ rooms' = [rooms EXCEPT ![r] = @ \cup {c}]
            /\ handler' = [handler EXCEPT ![c].pc = "read"]
    /\ UNCHANGED <<up, queue, writer, net, session, sent, inbox, cast>>

(* A read error ends the handler at the `?`: no clean-up.                  *)
read_error(c) ==
    /\ handler[c].pc = "read" /\ up[c] = <<>> /\ ~net[c]
    /\ handler' = [handler EXCEPT ![c].pc = "failed"]
    /\ UNCHANGED <<rooms, up, queue, writer, net, session, sent, inbox, cast>>

(* The writer task of the connection.  Its channel is closed when neither  *)
(* the handler nor a room holds the sender.                                *)
write_out(c) ==
    /\ writer[c]
    /\ \/ /\ queue[c] # <<>> /\ net[c]
          /\ reader(c, Head(queue[c]))
          /\ queue' = [queue EXCEPT ![c] = Tail(@)] /\ UNCHANGED writer
       \/ /\ queue[c] # <<>> /\ ~net[c]
          /\ writer' = [writer EXCEPT ![c] = FALSE]
          /\ queue' = [queue EXCEPT ![c] = <<>>] /\ UNCHANGED <<net, inbox>>
       \/ /\ queue[c] = <<>> /\ handler[c].pc \in {"done", "failed"}
          /\ \A r \in RoomIds : c \notin rooms[r]
          /\ writer' = [writer EXCEPT ![c] = FALSE]
          /\ net' = [net EXCEPT ![c] = FALSE] /\ UNCHANGED <<queue, inbox>>
    /\ UNCHANGED <<rooms, handler, up, session, sent, cast>>

(* The connection is lost; what the client wrote may still be read.        *)
lose(c) ==
    /\ net[c] /\ net' = [net EXCEPT ![c] = FALSE]
    /\ UNCHANGED <<rooms, handler, up, queue, writer, session, sent, inbox, cast>>

Next == \E c \in Clients :
    \/ connect(c) \/ send(c) \/ drop(c) \/ handle_connection(c) \/ join(c)
    \/ enter(c) \/ read_error(c) \/ write_out(c) \/ lose(c)

-----------------------------------------------------------------------------
(* What a room promises: a client is registered exactly where its handler  *)
(* believes it is, and nowhere once the handler has ended otherwise than   *)
(* by a read error; and a client receives a frame only if it shared the    *)
(* sender's room when the frame was passed on, never its own, never twice  *)
(* and in the order the sender sent them (Rooms, handle_connection).       *)
RoomKept ==
    /\ \A c \in Clients, r \in RoomIds :
         c \in rooms[r] <=> handler[c].room = r /\ handler[c].pc \in {"read", "failed"}
    /\ \A c \in Clients : LET got == inbox[c] IN
         /\ \A i \in DOMAIN got :
              /\ got[i].from # c
              /\ \E m \in cast : m.frame = got[i] /\ c \in m.to
         /\ \A i, j \in DOMAIN got :
              i < j /\ got[i].from = got[j].from => got[i].n < got[j].n
=============================================================================
