----------------------------- MODULE IpcSession -----------------------------
(***************************************************************************)
(* The local socket of the daemon: what a client sends and receives        *)
(* (synergos-ipc/src/client.rs, transport.rs), the session that answers it *)
(* and relays events to it (ipc_server.rs), and the event bus              *)
(* (event_bus.rs).  Answers and events share one stream; an answer carries *)
(* no number, the client pairs it with the oldest command that waits.      *)
(*                                                                         *)
(* A frame is read and written whole.  What a command does is left to the  *)
(* other modules.                                                          *)
(***************************************************************************)
EXTENDS Naturals, Sequences, SequencesExt

CONSTANTS Clients,
          Kinds,       \* event types of the bus, each with its channel
          Emitted,     \* the events that may occur: a kind and a project
          NoProject,   \* of an event of no project
          Scripts,     \* bound: the sequences of commands a client may send
          ChannelCap,  \* CHANNEL_CAPACITY
          Failures,    \* deviations: "oversized" command, "unsent" answer,
                       \* frame left "torn" by an abort
          MaxEvents    \* bound: events emitted

VARIABLES link,       \* per client: none, open, or exited
          reading,    \* clients whose reader task runs
          cmds,       \* commands on their way to the server
          wire,       \* messages on their way to the client
          pending,    \* ClientInner.pending: the commands that wait, oldest first
          waiting,    \* the send whose answer somebody awaits, or 0
          script, nsent,  \* the commands of a client, how many it has sent
          session,    \* handle_client_generic: where it is, the command it holds
          relay,      \* the relay task of the client's subscription
          late,       \* a relay aborted while it was writing: its last event
          nsub,       \* subscriptions so far
          log,        \* per kind: everything sent to its channel
          channel,    \* kinds whose channel exists
          nevents,
          paired,     \* history: the send that was last given an answer, and of what
          gotten      \* history: per client, the events it received

ipcVars == <<link, reading, cmds, wire, pending, waiting, script, nsent, session,
             relay, late, nsub, log, channel, nevents, paired, gotten>>

client == <<link, reading, pending, waiting, script, nsent, paired, gotten>>
bus == <<log, channel, nevents>>

Idle == [pc |-> "none"]
NoRelay == [pc |-> "none", sub |-> 0, filters |-> {}, from |-> <<>>, next |-> <<>>,
            lagged |-> {}, event |-> <<>>]
Nothing == <<>>

Init ==
    /\ link = [c \in Clients |-> "none"]
    /\ reading = {}
    /\ cmds = [c \in Clients |-> <<>>]
    /\ wire = [c \in Clients |-> <<>>]
    /\ pending = [c \in Clients |-> <<>>]
    /\ waiting = [c \in Clients |-> 0]
    /\ script \in [Clients -> Scripts]
    /\ nsent = [c \in Clients |-> 0]
    /\ session = [c \in Clients |-> Idle]
    /\ relay = [c \in Clients |-> NoRelay]
    /\ late = [c \in Clients |-> Nothing]
    /\ nsub = [c \in Clients |-> 0]
    /\ log = [k \in Kinds |-> <<>>]
    /\ channel = {}
    /\ nevents = 0
    /\ paired = <<0, 0>>
    /\ gotten = [c \in Clients |-> <<>>]

-----------------------------------------------------------------------------
(* The event bus.                                                          *)

(* emit: an event of a kind nobody ever subscribed to is dropped.          *)
emit(e) ==
    /\ e.kind \in channel /\ nevents < MaxEvents
    /\ nevents' = nevents + 1
    /\ log' = [log EXCEPT ![e.kind] =
                 Append(@, [kind |-> e.kind, project |-> e.project, n |-> nevents'])]
    /\ UNCHANGED <<client, cmds, wire, session, relay, late, nsub, channel>>

(* subscribe: the channel is made on demand, the receiver starts at its    *)
(* end.                                                                    *)
subscribe == [k \in Kinds |-> Len(log[k])]

(* filter_event_one: an event of no project passes the filter of any.      *)
filter_event_one(f, e) ==
    CASE f.on = "All"      -> TRUE
      [] f.on = "Project"  -> e.project \in {f.is, NoProject}
      [] f.on = "Category" -> e.kind = f.is

(* filter_events: one filter that lets the event pass is enough.           *)
filter_events(filters, e) == \E f \in filters : filter_event_one(f, e)

-----------------------------------------------------------------------------
(* The client.                                                             *)

(* The server's half is closed once neither the session nor a relay has it. *)
Closed(c) == session[c].pc = "done" /\ relay[c].pc = "none" /\ late[c] = Nothing

(* connect, and run's accept: the session of the client starts.            *)
connect(c) ==
    /\ link[c] = "none"
    /\ link' = [link EXCEPT ![c] = "open"]
    /\ reading' = reading \cup {c}
    /\ session' = [session EXCEPT ![c] = [pc |-> "read"]]
    /\ UNCHANGED <<cmds, wire, pending, waiting, script, nsent,
                   relay, late, nsub, bus, paired, gotten>>

(* send: the waiter is queued and the command is written under one lock.   *)
(* Nothing reaches the server if the frame is too large, or the server has *)
(* closed the connection.                                                  *)
send(c) ==
    /\ link[c] = "open" /\ waiting[c] = 0 /\ nsent[c] < Len(script[c])
    /\ nsent' = [nsent EXCEPT ![c] = @ + 1]
    /\ pending' = [pending EXCEPT ![c] = Append(@, nsent'[c])]
    /\ LET cmd == script[c][nsent'[c]] IN
       IF session[c].pc = "done" \/ cmd.kind = "oversized"
       THEN UNCHANGED <<cmds, waiting>>
       ELSE /\ cmds' = [cmds EXCEPT ![c] = Append(@, nsent'[c])]
            /\ waiting' = [waiting EXCEPT ![c] = nsent'[c]]
    /\ UNCHANGED <<link, reading, wire, script, session, relay, late,
                   nsub, bus, paired, gotten>>

(* The caller stops waiting: the future of send is dropped.                *)
abandon(c) ==
    /\ waiting[c] # 0
    /\ waiting' = [waiting EXCEPT ![c] = 0]
    /\ UNCHANGED <<link, reading, cmds, wire, pending, script, nsent,
                   session, relay, late, nsub, bus, paired, gotten>>

(* As it would be if a response looked for a waiter that is still there.   *)
waiter_alive(c) == SelectSeq(pending[c], LAMBDA id : id = waiting[c])

(* A response is for the oldest waiter, present or not.                    *)
waiter(c) == pending[c]

(* reader_task: one message, or the end of the stream, at which whoever    *)
(* waits is told so.                                                       *)
reader_task(c) ==
    /\ c \in reading
    /\ wire[c] # <<>> \/ Closed(c)
    /\ IF wire[c] # <<>> /\ Head(wire[c]).is # "torn"
       THEN LET m == Head(wire[c]) IN
            /\ wire' = [wire EXCEPT ![c] = Tail(@)]
            /\ IF m.is = "event"
               THEN /\ gotten' = [gotten EXCEPT ![c] = Append(@, m)]
                    /\ UNCHANGED <<pending, waiting, paired>>
               ELSE /\ pending' = [pending EXCEPT ![c] = IF @ = <<>> THEN @ ELSE Tail(@)]
                    /\ IF waiter(c) # <<>> /\ Head(waiter(c)) = waiting[c]
                       THEN /\ paired' = <<waiting[c], m.of>>
                            /\ waiting' = [waiting EXCEPT ![c] = 0]
                       ELSE UNCHANGED <<paired, waiting>>
                    /\ UNCHANGED gotten
            /\ UNCHANGED reading
       ELSE /\ reading' = reading \ {c}
            /\ pending' = [pending EXCEPT ![c] = <<>>]
            /\ waiting' = [waiting EXCEPT ![c] = 0]
            /\ UNCHANGED <<wire, paired, gotten>>
    /\ UNCHANGED <<link, cmds, script, nsent, session, relay, late,
                   nsub, bus>>

(* The process of the client ends; only this closes its side, for the      *)
(* reader task keeps the connection of a client object that was dropped.   *)
exit(c) ==
    /\ link[c] = "open"
    /\ link' = [link EXCEPT ![c] = "exited"]
    /\ reading' = reading \ {c}
    /\ wire' = [wire EXCEPT ![c] = <<>>]
    /\ pending' = [pending EXCEPT ![c] = <<>>]
    /\ waiting' = [waiting EXCEPT ![c] = 0]
    /\ UNCHANGED <<cmds, script, nsent, session, relay, late, nsub,
                   bus, paired, gotten>>

-----------------------------------------------------------------------------
(* The session.                                                            *)

validate(cmd) == cmd.kind # "invalid"

(* abort: a relay that waits ends at once; one that is being polled may    *)
(* still finish what it is writing, or leave a part of the frame.          *)
abort(c) ==
    /\ relay' = [relay EXCEPT ![c] = NoRelay]
    /\ IF relay[c].pc = "write"
       THEN \E rest \in {"lost", "written"} \cup (Failures \cap {"torn"}) :
              /\ late' = [late EXCEPT ![c] = IF rest = "written" THEN relay[c].event ELSE @]
              /\ wire' = [wire EXCEPT ![c] = IF rest = "torn" THEN Append(@, [is |-> "torn"]) ELSE @]
       ELSE UNCHANGED <<late, wire>>

(* handle_client_generic: the next command, up to its answer.              *)
handle_client_generic(c) ==
    /\ session[c].pc = "read" /\ cmds[c] # <<>>
    /\ cmds' = [cmds EXCEPT ![c] = Tail(@)]
    /\ LET cmd == script[c][Head(cmds[c])] IN
       /\ session' = [session EXCEPT ![c] = [pc |-> "answer", id |-> Head(cmds[c])]]
       /\ IF validate(cmd) /\ cmd.kind \in {"subscribe", "unsubscribe"}
          THEN abort(c) ELSE UNCHANGED <<relay, late, wire>>
    /\ UNCHANGED <<client, nsub, bus>>

(* Mutant: a command that is not valid is passed over.                     *)
send_server_message_valid(c) ==
    wire' = IF validate(script[c][session[c].id])
            THEN [wire EXCEPT ![c] = Append(@, [is |-> "answer", of |-> session[c].id])] ELSE wire

(* send_server_message: every command is answered, an invalid one with an  *)
(* error.                                                                  *)
send_server_message(c) ==
    wire' = [wire EXCEPT ![c] = Append(@, [is |-> "answer", of |-> session[c].id])]

(* The answer, after dispatch_command for the commands other modules       *)
(* describe.  A subscription's relay is spawned after its answer.  At a    *)
(* write that fails the session ends, and the `?` does not abort the       *)
(* relay, which keeps the connection.                                      *)
answer(c) ==
    /\ session[c].pc = "answer"
    /\ \E fits \in IF "unsent" \in Failures THEN BOOLEAN ELSE {TRUE} :
       IF link[c] = "open" /\ fits
       THEN LET cmd == script[c][session[c].id] IN
            /\ send_server_message(c)
            /\ session' = [session EXCEPT ![c] = [pc |-> "read"]]
            /\ IF cmd.kind = "subscribe"
               THEN /\ nsub' = [nsub EXCEPT ![c] = @ + 1]
                    /\ relay' = [relay EXCEPT ![c] =
                         [NoRelay EXCEPT !.pc = "start", !.sub = nsub'[c], !.filters = cmd.filters]]
               ELSE UNCHANGED <<relay, nsub>>
       ELSE /\ session' = [session EXCEPT ![c] = [pc |-> "done"]]
            /\ UNCHANGED <<wire, relay, nsub>>
    /\ UNCHANGED <<client, cmds, late, bus>>

(* The client has disconnected.                                            *)
disconnected(c) ==
    /\ session[c].pc = "read" /\ cmds[c] = <<>> /\ link[c] = "exited"
    /\ session' = [session EXCEPT ![c] = [pc |-> "done"]]
    /\ abort(c)
    /\ UNCHANGED <<client, cmds, nsub, bus>>

-----------------------------------------------------------------------------
(* relay_events                                                            *)

relay_events(c) ==
    /\ relay[c].pc = "start"
    /\ relay' = [relay EXCEPT ![c].pc = "wait", ![c].from = subscribe, ![c].next = subscribe]
    /\ channel' = Kinds
    /\ UNCHANGED <<client, cmds, wire, session, late, nsub, log,
                   nevents>>

(* recv: a receiver that fell behind skips to the oldest event kept, and   *)
(* the error is passed over.                                               *)
recv(c, k) ==
    /\ relay[c].pc = "wait" /\ relay[c].next[k] < Len(log[k])
    /\ LET r == relay[c] IN
       relay' = [relay EXCEPT ![c] =
         IF Len(log[k]) - r.next[k] > ChannelCap
         THEN [r EXCEPT !.next[k] = Len(log[k]) - ChannelCap, !.lagged = @ \cup {k}]
         ELSE LET e == log[k][r.next[k] + 1] IN
              IF filter_events(r.filters, e)
              THEN [r EXCEPT !.next[k] = @ + 1, !.pc = "write",
                             !.event = [is |-> "event", sub |-> r.sub, event |-> e]]
              ELSE [r EXCEPT !.next[k] = @ + 1]]
    /\ UNCHANGED <<client, cmds, wire, session, late, nsub, bus>>

(* The event is written; the relay ends when nobody is there.              *)
relay_write(c) ==
    /\ relay[c].pc = "write"
    /\ IF link[c] = "open"
       THEN /\ wire' = [wire EXCEPT ![c] = Append(@, relay[c].event)]
            /\ relay' = [relay EXCEPT ![c].pc = "wait", ![c].event = <<>>]
       ELSE relay' = [relay EXCEPT ![c] = NoRelay] /\ UNCHANGED wire
    /\ UNCHANGED <<client, cmds, session, late, nsub, bus>>

late_write(c) ==
    /\ late[c] # Nothing
    /\ late' = [late EXCEPT ![c] = Nothing]
    /\ wire' = IF link[c] = "open" THEN [wire EXCEPT ![c] = Append(@, late[c])] ELSE wire
    /\ UNCHANGED <<client, cmds, session, relay, nsub, bus>>

Session(c) == handle_client_generic(c) \/ answer(c) \/ disconnected(c)
Relay(c) == relay_events(c) \/ (\E k \in Kinds : recv(c, k)) \/ relay_write(c) \/ late_write(c)

Next ==
    \/ \E c \in Clients :
         \/ connect(c) \/ send(c) \/ abandon(c) \/ reader_task(c) \/ exit(c)
         \/ handle_client_generic(c) \/ answer(c) \/ disconnected(c)
         \/ relay_events(c) \/ relay_write(c) \/ late_write(c)
         \/ \E k \in Kinds : recv(c, k)
    \/ \E e \in Emitted : emit(e)

(* The session, the relay and the client's reader are tasks the runtimes   *)
(* poll until they end.                                                    *)
Fairness == \A c \in Clients :
    WF_ipcVars(Session(c)) /\ WF_ipcVars(Relay(c)) /\ WF_ipcVars(reader_task(c))

-----------------------------------------------------------------------------
(* A send is given the answer to its own command, although commands whose  *)
(* caller stopped waiting and commands that are refused lie in between     *)
(* (send, reader_task, handle_client_generic).                             *)
AnswersMatch == paired[1] = paired[2]

(* The events of kind k that client c received through subscription i.     *)
Events(c, i, k) == SelectSeq(gotten[c], LAMBDA m : m.sub = i /\ m.event.kind = k)
Increasing(s) == \A i, j \in DOMAIN s : i < j => s[i].event.n < s[j].event.n

(* What a subscription promises: an event reaches a client at most once,   *)
(* those of one kind in the order they were emitted, and none that the     *)
(* filters pass is left out between the first and the last one taken       *)
(* unless the receiver fell behind (relay_events, filter_events).          *)
EventsDelivered == \A c \in Clients :
    /\ \A i, j \in DOMAIN gotten[c] :
         gotten[c][i].event.n = gotten[c][j].event.n => i = j
    /\ \A i \in 1..nsub[c], k \in Kinds : Increasing(Events(c, i, k))
    /\ LET r == relay[c]
           Sent == ToSet(gotten[c]) \cup ToSet(wire[c]) \cup {r.event}
       IN  r.pc \in {"wait", "write"} /\ c \in reading =>
           \A k \in Kinds \ r.lagged : \A n \in r.from[k] + 1 .. r.next[k] :
              (\E f \in r.filters : filter_event_one(f, log[k][n])) <=>
              [is |-> "event", sub |-> r.sub, event |-> log[k][n]] \in Sent

(* Whoever sends a command is told something in the end: the answer, or    *)
(* that the connection is gone (reader_task).                              *)
SendAnswered == \A c \in Clients, n \in UNION {DOMAIN s : s \in Scripts} : waiting[c] = n ~> waiting[c] # n
=============================================================================
