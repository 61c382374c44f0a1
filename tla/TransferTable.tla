--------------------------- MODULE TransferTable ---------------------------
(***************************************************************************)
(* One node's table of active transfers and its Want/Offer ledger, for one *)
(* file: the entries that fetch_file, share_and_send and                   *)
(* handle_incoming_transfer make, the task that carries a send out, and    *)
(* cancel, pause, resume and the periodic clean-up (exchange/mod.rs,       *)
(* chain/ledger.rs).                                                       *)
(***************************************************************************)
EXTENDS Naturals, Sequences, SequencesExt

CONSTANTS Ids,      \* bound: the transfer ids that are ever made
          Peers,    \* the other nodes
          Self,     \* this node
          Versions, \* versions of the file; 0 in a fetch is "any"
          NoOne     \* no offer

ASSUME TransferAssumption ==
    /\ Self \notin Peers /\ NoOne \notin Peers \cup {Self}
    /\ Versions \subseteq Nat \ {0}

VARIABLES transfers, \* Exchange.transfers: a function on the ids in the table
          used,      \* ids made so far
          task,      \* how far the task of a send is: hash, open or copy
          wants,     \* TransferLedger.wants: the states of this node's wants
          offers,    \* TransferLedger.offers: the sender of the last offer
          sent       \* history: the sends whose bytes all went out

vars == <<transfers, used, task, wants, offers, sent>>

Wanted == Versions \cup {0}
Table  == DOMAIN transfers
States == {"queued", "running", "paused", "completed", "failed", "cancelled"}
Finished == {"completed", "failed", "cancelled"}

Transfer(dir, p, v, state) ==
    [direction |-> dir, peer |-> p, version |-> v, state |-> state]

Put(id, t)       == [i \in Table \cup {id} |-> IF i = id THEN t ELSE transfers[i]]
SetState(id, s)  == IF id \in Table
                    THEN [transfers EXCEPT ![id].state = s] ELSE transfers
(* TransferId::generate                                                    *)
Fresh(id) == id \notin used /\ used' = used \cup {id}

Init ==
    /\ transfers = [i \in {} |-> {}]
    /\ used = {} /\ sent = {}
    /\ task = [i \in {} |-> {}]
    /\ wants = [v \in Wanted |-> <<>>]
    /\ offers = [v \in Wanted |-> NoOne]

-----------------------------------------------------------------------------
(* The ledger.                                                             *)

(* register_want: this node's want is a duplicate unless it was cancelled. *)
Duplicate(v) == \E i \in DOMAIN wants[v] : wants[v][i] # "cancelled"

(* A want that meets an offer is not entered.                              *)
RegisterWant(v) ==
    wants' = IF Duplicate(v) \/ offers[v] # NoOne THEN wants
             ELSE [wants EXCEPT ![v] = Append(@, "pending")]

RegisterOffer(v, p) == offers' = [offers EXCEPT ![v] = p]

(* mark_fulfilled marks the wants of that peer: the ledger holds only this *)
(* node's.                                                                 *)
MarkFulfilled(v, p) ==
    wants' = IF p # Self THEN wants
             ELSE [wants EXCEPT ![v] = [i \in DOMAIN @ |-> "fulfilled"]]

CancelWant(v) ==
    wants' = [wants EXCEPT ![v] = [i \in DOMAIN @ |-> "cancelled"]]

-----------------------------------------------------------------------------
(* Making entries.                                                         *)

(* fetch_file: an immediate match counts as running.                       *)
FetchFile(id, v, p) ==
    /\ Fresh(id)
    /\ transfers' = Put(id, IF ~Duplicate(v) /\ offers[v] # NoOne
                            THEN Transfer("receive", offers[v], v, "running")
                            ELSE Transfer("receive", p, v, "queued"))
    /\ RegisterWant(v)
    /\ UNCHANGED <<task, offers, sent>>

(* handle_file_offer                                                       *)
HandleFileOffer(p, v) ==
    /\ RegisterOffer(v, p)
    /\ UNCHANGED <<transfers, used, task, wants, sent>>

(* share_and_send: the entry, this node's offer, and the task that sends.  *)
ShareAndSend(id, p, v) ==
    /\ Fresh(id)
    /\ transfers' = Put(id, Transfer("send", p, v, "queued"))
    /\ RegisterOffer(v, Self)
    /\ task' = [i \in DOMAIN task \cup {id} |-> IF i = id THEN "hash" ELSE task[i]]
    /\ UNCHANGED <<wants, sent>>

(* The end of handle_incoming_transfer: an entry under the sender's id.    *)
ReceiveTransfer(id, p, v) ==
    /\ Fresh(id)
    /\ transfers' = Put(id, Transfer("receive", p, v, "completed"))
    /\ MarkFulfilled(v, p)
    /\ UNCHANGED <<task, offers, sent>>

-----------------------------------------------------------------------------
(* The task of a send.                                                     *)

At(id, stage) == id \in DOMAIN task /\ task[id] = stage
Goto(id, stage) == task' = [task EXCEPT ![id] = stage]
End(id) == task' = [i \in DOMAIN task \ {id} |-> task[i]]

(* hash_file fails or succeeds.                                            *)
HashFile(id) ==
    /\ At(id, "hash")
    /\ \/ Goto(id, "open") /\ UNCHANGED transfers
       \/ End(id) /\ transfers' = SetState(id, "failed")
    /\ UNCHANGED <<used, wants, offers, sent>>

(* execute_send: a stream or a file that cannot be opened ends the task    *)
(* with an error that spawn_send_after_share only logs.                    *)
OpenStream(id) ==
    /\ At(id, "open")
    /\ Goto(id, "copy") \/ End(id)
    /\ UNCHANGED <<transfers, used, wants, offers, sent>>

(* update_progress, once per 128 KiB.                                      *)
UpdateProgress(id) ==
    /\ At(id, "copy") /\ id \in Table /\ transfers[id].state = "queued"
    /\ transfers' = SetState(id, "running")
    /\ UNCHANGED <<used, task, wants, offers, sent>>

(* send_over_quic returned Ok: complete_transfer, whatever the state was.  *)
CompleteTransfer(id) ==
    /\ At(id, "copy")
    /\ End(id)
    /\ transfers' = SetState(id, "completed")
    /\ sent' = sent \cup {id}
    /\ IF id \in Table
       THEN MarkFulfilled(transfers[id].version, transfers[id].peer)
       ELSE UNCHANGED wants
    /\ UNCHANGED <<used, offers>>

(* A send that fails without its entry being told.                         *)
FailSilently(id) ==
    /\ At(id, "copy")
    /\ End(id)
    /\ UNCHANGED <<transfers, used, wants, offers, sent>>

(* send_over_quic returned an error: fail_transfer.                        *)
FailTransfer(id) ==
    /\ At(id, "copy")
    /\ End(id)
    /\ transfers' = SetState(id, "failed")
    /\ UNCHANGED <<used, wants, offers, sent>>

-----------------------------------------------------------------------------
(* Commands and clean-up.                                                  *)

(* (The pin that a cancelled fetch gives up belongs to FileExchange.)      *)
CancelTransfer(id) ==
    /\ transfers' = SetState(id, "cancelled")
    /\ IF transfers[id].direction = "receive"
       THEN CancelWant(transfers[id].version) ELSE UNCHANGED wants
    /\ UNCHANGED <<used, task, offers, sent>>

PauseTransfer(id) ==
    /\ transfers[id].state = "running"
    /\ transfers' = SetState(id, "paused")
    /\ UNCHANGED <<used, task, wants, offers, sent>>

ResumeTransfer(id) ==
    /\ transfers[id].state = "paused"
    /\ transfers' = SetState(id, "running")
    /\ UNCHANGED <<used, task, wants, offers, sent>>

GcFinishedTransfers ==
    /\ transfers' = [i \in {j \in Table : transfers[j].state \notin Finished}
                        |-> transfers[i]]
    /\ transfers' # transfers
    /\ UNCHANGED <<used, task, wants, offers, sent>>

-----------------------------------------------------------------------------
Requests == \E id \in Ids \ used, p \in Peers :
               \/ \E v \in Wanted : FetchFile(id, v, p)
               \/ \E v \in Versions : ShareAndSend(id, p, v)
                                       \/ ReceiveTransfer(id, p, v)
Offers   == \E p \in Peers, v \in Versions : HandleFileOffer(p, v)
SendTask(id) == \/ HashFile(id) \/ OpenStream(id) \/ UpdateProgress(id)
                \/ CompleteTransfer(id) \/ FailTransfer(id)
Commands == \E id \in Table : \/ CancelTransfer(id)
                              \/ PauseTransfer(id) \/ ResumeTransfer(id)

Next == \/ Requests \/ Offers \/ Commands \/ GcFinishedTransfers
        \/ \E id \in Ids : SendTask(id)

Spec == Init /\ [][Next]_vars

(* The runtime polls the task of every send until it ends.                 *)
FairSpec == Spec /\ \A id \in Ids : WF_vars(SendTask(id))

-----------------------------------------------------------------------------
(* Every entry has an id that was given out, a known peer, version and     *)
(* state.                                                                  *)
TypeOK ==
    /\ Table \subseteq used /\ used \subseteq Ids
    /\ \A id \in Table :
          /\ transfers[id].direction \in {"send", "receive"}
          /\ transfers[id].peer \in Peers \cup {Self}
          /\ transfers[id].version \in Wanted
          /\ transfers[id].state \in States
    /\ \A id \in DOMAIN task : task[id] \in {"hash", "open", "copy"}
    /\ \A v \in Wanted : offers[v] \in Peers \cup {Self, NoOne}

(* A send listed as completed put all its bytes on the stream: no command, *)
(* progress report or clean-up completes it (execute_send).                *)
CompletedWasSent ==
    \A id \in Table : transfers[id].direction = "send"
        /\ transfers[id].state = "completed" => id \in sent

(* The clean-up never takes the entry of a send that is under way: its     *)
(* task still has an entry unless the user cancelled it                    *)
(* (gc_finished_transfers against a running execute_send).                 *)
GcSparesRunning ==
    [][\A id \in DOMAIN task' \cap Table :
          transfers[id].state # "cancelled" => id \in DOMAIN transfers']_vars

(* Duplicate suppression of register_want: of one version there is at most *)
(* one want that is not cancelled, through any sequence of fetches,        *)
(* cancellations and offers.                                               *)
OneLiveWant ==
    \A v \in Wanted :
        Len(SelectSeq(wants[v], LAMBDA s : s # "cancelled")) <= 1

(* Once its stream and its file are open every send ends in the table as   *)
(* completed, failed or cancelled, or its entry is cleaned up, whatever    *)
(* commands come in between (execute_send, fail_transfer).                 *)
SendSettles ==
    \A id \in Ids :
        At(id, "copy") ~> (id \notin Table \/ transfers[id].state \in Finished)
=============================================================================
