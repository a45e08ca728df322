------------------------------- MODULE Outbox -------------------------------
(***************************************************************************)
(* The transactional outbox of the bot: how a VK message is sent, edited   *)
(* and withdrawn.                                                          *)
(*                                                                         *)
(* A handler inserts a row of outbox_messages in its own transaction, and  *)
(* may later finalize the card (edit it, without its buttons) or withdraw  *)
(* it; it locks the row from its first read until its commit.  One worker  *)
(* claims rows in three phases, finalize, delete and deliver, and waits    *)
(* for every job of a phase before the next one.  A job reads the row      *)
(* WITHOUT a lock, calls VK, and writes the columns it has changed.  VK    *)
(* reports every message it shows in an event of its own, which carries    *)
(* the id the bot needs to edit or delete it.                              *)
(*                                                                         *)
(* Retry delays, claim times and the age of a send are abstracted: a row   *)
(* that waits for its time may be due or not, whenever it is looked at.    *)
(***************************************************************************)

EXTENDS Naturals, FiniteSets

CONSTANTS
    Messages,   \* the messages of one peer
    PeerCap     \* so many unsent messages make a new one cancel the oldest

ASSUME MessagesAssumption == IsFiniteSet(Messages)
ASSUME PeerCapAssumption == PeerCap \in Nat \ {0}

VARIABLES
    row,     \* the committed row of each message
    tx,      \* the row as changed by the open transaction that has it locked
    job,     \* the executor's job on each message
    trim,    \* the rows a transaction that posts a message has chosen to cancel
    phase,   \* what the worker claims next
    screen,  \* what VK shows to the peer
    event,   \* the MESSAGE_REPLY event of each message
    over     \* the order of the card is cancelled or completed

vars == <<row, tx, job, trim, phase, screen, event, over>>

Statuses == {"none", "pending", "sending", "failed", "sent", "cancel_requested",
             "delete_requested", "deleting", "finalize_requested", "finalizing",
             "cancelled"}
Ids == {"none", "usable", "undeletable"}  \* what last_error says of the VK ids
Cards == {"live", "closed"}               \* the text with its buttons, or final
Row == [status: Statuses, ids: Ids, card: Cards, critical: BOOLEAN]
Screens == {"nothing", "live", "closed", "gone"}
Events == {"none", "due", "noting", "reviving", "done"}
Phases == {"finalize", "delete", "deliver"}

Unwritten == [status |-> "none", ids |-> "none", card |-> "live", critical |-> FALSE]
Posted(critical) == [Unwritten EXCEPT !.status = "pending", !.critical = critical]
NoTx == Unwritten

\* The columns a job writes when its transaction commits.
Puts == [status: Statuses \cup {"keep"}, ids: Ids \cup {"keep"}]
Put(status, ids) == [status |-> status, ids |-> ids]
Keep == Put("keep", "keep")
\* Mutant of Written: the job writes every column, changed or not.
WrittenWhole(r, p) == [r EXCEPT !.status = p.status, !.ids = p.ids]

Written(r, p) ==
    [r EXCEPT !.status = IF p.status = "keep" THEN @ ELSE p.status,
              !.ids = IF p.ids = "keep" THEN @ ELSE p.ids]

\* A job: `arg' is the card it sends, then what messages.send returned.
Answers == {"usable", "noid", "failed", "refused"}
Jobs == [kind: Phases \cup {"none"},
         step: {"none", "claimed", "calling", "load", "rescue", "write"},
         arg: Cards \cup Answers, put: Puts]
Idle == [kind |-> "none", step |-> "none", arg |-> "live", put |-> Keep]
Claimed(kind) == [Idle EXCEPT !.kind = kind, !.step = "claimed"]

Shown == {"live", "closed"}
Withdrawn == {"cancelled", "delete_requested", "deleting"}
At(m, kind, step) == job[m].kind = kind /\ job[m].step = step
Unlocked(m) == tx[m] = NoTx

Init ==
    /\ row = [m \in Messages |-> Unwritten]
    /\ tx = [m \in Messages |-> NoTx]
    /\ job = [m \in Messages |-> Idle]
    /\ trim = [m \in Messages |-> {}]
    /\ phase = "finalize"
    /\ screen = [m \in Messages |-> "nothing"]
    /\ event = [m \in Messages |-> "none"]
    /\ over = [m \in Messages |-> FALSE]

---------------------------------------------------------------------------
(* VK.  A call that fails may have taken effect, its answer lost. *)

VkEdit(m, ok) ==
    \/ screen[m] \in Shown /\ screen' = [screen EXCEPT ![m] = "closed"]
    \/ ~ok /\ UNCHANGED screen

VkDelete(m, ok) ==
    \/ screen[m] \in Shown /\ screen' = [screen EXCEPT ![m] = "gone"]
    \/ ~ok /\ UNCHANGED screen

\* messages.send.  VK drops a second send with the same random_id.
VkSend(m, card, answer) ==
    \/ /\ screen[m] = "nothing" /\ answer # "refused"
       /\ screen' = [screen EXCEPT ![m] = card]
       /\ event' = [event EXCEPT ![m] = "due"]
    \/ /\ screen[m] = "nothing" => answer \in {"failed", "refused"}
       /\ UNCHANGED <<screen, event>>

---------------------------------------------------------------------------
(* The event handlers' transactions. *)

\* send_tracked_message, and send_message below the cap.
Post(m) ==
    /\ row[m] = Unwritten /\ trim[m] = {} /\ ~over[m]
    /\ \E critical \in BOOLEAN : row' = [row EXCEPT ![m] = Posted(critical)]
    /\ UNCHANGED <<tx, job, trim, phase, screen, event, over>>

\* send_message at the cap: the rows it drops are read without a lock, and
\* written with the new one at the commit.
Unsent == {m \in Messages : row[m].status \in {"pending", "failed", "sending"}}
Droppable == {m \in Unsent : row[m].status # "sending" /\ ~row[m].critical}

PostOverCap(m) ==
    /\ row[m] = Unwritten /\ trim[m] = {} /\ ~over[m]
    /\ Cardinality(Unsent) >= PeerCap
    /\ \E S \in SUBSET Droppable \ {{}} :
         /\ \/ Cardinality(S) = Cardinality(Unsent) - (PeerCap - 1)
            \/ S = Droppable /\ Cardinality(S) < Cardinality(Unsent) - (PeerCap - 1)
         /\ trim' = [trim EXCEPT ![m] = S]
    /\ UNCHANGED <<row, tx, job, phase, screen, event, over>>

PostCommit(m) ==
    /\ trim[m] # {} /\ \A n \in trim[m] : Unlocked(n)
    /\ row' = [n \in Messages |->
                 CASE n = m -> Posted(FALSE)
                   [] n \in trim[m] -> Written(row[n], Put("cancelled", "none"))
                   [] OTHER -> row[n]]
    /\ trim' = [trim EXCEPT ![m] = {}]
    /\ UNCHANGED <<tx, job, phase, screen, event, over>>

PostRollback(m) ==
    /\ trim[m] # {}
    /\ trim' = [trim EXCEPT ![m] = {}]
    /\ UNCHANGED <<row, tx, job, phase, screen, event, over>>

CloseOrder(m) ==
    /\ ~over[m]
    /\ over' = [over EXCEPT ![m] = TRUE]
    /\ UNCHANGED <<row, tx, job, trim, phase, screen, event>>

\* Mutant of Withdraw: a message being sent is cancelled like a pending one.
WithdrawSending(r) ==
    IF r.status \in {"pending", "failed", "sending"} THEN [r EXCEPT !.status = "cancelled"]
    ELSE r

\* What cancel_or_delete makes of a row.
Withdraw(r) ==
    CASE r.status \in {"pending", "failed"} -> [r EXCEPT !.status = "cancelled"]
      [] r.status = "sending" -> [r EXCEPT !.status = "cancel_requested"]
      [] r.status \in {"sent", "cancelled"} /\ r.ids = "usable" ->
            [r EXCEPT !.status = "delete_requested"]
      [] r.status \in {"sent", "cancelled"} /\ r.ids # "usable" ->
            [r EXCEPT !.status = "cancelled", !.ids = "undeletable"]
      [] OTHER -> r

Cancel(m) ==
    /\ Unlocked(m) /\ Withdraw(row[m]) # row[m]
    /\ tx' = [tx EXCEPT ![m] = Withdraw(row[m])]
    /\ UNCHANGED <<row, job, trim, phase, screen, event, over>>

\* finalize_tracked_message: a card not sent yet is rewritten, one whose id is
\* not known yet is left to the worker, another is edited at once.
FinalizeQueued(m) ==
    /\ row[m].status \in {"pending", "failed"}
    /\ tx' = [tx EXCEPT ![m] = [row[m] EXCEPT !.status = "pending", !.card = "closed"]]
    /\ UNCHANGED screen

FinalizeLater(m) ==
    /\ row[m].status \in {"sending", "sent"} /\ row[m].ids # "usable"
    /\ tx' = [tx EXCEPT ![m] =
                [row[m] EXCEPT !.status = "finalize_requested", !.card = "closed"]]
    /\ UNCHANGED screen

FinalizeNow(m) ==
    /\ row[m].status = "sent" /\ row[m].ids = "usable"
    /\ \E ok \in BOOLEAN :
         /\ VkEdit(m, ok)
         /\ tx' = IF ok THEN [tx EXCEPT ![m] = [row[m] EXCEPT !.card = "closed"]]
                  ELSE tx

Finalize(m) ==
    /\ Unlocked(m)
    /\ FinalizeQueued(m) \/ FinalizeLater(m) \/ FinalizeNow(m)
    /\ UNCHANGED <<row, job, trim, phase, event, over>>

Commit(m) ==
    /\ ~Unlocked(m)
    /\ row' = [row EXCEPT ![m] = tx[m]]
    /\ tx' = [tx EXCEPT ![m] = NoTx]
    /\ UNCHANGED <<job, trim, phase, screen, event, over>>

Rollback(m) ==
    /\ ~Unlocked(m)
    /\ tx' = [tx EXCEPT ![m] = NoTx]
    /\ UNCHANGED <<row, job, trim, phase, screen, event, over>>

\* record_outgoing_message_event: read, then write at the commit.
EventRead(m) ==
    /\ event[m] = "due"
    /\ event' = [event EXCEPT ![m] =
                   IF row[m].status = "cancelled" /\ row[m].ids = "undeletable"
                   THEN "reviving" ELSE "noting"]
    /\ UNCHANGED <<row, tx, job, trim, phase, screen, over>>

EventWrite(m) ==
    /\ event[m] \in {"noting", "reviving"} /\ Unlocked(m)
    /\ LET status == IF event[m] = "reviving" THEN "delete_requested" ELSE "keep"
       IN  row' = [row EXCEPT ![m] = Written(@, Put(status, "usable"))]
    /\ event' = [event EXCEPT ![m] = "done"]
    /\ UNCHANGED <<tx, job, trim, phase, screen, over>>

---------------------------------------------------------------------------
(* The worker. *)

\* wait(futures): a phase starts when no job of the last one is left.
AllDone == \A m \in Messages : job[m] = Idle

\* Rows a claim may find due: FOR UPDATE SKIP LOCKED leaves the locked ones.
Due(statuses) == {m \in Messages : row[m].status \in statuses /\ Unlocked(m)}

Claim(kind, S, released, to, next) ==
    /\ row' = [m \in Messages |->
                 CASE m \in S -> [row[m] EXCEPT !.status = to]
                   [] m \in released \ S -> [row[m] EXCEPT !.status = "pending"]
                   [] OTHER -> row[m]]
    /\ job' = [m \in Messages |-> IF m \in S THEN Claimed(kind) ELSE Idle]
    /\ phase = kind /\ phase' = next
    /\ UNCHANGED <<tx, trim, screen, event, over>>

ClaimFinalize ==
    /\ AllDone
    /\ \E S \in SUBSET Due({"finalize_requested"}) :
         Claim("finalize", S, {}, "finalizing", "delete")

ClaimDelete ==
    /\ AllDone
    /\ \E S \in SUBSET Due({"delete_requested"}) :
         Claim("delete", S, {}, "deleting", "deliver")

\* A row that has been `sending' for 30 seconds has lost its job: it is released
\* first, and may be claimed again at once.
ClaimDeliver ==
    /\ AllDone
    /\ \E released \in SUBSET Due({"sending"}) :
       \E S \in SUBSET (released \cup Due({"pending", "failed"})) :
         Claim("deliver", S, released, "sending", "finalize")

\* An exception in the loop itself: it starts again from the first phase.
WorkerFails ==
    /\ AllDone
    /\ phase' = "finalize"
    /\ UNCHANGED <<row, tx, job, trim, screen, event, over>>

---------------------------------------------------------------------------
(* The jobs. *)

End(m) == job' = [job EXCEPT ![m] = Idle]
Step(m, step, arg) == job' = [job EXCEPT ![m].step = step, ![m].arg = arg]
Save(m, status, ids) ==
    job' = [job EXCEPT ![m].step = "write", ![m].put = Put(status, ids)]

\* The commit of a job: it waits for a handler's lock, then writes its columns
\* whatever the row has become.
JobWrite(m) ==
    /\ job[m].step = "write" /\ Unlocked(m)
    /\ row' = [row EXCEPT ![m] = Written(@, job[m].put)]
    /\ End(m)
    /\ UNCHANGED <<tx, trim, phase, screen, event, over>>

\* _deliver_one, first transaction: the card of a closed order is suppressed.
DeliverRead(m) ==
    /\ At(m, "deliver", "claimed")
    /\ CASE row[m].status # "sending" -> End(m)
         [] row[m].status = "sending" /\ over[m] -> Save(m, "cancelled", "none")
         [] OTHER -> Step(m, "calling", row[m].card)
    /\ UNCHANGED <<row, tx, trim, phase, screen, event, over>>

DeliverCall(m) ==
    /\ At(m, "deliver", "calling")
    /\ \E answer \in Answers : VkSend(m, job[m].arg, answer) /\ Step(m, "load", answer)
    /\ UNCHANGED <<row, tx, trim, phase, over>>

\* Mutant of DeliverWithdrawn: deleted on the screen, but saved as sent.
DeliverWithdrawnAsSent(m) ==
    /\ row[m].status = "cancel_requested" /\ row[m].ids = "usable"
    /\ VkDelete(m, TRUE)
    /\ Save(m, "sent", "usable")

\* _deliver_one, second transaction.  A withdrawal asked for meanwhile is obeyed
\* at once if the message has an id, and left to the delete phase otherwise.
DeliverWithdrawn(m) ==
    /\ row[m].status = "cancel_requested"
    /\ IF job[m].arg = "usable" \/ row[m].ids = "usable"
       THEN \E ok \in BOOLEAN :
              /\ VkDelete(m, ok)
              /\ IF ok THEN Save(m, "cancelled", "none")
                 ELSE Save(m, "delete_requested", "usable")
       ELSE Save(m, "delete_requested", "none") /\ UNCHANGED screen

\* Mutant of DeliverSent: the answer None is not told from an id.
DeliverSentUnchecked(m) ==
    /\ row[m].status # "cancel_requested"
    /\ Save(m, "sent", "none")
    /\ UNCHANGED screen

DeliverSent(m) ==
    /\ row[m].status # "cancel_requested" /\ job[m].arg \in {"usable", "noid"}
    /\ LET known == job[m].arg = "usable" \/ row[m].ids = "usable"
           final == row[m].status = "finalize_requested"
       IN  Save(m, IF final THEN "keep" ELSE "sent", IF known THEN "usable" ELSE "none")
    /\ UNCHANGED screen

\* A permanent VK error ends the row, another one is retried.
DeliverFailed(m) ==
    /\ row[m].status # "cancel_requested" /\ job[m].arg \in {"failed", "refused"}
    /\ Save(m, IF job[m].arg = "refused" THEN "cancelled" ELSE "failed", "none")
    /\ UNCHANGED screen

DeliverLoad(m) ==
    /\ At(m, "deliver", "load")
    /\ DeliverWithdrawn(m) \/ DeliverSent(m) \/ DeliverFailed(m)
    /\ UNCHANGED <<row, tx, trim, phase, event, over>>

\* The except branch: another transaction returns the row to the queue.
DeliverRaises(m) ==
    /\ job[m].kind = "deliver" /\ job[m].step \in {"claimed", "load", "write"}
    /\ job' = [job EXCEPT ![m].step = "rescue", ![m].put = Keep]
    /\ UNCHANGED <<row, tx, trim, phase, screen, event, over>>

DeliverRescue(m) ==
    /\ At(m, "deliver", "rescue")
    /\ IF row[m].status = "sending" THEN Save(m, "failed", "none") ELSE End(m)
    /\ UNCHANGED <<row, tx, trim, phase, screen, event, over>>

\* _delete_one.  A row without an id waits 30 seconds for its event, unless it
\* was never marked as sent.
DeleteRead(m) ==
    /\ At(m, "delete", "claimed")
    /\ CASE row[m].status # "deleting" -> End(m)
         [] row[m].status = "deleting" /\ row[m].ids = "usable" ->
              Step(m, "calling", job[m].arg)
         [] OTHER -> \/ Save(m, "delete_requested", "keep")
                     \/ Save(m, "cancelled", "undeletable")
    /\ UNCHANGED <<row, tx, trim, phase, screen, event, over>>

DeleteCall(m) ==
    /\ At(m, "delete", "calling")
    /\ \E ok \in BOOLEAN :
         /\ VkDelete(m, ok)
         /\ IF ok THEN Save(m, "cancelled", "none") ELSE Save(m, "delete_requested", "keep")
    /\ UNCHANGED <<row, tx, trim, phase, event, over>>

\* _finalize_one: one transaction, the VK call inside it.
FinalizeRun(m) ==
    /\ At(m, "finalize", "claimed")
    /\ CASE row[m].status # "finalizing" -> End(m) /\ UNCHANGED screen
         [] row[m].status = "finalizing" /\ row[m].ids # "usable" ->
              Save(m, "finalize_requested", "keep") /\ UNCHANGED screen
         [] OTHER -> \E ok \in BOOLEAN :
              /\ VkEdit(m, ok)
              /\ Save(m, IF ok THEN "sent" ELSE "finalize_requested", "keep")
    /\ UNCHANGED <<row, tx, trim, phase, event, over>>

\* A job dies of a database error: nothing catches it in the delete and finalize
\* phases, and in the deliver phase the rescue has failed as well.
JobDies(m) ==
    /\ \/ job[m].kind = "deliver" /\ job[m].step = "rescue"
       \/ job[m].kind \in {"delete", "finalize"} /\ job[m].step \in {"claimed", "write"}
    /\ End(m)
    /\ UNCHANGED <<row, tx, trim, phase, screen, event, over>>

\* What start_worker makes of a row after a crash.
Recovered(r) ==
    CASE r.status = "sending" -> [r EXCEPT !.status = "pending"]
      [] r.status = "finalizing" -> [r EXCEPT !.status = "finalize_requested"]
      [] r.status = "cancel_requested" /\ r.ids = "usable" ->
            [r EXCEPT !.status = "delete_requested"]
      [] r.status = "cancel_requested" /\ r.ids # "usable" ->
            [r EXCEPT !.status = "cancelled"]
      [] OTHER -> r

\* The process dies and is started again.  Open transactions are rolled back;
\* events VK has not delivered may be lost.
Restart ==
    /\ row' = [m \in Messages |-> Recovered(row[m])]
    /\ tx' = [m \in Messages |-> NoTx]
    /\ job' = [m \in Messages |-> Idle]
    /\ trim' = [m \in Messages |-> {}]
    /\ phase' = "finalize"
    /\ \E lost \in SUBSET Messages :
         event' = [m \in Messages |->
                     CASE event[m] \in {"due", "noting", "reviving"} /\ m \in lost -> "done"
                       [] event[m] \in {"noting", "reviving"} /\ m \notin lost -> "due"
                       [] OTHER -> event[m]]
    /\ UNCHANGED <<screen, over>>

Handlers(m) == Post(m) \/ PostOverCap(m) \/ PostCommit(m) \/ PostRollback(m)
               \/ CloseOrder(m) \/ Cancel(m) \/ Finalize(m)
               \/ Commit(m) \/ Rollback(m) \/ EventRead(m) \/ EventWrite(m)
Worker == ClaimFinalize \/ ClaimDelete \/ ClaimDeliver \/ WorkerFails
Job(m) == JobWrite(m) \/ DeliverRead(m) \/ DeliverCall(m) \/ DeliverLoad(m)
          \/ DeliverRaises(m) \/ DeliverRescue(m) \/ DeleteRead(m)
          \/ DeleteCall(m) \/ FinalizeRun(m) \/ JobDies(m)

Next == Worker \/ Restart \/ \E m \in Messages : Handlers(m) \/ Job(m)

Spec == Init /\ [][Next]_vars

---------------------------------------------------------------------------
(* Properties. *)

\* Every column, job and message on the screen has a value of its kind.
TypeOK ==
    /\ row \in [Messages -> Row]
    /\ tx \in [Messages -> Row]
    /\ job \in [Messages -> Jobs]
    /\ trim \in [Messages -> SUBSET Messages]
    /\ phase \in Phases
    /\ screen \in [Messages -> Screens]
    /\ event \in [Messages -> Events]
    /\ over \in [Messages -> BOOLEAN]

\* A row marked as sent is a message the peer has: neither a lost answer of VK, a
\* retry after a crash nor a failed deletion leaves `sent' on anything else.
SentIsShown == \A m \in Messages : row[m].status = "sent" => screen[m] \in Shown

\* Only a withdrawn message is ever removed from the chat: no interleaving of the
\* phases and the handlers deletes a card nobody has cancelled.
GoneIsWithdrawn ==
    \A m \in Messages :
        screen[m] = "gone" => row[m].status \in Withdrawn \cup {"cancel_requested"}

\* A critical row once cancelled or handed to the delete phase is never delivered
\* again: its status stays among these, and what was not sent by then never is.
\* (A row below the priority of the cap may be cancelled while it is being sent.)
WithdrawalIsFinal ==
    [][\A m \in Messages :
         row[m].critical /\ row[m].status \in Withdrawn =>
             /\ row'[m].status \in Withdrawn
             /\ screen[m] = "nothing" => screen'[m] = "nothing"]_vars

\* A committed request to withdraw a message being sent is not forgotten.
CancelRequestHeld ==
    [][\A m \in Messages :
         row[m].status = "cancel_requested" =>
             row'[m].status \in Withdrawn \cup {"cancel_requested"}]_vars
=============================================================================
