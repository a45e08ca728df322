---------------------------- MODULE Outbox_proofs ----------------------------
(***************************************************************************)
(* What holds of the outbox for any messages and any cap: a row marked as  *)
(* sent is on the screen, only what was withdrawn leaves the screen, and a *)
(* withdrawn critical row is not sent.                                     *)
(***************************************************************************)
EXTENDS Outbox, TLAPS

\* What a handler may make of the row r, which it locks until its commit.
Changes(r) ==
    {c \in {Withdraw(r)} : c # r}
    \cup {c \in {[r EXCEPT !.status = "pending", !.card = "closed"]} :
            r.status \in {"pending", "failed"}}
    \cup {c \in {[r EXCEPT !.status = "finalize_requested", !.card = "closed"]} :
            r.status \in {"sending", "sent"}}
    \cup {c \in {[r EXCEPT !.card = "closed"]} : r.status = "sent"}

\* The inductive invariant, message by message.  A row is not written while locked.
Locked(m) == Unlocked(m) \/ tx[m] \in Changes(row[m])
\* Nobody has posted the message: there is nothing of it yet.
Fresh(m) ==
    row[m].status = "none" =>
        row[m] = Unwritten /\ job[m] = Idle /\ screen[m] = "nothing" /\ event[m] = "none"
JobWrites(m) == job[m].put.status # "none" /\ (job[m].kind = "none" => job[m] = Idle)
\* A job marks as sent what it has seen on the screen, and it alone deletes it.
SentJob(m) ==
    /\ job[m].step = "write" /\ job[m].put.status = "sent" => screen[m] \in Shown
    /\ At(m, "deliver", "load") /\ job[m].arg \in {"usable", "noid"} => screen[m] \in Shown
    /\ At(m, "deliver", "calling") => job[m].arg \in Cards
DeleteJob(m) ==
    job[m].kind = "delete" =>
        /\ row[m].status \in Withdrawn
        /\ job[m].put.status \in {"keep", "delete_requested", "cancelled"}
\* A job on a message that is gone writes nothing but its withdrawal.
GoneJob(m) ==
    screen[m] = "gone" =>
        /\ job[m].kind # "finalize"
        /\ job[m].kind = "deliver" =>
             \/ job[m].step = "rescue"
             \/ job[m].step = "write" /\ job[m].put.status \in {"delete_requested", "cancelled"}
\* The jobs and the event of a critical row, which the cap does not touch.
CriticalJob(m) ==
    row[m].critical =>
        /\ job[m].kind = "deliver" =>
             row[m].status \in {"sending", "cancel_requested", "finalize_requested"}
        /\ job[m].kind = "finalize" => row[m].status = "finalizing"
        /\ event[m] = "reviving" => row[m].status \in Withdrawn
SentShown(m) == row[m].status = "sent" => screen[m] \in Shown
GoneWithdrawn(m) == screen[m] = "gone" => row[m].status \in Withdrawn \cup {"cancel_requested"}

MessageInv(m) ==
    /\ Locked(m) /\ Fresh(m) /\ JobWrites(m) /\ SentJob(m) /\ DeleteJob(m) /\ GoneJob(m)
    /\ CriticalJob(m) /\ SentShown(m) /\ GoneWithdrawn(m)

\* A message being posted over the cap is fresh; the rows it drops are posted ones.
Trimmed ==
    \A m \in Messages :
        /\ trim[m] # {} => row[m].status = "none"
        /\ \A n \in trim[m] : row[n].status # "none" /\ ~row[n].critical

OutboxInv == TypeOK /\ Trimmed /\ \A m \in Messages : MessageInv(m)

---------------------------------------------------------------------------
(* Rows and their changes. *)

\* What a locked row becomes at the commit.
LEMMA ChangeOf ==
  ASSUME NEW r \in Row, NEW t \in Changes(r), r.status # "none"
  PROVE  /\ t \in Row /\ t.critical = r.critical /\ t.status # "none"
         /\ r.status \in {"pending", "failed", "sending", "sent", "cancelled"}
         /\ r.status = "cancelled" => t.status \in Withdrawn
         /\ r.status = "sending" => t.status \in {"cancel_requested", "finalize_requested"}
         /\ t.status = "sent" => r.status = "sent"
BY DEF Changes, Withdraw, Row, Statuses, Withdrawn, Ids, Cards

LEMMA NoChange ==
  ASSUME NEW r \in Row,
         r.status \notin {"pending", "failed", "sending", "sent", "cancelled"}
  PROVE  Changes(r) = {}
<1>1. Withdraw(r) = r
  BY DEF Withdraw
<1> QED  BY <1>1 DEF Changes

LEMMA WrittenRow ==
  ASSUME NEW r \in Row, NEW p \in Puts
  PROVE  /\ Written(r, p) \in Row
         /\ Written(r, p).critical = r.critical
         /\ Written(r, p).status = IF p.status = "keep" THEN r.status ELSE p.status
BY DEF Written, Row, Puts, Statuses, Ids

LEMMA RecoveredRow ==
  ASSUME NEW r \in Row
  PROVE  /\ Recovered(r) \in Row
         /\ Recovered(r).critical = r.critical
         /\ Recovered(r).status = "none" <=> r.status = "none"
         /\ r.status = "none" => Recovered(r) = r
         /\ Recovered(r).status = "sent" => r.status = "sent"
         /\ r.status \in Withdrawn \cup {"cancel_requested"} => Recovered(r).status \in Withdrawn
BY DEF Recovered, Row, Statuses, Withdrawn

LEMMA Constants ==
  /\ Unwritten \in Row /\ Idle \in Jobs /\ NoTx \in Row
  /\ \A c \in BOOLEAN : Posted(c) \in Row /\ Posted(c).status = "pending" /\ Posted(c).critical = c
  /\ Unwritten.status = "none" /\ ~Unwritten.critical
  /\ Idle.kind = "none" /\ Idle.step = "none" /\ Idle.put.status = "keep"
  /\ \A k \in Phases : Claimed(k) \in Jobs /\ Claimed(k).kind = k /\ Claimed(k).step = "claimed"
                       /\ Claimed(k).put.status = "keep"
BY DEF Unwritten, Row, Idle, Jobs, Keep, Put, Puts, NoTx, Posted, Statuses, Ids, Cards, Phases,
       Answers, Claimed

\* A step on one message alone.
LEMMA OneMessage ==
  ASSUME OutboxInv, TypeOK', NEW m \in Messages, MessageInv(m)', trim' = trim,
         row'[m].critical = row[m].critical, row'[m].status = "none" <=> row[m].status = "none",
         \A n \in Messages \ {m} : /\ row'[n] = row[n] /\ tx'[n] = tx[n] /\ job'[n] = job[n]
                                   /\ screen'[n] = screen[n] /\ event'[n] = event[n]
  PROVE  OutboxInv'
<1>1. ASSUME NEW n \in Messages, n # m  PROVE MessageInv(n)'
  BY <1>1 DEF OutboxInv, MessageInv, Locked, Unlocked, Fresh, JobWrites, SentJob, At, DeleteJob,
              GoneJob, CriticalJob, SentShown, GoneWithdrawn
<1>2. Trimmed'
  BY DEF OutboxInv, Trimmed, TypeOK
<1> QED  BY <1>1, <1>2 DEF OutboxInv

---------------------------------------------------------------------------
(* The handlers. *)

LEMMA PostInv ==
  ASSUME OutboxInv, NEW m \in Messages, Post(m)  PROVE OutboxInv'
<1>1. PICK c \in BOOLEAN : row' = [row EXCEPT ![m] = Posted(c)]
  BY DEF Post
<1>2. TypeOK'
  BY <1>1, Constants DEF Post, OutboxInv, TypeOK
<1>3. row[m] = Unwritten /\ row'[m] = Posted(c)
  BY <1>1 DEF Post, OutboxInv, TypeOK
<1>4. job[m] = Idle /\ screen[m] = "nothing" /\ event[m] = "none"
  BY <1>3, Constants DEF OutboxInv, MessageInv, Fresh
<1>5. Unlocked(m)
  BY <1>3, NoChange, Constants DEF OutboxInv, MessageInv, Locked
<1>6. MessageInv(m)'
  BY <1>3, <1>4, <1>5, Constants DEF Post, MessageInv, Locked, Unlocked, Fresh, JobWrites, SentJob,
     At, DeleteJob, GoneJob, CriticalJob, SentShown, GoneWithdrawn
<1>7. ASSUME NEW n \in Messages, n # m  PROVE MessageInv(n)'
  BY <1>1, <1>7 DEF Post, OutboxInv, TypeOK, MessageInv, Locked, Unlocked, Fresh, JobWrites, SentJob,
              At, DeleteJob, GoneJob, CriticalJob, SentShown, GoneWithdrawn
<1>8. Trimmed'
  BY <1>1, <1>3, Constants DEF Post, OutboxInv, Trimmed, TypeOK
<1> QED  BY <1>2, <1>6, <1>7, <1>8 DEF OutboxInv

\* A row that may be dropped for the cap is a posted one, and not critical.
LEMMA PostOverCapInv ==
  ASSUME OutboxInv, NEW m \in Messages, PostOverCap(m)  PROVE OutboxInv'
<1>1. PICK S \in SUBSET Droppable : trim' = [trim EXCEPT ![m] = S]
  BY DEF PostOverCap
<1>2. \A n \in S : n \in Messages /\ row[n].status # "none" /\ ~row[n].critical
  BY DEF Droppable, Unsent
<1>3. TypeOK'
  BY <1>1, <1>2 DEF PostOverCap, OutboxInv, TypeOK
<1>4. Trimmed'
  BY <1>1, <1>2, Constants DEF PostOverCap, OutboxInv, TypeOK, Trimmed
<1>5. ASSUME NEW n \in Messages  PROVE MessageInv(n)'
  BY <1>5 DEF PostOverCap, OutboxInv, MessageInv, Locked, Unlocked, Fresh, JobWrites, SentJob,
              At, DeleteJob, GoneJob, CriticalJob, SentShown, GoneWithdrawn
<1> QED  BY <1>3, <1>4, <1>5 DEF OutboxInv

LEMMA PostCommitInv ==
  ASSUME OutboxInv, NEW m \in Messages, PostCommit(m)  PROVE OutboxInv'
<1> DEFINE Dropped(r) == Written(r, Put("cancelled", "none"))
<1>1. row[m] = Unwritten /\ job[m] = Idle /\ screen[m] = "nothing" /\ event[m] = "none"
  BY DEF PostCommit, OutboxInv, Trimmed, MessageInv, Fresh
<1>2. \A n \in trim[m] : /\ n \in Messages /\ n # m /\ row[n].status # "none"
                         /\ ~row[n].critical /\ Unlocked(n)
  BY <1>1, Constants DEF PostCommit, OutboxInv, TypeOK, Trimmed
<1>3. ASSUME NEW r \in Row
      PROVE  Dropped(r) \in Row /\ Dropped(r).critical = r.critical /\ Dropped(r).status = "cancelled"
  <2>1. Put("cancelled", "none") \in Puts /\ Put("cancelled", "none").status = "cancelled"
    BY DEF Put, Puts, Statuses, Ids
  <2> QED  BY <2>1, WrittenRow
<1>4. row' = [n \in Messages |-> CASE n = m -> Posted(FALSE)
                                  [] n \in trim[m] -> Dropped(row[n])
                                  [] OTHER -> row[n]]
  BY DEF PostCommit
<1>5. /\ row'[m] = Posted(FALSE)
      /\ \A n \in trim[m] : row'[n] = Dropped(row[n])
      /\ \A n \in Messages \ {m} : n \notin trim[m] => row'[n] = row[n]
  <2> HIDE DEF Dropped
  <2> QED  BY <1>4, <1>2
<1>13. UNCHANGED <<tx, job, screen, event>>
  BY DEF PostCommit
<1>6. \A n \in Messages : row'[n] \in Row
  <2>1. \A n \in Messages : row[n] \in Row
    BY DEF OutboxInv, TypeOK
  <2> HIDE DEF Dropped
  <2> TAKE n \in Messages
  <2>2. CASE n = m  BY <2>2, <1>5, Constants
  <2>3. CASE n \in trim[m]
    <3>1. Dropped(row[n]) \in Row  BY <2>1, <1>3
    <3> QED  BY <3>1, <2>3, <1>5
  <2>4. CASE n # m /\ n \notin trim[m]  BY <2>4, <2>1, <1>5
  <2> QED  BY <2>2, <2>3, <2>4
<1>7. TypeOK'
  <2>1. row' \in [Messages -> Row]
    BY <1>6, <1>4
  <2> QED  BY <2>1 DEF PostCommit, OutboxInv, TypeOK
<1>8. \A n \in Messages \ {m} : /\ row'[n].critical = row[n].critical
                                /\ row'[n].status = "none" <=> row[n].status = "none"
  <2> HIDE DEF Dropped
  <2>1. \A n \in Messages : row[n] \in Row
    BY DEF OutboxInv, TypeOK
  <2> QED  BY <2>1, <1>5, <1>3, <1>2
<1>9. Trimmed'
  <2>1. trim' = [trim EXCEPT ![m] = {}] /\ trim \in [Messages -> SUBSET Messages]
    BY DEF PostCommit, OutboxInv, TypeOK
  <2>2. ASSUME NEW k \in Messages, k # m
        PROVE  /\ trim'[k] # {} => row'[k].status = "none"
               /\ \A n \in trim'[k] : row'[n].status # "none" /\ ~row'[n].critical
    <3>1. trim'[k] = trim[k] /\ (trim[k] # {} => row[k].status = "none")
      BY <2>1, <2>2 DEF OutboxInv, Trimmed
    <3>2. \A n \in trim[k] : n \in Messages /\ n # m /\ row[n].status # "none" /\ ~row[n].critical
      BY <2>1, <1>1, Constants DEF OutboxInv, Trimmed
    <3>3. ASSUME NEW n \in trim[k]
          PROVE  row'[n].critical = row[n].critical /\ row'[n].status # "none"
      <4>1. n \in Messages /\ n # m /\ row[n].status # "none"
        BY <3>2
      <4> QED  BY <4>1, <1>8
    <3>4. trim'[k] # {} => row'[k].status = "none"
      BY <3>1, <2>2, <1>8
    <3> QED  BY <3>1, <3>2, <3>3, <3>4
  <2> QED  BY <2>1, <2>2 DEF Trimmed
<1>10. MessageInv(m)'
  <2>1. Unlocked(m)
    BY <1>1, NoChange, Constants DEF OutboxInv, MessageInv, Locked
  <2> QED
    BY <2>1, <1>1, <1>5, Constants DEF PostCommit, MessageInv, Locked, Unlocked, Fresh, JobWrites,
       SentJob, At, DeleteJob, GoneJob, CriticalJob, SentShown, GoneWithdrawn
<1>11. ASSUME NEW n \in trim[m]  PROVE MessageInv(n)'
  <2>1. row'[n] \in Row /\ ~row'[n].critical /\ row'[n].status = "cancelled"
    <3> HIDE DEF Dropped
    <3> QED  BY <1>5, <1>2, <1>3, <1>6 DEF OutboxInv, TypeOK
  <2>2. n \in Messages /\ Unlocked(n)
    BY <1>2
  <2> QED
    BY <2>1, <2>2 DEF OutboxInv, PostCommit, MessageInv, Locked, Unlocked, Fresh, JobWrites,
       SentJob, At, DeleteJob, GoneJob, CriticalJob, SentShown, GoneWithdrawn, Withdrawn
<1>12. ASSUME NEW n \in Messages, n # m, n \notin trim[m]  PROVE MessageInv(n)'
  <2>1. row'[n] = row[n]
    BY <1>5, <1>12
  <2> QED
    BY <2>1, <1>13 DEF OutboxInv, MessageInv, Locked, Unlocked, Fresh, JobWrites,
       SentJob, At, DeleteJob, GoneJob, CriticalJob, SentShown, GoneWithdrawn
<1> QED  BY <1>7, <1>9, <1>10, <1>11, <1>12 DEF OutboxInv

LEMMA PostRollbackInv ==
  ASSUME OutboxInv, NEW m \in Messages, PostRollback(m) \/ CloseOrder(m)  PROVE OutboxInv'
<1>1. UNCHANGED <<row, tx, job, screen, event>> /\ trim' \in [Messages -> SUBSET Messages]
      /\ \A n \in Messages : trim'[n] \in {{}, trim[n]}
  BY DEF PostRollback, CloseOrder, OutboxInv, TypeOK
<1>2. TypeOK'
  BY <1>1 DEF PostRollback, CloseOrder, OutboxInv, TypeOK
<1>3. Trimmed'
  BY <1>1 DEF OutboxInv, Trimmed
<1>4. ASSUME NEW n \in Messages  PROVE MessageInv(n)'
  BY <1>1 DEF OutboxInv, MessageInv, Locked, Unlocked, Fresh, JobWrites, SentJob,
              At, DeleteJob, GoneJob, CriticalJob, SentShown, GoneWithdrawn
<1> QED  BY <1>2, <1>3, <1>4 DEF OutboxInv

LEMMA CancelInv ==
  ASSUME OutboxInv, NEW m \in Messages, Cancel(m)  PROVE OutboxInv'
<1>1. tx' = [tx EXCEPT ![m] = Withdraw(row[m])] /\ Withdraw(row[m]) \in Changes(row[m])
  BY DEF Cancel, Changes
<1>2. row[m] \in Row /\ row[m].status # "none"
  <2>1. row[m] \in Row
    BY DEF OutboxInv, TypeOK
  <2> QED  BY <2>1, <1>1, NoChange
<1>3. Withdraw(row[m]) \in Row
  BY <1>1, <1>2, ChangeOf
<1>4. TypeOK'
  BY <1>1, <1>3 DEF Cancel, OutboxInv, TypeOK
<1>5. tx'[m] \in Changes(row[m]) /\ UNCHANGED <<row, job, trim, screen, event>>
  BY <1>1 DEF Cancel, OutboxInv, TypeOK
<1>6. MessageInv(m)'
  BY <1>5 DEF OutboxInv, MessageInv, Locked, Unlocked, Fresh, JobWrites, SentJob,
              At, DeleteJob, GoneJob, CriticalJob, SentShown, GoneWithdrawn
<1> QED  BY <1>1, <1>4, <1>5, <1>6, OneMessage DEF OutboxInv, TypeOK

LEMMA FinalizeInv ==
  ASSUME OutboxInv, NEW m \in Messages, Finalize(m)  PROVE OutboxInv'
<1>1. row[m] \in Row /\ Unlocked(m) /\ UNCHANGED <<row, job, trim, phase, event, over>>
  BY DEF OutboxInv, TypeOK, Finalize
<1>2. /\ \/ tx' = tx
         \/ tx' = [tx EXCEPT ![m] = [row[m] EXCEPT !.status = "pending", !.card = "closed"]]
            /\ row[m].status \in {"pending", "failed"}
         \/ tx' = [tx EXCEPT ![m] = [row[m] EXCEPT !.status = "finalize_requested",
                                                  !.card = "closed"]]
            /\ row[m].status \in {"sending", "sent"}
         \/ tx' = [tx EXCEPT ![m] = [row[m] EXCEPT !.card = "closed"]] /\ row[m].status = "sent"
      /\ \/ screen' = screen
         \/ screen[m] \in Shown /\ screen' = [screen EXCEPT ![m] = "closed"]
  BY DEF Finalize, FinalizeQueued, FinalizeLater, FinalizeNow, VkEdit
<1>3. row[m].status # "none" /\ (tx' = tx \/ (tx' = [tx EXCEPT ![m] = tx'[m]]
                                            /\ tx'[m] \in Changes(row[m])))
  <2>1. row[m].status # "none"
    BY DEF Finalize, FinalizeQueued, FinalizeLater, FinalizeNow
  <2> QED  BY <2>1, <1>2 DEF Changes, OutboxInv, TypeOK
<1>4. tx' \in [Messages -> Row]
  BY <1>1, <1>3, ChangeOf DEF OutboxInv, TypeOK
<1>5. TypeOK'
  BY <1>1, <1>2, <1>4 DEF OutboxInv, TypeOK, Screens, Shown
<1>6. MessageInv(m)'
  BY <1>1, <1>2, <1>3 DEF OutboxInv, TypeOK, MessageInv, Locked, Unlocked, Fresh, JobWrites, SentJob,
              At, DeleteJob, GoneJob, CriticalJob, SentShown, GoneWithdrawn, Shown
<1>7. \A n \in Messages \ {m} : tx'[n] = tx[n] /\ screen'[n] = screen[n]
  BY <1>2, <1>3 DEF OutboxInv, TypeOK
<1> QED  BY <1>1, <1>5, <1>6, <1>7, OneMessage

LEMMA CommitInv ==
  ASSUME OutboxInv, NEW m \in Messages, Commit(m)  PROVE OutboxInv'
<1>1. row[m] \in Row /\ tx[m] \in Changes(row[m]) /\ row[m].status # "none"
  <2>1. row[m] \in Row /\ tx[m] \in Changes(row[m])
    BY DEF OutboxInv, TypeOK, Commit, MessageInv, Locked
  <2> QED  BY <2>1, NoChange
<1>2. /\ tx[m] \in Row /\ tx[m].critical = row[m].critical /\ tx[m].status # "none"
      /\ row[m].status \in {"pending", "failed", "sending", "sent", "cancelled"}
      /\ row[m].status = "cancelled" => tx[m].status \in Withdrawn
      /\ row[m].status = "sending" => tx[m].status \in {"cancel_requested", "finalize_requested"}
      /\ tx[m].status = "sent" => row[m].status = "sent"
  BY <1>1, ChangeOf
<1>3. row' = [row EXCEPT ![m] = tx[m]] /\ tx' = [tx EXCEPT ![m] = NoTx]
      /\ UNCHANGED <<job, trim, phase, screen, event, over>>
  BY DEF Commit
<1>4. TypeOK'
  BY <1>2, <1>3, Constants DEF OutboxInv, TypeOK
<1>5. row'[m] = tx[m] /\ tx'[m] = NoTx
  BY <1>3 DEF OutboxInv, TypeOK
<1>6. MessageInv(m)'
  BY <1>1, <1>2, <1>3, <1>5 DEF OutboxInv, MessageInv, Locked, Unlocked, Fresh, JobWrites, SentJob,
              At, DeleteJob, GoneJob, CriticalJob, SentShown, GoneWithdrawn, Withdrawn
<1>7. \A n \in Messages \ {m} : tx'[n] = tx[n] /\ row'[n] = row[n]
  BY <1>3 DEF OutboxInv, TypeOK
<1> QED  BY <1>1, <1>2, <1>3, <1>4, <1>5, <1>6, <1>7, OneMessage

LEMMA RollbackInv ==
  ASSUME OutboxInv, NEW m \in Messages, Rollback(m)  PROVE OutboxInv'
<1>1. tx' = [tx EXCEPT ![m] = NoTx] /\ UNCHANGED <<row, job, trim, phase, screen, event, over>>
  BY DEF Rollback
<1>2. TypeOK'
  BY <1>1, Constants DEF OutboxInv, TypeOK
<1>3. MessageInv(m)'
  BY <1>1 DEF OutboxInv, TypeOK, MessageInv, Locked, Unlocked, Fresh, JobWrites, SentJob,
              At, DeleteJob, GoneJob, CriticalJob, SentShown, GoneWithdrawn
<1>4. \A n \in Messages \ {m} : tx'[n] = tx[n]
  BY <1>1 DEF OutboxInv, TypeOK
<1> QED  BY <1>1, <1>2, <1>3, <1>4, OneMessage

LEMMA EventReadInv ==
  ASSUME OutboxInv, NEW m \in Messages, EventRead(m)  PROVE OutboxInv'
<1>1. /\ event[m] = "due" /\ event' = [event EXCEPT ![m] = event'[m]]
      /\ \/ event'[m] = "noting"
         \/ event'[m] = "reviving" /\ row[m].status = "cancelled"
      /\ UNCHANGED <<row, tx, job, trim, phase, screen, over>>
  BY DEF EventRead, OutboxInv, TypeOK
<1>2. TypeOK'
  BY <1>1 DEF OutboxInv, TypeOK, Events
<1>3. MessageInv(m)'
  BY <1>1 DEF OutboxInv, TypeOK, MessageInv, Locked, Unlocked, Fresh, JobWrites, SentJob,
              At, DeleteJob, GoneJob, CriticalJob, SentShown, GoneWithdrawn, Withdrawn
<1>4. \A n \in Messages \ {m} : event'[n] = event[n]
  BY <1>1 DEF OutboxInv, TypeOK
<1> QED  BY <1>1, <1>2, <1>3, <1>4, OneMessage

LEMMA EventWriteInv ==
  ASSUME OutboxInv, NEW m \in Messages, EventWrite(m)  PROVE OutboxInv'
<1> DEFINE status == IF event[m] = "reviving" THEN "delete_requested" ELSE "keep"
           p == Put(status, "usable")
<1>1. /\ event[m] \in {"noting", "reviving"} /\ Unlocked(m) /\ row[m] \in Row
      /\ row' = [row EXCEPT ![m] = Written(row[m], p)]
      /\ event' = [event EXCEPT ![m] = "done"]
      /\ UNCHANGED <<tx, job, trim, phase, screen, over>>
  BY DEF EventWrite, OutboxInv, TypeOK
<1>2. p \in Puts /\ p.status = status
  BY DEF Put, Puts, Statuses, Ids
<1>3. /\ Written(row[m], p) \in Row
      /\ Written(row[m], p).critical = row[m].critical
      /\ Written(row[m], p).status = IF status = "keep" THEN row[m].status ELSE status
  BY <1>1, <1>2, WrittenRow
<1> HIDE DEF p
<1>4. TypeOK'
  BY <1>1, <1>3 DEF OutboxInv, TypeOK, Events
<1>5. /\ row'[m] = Written(row[m], p) /\ event'[m] = "done" /\ row[m].status # "none"
      /\ row'[m].critical = row[m].critical
      /\ row'[m].status = row[m].status
         \/ (event[m] = "reviving" /\ row'[m].status = "delete_requested")
  BY <1>1, <1>3 DEF OutboxInv, TypeOK, MessageInv, Fresh
<1>6. CriticalJob(m)'
  BY <1>1, <1>5 DEF OutboxInv, MessageInv, CriticalJob, Withdrawn
<1>7. MessageInv(m)'
  BY <1>1, <1>5, <1>6 DEF OutboxInv, MessageInv, Locked, Unlocked, Fresh, JobWrites, SentJob,
              At, DeleteJob, GoneJob, SentShown, GoneWithdrawn, Withdrawn
<1>8. \A n \in Messages \ {m} : event'[n] = event[n] /\ row'[n] = row[n]
  BY <1>1 DEF OutboxInv, TypeOK
<1> QED  BY <1>1, <1>4, <1>5, <1>7, <1>8, OneMessage

---------------------------------------------------------------------------
(* The jobs. *)

\* What the three updates of a job make of it.
LEMMA Updates ==
  ASSUME TypeOK, NEW m \in Messages
  PROVE  /\ End(m) => /\ job' \in [Messages -> Jobs] /\ job'[m] = Idle
                      /\ \A n \in Messages \ {m} : job'[n] = job[n]
         /\ \A step \in {"calling", "load"}, arg \in Cards \cup Answers : Step(m, step, arg) =>
              /\ job' \in [Messages -> Jobs] /\ job'[m].kind = job[m].kind
              /\ job'[m].step = step /\ job'[m].arg = arg /\ job'[m].put = job[m].put
              /\ \A n \in Messages \ {m} : job'[n] = job[n]
         /\ \A status \in Statuses \cup {"keep"}, ids \in Ids \cup {"keep"} :
              Save(m, status, ids) =>
                /\ job' \in [Messages -> Jobs] /\ job'[m].kind = job[m].kind
                /\ job'[m].step = "write" /\ job'[m].put.status = status
                /\ \A n \in Messages \ {m} : job'[n] = job[n]
<1>1. job \in [Messages -> Jobs] /\ job[m] \in Jobs
  BY DEF TypeOK
<1>2. ASSUME End(m)
      PROVE  job' \in [Messages -> Jobs] /\ job'[m] = Idle
             /\ \A n \in Messages \ {m} : job'[n] = job[n]
  BY <1>1, <1>2, Constants DEF End
<1>3. ASSUME NEW step \in {"calling", "load"}, NEW arg \in Cards \cup Answers, Step(m, step, arg)
      PROVE  /\ job' \in [Messages -> Jobs] /\ job'[m].kind = job[m].kind
             /\ job'[m].step = step /\ job'[m].arg = arg /\ job'[m].put = job[m].put
             /\ \A n \in Messages \ {m} : job'[n] = job[n]
  BY <1>1, <1>3 DEF Step, Jobs
<1>4. ASSUME NEW status \in Statuses \cup {"keep"}, NEW ids \in Ids \cup {"keep"},
             Save(m, status, ids)
      PROVE  /\ job' \in [Messages -> Jobs] /\ job'[m].kind = job[m].kind
             /\ job'[m].step = "write" /\ job'[m].put.status = status
             /\ \A n \in Messages \ {m} : job'[n] = job[n]
  BY <1>1, <1>4 DEF Save, Put, Puts, Jobs
<1> QED  BY <1>2, <1>3, <1>4

\* A step of a job: the rows are as they were.
LEMMA JobStep ==
  ASSUME OutboxInv, NEW m \in Messages, job[m].kind # "none",
         UNCHANGED <<row, tx, trim, phase, over>>,
         job' \in [Messages -> Jobs], screen' \in [Messages -> Screens],
         event' \in [Messages -> Events],
         \A n \in Messages \ {m} :
            job'[n] = job[n] /\ screen'[n] = screen[n] /\ event'[n] = event[n],
         JobWrites(m)', SentJob(m)', DeleteJob(m)', GoneJob(m)', CriticalJob(m)', SentShown(m)',
         GoneWithdrawn(m)'
  PROVE  OutboxInv'
<1>1. row[m].status # "none"
  BY Constants DEF OutboxInv, MessageInv, Fresh
<1>2. MessageInv(m)'
  BY <1>1 DEF OutboxInv, MessageInv, Locked, Unlocked, Fresh
<1>3. TypeOK'
  BY DEF OutboxInv, TypeOK
<1> QED  BY <1>2, <1>3, OneMessage

LEMMA DeliverReadInv ==
  ASSUME OutboxInv, NEW m \in Messages, DeliverRead(m)  PROVE OutboxInv'
<1>1. /\ job[m].kind = "deliver" /\ job[m].step = "claimed" /\ row[m].card \in Cards
      /\ UNCHANGED <<row, tx, trim, phase, screen, event, over>> /\ TypeOK
      /\ screen[m] # "gone"
  BY DEF DeliverRead, At, OutboxInv, TypeOK, Row, MessageInv, GoneJob
<1>2. \/ End(m)
      \/ Save(m, "cancelled", "none")
      \/ Step(m, "calling", row[m].card)
  BY DEF DeliverRead
<1>3. /\ job' \in [Messages -> Jobs] /\ \A n \in Messages \ {m} : job'[n] = job[n]
      /\ \/ job'[m] = Idle
         \/ job'[m].kind = "deliver" /\ job'[m].step = "write"
              /\ job'[m].put.status = "cancelled"
         \/ job'[m].kind = "deliver" /\ job'[m].step = "calling" /\ job'[m].put = job[m].put
            /\ job'[m].arg \in Cards
  <2>1. CASE End(m)
    BY <1>1, <2>1, Updates
  <2>2. CASE Save(m, "cancelled", "none")
    BY <1>1, <2>2, Updates DEF Statuses, Ids
  <2>3. CASE Step(m, "calling", row[m].card)
    BY <1>1, <2>3, Updates
  <2> QED  BY <1>2, <2>1, <2>2, <2>3
<1>4. JobWrites(m)' /\ SentJob(m)' /\ DeleteJob(m)' /\ GoneJob(m)' /\ CriticalJob(m)'
      /\ SentShown(m)' /\ GoneWithdrawn(m)'
  BY <1>1, <1>3, Constants DEF OutboxInv, MessageInv, JobWrites, SentJob, At, DeleteJob, GoneJob,
     CriticalJob, SentShown, GoneWithdrawn
<1> QED  BY <1>1, <1>3, <1>4, JobStep DEF TypeOK

LEMMA DeliverCallInv ==
  ASSUME OutboxInv, NEW m \in Messages, DeliverCall(m)  PROVE OutboxInv'
<1>1. PICK answer \in Answers : VkSend(m, job[m].arg, answer) /\ Step(m, "load", answer)
  BY DEF DeliverCall
<1>2. /\ job[m].kind = "deliver" /\ job[m].step = "calling" /\ TypeOK
      /\ job[m].arg \in Cards
      /\ UNCHANGED <<row, tx, trim, phase, over>> /\ screen[m] # "gone"
  BY DEF DeliverCall, At, OutboxInv, TypeOK, MessageInv, GoneJob, SentJob
<1>3. /\ job' \in [Messages -> Jobs] /\ \A n \in Messages \ {m} : job'[n] = job[n]
      /\ job'[m].kind = "deliver" /\ job'[m].step = "load" /\ job'[m].arg = answer
      /\ job'[m].put = job[m].put
  BY <1>1, <1>2, Updates
<1>4. /\ screen' \in [Messages -> Screens] /\ event' \in [Messages -> Events]
      /\ \A n \in Messages \ {m} : screen'[n] = screen[n] /\ event'[n] = event[n]
      /\ event'[m] \in {event[m], "due"} /\ screen'[m] \in {screen[m]} \cup Shown
      /\ answer \in {"usable", "noid"} => screen'[m] \in Shown
  BY <1>1, <1>2 DEF VkSend, TypeOK, Screens, Events, Cards, Shown
<1>5. JobWrites(m)' /\ SentJob(m)' /\ DeleteJob(m)' /\ GoneJob(m)' /\ CriticalJob(m)'
      /\ SentShown(m)' /\ GoneWithdrawn(m)'
  BY <1>2, <1>3, <1>4 DEF OutboxInv, MessageInv, JobWrites, SentJob, At, DeleteJob, GoneJob,
     CriticalJob, SentShown, GoneWithdrawn, Shown
<1> QED  BY <1>2, <1>3, <1>4, <1>5, JobStep

\* What the second transaction of a delivery may do.
LEMMA DeliverLoadInv ==
  ASSUME OutboxInv, NEW m \in Messages, DeliverLoad(m)  PROVE OutboxInv'
<1>1. /\ job[m].kind = "deliver" /\ job[m].step = "load" /\ TypeOK
      /\ UNCHANGED <<row, tx, trim, phase, event, over>> /\ screen[m] # "gone"
  BY DEF DeliverLoad, At, OutboxInv, TypeOK, MessageInv, GoneJob
<1> DEFINE Saved(statuses) ==
             /\ job' \in [Messages -> Jobs] /\ \A n \in Messages \ {m} : job'[n] = job[n]
             /\ job'[m].kind = "deliver" /\ job'[m].step = "write"
             /\ job'[m].put.status \in statuses
           Obeyed == /\ row[m].status = "cancel_requested"
                     /\ Saved({"cancelled", "delete_requested"})
                     /\ \/ screen' = screen
                        \/ screen[m] \in Shown /\ screen' = [screen EXCEPT ![m] = "gone"]
           Marked == Saved({"sent", "keep"}) /\ screen' = screen /\ screen[m] \in Shown
           Failed == Saved({"cancelled", "failed"}) /\ screen' = screen
<1>2. ASSUME NEW status \in Statuses \cup {"keep"}, NEW ids \in Ids \cup {"keep"},
             Save(m, status, ids)
      PROVE  Saved({status})
  BY <1>1, <1>2, Updates
<1>3. ASSUME DeliverWithdrawn(m)  PROVE Obeyed
  <2>1. PICK status \in {"cancelled", "delete_requested"}, ids \in {"none", "usable"} :
          Save(m, status, ids)
    BY <1>3 DEF DeliverWithdrawn
  <2>2. Saved({status})
    BY <2>1, <1>2 DEF Statuses, Ids
  <2>3. Obeyed
    BY <1>3, <2>2 DEF DeliverWithdrawn, VkDelete
  <2> QED  BY <2>3
<1>4. ASSUME DeliverSent(m)  PROVE Marked
  <2>1. PICK status \in {"sent", "keep"}, ids \in {"none", "usable"} : Save(m, status, ids)
    BY <1>4 DEF DeliverSent
  <2>2. Saved({status})
    BY <2>1, <1>2 DEF Statuses, Ids
  <2>3. screen[m] \in Shown
    <3>1. SentJob(m)
      BY DEF OutboxInv, MessageInv
    <3> QED  BY <1>1, <1>4, <3>1 DEF DeliverSent, SentJob, At
  <2> QED  BY <1>4, <2>2, <2>3 DEF DeliverSent
<1>5. ASSUME DeliverFailed(m)  PROVE Failed
  <2>1. PICK status \in {"cancelled", "failed"} : Save(m, status, "none")
    BY <1>5 DEF DeliverFailed
  <2>2. Saved({status})
    BY <2>1, <1>2 DEF Statuses, Ids
  <2> QED  BY <1>5, <2>2 DEF DeliverFailed
<1>6. Obeyed \/ Marked \/ Failed
  BY <1>3, <1>4, <1>5 DEF DeliverLoad
<1>7. /\ job' \in [Messages -> Jobs] /\ screen' \in [Messages -> Screens]
      /\ \A n \in Messages \ {m} : job'[n] = job[n] /\ screen'[n] = screen[n]
  BY <1>1, <1>6 DEF TypeOK, Screens
<1>8. JobWrites(m)' /\ SentJob(m)' /\ DeleteJob(m)' /\ GoneJob(m)' /\ CriticalJob(m)'
      /\ SentShown(m)' /\ GoneWithdrawn(m)'
  BY <1>1, <1>6 DEF OutboxInv, TypeOK, MessageInv, JobWrites, SentJob, At, DeleteJob, GoneJob,
     CriticalJob, SentShown, GoneWithdrawn
<1> QED  BY <1>1, <1>7, <1>8, JobStep DEF TypeOK

LEMMA DeliverRaisesInv ==
  ASSUME OutboxInv, NEW m \in Messages, DeliverRaises(m)  PROVE OutboxInv'
<1>1. /\ job[m].kind = "deliver" /\ job' = [job EXCEPT ![m].step = "rescue", ![m].put = Keep]
      /\ UNCHANGED <<row, tx, trim, phase, screen, event, over>> /\ TypeOK
  BY DEF DeliverRaises, OutboxInv
<1>2. /\ job' \in [Messages -> Jobs] /\ \A n \in Messages \ {m} : job'[n] = job[n]
      /\ job'[m].kind = "deliver" /\ job'[m].step = "rescue" /\ job'[m].put.status = "keep"
  BY <1>1, ZenonT(40) DEF TypeOK, Jobs, Keep, Put, Puts
<1>3. JobWrites(m)' /\ SentJob(m)' /\ DeleteJob(m)' /\ GoneJob(m)' /\ CriticalJob(m)'
      /\ SentShown(m)' /\ GoneWithdrawn(m)'
  BY <1>1, <1>2 DEF OutboxInv, MessageInv, JobWrites, SentJob, At, DeleteJob, GoneJob,
     CriticalJob, SentShown, GoneWithdrawn
<1> QED  BY <1>1, <1>2, <1>3, JobStep DEF TypeOK

LEMMA DeliverRescueInv ==
  ASSUME OutboxInv, NEW m \in Messages, DeliverRescue(m)  PROVE OutboxInv'
<1>1. /\ job[m].kind = "deliver" /\ TypeOK
      /\ End(m) \/ (Save(m, "failed", "none") /\ row[m].status = "sending")
      /\ UNCHANGED <<row, tx, trim, phase, screen, event, over>>
  BY DEF DeliverRescue, At, OutboxInv
<1>2. /\ job' \in [Messages -> Jobs] /\ \A n \in Messages \ {m} : job'[n] = job[n]
      /\ \/ job'[m] = Idle
         \/ job'[m].kind = "deliver" /\ job'[m].step = "write" /\ job'[m].put.status = "failed"
            /\ row[m].status = "sending"
  <2>1. CASE End(m)
    BY <1>1, <2>1, Updates
  <2>2. CASE Save(m, "failed", "none") /\ row[m].status = "sending"
    BY <1>1, <2>2, Updates DEF Statuses, Ids
  <2> QED  BY <1>1, <2>1, <2>2
<1>3. JobWrites(m)' /\ SentJob(m)' /\ DeleteJob(m)' /\ GoneJob(m)' /\ CriticalJob(m)'
      /\ SentShown(m)' /\ GoneWithdrawn(m)'
  BY <1>1, <1>2, Constants DEF OutboxInv, MessageInv, JobWrites, SentJob, At, DeleteJob, GoneJob,
     CriticalJob, SentShown, GoneWithdrawn, Withdrawn
<1> QED  BY <1>1, <1>2, <1>3, JobStep DEF TypeOK

LEMMA DeleteReadInv ==
  ASSUME OutboxInv, NEW m \in Messages, DeleteRead(m)  PROVE OutboxInv'
<1>1. /\ job[m].kind = "delete" /\ TypeOK /\ job[m].arg \in Cards \cup Answers
      /\ \/ End(m) \/ Step(m, "calling", job[m].arg)
         \/ Save(m, "delete_requested", "keep") \/ Save(m, "cancelled", "undeletable")
      /\ UNCHANGED <<row, tx, trim, phase, screen, event, over>>
  BY DEF DeleteRead, At, OutboxInv, TypeOK, Jobs
<1>2. /\ job' \in [Messages -> Jobs] /\ \A n \in Messages \ {m} : job'[n] = job[n]
      /\ \/ job'[m] = Idle
         \/ job'[m].kind = "delete" /\ job'[m].step = "calling" /\ job'[m].put = job[m].put
         \/ job'[m].kind = "delete" /\ job'[m].step = "write"
            /\ job'[m].put.status \in {"delete_requested", "cancelled"}
  <2>1. CASE End(m)
    BY <1>1, <2>1, Updates
  <2>2. CASE Step(m, "calling", job[m].arg)
    BY <1>1, <2>2, Updates
  <2>3. CASE Save(m, "delete_requested", "keep")
    BY <1>1, <2>3, Updates DEF Statuses, Ids
  <2>4. CASE Save(m, "cancelled", "undeletable")
    BY <1>1, <2>4, Updates DEF Statuses, Ids
  <2> QED  BY <1>1, <2>1, <2>2, <2>3, <2>4
<1>3. JobWrites(m)' /\ SentJob(m)' /\ DeleteJob(m)' /\ GoneJob(m)' /\ CriticalJob(m)'
      /\ SentShown(m)' /\ GoneWithdrawn(m)'
  BY <1>1, <1>2, Constants DEF OutboxInv, MessageInv, JobWrites, SentJob, At, DeleteJob, GoneJob,
     CriticalJob, SentShown, GoneWithdrawn
<1> QED  BY <1>1, <1>2, <1>3, JobStep DEF TypeOK

LEMMA DeleteCallInv ==
  ASSUME OutboxInv, NEW m \in Messages, DeleteCall(m)  PROVE OutboxInv'
<1>1. /\ job[m].kind = "delete" /\ TypeOK
      /\ Save(m, "cancelled", "none") \/ Save(m, "delete_requested", "keep")
      /\ \/ screen' = screen
         \/ screen[m] \in Shown /\ screen' = [screen EXCEPT ![m] = "gone"]
      /\ UNCHANGED <<row, tx, trim, phase, event, over>>
  BY DEF DeleteCall, At, VkDelete, OutboxInv
<1>2. /\ job' \in [Messages -> Jobs] /\ \A n \in Messages \ {m} : job'[n] = job[n]
      /\ job'[m].kind = "delete" /\ job'[m].step = "write"
      /\ job'[m].put.status \in {"delete_requested", "cancelled"}
  <2>1. CASE Save(m, "cancelled", "none")
    BY <1>1, <2>1, Updates DEF Statuses, Ids
  <2>2. CASE Save(m, "delete_requested", "keep")
    BY <1>1, <2>2, Updates DEF Statuses, Ids
  <2> QED  BY <1>1, <2>1, <2>2
<1>3. screen' \in [Messages -> Screens] /\ \A n \in Messages \ {m} : screen'[n] = screen[n]
  BY <1>1 DEF TypeOK, Screens
<1>4. JobWrites(m)' /\ SentJob(m)' /\ DeleteJob(m)' /\ GoneJob(m)' /\ CriticalJob(m)'
      /\ SentShown(m)' /\ GoneWithdrawn(m)'
  BY <1>1, <1>2 DEF OutboxInv, TypeOK, MessageInv, JobWrites, SentJob, At, DeleteJob, GoneJob,
     CriticalJob, SentShown, GoneWithdrawn, Withdrawn
<1> QED  BY <1>1, <1>2, <1>3, <1>4, JobStep DEF TypeOK

LEMMA FinalizeRunInv ==
  ASSUME OutboxInv, NEW m \in Messages, FinalizeRun(m)  PROVE OutboxInv'
<1>1. /\ job[m].kind = "finalize" /\ TypeOK /\ screen[m] # "gone"
      /\ UNCHANGED <<row, tx, trim, phase, event, over>>
      /\ \/ End(m) /\ screen' = screen
         \/ Save(m, "finalize_requested", "keep")
            /\ \/ screen' = screen
               \/ screen[m] \in Shown /\ screen' = [screen EXCEPT ![m] = "closed"]
         \/ Save(m, "sent", "keep") /\ screen[m] \in Shown
            /\ screen' = [screen EXCEPT ![m] = "closed"]
  BY DEF FinalizeRun, At, VkEdit, OutboxInv, MessageInv, GoneJob
<1>2. /\ job' \in [Messages -> Jobs] /\ \A n \in Messages \ {m} : job'[n] = job[n]
      /\ \/ job'[m] = Idle /\ screen' = screen
         \/ /\ job'[m].kind = "finalize" /\ job'[m].step = "write"
            /\ job'[m].put.status = "finalize_requested"
            /\ \/ screen' = screen
               \/ screen[m] \in Shown /\ screen' = [screen EXCEPT ![m] = "closed"]
         \/ /\ job'[m].kind = "finalize" /\ job'[m].step = "write"
            /\ job'[m].put.status = "sent" /\ screen' = [screen EXCEPT ![m] = "closed"]
  <2>1. CASE End(m) /\ screen' = screen
    BY <1>1, <2>1, Updates
  <2>2. CASE Save(m, "finalize_requested", "keep")
    BY <1>1, <2>2, Updates DEF Statuses, Ids, Save
  <2>3. CASE Save(m, "sent", "keep") /\ screen' = [screen EXCEPT ![m] = "closed"]
    BY <1>1, <2>3, Updates DEF Statuses, Ids
  <2> QED  BY <1>1, <2>1, <2>2, <2>3
<1>3. /\ screen' \in [Messages -> Screens] /\ screen'[m] # "gone"
      /\ screen'[m] \in {screen[m], "closed"}
      /\ \A n \in Messages \ {m} : screen'[n] = screen[n]
  BY <1>1, <1>2 DEF TypeOK, Screens
<1>4. job'[m].put.status = "sent" => screen'[m] = "closed"
  BY <1>1, <1>2, Constants DEF TypeOK
<1>5. JobWrites(m)' /\ SentJob(m)' /\ DeleteJob(m)' /\ GoneJob(m)' /\ CriticalJob(m)'
      /\ SentShown(m)' /\ GoneWithdrawn(m)'
  BY <1>1, <1>2, <1>3, <1>4, Constants DEF OutboxInv, MessageInv, JobWrites, SentJob, At, DeleteJob,
     GoneJob, CriticalJob, SentShown, GoneWithdrawn, Shown
<1> QED  BY <1>1, <1>2, <1>3, <1>5, JobStep DEF TypeOK

LEMMA JobDiesInv ==
  ASSUME OutboxInv, NEW m \in Messages, JobDies(m)  PROVE OutboxInv'
<1>1. /\ job[m].kind # "none" /\ TypeOK /\ End(m)
      /\ UNCHANGED <<row, tx, trim, phase, screen, event, over>>
  BY DEF JobDies, OutboxInv
<1>2. job' \in [Messages -> Jobs] /\ job'[m] = Idle /\ \A n \in Messages \ {m} : job'[n] = job[n]
  BY <1>1, Updates
<1>3. JobWrites(m)' /\ SentJob(m)' /\ DeleteJob(m)' /\ GoneJob(m)' /\ CriticalJob(m)'
      /\ SentShown(m)' /\ GoneWithdrawn(m)'
  BY <1>1, <1>2, Constants DEF OutboxInv, MessageInv, JobWrites, SentJob, At, DeleteJob, GoneJob,
     CriticalJob, SentShown, GoneWithdrawn
<1> QED  BY <1>1, <1>2, <1>3, JobStep DEF TypeOK

LEMMA JobWriteInv ==
  ASSUME OutboxInv, NEW m \in Messages, JobWrite(m)  PROVE OutboxInv'
<1> DEFINE p == job[m].put
<1>1. /\ job[m].step = "write" /\ Unlocked(m) /\ TypeOK /\ p \in Puts /\ row[m] \in Row
      /\ row' = [row EXCEPT ![m] = Written(row[m], p)] /\ End(m)
      /\ UNCHANGED <<tx, trim, phase, screen, event, over>>
  BY DEF JobWrite, OutboxInv, TypeOK, Jobs
<1>2. /\ Written(row[m], p) \in Row
      /\ Written(row[m], p).critical = row[m].critical
      /\ Written(row[m], p).status = IF p.status = "keep" THEN row[m].status ELSE p.status
  BY <1>1, WrittenRow
<1>3. job' \in [Messages -> Jobs] /\ job'[m] = Idle /\ \A n \in Messages \ {m} : job'[n] = job[n]
  BY <1>1, Updates
<1>4. /\ row' \in [Messages -> Row] /\ \A n \in Messages \ {m} : row'[n] = row[n]
      /\ row'[m] = Written(row[m], p)
  BY <1>1, <1>2 DEF TypeOK
<1>5. TypeOK'
  BY <1>1, <1>3, <1>4 DEF TypeOK
<1>6. p.status # "none" /\ row[m].status # "none" /\ job[m].kind \in Phases
  BY <1>1, Constants DEF OutboxInv, TypeOK, Jobs, Phases, MessageInv, JobWrites, Fresh
<1>7. row'[m].critical = row[m].critical
      /\ row'[m].status = IF p.status = "keep" THEN row[m].status ELSE p.status
  BY <1>2, <1>4
<1>8. SentShown(m)'
  <2>1. SentJob(m) /\ SentShown(m)
    BY DEF OutboxInv, MessageInv
  <2> QED  BY <2>1, <1>1, <1>7 DEF SentShown, SentJob
<1>9. GoneWithdrawn(m)'
  BY <1>1, <1>6, <1>7 DEF OutboxInv, MessageInv, GoneWithdrawn, GoneJob, DeleteJob, Phases,
     Withdrawn
<1>10. CriticalJob(m)'
  <2>1. CASE ~row[m].critical
    BY <2>1, <1>7 DEF CriticalJob
  <2>2. CASE row[m].critical
    <3>1. event[m] = "reviving" => row'[m].status \in Withdrawn
      BY <2>2, <1>6, <1>7 DEF OutboxInv, MessageInv, CriticalJob, DeleteJob, Phases, Withdrawn
    <3> QED  BY <3>1, <1>1, <1>3, Constants DEF CriticalJob
  <2> QED  BY <2>1, <2>2
<1>11. MessageInv(m)'
  BY <1>1, <1>3, <1>6, <1>7, <1>8, <1>9, <1>10, Constants DEF OutboxInv, MessageInv, Locked,
     Unlocked, Fresh, JobWrites, SentJob, At, DeleteJob, GoneJob
<1>12. row'[m].status = "none" <=> row[m].status = "none"
  BY <1>6, <1>7
<1>13. \A n \in Messages \ {m} : /\ row'[n] = row[n] /\ tx'[n] = tx[n] /\ job'[n] = job[n]
                                 /\ screen'[n] = screen[n] /\ event'[n] = event[n]
  BY <1>1, <1>3, <1>4
<1> QED  BY <1>1, <1>5, <1>7, <1>11, <1>12, <1>13, OneMessage

---------------------------------------------------------------------------
(* The worker, and a crash. *)

\* A claim finds no job, and changes rows which nobody has locked: a row given
\* to a job is in the state the phase leaves it in, one released is pending.
LEMMA ClaimInv ==
  ASSUME OutboxInv, AllDone, NEW kind \in Phases, NEW to \in Statuses, NEW next \in Phases,
         NEW S \in SUBSET Messages, NEW released \in SUBSET Messages,
         Claim(kind, S, released, to, next),
         \A n \in S \cup released : Unlocked(n) /\ row[n].status # "none",
         \A n \in released : row[n].status = "sending",
         to \notin {"none", "sent"},
         \A n \in S : screen[n] = "gone" => to \in Withdrawn /\ kind = "delete",
         kind = "delete" => to \in Withdrawn,
         kind = "finalize" => to = "finalizing",
         kind = "deliver" => to = "sending",
         \A n \in S : row[n].critical /\ event[n] = "reviving" => to \in Withdrawn
  PROVE  OutboxInv'
<1>1. \A n \in Messages : row[n] \in Row /\ job[n] = Idle
  BY DEF OutboxInv, TypeOK, AllDone
<1>2. /\ row' = [n \in Messages |->
                 CASE n \in S -> [row[n] EXCEPT !.status = to]
                   [] n \in released \ S -> [row[n] EXCEPT !.status = "pending"]
                   [] OTHER -> row[n]]
      /\ job' = [n \in Messages |-> IF n \in S THEN Claimed(kind) ELSE Idle]
      /\ phase' = next /\ UNCHANGED <<tx, trim, screen, event, over>>
  BY DEF Claim
<1>3. \A n \in Messages :
        /\ row'[n] \in Row /\ row'[n].critical = row[n].critical
        /\ n \in S => row'[n].status = to
        /\ n \in released \ S => row'[n].status = "pending"
        /\ n \notin S \cup released => row'[n] = row[n]
  <2> TAKE n \in Messages
  <2>1. CASE n \in S
    BY <1>1, <1>2, <2>1 DEF Row
  <2>2. CASE n \in released \ S
    BY <1>1, <1>2, <2>2 DEF Row, Statuses
  <2>3. CASE n \notin S \cup released
    BY <1>1, <1>2, <2>3
  <2> QED  BY <2>1, <2>2, <2>3
<1>4. \A n \in Messages : job'[n] = IF n \in S THEN Claimed(kind) ELSE Idle
  BY <1>2
<1>5. TypeOK'
  <2>1. row' \in [Messages -> Row]
    BY <1>2, <1>3
  <2>2. job' \in [Messages -> Jobs]
    BY <1>2, Constants
  <2> QED  BY <1>2, <2>1, <2>2 DEF OutboxInv, TypeOK
<1>6. \A n \in Messages : row'[n].status = "none" <=> row[n].status = "none"
  BY <1>3
<1>7. Trimmed'
  BY <1>2, <1>3, <1>6 DEF OutboxInv, TypeOK, Trimmed
<1>8. ASSUME NEW n \in S  PROVE MessageInv(n)'
  <2>1. /\ row'[n].status = to /\ row'[n].critical = row[n].critical /\ tx[n] = NoTx
        /\ job'[n].kind = kind /\ job'[n].step = "claimed" /\ job'[n].put.status = "keep"
        /\ row[n].status # "none" /\ row'[n].critical \in BOOLEAN
    BY <1>3, <1>4, Constants DEF Unlocked, Row
  <2>2. DeleteJob(n)' /\ GoneJob(n)' /\ CriticalJob(n)' /\ GoneWithdrawn(n)'
    BY <1>2, <2>1 DEF Phases, DeleteJob, GoneJob, CriticalJob, GoneWithdrawn, Withdrawn
  <2> QED
    BY <1>2, <2>1, <2>2 DEF Phases, MessageInv, Locked, Unlocked, Fresh, JobWrites, SentJob, At,
       SentShown
<1>9. ASSUME NEW n \in Messages \ S  PROVE MessageInv(n)'
  <2>1. job'[n] = Idle /\ job'[n].kind = "none" /\ job'[n].step = "none"
        /\ job'[n].put.status = "keep"
    BY <1>4, Constants
  <2>2. CASE n \in released
    <3>1. /\ row'[n].status = "pending" /\ row'[n].critical = row[n].critical /\ tx[n] = NoTx
          /\ row[n].status = "sending"
      BY <2>2, <1>3 DEF Unlocked
    <3>2. screen[n] # "gone" /\ (row[n].critical => event[n] # "reviving")
      BY <3>1 DEF OutboxInv, MessageInv, GoneWithdrawn, CriticalJob, Withdrawn
    <3> QED
      BY <1>2, <2>1, <3>1, <3>2 DEF MessageInv, Locked, Unlocked, Fresh, JobWrites, SentJob, At,
         DeleteJob, GoneJob, CriticalJob, SentShown, GoneWithdrawn
  <2>3. CASE n \notin released
    <3>1. row'[n] = row[n]
      BY <2>3, <1>3
    <3>2. CriticalJob(n)'
      BY <1>2, <2>1, <3>1 DEF OutboxInv, MessageInv, CriticalJob
    <3> QED
      BY <1>1, <1>2, <2>1, <3>1, <3>2 DEF OutboxInv, MessageInv, Locked, Unlocked, Fresh, JobWrites,
         SentJob, At, DeleteJob, GoneJob, SentShown, GoneWithdrawn
  <2> QED  BY <2>2, <2>3
<1> QED  BY <1>5, <1>7, <1>8, <1>9 DEF OutboxInv

LEMMA WorkerInv ==
  ASSUME OutboxInv, Worker  PROVE OutboxInv'
<1> USE DEF Phases, Statuses, Withdrawn
<1>1. CASE ClaimFinalize
  <2>1. PICK S \in SUBSET Due({"finalize_requested"}) :
          Claim("finalize", S, {}, "finalizing", "delete")
    BY <1>1 DEF ClaimFinalize
  <2>2. \A n \in S : n \in Messages /\ row[n].status = "finalize_requested" /\ Unlocked(n)
    BY DEF Due
  <2>3. \A n \in S : screen[n] # "gone" /\ (row[n].critical => event[n] # "reviving")
    BY <2>2 DEF OutboxInv, MessageInv, GoneWithdrawn, CriticalJob
  <2> QED  BY <1>1, <2>1, <2>2, <2>3, ClaimInv DEF ClaimFinalize
<1>2. CASE ClaimDelete
  <2>1. PICK S \in SUBSET Due({"delete_requested"}) :
          Claim("delete", S, {}, "deleting", "deliver")
    BY <1>2 DEF ClaimDelete
  <2>2. \A n \in S : n \in Messages /\ row[n].status = "delete_requested" /\ Unlocked(n)
    BY DEF Due
  <2> QED  BY <1>2, <2>1, <2>2, ClaimInv DEF ClaimDelete
<1>3. CASE ClaimDeliver
  <2>4. PICK released \in SUBSET Due({"sending"}) :
          \E S \in SUBSET (released \cup Due({"pending", "failed"})) :
             Claim("deliver", S, released, "sending", "finalize")
    BY <1>3 DEF ClaimDeliver
  <2>1. PICK S \in SUBSET (released \cup Due({"pending", "failed"})) :
          Claim("deliver", S, released, "sending", "finalize")
    BY <2>4
  <2>2. /\ \A n \in released : n \in Messages /\ row[n].status = "sending" /\ Unlocked(n)
        /\ \A n \in S : /\ n \in Messages /\ Unlocked(n)
                        /\ row[n].status \in {"sending", "pending", "failed"}
    BY DEF Due
  <2>3. \A n \in S : screen[n] # "gone" /\ (row[n].critical => event[n] # "reviving")
    BY <2>2 DEF OutboxInv, MessageInv, GoneWithdrawn, CriticalJob
  <2> QED  BY <1>3, <2>1, <2>2, <2>3, ClaimInv DEF ClaimDeliver
<1>4. CASE WorkerFails
  <2>1. TypeOK'
    BY <1>4 DEF WorkerFails, OutboxInv, TypeOK
  <2>2. Trimmed'
    BY <1>4 DEF WorkerFails, OutboxInv, Trimmed
  <2>3. ASSUME NEW n \in Messages  PROVE MessageInv(n)'
    BY <1>4 DEF WorkerFails, OutboxInv, MessageInv, Locked, Unlocked, Fresh, JobWrites, SentJob, At,
       DeleteJob, GoneJob, CriticalJob, SentShown, GoneWithdrawn
  <2> QED  BY <2>1, <2>2, <2>3 DEF OutboxInv
<1> QED  BY <1>1, <1>2, <1>3, <1>4 DEF Worker

\* A crash loses the jobs and the open transactions: what was being sent is sent
\* again, which VK tells from a new message, and no row becomes `sent'.
LEMMA OutboxRestartInv ==
  ASSUME OutboxInv, Restart  PROVE OutboxInv'
<1>1. /\ row' = [n \in Messages |-> Recovered(row[n])]
      /\ tx' = [n \in Messages |-> NoTx] /\ job' = [n \in Messages |-> Idle]
      /\ trim' = [n \in Messages |-> {}] /\ phase' = "finalize" /\ UNCHANGED <<screen, over>>
  BY DEF Restart
<1>2. /\ event' \in [Messages -> Events]
      /\ \A n \in Messages : event'[n] # "reviving" /\ (event[n] = "none" => event'[n] = "none")
  <2>1. PICK lost \in SUBSET Messages :
         event' = [n \in Messages |->
                     CASE event[n] \in {"due", "noting", "reviving"} /\ n \in lost -> "done"
                       [] event[n] \in {"noting", "reviving"} /\ n \notin lost -> "due"
                       [] OTHER -> event[n]]
    BY DEF Restart
  <2>2. ASSUME NEW n \in Messages
        PROVE  /\ event'[n] \in Events /\ event'[n] # "reviving"
               /\ event[n] = "none" => event'[n] = "none"
    <3>1. event[n] \in Events
      BY DEF OutboxInv, TypeOK
    <3>2. CASE event[n] \in {"due", "noting", "reviving"} /\ n \in lost
      BY <2>1, <3>2 DEF Events
    <3>3. CASE event[n] \in {"noting", "reviving"} /\ n \notin lost
      BY <2>1, <3>3 DEF Events
    <3>4. CASE event[n] \notin {"noting", "reviving"} /\ ~(event[n] = "due" /\ n \in lost)
      BY <2>1, <3>1, <3>4
    <3> QED  BY <3>2, <3>3, <3>4
  <2> QED  BY <2>1, <2>2
<1>3. \A n \in Messages : /\ row[n] \in Row /\ row'[n] = Recovered(row[n])
                          /\ tx'[n] = NoTx /\ job'[n] = Idle /\ trim'[n] = {}
  BY <1>1 DEF OutboxInv, TypeOK
<1>4. TypeOK'
  BY <1>1, <1>2, <1>3, RecoveredRow, Constants DEF OutboxInv, TypeOK, Phases
<1>5. Trimmed'
  BY <1>3 DEF Trimmed
<1>6. ASSUME NEW n \in Messages  PROVE MessageInv(n)'
  <2>1. /\ row'[n].status = "none" <=> row[n].status = "none"
        /\ row[n].status = "none" => row'[n] = row[n]
        /\ row'[n].status = "sent" => row[n].status = "sent"
        /\ row[n].status \in Withdrawn \cup {"cancel_requested"} => row'[n].status \in Withdrawn
    BY <1>3, RecoveredRow
  <2>2. /\ job'[n].kind = "none" /\ job'[n].step = "none" /\ job'[n].put.status = "keep"
        /\ screen'[n] = screen[n]
    BY <1>1, <1>3, Constants
  <2>3. Fresh(n)'
    BY <1>2, <1>3, <2>1, <2>2 DEF OutboxInv, MessageInv, Fresh
  <2>4. SentShown(n)' /\ GoneWithdrawn(n)'
    BY <2>1, <2>2 DEF OutboxInv, MessageInv, SentShown, GoneWithdrawn
  <2> QED
    BY <1>2, <1>3, <2>2, <2>3, <2>4 DEF MessageInv, Locked, Unlocked, JobWrites, SentJob, At,
       DeleteJob, GoneJob, CriticalJob
<1> QED  BY <1>4, <1>5, <1>6 DEF OutboxInv

---------------------------------------------------------------------------
(* The theorems. *)

LEMMA OutboxInitInv ==
  Init => OutboxInv
<1> SUFFICES ASSUME Init PROVE OutboxInv
  OBVIOUS
<1>1. TypeOK
  BY Constants DEF Init, TypeOK, Phases, Screens, Events
<1>2. Trimmed
  BY DEF Init, Trimmed
<1>3. ASSUME NEW n \in Messages  PROVE MessageInv(n)
  BY Constants DEF Init, MessageInv, Locked, Unlocked, Fresh, JobWrites, SentJob, At,
     DeleteJob, GoneJob, CriticalJob, SentShown, GoneWithdrawn
<1> QED  BY <1>1, <1>2, <1>3 DEF OutboxInv

LEMMA StepInv ==
  OutboxInv /\ [Next]_vars => OutboxInv'
<1> SUFFICES ASSUME OutboxInv, [Next]_vars  PROVE OutboxInv'
  OBVIOUS
<1>1. CASE Worker
  BY <1>1, WorkerInv
<1>2. CASE Restart
  BY <1>2, OutboxRestartInv
<1>3. ASSUME NEW m \in Messages, Handlers(m)  PROVE OutboxInv'
  BY <1>3, PostInv, PostOverCapInv, PostCommitInv, PostRollbackInv, CancelInv, FinalizeInv,
     CommitInv, RollbackInv, EventReadInv, EventWriteInv DEF Handlers
<1>4. ASSUME NEW m \in Messages, Job(m)  PROVE OutboxInv'
  BY <1>4, JobWriteInv, DeliverReadInv, DeliverCallInv, DeliverLoadInv, DeliverRaisesInv,
     DeliverRescueInv, DeleteReadInv, DeleteCallInv, FinalizeRunInv, JobDiesInv DEF Job
<1>5. CASE UNCHANGED vars
  <2>1. TypeOK' /\ Trimmed'
    BY <1>5 DEF vars, OutboxInv, TypeOK, Trimmed
  <2>2. ASSUME NEW n \in Messages  PROVE MessageInv(n)'
    BY <1>5 DEF vars, OutboxInv, MessageInv, Locked, Unlocked, Fresh, JobWrites, SentJob, At,
       DeleteJob, GoneJob, CriticalJob, SentShown, GoneWithdrawn
  <2> QED  BY <2>1, <2>2 DEF OutboxInv
<1> QED  BY <1>1, <1>2, <1>3, <1>4, <1>5 DEF Next

\* The inductive invariant holds in every state of every execution.
THEOREM OutboxInvariant == Spec => []OutboxInv
BY OutboxInitInv, StepInv, PTL DEF Spec

\* Every column, job, lock and message on the screen keeps a value of its kind:
\* in particular a job only ever sends the card it has read from its row.
THEOREM TypeCorrect == Spec => []TypeOK
<1>1. OutboxInv => TypeOK
  BY DEF OutboxInv
<1> QED  BY <1>1, OutboxInvariant, PTL

\* A row is marked `sent' only over a message the peer has: _deliver_one and
\* _finalize_one of outbox_service.py write that status after what they have seen
\* of VK, and no deletion of the message is under way at that time.
THEOREM SentIsShownAlways == Spec => []SentIsShown
<1>1. OutboxInv => SentIsShown
  BY DEF OutboxInv, MessageInv, SentShown, SentIsShown
<1> QED  BY <1>1, OutboxInvariant, PTL

\* What has left the chat was withdrawn, and its row says so: no job of an earlier
\* phase, which writes its columns over whatever the row has become, and no restart
\* makes a deleted message look pending or sent.
THEOREM GoneIsWithdrawnAlways == Spec => []GoneIsWithdrawn
<1>1. OutboxInv => GoneIsWithdrawn
  BY DEF OutboxInv, MessageInv, GoneWithdrawn, GoneIsWithdrawn
<1> QED  BY <1>1, OutboxInvariant, PTL

---------------------------------------------------------------------------
(* A withdrawn critical row. *)

Final(m) ==
    row[m].critical /\ row[m].status \in Withdrawn =>
        /\ row'[m].status \in Withdrawn
        /\ screen[m] = "nothing" => screen'[m] = "nothing"

\* A call that edits or deletes finds the message on the screen.
LEMMA CallFinal ==
  ASSUME TypeOK, NEW k \in Messages, NEW ok, VkEdit(k, ok) \/ VkDelete(k, ok), row' = row,
         NEW m \in Messages
  PROVE  Final(m)
BY DEF VkEdit, VkDelete, TypeOK, Final, Shown

LEMMA HandlerFinal ==
  ASSUME OutboxInv, NEW k \in Messages, Handlers(k), NEW m \in Messages  PROVE Final(m)
<1> SUFFICES ASSUME row[m].critical, row[m].status \in Withdrawn  PROVE Final(m)
  BY DEF Final
<1>0. TypeOK /\ row[m] \in Row /\ row[m].status # "none"
  BY DEF OutboxInv, TypeOK, Withdrawn
<1>1. CASE row' = row /\ screen' = screen
  BY <1>1 DEF Final
<1>2. CASE Finalize(k)
  <2>1. row' = row /\ (screen' = screen \/ \E ok \in BOOLEAN : VkEdit(k, ok))
    BY <1>2 DEF Finalize, FinalizeQueued, FinalizeLater, FinalizeNow
  <2> QED  BY <1>0, <1>1, <2>1, CallFinal
<1>3. CASE Post(k)
  <2>1. row[k] = Unwritten /\ screen' = screen
        /\ \E critical \in BOOLEAN : row' = [row EXCEPT ![k] = Posted(critical)]
    BY <1>3 DEF Post
  <2>2. k # m
    BY <1>0, <2>1, Constants
  <2> QED  BY <1>0, <2>1, <2>2 DEF Final, TypeOK
<1>4. CASE PostCommit(k)
  <2>1. /\ row' = [n \in Messages |->
                 CASE n = k -> Posted(FALSE)
                   [] n \in trim[k] -> Written(row[n], Put("cancelled", "none"))
                   [] OTHER -> row[n]]
        /\ screen' = screen /\ trim[k] # {}
    BY <1>4 DEF PostCommit
  <2>2. m # k /\ m \notin trim[k]
    BY <1>0, <2>1 DEF OutboxInv, Trimmed
  <2>3. row'[m] = row[m]
    BY <2>1, <2>2
  <2> QED  BY <2>1, <2>3 DEF Final
<1>5. CASE Commit(k)
  <2>1. row' = [row EXCEPT ![k] = tx[k]] /\ screen' = screen /\ tx[k] \in Changes(row[k])
    BY <1>5 DEF Commit, OutboxInv, MessageInv, Locked
  <2>2. CASE k = m
    BY <1>0, <2>1, <2>2, NoChange, ChangeOf DEF Final, Withdrawn, TypeOK
  <2>3. CASE k # m
    BY <2>1, <2>3 DEF Final
  <2> QED  BY <2>2, <2>3
<1>6. CASE EventWrite(k)
  <2> DEFINE status == IF event[k] = "reviving" THEN "delete_requested" ELSE "keep"
             p == Put(status, "usable")
  <2>1. row' = [row EXCEPT ![k] = Written(row[k], p)] /\ screen' = screen
    BY <1>6 DEF EventWrite
  <2>2. p \in Puts /\ p.status = status
    BY DEF Put, Puts, Statuses, Ids
  <2> HIDE DEF p
  <2>3. CASE k = m
    BY <1>0, <2>1, <2>2, <2>3, WrittenRow DEF Final, Withdrawn, TypeOK
  <2>4. CASE k # m
    BY <2>1, <2>4 DEF Final
  <2> QED  BY <2>3, <2>4
<1>7. CASE PostOverCap(k) \/ PostRollback(k) \/ CloseOrder(k) \/ Cancel(k) \/ Rollback(k)
           \/ EventRead(k)
  BY <1>1, <1>7 DEF PostOverCap, PostRollback, CloseOrder, Cancel, Rollback, EventRead
<1> QED  BY <1>2, <1>3, <1>4, <1>5, <1>6, <1>7 DEF Handlers

\* Of the jobs only that of the delete phase meets a withdrawn critical row.
LEMMA JobFinal ==
  ASSUME OutboxInv, NEW k \in Messages, Job(k), NEW m \in Messages  PROVE Final(m)
<1> SUFFICES ASSUME row[m].critical, row[m].status \in Withdrawn  PROVE Final(m)
  BY DEF Final
<1>0. TypeOK /\ row[m] \in Row /\ row[m].status # "none"
  BY DEF OutboxInv, TypeOK, Withdrawn
<1>1. CASE row' = row /\ screen' = screen
  BY <1>1 DEF Final
<1>2. job[m].kind \notin {"deliver", "finalize"}
  BY DEF OutboxInv, MessageInv, CriticalJob, Withdrawn
<1>3. CASE JobWrite(k)
  <2>1. row' = [row EXCEPT ![k] = Written(row[k], job[k].put)] /\ screen' = screen
        /\ job[k].step = "write" /\ job[k] \in Jobs /\ job[k].put \in Puts
    BY <1>3 DEF JobWrite, OutboxInv, TypeOK, Jobs
  <2>2. CASE k = m
    <3>1. job[m].kind = "delete"
      BY <1>2, <2>1, <2>2, Constants DEF OutboxInv, MessageInv, JobWrites, Jobs, Phases
    <3>2. job[m].put.status \in {"keep", "delete_requested", "cancelled"}
      BY <3>1 DEF OutboxInv, MessageInv, DeleteJob
    <3>3. Written(row[m], job[m].put).status \in Withdrawn
      BY <1>0, <2>1, <2>2, <3>2, WrittenRow DEF Withdrawn
    <3> QED  BY <1>0, <2>1, <2>2, <3>3 DEF Final, TypeOK
  <2>3. CASE k # m
    BY <2>1, <2>3 DEF Final
  <2> QED  BY <2>2, <2>3
<1>4. CASE DeliverCall(k)
  <2>1. k # m /\ row' = row
    BY <1>2, <1>4 DEF DeliverCall, At
  <2>2. screen' = screen \/ \E card : screen' = [screen EXCEPT ![k] = card]
    BY <1>4 DEF DeliverCall, VkSend
  <2> QED  BY <1>0, <2>1, <2>2 DEF Final, TypeOK
<1>5. CASE DeliverLoad(k)
  <2>1. row' = row /\ (screen' = screen \/ \E ok \in BOOLEAN : VkDelete(k, ok))
    BY <1>5 DEF DeliverLoad, DeliverWithdrawn, DeliverSent, DeliverFailed
  <2> QED  BY <1>0, <1>1, <2>1, CallFinal
<1>6. CASE DeleteCall(k)
  <2>1. row' = row /\ \E ok \in BOOLEAN : VkDelete(k, ok)
    BY <1>6 DEF DeleteCall
  <2> QED  BY <1>0, <2>1, CallFinal
<1>7. CASE FinalizeRun(k)
  <2>1. row' = row /\ (screen' = screen \/ \E ok \in BOOLEAN : VkEdit(k, ok))
    BY <1>7 DEF FinalizeRun
  <2> QED  BY <1>0, <1>1, <2>1, CallFinal
<1>8. CASE DeliverRead(k) \/ DeliverRaises(k) \/ DeliverRescue(k) \/ DeleteRead(k) \/ JobDies(k)
  BY <1>1, <1>8 DEF DeliverRead, DeliverRaises, DeliverRescue, DeleteRead, JobDies
<1> QED  BY <1>3, <1>4, <1>5, <1>6, <1>7, <1>8 DEF Job

\* A claim leaves a withdrawn row alone, or hands it to the delete phase.
LEMMA WorkerFinal ==
  ASSUME OutboxInv, Worker \/ Restart, NEW m \in Messages  PROVE Final(m)
<1> SUFFICES ASSUME row[m].status \in Withdrawn  PROVE Final(m)
  BY DEF Final
<1>0. TypeOK /\ row[m] \in Row
  BY DEF OutboxInv, TypeOK
<1>1. ASSUME NEW kind, NEW to, NEW next, NEW S, NEW released, m \notin released,
             m \in S => to \in Withdrawn, Claim(kind, S, released, to, next)
      PROVE  Final(m)
  <2>1. row'[m] = IF m \in S THEN [row[m] EXCEPT !.status = to] ELSE row[m]
    BY <1>1 DEF Claim
  <2>2. row'[m].status \in Withdrawn
    BY <1>0, <1>1, <2>1 DEF Row
  <2>3. screen' = screen
    BY <1>1 DEF Claim
  <2> QED  BY <2>2, <2>3 DEF Final
<1>2. CASE ClaimFinalize
  BY <1>1, <1>2 DEF ClaimFinalize, Due, Withdrawn
<1>3. CASE ClaimDelete
  BY <1>1, <1>3 DEF ClaimDelete, Withdrawn
<1>4. CASE ClaimDeliver
  <2>1. PICK released \in SUBSET Due({"sending"}) :
          \E S \in SUBSET (released \cup Due({"pending", "failed"})) :
             Claim("deliver", S, released, "sending", "finalize")
    BY <1>4 DEF ClaimDeliver
  <2>2. PICK S \in SUBSET (released \cup Due({"pending", "failed"})) :
          Claim("deliver", S, released, "sending", "finalize")
    BY <2>1
  <2>3. m \notin released /\ m \notin S
    BY DEF Due, Withdrawn
  <2> QED  BY <1>1, <2>2, <2>3
<1>5. CASE WorkerFails
  BY <1>5 DEF WorkerFails, Final
<1>6. CASE Restart
  BY <1>0, <1>6, RecoveredRow DEF Restart, Final
<1> QED  BY <1>2, <1>3, <1>4, <1>5, <1>6 DEF Worker

\* A critical row that cancel_or_delete has withdrawn stays withdrawn, and if
\* nothing of it had been sent by then nothing ever is: the commit of a handler, the
\* late write of a job, the MESSAGE_REPLY event and the recovery of start_worker
\* all leave it among the withdrawn statuses.
THEOREM WithdrawalStands == Spec => WithdrawalIsFinal
<1>1. OutboxInv /\ [Next]_vars =>
        [\A m \in Messages : row[m].critical /\ row[m].status \in Withdrawn =>
             /\ row'[m].status \in Withdrawn
             /\ screen[m] = "nothing" => screen'[m] = "nothing"]_vars
  BY HandlerFinal, JobFinal, WorkerFinal DEF Next, Final
<1> QED  BY <1>1, OutboxInvariant, PTL DEF Spec, WithdrawalIsFinal
=============================================================================
