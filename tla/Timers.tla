------------------------------- MODULE Timers -------------------------------
(***************************************************************************)
(* The timer scheduler of the bot (bot/timers.py).                         *)
(*                                                                         *)
(* A timer is known by a key.  It lives twice: in memory (entries, heap),  *)
(* where every call changes it at once, and as a row of scheduled_jobs,    *)
(* which changes with the transaction around the call.  One thread pops    *)
(* the heap and hands the callbacks to a pool; the row is deleted after    *)
(* the callback, and what a restart finds in the rows is armed again.      *)
(*                                                                         *)
(* Delays are abstracted: an armed timer may become due at any moment.     *)
(* Two transactions that touch one key have locked its order, booking or   *)
(* debt before, so they do not overlap (Alone).                            *)
(***************************************************************************)

EXTENDS Naturals, FiniteSets, Sequences

CONSTANTS
    Keys,      \* the keys of the timers, kind and number
    Txns,      \* the transactions of handlers and of callbacks
    MaxToken   \* bound on the timers ever scheduled

ASSUME KeysAssumption == IsFiniteSet(Keys)
ASSUME MaxTokenAssumption == MaxToken \in Nat

VARIABLES
    made,     \* the key of every token given out, in order of their numbers
    entries,  \* the token armed under each key, 0 for none
    heap,     \* the tokens pushed and not popped
    elapsed,  \* those of them whose delay is over
    pool,     \* the callbacks handed to the pool, with their progress
    holder,   \* the callback whose thread holds _condition while it deletes, or 0
    rows,     \* the keys that have a committed row
    write,    \* what each open transaction has done to the row of each key
    call,     \* the call to schedule or cancel in progress in each transaction
    fresh,    \* the tokens each open transaction has scheduled
    kept      \* the tokens whose transaction has committed

timerVars == <<made, entries, heap, elapsed, pool, holder, rows, write,
               call, fresh, kept>>

Tokens == 1..MaxToken
Issued == DOMAIN made
Writes == {"none", "updated", "inserted", "deleted"}
Progress == {"running", "raised", "retrying", "returned", "clearing"}
Calls == [op: {"schedule", "cancel"}, key: Keys, at: {"memory", "row"}]
NoCall == [op |-> "none"]

TimersInit ==
    /\ made = << >>
    /\ entries = [k \in Keys |-> 0]
    /\ heap = {} /\ elapsed = {} /\ pool = << >> /\ holder = 0
    /\ rows = {}
    /\ write = [x \in Txns |-> [k \in Keys |-> "none"]]
    /\ call = [x \in Txns |-> NoCall]
    /\ fresh = [x \in Txns |-> {}]
    /\ kept = {}

\* _condition is taken for a few instructions everywhere but in _safe_run, which
\* holds it while it waits for the database.
LockFree == holder = 0

\* The row is locked by the transaction that has deleted or inserted it; a changed
\* one (an ORM object) is written when the transaction commits.
RowLocked(k) == \E x \in Txns : write[x][k] \in {"deleted", "inserted"}

\* next(_counter), and the push of the new token.
Token == Len(made) + 1
Push(k) ==
    /\ Token <= MaxToken
    /\ made' = Append(made, k)
    /\ entries' = [entries EXCEPT ![k] = Token]
    /\ heap' = heap \cup {Token}

---------------------------------------------------------------------------
(* Calls inside a transaction: memory first, then the row. *)

Touched(x) == {k \in Keys : write[x][k] # "none"} \cup {made[t] : t \in fresh[x]}
              \cup {k \in Keys : call[x] # NoCall /\ call[x].key = k}
Alone(x, k) == \A y \in Txns \ {x} : k \notin Touched(y)

Begins(x, op, k) ==
    /\ call[x] = NoCall /\ Alone(x, k)
    /\ call' = [call EXCEPT ![x] = [op |-> op, key |-> k, at |-> "memory"]]
    /\ UNCHANGED <<made, entries, heap, elapsed, pool, holder, rows, write,
                   fresh, kept>>

InMemory(x, op) == call[x] # NoCall /\ call[x].op = op /\ call[x].at = "memory" /\ LockFree

ScheduleMemory(x) ==
    /\ InMemory(x, "schedule")
    /\ Push(call[x].key)
    /\ fresh' = [fresh EXCEPT ![x] = @ \cup {Token}]
    /\ call' = [call EXCEPT ![x].at = "row"]
    /\ UNCHANGED <<elapsed, pool, holder, rows, write, kept>>

CancelMemory(x) ==
    /\ InMemory(x, "cancel")
    /\ entries' = [entries EXCEPT ![call[x].key] = 0]
    /\ call' = [call EXCEPT ![x].at = "row"]
    /\ UNCHANGED <<made, heap, elapsed, pool, holder, rows, write, fresh, kept>>

\* The row as the transaction sees it.
Visible(x, k) ==
    \/ k \in rows /\ write[x][k] # "deleted"
    \/ write[x][k] = "inserted"

AfterSchedule(x, k) ==
    CASE write[x][k] = "inserted" -> "inserted"
      [] write[x][k] # "inserted" /\ Visible(x, k) -> "updated"
      [] OTHER -> "inserted"

RowStatement(x) ==
    /\ call[x] # NoCall /\ call[x].at = "row"
    /\ LET k == call[x].key
       IN  write' = [write EXCEPT ![x][k] =
                       CASE call[x].op = "schedule" -> AfterSchedule(x, k)
                         [] call[x].op = "cancel" /\ Visible(x, k) -> "deleted"
                         [] OTHER -> @]
    /\ call' = [call EXCEPT ![x] = NoCall]
    /\ UNCHANGED <<made, entries, heap, elapsed, pool, holder, rows, fresh, kept>>

Closes(x) ==
    /\ call[x] = NoCall
    /\ write' = [write EXCEPT ![x] = [k \in Keys |-> "none"]]
    /\ fresh' = [fresh EXCEPT ![x] = {}]
    /\ UNCHANGED <<made, entries, heap, elapsed, pool, holder, call>>

Wrote(x, what) == {k \in Keys : write[x][k] = what}

\* A changed row that has been deleted meanwhile fails the commit.
CommitTxn(x) ==
    /\ Touched(x) # {} /\ Wrote(x, "updated") \subseteq rows
    /\ rows' = (rows \ Wrote(x, "deleted")) \cup Wrote(x, "inserted")
    /\ kept' = kept \cup fresh[x]
    /\ Closes(x)

RollbackTxn(x) ==
    /\ Touched(x) # {}
    /\ UNCHANGED <<rows, kept>>
    /\ Closes(x)

---------------------------------------------------------------------------
(* The scheduler's thread. *)

Elapse(t) ==
    /\ t \in heap \ elapsed
    /\ elapsed' = elapsed \cup {t}
    /\ UNCHANGED <<made, entries, heap, pool, holder, rows, write, call,
                   fresh, kept>>

\* Mutant of Current: a record of the heap is taken for the timer of its key.
CurrentByKey(t) == entries[made[t]] # 0

Current(t) == entries[made[t]] = t

\* A record whose token is not the one of its key is dropped whenever it comes first.
DropRecord(t) ==
    /\ t \in heap /\ ~Current(t) /\ LockFree
    /\ heap' = heap \ {t} /\ elapsed' = elapsed \ {t}
    /\ UNCHANGED <<made, entries, pool, holder, rows, write, call, fresh, kept>>

Fire(t) ==
    /\ t \in heap \cap elapsed /\ Current(t) /\ LockFree
    /\ heap' = heap \ {t} /\ elapsed' = elapsed \ {t}
    /\ entries' = [entries EXCEPT ![made[t]] = 0]
    /\ pool' = [s \in DOMAIN pool \cup {entries[made[t]]} |->
                  IF s \in DOMAIN pool THEN pool[s] ELSE "running"]
    /\ UNCHANGED <<made, holder, rows, write, call, fresh, kept>>

---------------------------------------------------------------------------
(* The pool: _safe_run. *)

In(t, progress) == t \in DOMAIN pool /\ pool[t] = progress
Goes(t, progress) == pool' = [pool EXCEPT ![t] = progress]
Finishes(t) == pool' = [s \in DOMAIN pool \ {t} |-> pool[s]]

Callback(t) ==
    /\ In(t, "running")
    /\ Goes(t, "returned") \/ Goes(t, "raised")
    /\ UNCHANGED <<made, entries, heap, elapsed, holder, rows, write, call,
                   fresh, kept>>

\* The failed callback is armed again, whatever the key holds by now.
Retry(t) ==
    /\ In(t, "raised") /\ LockFree
    /\ Push(made[t])
    /\ Goes(t, "retrying")
    /\ UNCHANGED <<elapsed, holder, rows, write, call, fresh, kept>>

\* _persist_retry has a transaction of its own; its failure is logged.
PersistRetry(t) ==
    /\ In(t, "retrying")
    /\ \/ ~RowLocked(made[t]) /\ rows' = rows \cup {made[t]}
       \/ UNCHANGED rows
    /\ Finishes(t)
    /\ UNCHANGED <<made, entries, heap, elapsed, holder, write, call, fresh, kept>>

\* Mutant of Superseded: the row is deleted without a look at the entries.
SupersededNever(t) == FALSE

\* The same key was scheduled again while the callback ran.
Superseded(t) == entries[made[t]] # 0

ClearBegins(t) ==
    /\ In(t, "returned") /\ LockFree
    /\ IF Superseded(t) THEN Finishes(t) /\ UNCHANGED holder
       ELSE Goes(t, "clearing") /\ holder' = t
    /\ UNCHANGED <<made, entries, heap, elapsed, rows, write, call, fresh, kept>>

\* The DELETE waits for the transaction that has deleted the committed row already.
ClearWaits(t) == made[t] \in rows /\ RowLocked(made[t])

ClearRow(t) ==
    /\ In(t, "clearing") /\ ~ClearWaits(t)
    /\ rows' = rows \ {made[t]} \/ UNCHANGED rows
    /\ holder' = 0
    /\ Finishes(t)
    /\ UNCHANGED <<made, entries, heap, elapsed, write, call, fresh, kept>>

---------------------------------------------------------------------------
\* The process dies; restore_persistent arms a timer for every row.
RestoreTimers ==
    \E order \in [1..Cardinality(rows) -> rows] :
        LET first == Len(made)
            new == {first + i : i \in DOMAIN order}
        IN  /\ rows = {order[i] : i \in DOMAIN order}
            /\ first + Cardinality(rows) <= MaxToken
            /\ made' = made \o order
            /\ entries' = [k \in Keys |->
                 IF k \in rows THEN first + (CHOOSE i \in DOMAIN order : order[i] = k)
                 ELSE 0]
            /\ heap' = new /\ kept' = new
            /\ elapsed' = {} /\ pool' = << >> /\ holder' = 0
            /\ write' = [x \in Txns |-> [k \in Keys |-> "none"]]
            /\ call' = [x \in Txns |-> NoCall]
            /\ fresh' = [x \in Txns |-> {}]
            /\ UNCHANGED rows

TimerCalls(x) ==
    \/ \E k \in Keys : Token <= MaxToken /\ Begins(x, "schedule", k)
    \/ \E k \in Keys : Begins(x, "cancel", k)
    \/ ScheduleMemory(x) \/ CancelMemory(x) \/ RowStatement(x)
    \/ CommitTxn(x) \/ RollbackTxn(x)

TimerThreads(t) ==
    \/ Elapse(t) \/ DropRecord(t) \/ Fire(t) \/ Callback(t)
    \/ Retry(t) \/ PersistRetry(t) \/ ClearBegins(t) \/ ClearRow(t)

TimersNext ==
    \/ \E x \in Txns : TimerCalls(x)
    \/ \E t \in Issued : TimerThreads(t)
    \/ RestoreTimers

TimersSpec == TimersInit /\ [][TimersNext]_timerVars

---------------------------------------------------------------------------
(* Properties. *)

TimersTypeOK ==
    /\ made \in Seq(Keys) /\ Len(made) <= MaxToken
    /\ entries \in [Keys -> {0} \cup Issued]
    /\ heap \subseteq Issued /\ elapsed \subseteq heap /\ kept \subseteq Issued
    /\ DOMAIN pool \subseteq Issued /\ \A t \in DOMAIN pool : pool[t] \in Progress
    /\ holder \in {0} \cup DOMAIN pool
    /\ rows \subseteq Keys
    /\ write \in [Txns -> [Keys -> Writes]]
    /\ call \in [Txns -> Calls \cup {NoCall}]
    /\ fresh \in [Txns -> SUBSET Issued]

\* A timer that a committed transaction has armed is in the rows until it fires: the
\* callback of an earlier timer of the key, which deletes its own row when it
\* returns, never takes the row of the later one with it, so a crash loses nothing.
ArmedIsDurable ==
    \A k \in Keys :
        entries[k] \in kept /\ (\A x \in Txns : k \notin Touched(x)) => k \in rows

\* A callback is started only when the delay of that very schedule is over: the
\* record of a cancelled or replaced timer, still in the heap, starts nothing.
FiresWhenDue ==
    [][\A t \in DOMAIN pool' \ DOMAIN pool : t \in elapsed]_timerVars

\* A schedule that waits for _condition gets it: the thread that holds it does not
\* itself wait for the caller's transaction.
LaterScheduleProceeds ==
    \A x \in Txns, t \in Issued :
        ~ /\ call[x] # NoCall /\ call[x].at = "memory"
          /\ holder = t /\ made[t] \in rows /\ write[x][made[t]] = "deleted"
=============================================================================
