------------------------------ MODULE EventLoop ------------------------------
(***************************************************************************)
(* The reception of VK events (bot/main.py).                               *)
(*                                                                         *)
(* The long poll delivers events, and may deliver one again.  Each is      *)
(* queued, while a slot is free, in the shard of its actor, a queue with   *)
(* one thread.  The thread claims the event and handles it in one          *)
(* transaction.  Two processes may listen at once, the old one and the     *)
(* new one of a deployment; they share the table of the claims.            *)
(***************************************************************************)

EXTENDS Naturals, FiniteSets, Sequences

CONSTANTS
    Received,     \* the events of VK
    Actors,       \* their senders: actor ids, natural numbers
    Processes,    \* the processes that listen
    NShards,      \* BOT_WORKERS
    MaxPending,   \* BOT_MAX_PENDING_EVENTS
    MaxDeliveries \* bound on the deliveries to each process

ASSUME ActorsAssumption == Actors \subseteq Nat
ASSUME ShardsAssumption == NShards \in Nat \ {0} /\ MaxPending \in Nat \ {0}

VARIABLES
    sender,    \* the actor of each event
    listened,  \* the deliveries each process has received, in order
    queue,     \* of each process and shard, the numbers of deliveries not finished
    slots,     \* the free slots of each process (_pending_events)
    thread,    \* how far the thread of a shard is with the head of its queue
    claims,    \* the events whose claim is committed
    effects    \* how often the effects of an event were committed

loopVars == <<sender, listened, queue, slots, thread, claims, effects>>

Shards == 0..(NShards - 1)

LoopInit ==
    /\ sender \in [Received -> Actors]
    /\ listened = [p \in Processes |-> << >>]
    /\ queue = [p \in Processes |-> [s \in Shards |-> << >>]]
    /\ slots = [p \in Processes |-> MaxPending]
    /\ thread = [p \in Processes |-> [s \in Shards |-> "idle"]]
    /\ claims = {}
    /\ effects = [e \in Received |-> 0]

\* Mutant of ShardOf: the deliveries are dealt out in turn.
ShardInTurn(p, e) == Len(listened[p]) % NShards

ShardOf(p, e) == sender[e] % NShards

Head1(p, s) == listened[p][Head(queue[p][s])]

\* submit_event: it blocks the long poll while no slot is free.
SubmitEvent(p, e) ==
    /\ slots[p] > 0 /\ Len(listened[p]) < MaxDeliveries
    /\ listened' = [listened EXCEPT ![p] = Append(@, e)]
    /\ slots' = [slots EXCEPT ![p] = @ - 1]
    /\ queue' = [queue EXCEPT ![p][ShardOf(p, e)] = Append(@, Len(listened[p]) + 1)]
    /\ UNCHANGED <<sender, thread, claims, effects>>

\* The open transactions that have inserted the claim of an event.
Holders(e) == {q \in Processes : \E s \in Shards :
                  thread[q][s] = "handling" /\ Head1(q, s) = e}

\* Mutant of Claimable: the claim is not looked up.
ClaimableAlways(e) == TRUE

Claimable(e) == e \notin claims

\* process_event, _claim_event: the INSERT waits for a transaction that has
\* inserted the same key; a claim that exists ends the work.
ClaimEvent(p, s) ==
    /\ queue[p][s] # << >> /\ thread[p][s] = "idle"
    /\ Holders(Head1(p, s)) = {}
    /\ thread' = [thread EXCEPT ![p][s] =
                    IF Claimable(Head1(p, s)) THEN "handling" ELSE "ending"]
    /\ UNCHANGED <<sender, listened, queue, slots, claims, effects>>

\* The handler and the commit of the claim with it.  An exception of a handler is
\* logged by handle_message and committed all the same.
HandleEvent(p, s) ==
    /\ thread[p][s] = "handling"
    /\ LET e == Head1(p, s)
       IN  /\ claims' = claims \cup {e}
           /\ effects' = [effects EXCEPT ![e] = @ + 1]
    /\ thread' = [thread EXCEPT ![p][s] = "ending"]
    /\ UNCHANGED <<sender, listened, queue, slots>>

\* The transaction fails: neither the claim nor the effects stay.
EventFails(p, s) ==
    /\ thread[p][s] \in {"idle", "handling"} /\ queue[p][s] # << >>
    /\ thread' = [thread EXCEPT ![p][s] = "ending"]
    /\ UNCHANGED <<sender, listened, queue, slots, claims, effects>>

\* _event_done.
EventDone(p, s) ==
    /\ thread[p][s] = "ending"
    /\ queue' = [queue EXCEPT ![p][s] = Tail(@)]
    /\ slots' = [slots EXCEPT ![p] = @ + 1]
    /\ thread' = [thread EXCEPT ![p][s] = "idle"]
    /\ UNCHANGED <<sender, listened, claims, effects>>

\* A process dies: its queue is lost, its transactions are rolled back.
LoopRestart(p) ==
    /\ queue' = [queue EXCEPT ![p] = [s \in Shards |-> << >>]]
    /\ slots' = [slots EXCEPT ![p] = MaxPending]
    /\ thread' = [thread EXCEPT ![p] = [s \in Shards |-> "idle"]]
    /\ UNCHANGED <<sender, listened, claims, effects>>

LoopNext ==
    \E p \in Processes :
        \/ \E e \in Received : SubmitEvent(p, e)
        \/ \E s \in Shards :
             ClaimEvent(p, s) \/ HandleEvent(p, s) \/ EventFails(p, s) \/ EventDone(p, s)
        \/ LoopRestart(p)

LoopSpec == LoopInit /\ [][LoopNext]_loopVars

---------------------------------------------------------------------------
(* Properties. *)

LoopTypeOK ==
    /\ sender \in [Received -> Actors]
    /\ listened \in [Processes -> Seq(Received)]
    /\ queue \in [Processes -> [Shards -> Seq(Nat \ {0})]]
    /\ \A p \in Processes : slots[p] \in 0..MaxPending
    /\ thread \in [Processes -> [Shards -> {"idle", "handling", "ending"}]]
    /\ claims \subseteq Received
    /\ effects \in [Received -> Nat]

\* An event takes effect at most once, however often VK repeats it, whichever
\* process gets it, and whether or not the one that had it first dies.
EffectOnce == \A e \in Received : effects[e] <= 1

\* What one actor sent is handled in the order in which it came: while a thread of a
\* process works on a delivery, no earlier one of the same actor waits or runs.
ActorInOrder ==
    \A p \in Processes, s, r \in Shards :
        thread[p][s] # "idle" =>
            \A i \in DOMAIN queue[p][r] :
                sender[listened[p][queue[p][r][i]]] = sender[Head1(p, s)]
                    => queue[p][r][i] >= Head(queue[p][s])
=============================================================================
