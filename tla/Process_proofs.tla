--------------------------- MODULE Process_proofs ---------------------------
(***************************************************************************)
(* What holds of the two parts every process of the bot has: of the event  *)
(* loop, for every number of processes, shards and events, and of the      *)
(* scheduler, for every set of keys and transactions.                      *)
(***************************************************************************)
EXTENDS EventLoop, Timers, FiniteSetTheorems, SequenceTheorems, TLAPS

(***************************************************************************)
(* The event loop: no event takes effect twice, and the events of one actor*)
(* are handled in order.                                                   *)
(***************************************************************************)
\* The inductive invariant.  An effect is counted with its claim; the claim of a
\* thread that handles an event is not there yet, and no other thread has it; the
\* queues hold deliveries of their own actors, oldest first.
Typed ==
    /\ sender \in [Received -> Actors]
    /\ listened \in [Processes -> Seq(Received)]
    /\ queue \in [Processes -> [Shards -> Seq(Nat)]]
    /\ thread \in [Processes -> [Shards -> {"idle", "handling", "ending"}]]
    /\ claims \subseteq Received
    /\ effects \in [Received -> Nat]
Counted == \A e \in Received : effects[e] = IF e \in claims THEN 1 ELSE 0
Known(p, s) == \A i \in DOMAIN queue[p][s] : queue[p][s][i] \in DOMAIN listened[p]
Sorted(p, s) ==
    \A i, j \in DOMAIN queue[p][s] : i < j => queue[p][s][i] < queue[p][s][j]
OfShard(p, s) ==
    \A i \in DOMAIN queue[p][s] : sender[listened[p][queue[p][s][i]]] % NShards = s
Busy(p, s) == thread[p][s] # "idle" => queue[p][s] # << >>
Queues == \A p \in Processes, s \in Shards :
              Known(p, s) /\ Sorted(p, s) /\ OfShard(p, s) /\ Busy(p, s)
Unclaimed == \A p \in Processes, s \in Shards :
                 thread[p][s] = "handling" => Head1(p, s) \notin claims
OneHandler == \A p, q \in Processes, s, r \in Shards :
                  /\ thread[p][s] = "handling" /\ thread[q][r] = "handling"
                  /\ Head1(p, s) = Head1(q, r)
                  => p = q /\ s = r
LoopInv == Typed /\ Counted /\ Queues /\ Unclaimed /\ OneHandler

LEMMA ShardOfActor ==
  ASSUME Typed, NEW p \in Processes, NEW e \in Received
  PROVE  ShardOf(p, e) \in Shards /\ ShardOf(p, e) = sender[e] % NShards
<1>1. sender[e] \in Nat  BY ActorsAssumption DEF Typed
<1>2. sender[e] % NShards \in 0..(NShards - 1)  BY <1>1, ShardsAssumption
<1> QED  BY <1>2 DEF ShardOf, Shards

\* The delivery at the head of a queue is of a received event.
LEMMA HeadReceived ==
  ASSUME Typed, Queues, NEW p \in Processes, NEW s \in Shards, queue[p][s] # << >>
  PROVE  Head1(p, s) \in Received /\ Head1(p, s) = listened[p][queue[p][s][1]]
<1>1. 1 \in DOMAIN queue[p][s] /\ Head(queue[p][s]) = queue[p][s][1]  BY DEF Typed
<1>2. queue[p][s][1] \in DOMAIN listened[p]  BY <1>1 DEF Queues, Known
<1> QED  BY <1>1, <1>2 DEF Head1, Typed

LEMMA UpTo ==
  ASSUME NEW k \in Nat, NEW i \in 1..(k + 1)
  PROVE  i \in 1..k \/ i = k + 1
OBVIOUS

LEMMA LoopInitInv == LoopInit => LoopInv
BY ShardsAssumption
   DEF LoopInit, LoopInv, Typed, Counted, Queues, Known, Sorted, OfShard, Busy, Unclaimed, OneHandler

\* A step that moves no thread to "handling" and leaves the heads of the busy queues
\* where they are keeps Unclaimed and OneHandler.
LEMMA SameHandlers ==
  ASSUME Unclaimed, OneHandler, claims' = claims,
         \A p \in Processes, s \in Shards : thread'[p][s] = "handling" =>
             thread[p][s] = "handling" /\ Head1(p, s)' = Head1(p, s)
  PROVE  Unclaimed' /\ OneHandler'
BY DEF Unclaimed, OneHandler

LEMMA SubmitEventInv ==
  ASSUME LoopInv, NEW p \in Processes, NEW e \in Received, SubmitEvent(p, e)
  PROVE  LoopInv'
<1> DEFINE sh == ShardOf(p, e)
           n == Len(listened[p])
<1> USE DEF LoopInv
<1>1. sh \in Shards /\ sh = sender[e] % NShards  BY ShardOfActor
<1>2. /\ listened' = [listened EXCEPT ![p] = Append(@, e)]
      /\ queue' = [queue EXCEPT ![p][sh] = Append(@, n + 1)]
      /\ UNCHANGED <<sender, thread, claims, effects>>
  BY DEF SubmitEvent
<1> HIDE DEF sh
<1>3. n \in Nat /\ listened[p] \in Seq(Received)  BY DEF Typed
<1>4. /\ DOMAIN Append(listened[p], e) = 1..(n + 1)
      /\ DOMAIN listened[p] = 1..n
      /\ \A i \in 1..n : Append(listened[p], e)[i] = listened[p][i]
      /\ Append(listened[p], e)[n + 1] = e
      /\ Append(listened[p], e) \in Seq(Received)
  BY <1>3
<1>5. Typed'
  <2>1. Append(queue[p][sh], n + 1) \in Seq(Nat)  BY <1>1, <1>3 DEF Typed
  <2> QED  BY <2>1, <1>1, <1>2, <1>4 DEF Typed
<1>6. Counted'  BY <1>2 DEF Counted
<1>7. ASSUME NEW q \in Processes, NEW s \in Shards
      PROVE  /\ (Known(q, s) /\ Sorted(q, s) /\ OfShard(q, s) /\ Busy(q, s))'
             /\ queue[q][s] # << >> => Head1(q, s)' = Head1(q, s)
  <2>1. Known(q, s) /\ Sorted(q, s) /\ OfShard(q, s) /\ Busy(q, s)  BY DEF Queues
  <2>2. queue[q][s] \in Seq(Nat)  BY DEF Typed
  <2>3. \A i \in DOMAIN queue[q][s] :
           /\ queue[q][s][i] \in DOMAIN listened'[q]
           /\ listened'[q][queue[q][s][i]] = listened[q][queue[q][s][i]]
    BY <2>1, <1>2, <1>3, <1>4 DEF Known, Typed
  <2>4. CASE q = p /\ s = sh
    <3> DEFINE old == queue[p][sh]
    <3>1. queue'[q][s] = Append(old, n + 1)  BY <2>4, <1>1, <1>2 DEF Typed
    <3>2. /\ old \in Seq(Nat) /\ Len(old) \in Nat /\ DOMAIN old = 1..Len(old)
          /\ DOMAIN Append(old, n + 1) = 1..(Len(old) + 1)
          /\ \A i \in 1..Len(old) : Append(old, n + 1)[i] = old[i]
          /\ Append(old, n + 1)[Len(old) + 1] = n + 1
      BY <2>2, <2>4, <1>3
    <3>3. listened'[q] = Append(listened[p], e)  BY <2>4, <1>2 DEF Typed
    <3>4. \A i \in 1..Len(old) : old[i] \in 1..n
      BY <2>1, <2>4, <3>2, <1>4 DEF Known
    <3>5. Known(q, s)'
      BY <3>1, <3>2, <3>3, <3>4, <1>3, <1>4, SMTT(30) DEF Known
    <3>6. Sorted(q, s)'
      <4> DEFINE new == Append(old, n + 1)
      <4>1. \A i, j \in 1..Len(old) : i < j => old[i] < old[j]
        BY <2>1, <2>4, <3>2 DEF Sorted
      <4>2. ASSUME NEW i \in 1..(Len(old) + 1), NEW j \in 1..(Len(old) + 1), i < j
            PROVE  new[i] < new[j]
        <5>1. i \in 1..Len(old) /\ new[i] = old[i]  BY <4>2, <3>2
        <5>2. CASE j \in 1..Len(old)
          BY <5>1, <5>2, <4>1, <4>2, <3>2
        <5>3. CASE j = Len(old) + 1
          <6>1. new[j] = n + 1 /\ old[i] \in 1..n  BY <5>1, <5>3, <3>2, <3>4
          <6> QED  BY <6>1, <5>1, <1>3
        <5>4. j \in 1..Len(old) \/ j = Len(old) + 1  BY <3>2, UpTo
        <5> QED  BY <5>2, <5>3, <5>4
      <4> QED  BY <4>2, <3>1, <3>2 DEF Sorted
    <3>7. OfShard(q, s)'
      <4>1. ASSUME NEW i \in 1..(Len(old) + 1)
            PROVE  sender[listened'[q][queue'[q][s][i]]] % NShards = s
        <5>1. CASE i \in 1..Len(old)
          <6>1. queue'[q][s][i] = old[i] /\ i \in DOMAIN queue[q][s]  BY <5>1, <3>1, <3>2, <2>4
          <6>2. sender[listened[q][old[i]]] % NShards = s  BY <6>1, <2>1, <2>4 DEF OfShard
          <6>3. listened'[q][old[i]] = listened[q][old[i]]  BY <6>1, <2>3, <2>4
          <6> QED  BY <6>1, <6>2, <6>3
        <5>2. CASE i = Len(old) + 1
          <6>1. queue'[q][s][i] = n + 1  BY <5>2, <3>1, <3>2
          <6>2. listened'[q][n + 1] = e  BY <3>3, <1>4
          <6> QED  BY <6>1, <6>2, <1>1, <2>4
        <5>3. i \in 1..Len(old) \/ i = Len(old) + 1  BY <3>2, UpTo
        <5> QED  BY <5>1, <5>2, <5>3
      <4> QED  BY <4>1, <3>1, <3>2, <1>2 DEF OfShard
    <3>8. Busy(q, s)'  BY <3>1, <3>2 DEF Busy
    <3>9. queue[q][s] # << >> => Head1(q, s)' = Head1(q, s)
      <4> SUFFICES ASSUME queue[q][s] # << >>  PROVE Head1(q, s)' = Head1(q, s)
        OBVIOUS
      <4>1. 1 \in DOMAIN old /\ Head(old) = old[1]
        BY <2>4, <3>2
      <4>2. Head(Append(old, n + 1)) = old[1]  BY <4>1, <3>2, <1>3
      <4> QED  BY <4>1, <4>2, <2>3, <2>4, <3>1 DEF Head1
    <3> QED  BY <3>5, <3>6, <3>7, <3>8, <3>9
  <2>5. CASE ~(q = p /\ s = sh)
    <3>1. queue'[q][s] = queue[q][s]  BY <2>5, <1>2 DEF Typed
    <3>2. (Known(q, s) /\ Sorted(q, s) /\ OfShard(q, s) /\ Busy(q, s))'
      BY <3>1, <2>1, <2>3, <1>2 DEF Known, Sorted, OfShard, Busy
    <3>3. queue[q][s] # << >> => Head1(q, s)' = Head1(q, s)
      BY <3>1, <2>2, <2>3 DEF Head1
    <3> QED  BY <3>2, <3>3
  <2> QED  BY <2>4, <2>5
<1>8. Queues'  BY <1>7 DEF Queues
<1>9. Unclaimed' /\ OneHandler'
  <2>1. \A q \in Processes, s \in Shards :
           thread'[q][s] = "handling" =>
               thread[q][s] = "handling" /\ Head1(q, s)' = Head1(q, s)
    BY <1>2, <1>7 DEF Queues, Busy
  <2> QED  BY <2>1, <1>2, SameHandlers
<1> QED  BY <1>5, <1>6, <1>8, <1>9

LEMMA ClaimEventInv ==
  ASSUME LoopInv, NEW p \in Processes, NEW s \in Shards, ClaimEvent(p, s)
  PROVE  LoopInv'
<1> USE DEF LoopInv
<1> DEFINE to == IF Claimable(Head1(p, s)) THEN "handling" ELSE "ending"
<1>1. /\ queue[p][s] # << >> /\ Holders(Head1(p, s)) = {}
      /\ thread' = [thread EXCEPT ![p][s] = to]
      /\ UNCHANGED <<sender, listened, queue, claims, effects>>
  BY DEF ClaimEvent
<1>2. Typed' /\ Counted'
  BY <1>1 DEF Typed, Counted
<1>3. Queues'
  BY <1>1 DEF Queues, Known, Sorted, OfShard, Busy, Typed
<1>4. \A q \in Processes, r \in Shards :
         /\ Head1(q, r)' = Head1(q, r)
         /\ ~(q = p /\ r = s) => thread'[q][r] = thread[q][r]
  BY <1>1 DEF Head1, Typed
<1>5. thread'[p][s] = "handling" => Head1(p, s) \notin claims
  BY <1>1 DEF Claimable, Typed
<1>6. \A q \in Processes, r \in Shards :
         thread[q][r] = "handling" => Head1(q, r) # Head1(p, s)
  BY <1>1 DEF Holders
<1>7. Unclaimed'
  BY <1>1, <1>4, <1>5 DEF Unclaimed
<1>8. OneHandler'
  BY <1>4, <1>6 DEF OneHandler
<1> QED  BY <1>2, <1>3, <1>7, <1>8

LEMMA HandleEventInv ==
  ASSUME LoopInv, NEW p \in Processes, NEW s \in Shards, HandleEvent(p, s)
  PROVE  LoopInv'
<1> USE DEF LoopInv
<1> DEFINE e == Head1(p, s)
<1>1. /\ thread[p][s] = "handling"
      /\ claims' = claims \cup {e}
      /\ effects' = [effects EXCEPT ![e] = @ + 1]
      /\ thread' = [thread EXCEPT ![p][s] = "ending"]
      /\ UNCHANGED <<sender, listened, queue>>
  BY DEF HandleEvent
<1>2. queue[p][s] # << >>
  BY <1>1 DEF Queues, Busy
<1>3. e \in Received /\ e \notin claims
  BY <1>1, <1>2, HeadReceived DEF Unclaimed
<1> HIDE DEF e
<1>4. Typed'
  BY <1>1, <1>3 DEF Typed
<1>5. Counted'
  BY <1>1, <1>3 DEF Counted, Typed
<1>6. Queues'
  BY <1>1, <1>2 DEF Queues, Known, Sorted, OfShard, Busy, Typed
<1>7. \A q \in Processes, r \in Shards :
         /\ Head1(q, r)' = Head1(q, r)
         /\ thread'[q][r] = "handling" =>
               thread[q][r] = "handling" /\ ~(q = p /\ r = s)
  BY <1>1 DEF Head1, Typed
<1>8. \A q \in Processes, r \in Shards :
         thread'[q][r] = "handling" => Head1(q, r) # e
  BY <1>1, <1>7 DEF OneHandler, e
<1>9. Unclaimed'
  BY <1>1, <1>7, <1>8 DEF Unclaimed
<1>10. OneHandler'
  BY <1>7 DEF OneHandler
<1> QED  BY <1>4, <1>5, <1>6, <1>9, <1>10

LEMMA EventFailsInv ==
  ASSUME LoopInv, NEW p \in Processes, NEW s \in Shards, EventFails(p, s)
  PROVE  LoopInv'
<1> USE DEF LoopInv
<1>1. /\ queue[p][s] # << >>
      /\ thread' = [thread EXCEPT ![p][s] = "ending"]
      /\ UNCHANGED <<sender, listened, queue, claims, effects>>
  BY DEF EventFails
<1>2. Typed' /\ Counted'
  BY <1>1 DEF Typed, Counted
<1>3. Queues'
  <2>1. \A q \in Processes, r \in Shards : Known(q, r)' /\ Sorted(q, r)' /\ OfShard(q, r)'
    BY <1>1 DEF Queues, Known, Sorted, OfShard
  <2>2. \A q \in Processes, r \in Shards : thread'[q][r] # "idle" =>
           thread[q][r] # "idle" \/ (q = p /\ r = s)
    BY <1>1 DEF Typed
  <2>3. \A q \in Processes, r \in Shards : Busy(q, r)'
    BY <2>2, <1>1 DEF Queues, Busy
  <2> QED  BY <2>1, <2>3 DEF Queues
<1>4. \A q \in Processes, r \in Shards : thread'[q][r] = "handling" =>
         thread[q][r] = "handling" /\ Head1(q, r)' = Head1(q, r)
  BY <1>1 DEF Head1, Typed
<1> QED  BY <1>1, <1>2, <1>3, <1>4, SameHandlers

LEMMA EventDoneInv ==
  ASSUME LoopInv, NEW p \in Processes, NEW s \in Shards, EventDone(p, s)
  PROVE  LoopInv'
<1> USE DEF LoopInv
<1> DEFINE old == queue[p][s]
<1>1. /\ thread[p][s] = "ending"
      /\ queue' = [queue EXCEPT ![p][s] = Tail(old)]
      /\ thread' = [thread EXCEPT ![p][s] = "idle"]
      /\ UNCHANGED <<sender, listened, claims, effects>>
  BY DEF EventDone
<1>2. old # << >> /\ old \in Seq(Nat)
  BY <1>1 DEF Queues, Busy, Typed
<1>3. /\ Tail(old) \in Seq(Nat) /\ Len(old) \in Nat
      /\ DOMAIN old = 1..Len(old) /\ DOMAIN Tail(old) = 1..(Len(old) - 1)
      /\ \A i \in 1..(Len(old) - 1) : Tail(old)[i] = old[i + 1] /\ i + 1 \in 1..Len(old)
  BY <1>2
<1>4. Typed' /\ Counted'
  BY <1>1, <1>3 DEF Typed, Counted
<1>5. ASSUME NEW q \in Processes, NEW r \in Shards
      PROVE  (Known(q, r) /\ Sorted(q, r) /\ OfShard(q, r) /\ Busy(q, r))'
  <2>1. Known(q, r) /\ Sorted(q, r) /\ OfShard(q, r) /\ Busy(q, r)  BY DEF Queues
  <2>2. CASE q = p /\ r = s
    <3>1. queue'[q][r] = Tail(old) /\ thread'[q][r] = "idle"  BY <1>1, <2>2 DEF Typed
    <3>2. Known(q, r)'  BY <1>1, <1>3, <2>1, <2>2, <3>1 DEF Known
    <3>3. Sorted(q, r)'
      <4>1. ASSUME NEW i \in 1..(Len(old) - 1), NEW j \in 1..(Len(old) - 1), i < j
            PROVE  Tail(old)[i] < Tail(old)[j]
        <5>1. i + 1 < j + 1  BY <4>1, <1>3
        <5>2. old[i + 1] < old[j + 1]  BY <5>1, <1>3, <2>1, <2>2 DEF Sorted
        <5> QED  BY <5>2, <1>3
      <4> QED  BY <4>1, <1>3, <3>1 DEF Sorted
    <3>4. OfShard(q, r)'  BY <1>1, <1>3, <2>1, <2>2, <3>1 DEF OfShard
    <3>5. Busy(q, r)'  BY <3>1 DEF Busy
    <3> QED  BY <3>2, <3>3, <3>4, <3>5
  <2>3. CASE ~(q = p /\ r = s)
    <3>1. queue'[q][r] = queue[q][r] /\ thread'[q][r] = thread[q][r]
      BY <1>1, <2>3 DEF Typed
    <3> QED  BY <3>1, <2>1, <1>1 DEF Known, Sorted, OfShard, Busy
  <2> QED  BY <2>2, <2>3
<1>6. Queues'  BY <1>5 DEF Queues
<1>7. \A q \in Processes, r \in Shards : thread'[q][r] = "handling" =>
         thread[q][r] = "handling" /\ Head1(q, r)' = Head1(q, r)
  <2> SUFFICES ASSUME NEW q \in Processes, NEW r \in Shards, thread'[q][r] = "handling"
               PROVE  thread[q][r] = "handling" /\ Head1(q, r)' = Head1(q, r)
    OBVIOUS
  <2>1. ~(q = p /\ r = s)  BY <1>1 DEF Typed
  <2>2. queue'[q][r] = queue[q][r] /\ thread'[q][r] = thread[q][r]
    BY <1>1, <2>1 DEF Typed
  <2> QED  BY <2>2, <1>1 DEF Head1
<1> QED  BY <1>1, <1>4, <1>6, <1>7, SameHandlers

LEMMA LoopRestartInv ==
  ASSUME LoopInv, NEW p \in Processes, LoopRestart(p)
  PROVE  LoopInv'
<1> USE DEF LoopInv
<1>1. /\ queue' = [queue EXCEPT ![p] = [s \in Shards |-> << >>]]
      /\ thread' = [thread EXCEPT ![p] = [s \in Shards |-> "idle"]]
      /\ UNCHANGED <<sender, listened, claims, effects>>
  BY DEF LoopRestart
<1>2. Typed' /\ Counted'
  BY <1>1 DEF Typed, Counted
<1>3. \A q \in Processes, r \in Shards :
         IF q = p THEN queue'[q][r] = << >> /\ thread'[q][r] = "idle"
                  ELSE queue'[q][r] = queue[q][r] /\ thread'[q][r] = thread[q][r]
  BY <1>1 DEF Typed
<1>4. Queues'
  BY <1>1, <1>3 DEF Queues, Known, Sorted, OfShard, Busy
<1>5. \A q \in Processes, r \in Shards : thread'[q][r] = "handling" =>
         thread[q][r] = "handling" /\ Head1(q, r)' = Head1(q, r)
  BY <1>1, <1>3 DEF Head1
<1> QED  BY <1>1, <1>2, <1>4, <1>5, SameHandlers

LEMMA LoopInvariant == LoopSpec => []LoopInv
<1>1. LoopInv /\ [LoopNext]_loopVars => LoopInv'
  <2> SUFFICES ASSUME LoopInv, [LoopNext]_loopVars  PROVE LoopInv'
    OBVIOUS
  <2>1. CASE UNCHANGED loopVars
    BY <2>1 DEF loopVars, LoopInv, Typed, Counted, Queues, Known, Sorted, OfShard, Busy,
                Unclaimed, OneHandler, Head1
  <2>2. CASE LoopNext
    BY <2>2, SubmitEventInv, ClaimEventInv, HandleEventInv, EventFailsInv, EventDoneInv,
       LoopRestartInv DEF LoopNext
  <2> QED  BY <2>1, <2>2
<1> QED  BY <1>1, LoopInitInv, PTL DEF LoopSpec

\* The effects of an event are committed once at most, whatever is delivered again,
\* fails or dies: EffectOnce, of bot/main.py's _claim_event.
THEOREM EventsTakeEffectOnce == LoopSpec => []EffectOnce
<1>1. LoopInv => EffectOnce
  BY DEF LoopInv, Counted, EffectOnce
<1> QED  BY <1>1, LoopInvariant, PTL

\* No event of an actor is worked on before his earlier ones are finished:
\* ActorInOrder, of the shards of bot/main.py's submit_event.
THEOREM ActorsAreServedInOrder == LoopSpec => []ActorInOrder
<1>1. LoopInv => ActorInOrder
  <2> SUFFICES ASSUME LoopInv, NEW p \in Processes, NEW s \in Shards, NEW r \in Shards,
                      thread[p][s] # "idle", NEW i \in DOMAIN queue[p][r],
                      sender[listened[p][queue[p][r][i]]] = sender[Head1(p, s)]
               PROVE  queue[p][r][i] >= Head(queue[p][s])
    BY DEF ActorInOrder
  <2> USE DEF LoopInv
  <2>1. queue[p][s] # << >>  BY DEF Queues, Busy
  <2>2. /\ 1 \in DOMAIN queue[p][s] /\ Head(queue[p][s]) = queue[p][s][1]
        /\ Head1(p, s) = listened[p][queue[p][s][1]]
    BY <2>1 DEF Typed, Head1
  <2>3. r = s
    BY <2>2, SMTT(30) DEF Queues, OfShard
  <2>4. i \in Nat /\ i >= 1 /\ queue[p][s][i] \in Nat /\ queue[p][s][1] \in Nat
    BY <2>2, <2>3 DEF Typed
  <2>5. 1 < i => queue[p][s][1] < queue[p][s][i]
    BY <2>2, <2>3 DEF Queues, Sorted
  <2> QED  BY <2>2, <2>3, <2>4, <2>5
<1> QED  BY <1>1, LoopInvariant, PTL

(***************************************************************************)
(* The scheduler: a timer armed by a committed transaction has a durable   *)
(* row, and nothing is started before its time.                            *)
(***************************************************************************)
Mentions(x, k) == \E t \in fresh[x] : made[t] = k
InCall(x, k) == call[x] # NoCall /\ call[x].key = k
Has(x, k) == write[x][k] # "none" \/ Mentions(x, k) \/ InCall(x, k)
Changed(x, k) ==
    write[x][k] # "none" \/ Mentions(x, k) \/ (InCall(x, k) /\ call[x].at = "row")

\* The inductive invariant: types, and the tokens are issued ones.
Shaped ==
    /\ made \in Seq(Keys)
    /\ entries \in [Keys -> Nat]
    /\ rows \subseteq Keys
    /\ write \in [Txns -> [Keys -> Writes]]
    /\ fresh \in [Txns -> SUBSET Nat]
    /\ call \in [Txns -> Calls \cup {NoCall}]
Tokened ==
    /\ heap \subseteq Issued /\ kept \subseteq Issued /\ DOMAIN pool \subseteq Issued
    /\ \A x \in Txns : fresh[x] \subseteq Issued
    /\ \A k \in Keys : entries[k] # 0 => entries[k] \in Issued /\ made[entries[k]] = k
\* One transaction at a time works on a key.
Apart == \A x, y \in Txns, k \in Keys : Has(x, k) /\ Has(y, k) => x = y
\* What a transaction has changed is not the timer of a committed one any more.
Replaced == \A x \in Txns, k \in Keys : Changed(x, k) => entries[k] \notin kept
Durable == \A k \in Keys : entries[k] \in kept => k \in rows
\* A timer scheduled by an open transaction has its row written, or about to be.
Rewritten ==
    \A x \in Txns, k \in Keys :
        entries[k] \in fresh[x] =>
            \/ write[x][k] \in {"updated", "inserted"}
            \/ InCall(x, k) /\ call[x].op = "schedule" /\ call[x].at = "row"
Cancelled ==
    \A x \in Txns, k \in Keys :
        InCall(x, k) /\ call[x].op = "cancel" /\ call[x].at = "row"
            => entries[k] \notin fresh[x]
\* The thread that deletes a row holds the lock, and nothing is armed under its key.
Clearing ==
    /\ \A t \in DOMAIN pool : pool[t] = "clearing" => holder = t
    /\ holder # 0 => holder \in Issued /\ entries[made[holder]] = 0
TimerInv == Shaped /\ Tokened /\ Apart /\ Replaced /\ Durable /\ Rewritten
            /\ Cancelled /\ Clearing

memory == <<made, entries, write, call, fresh, kept>>

LEMMA IssuedTokens ==
  ASSUME Shaped
  PROVE  /\ Issued = 1..Len(made) /\ Len(made) \in Nat
         /\ 0 \notin Issued /\ Issued \subseteq Nat
         /\ \A t \in Issued : made[t] \in Keys
BY DEF Shaped, Issued

\* Only the key's own transaction mentions it.
LEMMA TouchedIsHas ==
  ASSUME Shaped, Tokened, NEW x \in Txns, NEW k \in Keys
  PROVE  k \in Touched(x) <=> Has(x, k)
BY IssuedTokens DEF Touched, Has, Mentions, InCall, Tokened

LEMMA CallFields ==
  ASSUME Shaped, NEW x \in Txns, call[x] # NoCall
  PROVE  call[x] \in Calls /\ call[x].key \in Keys /\ call[x].op \in {"schedule", "cancel"}
         /\ call[x].at \in {"memory", "row"}
BY DEF Shaped, Calls

LEMMA CallNext ==
  ASSUME NEW c \in Calls
  PROVE  LET n == [c EXCEPT !.at = "row"]
         IN  n \in Calls /\ n # NoCall /\ n.op = c.op /\ n.key = c.key /\ n.at = "row"
BY DEF Calls, NoCall

LEMMA TimersInitInv == TimersInit => TimerInv
<1> SUFFICES ASSUME TimersInit PROVE TimerInv
  OBVIOUS
<1> USE DEF TimersInit
<1>1. Issued = {} /\ DOMAIN pool = {}  BY DEF Issued
<1>2. Shaped  BY DEF Shaped, Writes
<1>3. Tokened  BY <1>1 DEF Tokened
<1>4. \A x \in Txns, k \in Keys : ~Has(x, k) /\ ~Changed(x, k) /\ ~InCall(x, k)
  BY DEF Has, Changed, Mentions, InCall
<1>5. Apart /\ Replaced /\ Durable /\ Rewritten /\ Cancelled
  BY <1>4 DEF Apart, Replaced, Durable, Rewritten, Cancelled
<1>6. Clearing  BY <1>1 DEF Clearing
<1> QED  BY <1>2, <1>3, <1>5, <1>6 DEF TimerInv

---------------------------------------------------------------------------
(* The slots, and the rest of the types of the event loop. *)

\* The deliveries to a process that are not finished.  Their numbers are the process's
\* own, so that every one of them holds a slot, and a slot holds one of them.
Unfinished(p) ==
    {n \in Nat : \E s \in Shards : \E i \in DOMAIN queue[p][s] : queue[p][s][i] = n}
Slotted ==
    /\ slots \in [Processes -> Nat]
    /\ \A p \in Processes : /\ IsFiniteSet(Unfinished(p))
                            /\ Cardinality(Unfinished(p)) + slots[p] = MaxPending

LEMMA SameUnfinished ==
  ASSUME NEW p \in Processes, queue'[p] = queue[p]  PROVE Unfinished(p)' = Unfinished(p)
BY DEF Unfinished

LEMMA SubmitEventSlots ==
  ASSUME LoopInv, Slotted, NEW p \in Processes, NEW e \in Received, SubmitEvent(p, e)
  PROVE  Slotted'
<1> USE DEF LoopInv
<1> DEFINE sh == ShardOf(p, e)
           n == Len(listened[p])
           old == queue[p][sh]
<1>1. sh \in Shards
  BY ShardOfActor
<1>2. /\ queue' = [queue EXCEPT ![p][sh] = Append(old, n + 1)]
      /\ slots' = [slots EXCEPT ![p] = @ - 1] /\ slots[p] > 0
  BY DEF SubmitEvent
<1> HIDE DEF sh
<1>3. /\ n \in Nat /\ DOMAIN listened[p] = 1..n
      /\ old \in Seq(Nat) /\ Len(old) \in Nat /\ DOMAIN old = 1..Len(old)
  BY <1>1 DEF Typed
<1>4. /\ DOMAIN Append(old, n + 1) = 1..(Len(old) + 1)
      /\ \A i \in 1..Len(old) : Append(old, n + 1)[i] = old[i]
      /\ Append(old, n + 1)[Len(old) + 1] = n + 1
  BY <1>3
<1>5. /\ queue'[p][sh] = Append(old, n + 1)
      /\ \A s \in Shards \ {sh} : queue'[p][s] = queue[p][s]
      /\ \A q \in Processes \ {p} : queue'[q] = queue[q]
  BY <1>1, <1>2 DEF Typed
<1>6. Unfinished(p)' = Unfinished(p) \cup {n + 1}
  <2>1. n + 1 \in Unfinished(p)'
    BY <1>1, <1>3, <1>4, <1>5 DEF Unfinished
  <2>2. ASSUME NEW m \in Unfinished(p)  PROVE m \in Unfinished(p)'
    <3>0. PICK s \in Shards : \E i \in DOMAIN queue[p][s] : queue[p][s][i] = m
      BY DEF Unfinished
    <3>1. PICK i \in DOMAIN queue[p][s] : queue[p][s][i] = m
      BY <3>0
    <3>2. CASE s = sh
      <4>1. i \in 1..Len(old) /\ m = old[i]
        BY <1>3, <3>1, <3>2
      <4>2. i \in 1..(Len(old) + 1)
        BY <1>3, <4>1
      <4>3. i \in DOMAIN queue'[p][sh] /\ queue'[p][sh][i] = m
        BY <1>4, <1>5, <4>1, <4>2
      <4> QED
        BY <1>1, <4>3 DEF Unfinished
    <3>3. CASE s # sh
      BY <1>5, <3>1, <3>3 DEF Unfinished
    <3> QED
      BY <3>2, <3>3
  <2>3. ASSUME NEW m \in Unfinished(p)'  PROVE m \in Unfinished(p) \cup {n + 1}
    <3>0. PICK s \in Shards : \E i \in DOMAIN queue'[p][s] : queue'[p][s][i] = m
      BY DEF Unfinished
    <3>1. PICK i \in DOMAIN queue'[p][s] : queue'[p][s][i] = m
      BY <3>0
    <3>2. CASE s = sh
      <4>1. i \in 1..Len(old) \/ i = Len(old) + 1
        BY <1>3, <1>4, <1>5, <3>1, <3>2, UpTo
      <4>2. CASE i \in 1..Len(old)
        BY <1>1, <1>3, <1>4, <1>5, <3>1, <3>2, <4>2 DEF Unfinished
      <4>3. CASE i = Len(old) + 1
        BY <1>4, <1>5, <3>1, <3>2, <4>3
      <4> QED
        BY <4>1, <4>2, <4>3
    <3>3. CASE s # sh
      BY <1>5, <3>1, <3>3 DEF Unfinished
    <3> QED
      BY <3>2, <3>3
  <2> QED
    BY <2>1, <2>2, <2>3
<1>7. n + 1 \notin Unfinished(p)
  <2>1. \A s \in Shards : \A i \in DOMAIN queue[p][s] : queue[p][s][i] \in 1..n
    BY <1>3 DEF Queues, Known
  <2> QED
    BY <1>3, <2>1 DEF Unfinished
<1>8. /\ IsFiniteSet(Unfinished(p)')
      /\ Cardinality(Unfinished(p)') = Cardinality(Unfinished(p)) + 1
  <2>1. IsFiniteSet(Unfinished(p))
    BY DEF Slotted
  <2>2. /\ IsFiniteSet(Unfinished(p) \cup {n + 1})
        /\ Cardinality(Unfinished(p) \cup {n + 1}) = Cardinality(Unfinished(p)) + 1
    BY <1>7, <2>1, FS_AddElement
  <2> QED
    BY <1>6, <2>2
<1>9. Cardinality(Unfinished(p)) \in Nat /\ slots[p] \in Nat
      /\ Cardinality(Unfinished(p)) + slots[p] = MaxPending
  BY FS_CardinalityType DEF Slotted
<1>10. slots'[p] = slots[p] - 1 /\ \A q \in Processes \ {p} : slots'[q] = slots[q]
  BY <1>2 DEF Slotted
<1>11. slots' \in [Processes -> Nat]
  <2>1. slots[p] - 1 \in Nat
    BY <1>2, <1>9
  <2> QED
    BY <1>2, <2>1 DEF Slotted
<1>12. ASSUME NEW q \in Processes
       PROVE  IsFiniteSet(Unfinished(q)') /\ Cardinality(Unfinished(q)') + slots'[q] = MaxPending
  <2>1. CASE q = p
    BY <1>8, <1>9, <1>10, <2>1, ShardsAssumption
  <2>2. CASE q # p
    BY <1>5, <1>10, <2>2, SameUnfinished DEF Slotted
  <2> QED
    BY <2>1, <2>2
<1> QED
  BY <1>11, <1>12 DEF Slotted

LEMMA EventDoneSlots ==
  ASSUME LoopInv, Slotted, NEW p \in Processes, NEW s \in Shards, EventDone(p, s)
  PROVE  Slotted'
<1> USE DEF LoopInv
<1> DEFINE old == queue[p][s]
           h == old[1]
<1>1. /\ thread[p][s] = "ending" /\ queue' = [queue EXCEPT ![p][s] = Tail(old)]
      /\ slots' = [slots EXCEPT ![p] = @ + 1]
  BY DEF EventDone
<1>2. old # << >> /\ old \in Seq(Nat)
  BY <1>1 DEF Queues, Busy, Typed
<1>3. /\ Len(old) \in Nat /\ DOMAIN old = 1..Len(old) /\ 1 \in DOMAIN old
      /\ DOMAIN Tail(old) = 1..(Len(old) - 1) /\ h \in Nat
      /\ \A i \in 1..(Len(old) - 1) : Tail(old)[i] = old[i + 1] /\ i + 1 \in 1..Len(old)
  BY <1>2
<1>4. /\ queue'[p][s] = Tail(old)
      /\ \A r \in Shards \ {s} : queue'[p][r] = queue[p][r]
      /\ \A q \in Processes \ {p} : queue'[q] = queue[q]
  BY <1>1 DEF Typed
<1>5. /\ \A i \in DOMAIN old : i # 1 => old[i] # h
      /\ \A r \in Shards \ {s} : \A i \in DOMAIN queue[p][r] : queue[p][r][i] # h
  <2>1. Sorted(p, s) /\ OfShard(p, s) /\ \A r \in Shards : OfShard(p, r)
    BY DEF Queues
  <2>2. \A i \in DOMAIN old : i # 1 => old[i] # h
    <3> SUFFICES ASSUME NEW i \in DOMAIN old, i # 1  PROVE old[i] # h
      OBVIOUS
    <3>1. 1 < i
      BY <1>3
    <3>2. h < old[i]
      BY <1>3, <2>1, <3>1 DEF Sorted
    <3>3. h \in Nat /\ old[i] \in Nat
      BY <1>2, <1>3
    <3> QED
      BY <3>2, <3>3
  <2>3. sender[listened[p][h]] % NShards = s
    BY <1>3, <2>1 DEF OfShard
  <2>4. \A r \in Shards \ {s} : \A i \in DOMAIN queue[p][r] : queue[p][r][i] # h
    BY <2>1, <2>3 DEF OfShard
  <2> QED
    BY <2>2, <2>4
<1>6. Unfinished(p)' = Unfinished(p) \ {h} /\ h \in Unfinished(p)
  <2>1. h \in Unfinished(p)
    BY <1>3 DEF Unfinished
  <2>2. ASSUME NEW m \in Unfinished(p)'  PROVE m \in Unfinished(p) \ {h}
    <3>0. PICK r \in Shards : \E i \in DOMAIN queue'[p][r] : queue'[p][r][i] = m
      BY DEF Unfinished
    <3>1. PICK i \in DOMAIN queue'[p][r] : queue'[p][r][i] = m
      BY <3>0
    <3>2. CASE r = s
      <4>0. i \in 1..(Len(old) - 1) /\ m = Tail(old)[i] /\ m \in Nat
        BY <1>3, <1>4, <3>1, <3>2 DEF Unfinished
      <4>1. m = old[i + 1] /\ i + 1 \in DOMAIN old /\ i + 1 # 1 /\ m \in Nat
        BY <1>3, <4>0
      <4> QED
        BY <1>5, <4>1 DEF Unfinished
    <3>3. CASE r # s
      BY <1>4, <1>5, <3>1, <3>3 DEF Unfinished
    <3> QED
      BY <3>2, <3>3
  <2>3. ASSUME NEW m \in Unfinished(p), m # h  PROVE m \in Unfinished(p)'
    <3>0. PICK r \in Shards : \E i \in DOMAIN queue[p][r] : queue[p][r][i] = m
      BY DEF Unfinished
    <3>1. PICK i \in DOMAIN queue[p][r] : queue[p][r][i] = m
      BY <3>0
    <3>2. CASE r = s
      <4>1. i \in 1..Len(old) /\ i # 1
        BY <1>3, <2>3, <3>1, <3>2
      <4>2. i - 1 \in 1..(Len(old) - 1) /\ (i - 1) + 1 = i
        BY <1>3, <4>1
      <4>3. i - 1 \in DOMAIN queue'[p][s] /\ queue'[p][s][i - 1] = m
        BY <1>3, <1>4, <3>1, <3>2, <4>2
      <4> QED
        BY <4>3 DEF Unfinished
    <3>3. CASE r # s
      BY <1>4, <3>1, <3>3 DEF Unfinished
    <3> QED
      BY <3>2, <3>3
  <2> QED
    BY <2>1, <2>2, <2>3
<1>7. /\ IsFiniteSet(Unfinished(p)')
      /\ Cardinality(Unfinished(p)') = Cardinality(Unfinished(p)) - 1
  <2>1. IsFiniteSet(Unfinished(p)) /\ h \in Unfinished(p)
    BY <1>6 DEF Slotted
  <2>2. /\ IsFiniteSet(Unfinished(p) \ {h})
        /\ Cardinality(Unfinished(p) \ {h}) = Cardinality(Unfinished(p)) - 1
    BY <2>1, FS_RemoveElement
  <2> QED
    BY <1>6, <2>2
<1>8. Cardinality(Unfinished(p)) \in Nat /\ slots[p] \in Nat
      /\ Cardinality(Unfinished(p)) + slots[p] = MaxPending
  BY FS_CardinalityType DEF Slotted
<1>9. slots'[p] = slots[p] + 1 /\ \A q \in Processes \ {p} : slots'[q] = slots[q]
  BY <1>1 DEF Slotted
<1>10. slots' \in [Processes -> Nat]
  BY <1>1, <1>8 DEF Slotted
<1>11. ASSUME NEW q \in Processes
       PROVE  IsFiniteSet(Unfinished(q)') /\ Cardinality(Unfinished(q)') + slots'[q] = MaxPending
  <2>1. CASE q = p
    BY <1>7, <1>8, <1>9, <2>1, ShardsAssumption
  <2>2. CASE q # p
    BY <1>4, <1>9, <2>2, SameUnfinished DEF Slotted
  <2> QED
    BY <2>1, <2>2
<1> QED
  BY <1>10, <1>11 DEF Slotted

LEMMA LoopRestartSlots ==
  ASSUME LoopInv, Slotted, NEW p \in Processes, LoopRestart(p)
  PROVE  Slotted'
<1>1. /\ queue' = [queue EXCEPT ![p] = [s \in Shards |-> << >>]]
      /\ slots' = [slots EXCEPT ![p] = MaxPending]
  BY DEF LoopRestart
<1>2. /\ \A s \in Shards : queue'[p][s] = << >>
      /\ \A q \in Processes \ {p} : queue'[q] = queue[q]
  BY <1>1 DEF LoopInv, Typed
<1>3. Unfinished(p)' = {}
  BY <1>2 DEF Unfinished
<1>4. IsFiniteSet(Unfinished(p)') /\ Cardinality(Unfinished(p)') = 0
  BY <1>3, FS_EmptySet
<1>5. slots'[p] = MaxPending /\ \A q \in Processes \ {p} : slots'[q] = slots[q]
  BY <1>1 DEF Slotted
<1>6. slots' \in [Processes -> Nat]
  BY <1>1, ShardsAssumption DEF Slotted
<1>7. ASSUME NEW q \in Processes
      PROVE  IsFiniteSet(Unfinished(q)') /\ Cardinality(Unfinished(q)') + slots'[q] = MaxPending
  <2>1. CASE q = p
    BY <1>4, <1>5, <2>1, ShardsAssumption
  <2>2. CASE q # p
    BY <1>2, <1>5, <2>2, SameUnfinished DEF Slotted
  <2> QED
    BY <2>1, <2>2
<1> QED
  BY <1>6, <1>7 DEF Slotted

LEMMA SlotsInvariant == LoopSpec => []Slotted
<1>1. LoopInit => Slotted
  <2> SUFFICES ASSUME LoopInit  PROVE Slotted
    OBVIOUS
  <2>1. \A p \in Processes : Unfinished(p) = {}
    BY DEF LoopInit, Unfinished
  <2>2. slots \in [Processes -> Nat] /\ \A p \in Processes : slots[p] = MaxPending
    BY ShardsAssumption DEF LoopInit
  <2> QED
    BY <2>1, <2>2, FS_EmptySet, ShardsAssumption DEF Slotted
<1>2. LoopInv /\ Slotted /\ [LoopNext]_loopVars => Slotted'
  <2> SUFFICES ASSUME LoopInv, Slotted, [LoopNext]_loopVars  PROVE Slotted'
    OBVIOUS
  <2>1. ASSUME UNCHANGED <<queue, slots>>  PROVE Slotted'
    BY <2>1, SameUnfinished DEF Slotted
  <2>2. CASE UNCHANGED loopVars
    BY <2>1, <2>2 DEF loopVars
  <2>3. ASSUME NEW p \in Processes, NEW s \in Shards,
               ClaimEvent(p, s) \/ HandleEvent(p, s) \/ EventFails(p, s)
        PROVE  Slotted'
    BY <2>1, <2>3 DEF ClaimEvent, HandleEvent, EventFails
  <2> QED
    BY <2>2, <2>3, SubmitEventSlots, EventDoneSlots, LoopRestartSlots DEF LoopNext
<1> QED
  BY <1>1, <1>2, LoopInvariant, PTL DEF LoopSpec

\* Every variable of the event loop keeps its type; above all no slot is lost or given
\* back twice (LoopTypeOK): every unfinished delivery holds one of the MaxPending slots
\* of bot/main.py's _pending_events.
THEOREM LoopTypes == LoopSpec => []LoopTypeOK
<1>1. LoopInv /\ Slotted => LoopTypeOK
  <2> SUFFICES ASSUME LoopInv, Slotted  PROVE LoopTypeOK
    OBVIOUS
  <2>1. ASSUME NEW p \in Processes, NEW s \in Shards  PROVE queue[p][s] \in Seq(Nat \ {0})
    <3>1. queue[p][s] \in Seq(Nat) /\ listened[p] \in Seq(Received)
      BY DEF LoopInv, Typed
    <3>2. \A i \in DOMAIN queue[p][s] : queue[p][s][i] \in Nat \ {0}
      BY <3>1 DEF LoopInv, Queues, Known
    <3> QED
      BY <3>1, <3>2
  <2>2. queue \in [Processes -> [Shards -> Seq(Nat \ {0})]]
    BY <2>1 DEF LoopInv, Typed
  <2>3. \A p \in Processes : slots[p] \in 0..MaxPending
    <3> SUFFICES ASSUME NEW p \in Processes  PROVE slots[p] \in 0..MaxPending
      OBVIOUS
    <3>1. Cardinality(Unfinished(p)) \in Nat /\ slots[p] \in Nat
          /\ Cardinality(Unfinished(p)) + slots[p] = MaxPending
      BY FS_CardinalityType DEF Slotted
    <3> QED
      BY <3>1, ShardsAssumption
  <2> QED
    BY <2>2, <2>3 DEF LoopInv, Typed, LoopTypeOK
<1> QED
  BY <1>1, LoopInvariant, SlotsInvariant, PTL

---------------------------------------------------------------------------
(* The steps that arm nothing. *)

\* A step that leaves the memory alone and loses no row that an armed timer has.
LEMMA SameMemory ==
  ASSUME TimerInv, UNCHANGED memory, rows' \subseteq Keys,
         \A k \in Keys : k \in rows \ rows' => entries[k] = 0,
         (heap \subseteq Issued /\ DOMAIN pool \subseteq Issued /\ Clearing)'
  PROVE  TimerInv'
<1> USE DEF TimerInv, memory
<1>1. Issued' = Issued  BY DEF Issued
<1>2. Shaped' /\ Tokened'  BY <1>1 DEF Shaped, Tokened
<1>3. \A x \in Txns, k \in Keys :
         /\ Has(x, k)' <=> Has(x, k)
         /\ Changed(x, k)' <=> Changed(x, k)
         /\ InCall(x, k)' <=> InCall(x, k)
  BY DEF Has, Changed, Mentions, InCall
<1>4. Apart' /\ Replaced' /\ Rewritten' /\ Cancelled'
  BY <1>3 DEF Apart, Replaced, Rewritten, Cancelled
<1>5. Durable'
  BY IssuedTokens DEF Durable, Tokened
<1> QED  BY <1>2, <1>4, <1>5

LEMMA ElapseInv ==
  ASSUME TimerInv, NEW t \in Issued, Elapse(t) \/ DropRecord(t)
  PROVE  TimerInv'
<1>1. /\ UNCHANGED memory /\ heap' \subseteq heap
      /\ UNCHANGED <<rows, pool, holder>>
  BY DEF Elapse, DropRecord, memory
<1>2. (heap \subseteq Issued /\ DOMAIN pool \subseteq Issued /\ Clearing)'
  BY <1>1 DEF TimerInv, Tokened, Clearing, Issued, memory
<1> QED  BY <1>1, <1>2, SameMemory DEF TimerInv, Shaped

LEMMA CallbackInv ==
  ASSUME TimerInv, NEW t \in Issued, Callback(t)
  PROVE  TimerInv'
<1>1. /\ UNCHANGED memory /\ UNCHANGED <<rows, heap, holder>>
      /\ DOMAIN pool' = DOMAIN pool
      /\ \A s \in DOMAIN pool : pool'[s] = "clearing" => pool[s] = "clearing"
  BY DEF Callback, Goes, memory
<1>2. (heap \subseteq Issued /\ DOMAIN pool \subseteq Issued /\ Clearing)'
  BY <1>1 DEF TimerInv, Tokened, Clearing, Issued, memory
<1> QED  BY <1>1, <1>2, SameMemory DEF TimerInv, Shaped

LEMMA PersistRetryInv ==
  ASSUME TimerInv, NEW t \in Issued, PersistRetry(t)
  PROVE  TimerInv'
<1>1. /\ UNCHANGED memory /\ UNCHANGED <<heap, holder>>
      /\ rows' = rows \/ rows' = rows \cup {made[t]}
      /\ DOMAIN pool' \subseteq DOMAIN pool
      /\ \A s \in DOMAIN pool' : pool'[s] = pool[s]
  BY DEF PersistRetry, Finishes, memory
<1>2. (heap \subseteq Issued /\ DOMAIN pool \subseteq Issued /\ Clearing)'
  BY <1>1 DEF TimerInv, Tokened, Clearing, Issued, memory
<1>3. made[t] \in Keys  BY IssuedTokens DEF TimerInv
<1> QED  BY <1>1, <1>2, <1>3, SameMemory DEF TimerInv, Shaped

LEMMA ClearBeginsInv ==
  ASSUME TimerInv, NEW t \in Issued, ClearBegins(t)
  PROVE  TimerInv'
<1>1. UNCHANGED memory /\ UNCHANGED <<heap, rows>> /\ holder = 0
      /\ t \in DOMAIN pool /\ pool[t] = "returned"
  BY DEF ClearBegins, LockFree, In, memory
<1>2. t # 0 /\ \A s \in DOMAIN pool : pool[s] # "clearing"
  BY <1>1, IssuedTokens DEF TimerInv, Clearing, Tokened
<1>3. DOMAIN pool' \subseteq DOMAIN pool /\ Clearing'
  <2>1. CASE Superseded(t)
    BY <2>1, <1>1, <1>2 DEF ClearBegins, Finishes, Clearing
  <2>2. CASE ~Superseded(t)
    <3>1. /\ holder' = t /\ DOMAIN pool' = DOMAIN pool
          /\ \A s \in DOMAIN pool : s # t => pool'[s] = pool[s]
          /\ entries[made[t]] = 0
      BY <2>2, <1>1 DEF ClearBegins, Goes, Superseded
    <3> QED  BY <3>1, <1>1, <1>2 DEF Clearing, memory, Issued
  <2> QED  BY <2>1, <2>2
<1>4. (heap \subseteq Issued /\ DOMAIN pool \subseteq Issued)'
  BY <1>1, <1>3 DEF TimerInv, Tokened, Issued, memory
<1> QED  BY <1>1, <1>3, <1>4, SameMemory DEF TimerInv, Shaped

LEMMA ClearRowInv ==
  ASSUME TimerInv, NEW t \in Issued, ClearRow(t)
  PROVE  TimerInv'
<1>1. /\ UNCHANGED memory /\ UNCHANGED heap /\ holder' = 0
      /\ t \in DOMAIN pool /\ pool[t] = "clearing"
      /\ rows' = rows \ {made[t]} \/ rows' = rows
      /\ DOMAIN pool' = DOMAIN pool \ {t}
      /\ \A s \in DOMAIN pool' : pool'[s] = pool[s]
  BY DEF ClearRow, In, Finishes, memory
<1>2. holder = t /\ t # 0 /\ entries[made[t]] = 0
  BY <1>1, IssuedTokens DEF TimerInv, Clearing
<1>3. Clearing'
  BY <1>1, <1>2 DEF TimerInv, Clearing
<1>4. (heap \subseteq Issued /\ DOMAIN pool \subseteq Issued)'
  BY <1>1 DEF TimerInv, Tokened, Issued, memory
<1> QED  BY <1>1, <1>2, <1>3, <1>4, SameMemory DEF TimerInv, Shaped

\* The timer of a key is taken out of the memory, with what else may happen to pool and
\* calls of no other key.
LEMMA FireInv ==
  ASSUME TimerInv, NEW t \in Issued, Fire(t)
  PROVE  TimerInv'
<1> USE DEF TimerInv
<1> DEFINE k == made[t]
<1>1. /\ entries' = [entries EXCEPT ![k] = 0] /\ holder = 0 /\ holder' = 0
      /\ heap' \subseteq heap /\ entries[k] = t /\ k \in Keys
      /\ UNCHANGED <<made, rows, write, call, fresh, kept>>
  BY IssuedTokens DEF Fire, LockFree, Current
<1>2. DOMAIN pool' = DOMAIN pool \cup {t}
      /\ \A s \in DOMAIN pool' : pool'[s] = "clearing" => s \in DOMAIN pool /\ pool[s] = "clearing"
  BY <1>1 DEF Fire
<1> HIDE DEF k
<1>3. Issued' = Issued  BY <1>1 DEF Issued
<1>4. Shaped' /\ Tokened'
  BY <1>1, <1>2, <1>3 DEF Shaped, Tokened
<1>5. \A x \in Txns, j \in Keys :
         /\ Has(x, j)' <=> Has(x, j)
         /\ Changed(x, j)' <=> Changed(x, j)
         /\ InCall(x, j)' <=> InCall(x, j)
  BY <1>1 DEF Has, Changed, Mentions, InCall
<1>6. \A j \in Keys : entries'[j] = 0 \/ entries'[j] = entries[j]
  BY <1>1 DEF Shaped
<1>7. 0 \notin kept /\ \A x \in Txns : 0 \notin fresh[x]
  BY IssuedTokens DEF Tokened
<1>8. Apart' /\ Replaced' /\ Durable' /\ Rewritten' /\ Cancelled'
  BY <1>1, <1>5, <1>6, <1>7 DEF Apart, Replaced, Durable, Rewritten, Cancelled
<1>9. Clearing'
  BY <1>1, <1>2 DEF Clearing
<1> QED  BY <1>4, <1>8, <1>9

---------------------------------------------------------------------------
(* The calls of a transaction. *)

LEMMA BeginsInv ==
  ASSUME TimerInv, NEW x \in Txns, NEW k \in Keys, NEW op \in {"schedule", "cancel"},
         Begins(x, op, k)
  PROVE  TimerInv'
<1> USE DEF TimerInv
<1> DEFINE c == [op |-> op, key |-> k, at |-> "memory"]
<1>1. /\ call[x] = NoCall /\ call' = [call EXCEPT ![x] = c]
      /\ c \in Calls /\ c # NoCall /\ c.key = k /\ c.at = "memory"
      /\ UNCHANGED <<made, entries, heap, elapsed, pool, holder, rows, write, fresh, kept>>
  BY DEF Begins, Calls, NoCall
<1>2. \A y \in Txns : y # x => ~Has(y, k)
  BY TouchedIsHas DEF Begins, Alone
<1> HIDE DEF c
<1>3. Shaped' /\ Tokened' /\ Durable' /\ Clearing'
  BY <1>1 DEF Shaped, Tokened, Durable, Clearing, Issued
<1>4. \A y \in Txns : IF y = x THEN call'[y] = c ELSE call'[y] = call[y]
  BY <1>1 DEF Shaped
<1>5. \A y \in Txns, j \in Keys :
         /\ Changed(y, j)' => Changed(y, j)
         /\ InCall(y, j)' /\ call'[y].at = "row" => y # x /\ InCall(y, j)
         /\ Has(y, j)' => Has(y, j) \/ (y = x /\ j = k)
  BY <1>1, <1>4 DEF Changed, Has, InCall, Mentions
<1>6. Apart'  BY <1>2, <1>5 DEF Apart
<1>7. Replaced'  BY <1>1, <1>5 DEF Replaced
<1>8. Rewritten'
  BY <1>1, <1>4 DEF Rewritten, InCall
<1>9. Cancelled'  BY <1>1, <1>4, <1>5 DEF Cancelled
<1> QED  BY <1>3, <1>6, <1>7, <1>8, <1>9

\* The token a Push gives out is new.
LEMMA PushIssues ==
  ASSUME TimerInv, NEW k \in Keys, Push(k)
  PROVE  /\ made' \in Seq(Keys) /\ Token \in Nat \ {0} /\ Token \notin Issued
         /\ Issued' = Issued \cup {Token} /\ made'[Token] = k
         /\ \A t \in Issued : made'[t] = made[t]
         /\ heap' = heap \cup {Token}
         /\ \A j \in Keys : entries'[j] = IF j = k THEN Token ELSE entries[j]
         /\ entries' \in [Keys -> Nat]
BY DEF TimerInv, Shaped, Push, Token, Issued

LEMMA ScheduleMemoryInv ==
  ASSUME TimerInv, NEW x \in Txns, ScheduleMemory(x)
  PROVE  TimerInv'
<1> USE DEF TimerInv
<1> DEFINE k == call[x].key
           n == [call[x] EXCEPT !.at = "row"]
<1>1. /\ call[x] # NoCall /\ call[x].op = "schedule" /\ holder = 0 /\ Push(k)
      /\ fresh' = [fresh EXCEPT ![x] = @ \cup {Token}]
      /\ call' = [call EXCEPT ![x] = n]
      /\ UNCHANGED <<elapsed, pool, holder, rows, write, kept>>
  BY DEF ScheduleMemory, InMemory, LockFree
<1>2. k \in Keys /\ n \in Calls /\ n # NoCall /\ n.op = "schedule" /\ n.key = k /\ n.at = "row"
  BY <1>1, CallFields, CallNext
<1>3. InCall(x, k) /\ Has(x, k)  BY <1>1 DEF InCall, Has
<1> HIDE DEF k, n
<1>4. /\ made' \in Seq(Keys) /\ Token \in Nat \ {0} /\ Token \notin Issued
      /\ Issued' = Issued \cup {Token} /\ made'[Token] = k
      /\ \A t \in Issued : made'[t] = made[t]
      /\ heap' = heap \cup {Token}
      /\ \A j \in Keys : entries'[j] = IF j = k THEN Token ELSE entries[j]
      /\ entries' \in [Keys -> Nat]
  BY <1>1, <1>2, PushIssues
<1> HIDE DEF Token
<1>5. \A y \in Txns : /\ fresh'[y] = IF y = x THEN fresh[y] \cup {Token} ELSE fresh[y]
                      /\ call'[y] = IF y = x THEN n ELSE call[y]
  BY <1>1 DEF Shaped
<1>6. Shaped'
  BY <1>1, <1>2, <1>4 DEF Shaped
<1>7. Tokened'
  <2>1. Issued \subseteq Issued' /\ Token \in Issued'  BY <1>4
  <2>2. (heap \subseteq Issued /\ kept \subseteq Issued /\ DOMAIN pool \subseteq Issued)'
    <3>1. heap \subseteq Issued /\ kept \subseteq Issued /\ DOMAIN pool \subseteq Issued
      BY DEF Tokened
    <3>2. heap' = heap \cup {Token} /\ kept' = kept /\ pool' = pool
      BY <1>1, <1>4
    <3> QED  BY <2>1, <3>1, <3>2
  <2>3. ASSUME NEW y \in Txns  PROVE fresh'[y] \subseteq Issued'
    <3>1. fresh[y] \subseteq Issued  BY DEF Tokened
    <3>2. fresh'[y] \subseteq fresh[y] \cup {Token}  BY <1>5
    <3> QED  BY <2>1, <3>1, <3>2
  <2>4. \A j \in Keys : entries'[j] # 0 => entries'[j] \in Issued' /\ made'[entries'[j]] = j
    BY <2>1, <1>4 DEF Tokened
  <2> QED  BY <2>2, <2>3, <2>4 DEF Tokened
<1>8. \A y \in Txns, j \in Keys :
         /\ Mentions(y, j)' <=> Mentions(y, j) \/ (y = x /\ j = k)
         /\ InCall(y, j)' <=> InCall(y, j)
  <2> SUFFICES ASSUME NEW y \in Txns, NEW j \in Keys
               PROVE  /\ Mentions(y, j)' <=> Mentions(y, j) \/ (y = x /\ j = k)
                      /\ InCall(y, j)' <=> InCall(y, j)
    OBVIOUS
  <2>1. Mentions(y, j)' <=> Mentions(y, j) \/ (y = x /\ j = k)
    <3>1. \A t \in fresh[y] : t \in Issued /\ made'[t] = made[t]
      BY <1>4 DEF Tokened
    <3>2. CASE y = x
      <4>1. fresh'[y] = fresh[y] \cup {Token}  BY <3>2, <1>5
      <4> QED  BY <4>1, <3>1, <3>2, <1>4 DEF Mentions
    <3>3. CASE y # x
      <4>1. fresh'[y] = fresh[y]  BY <3>3, <1>5
      <4> QED  BY <4>1, <3>1, <3>3 DEF Mentions
    <3> QED  BY <3>2, <3>3
  <2>2. InCall(y, j)' <=> InCall(y, j)
    BY <1>1, <1>2, <1>5 DEF InCall, k
  <2> QED  BY <2>1, <2>2
<1>9. \A y \in Txns, j \in Keys : Has(y, j)' => Has(y, j)
  BY <1>1, <1>3, <1>8 DEF Has
<1>10. Apart'  BY <1>9 DEF Apart
<1>11. \A y \in Txns, j \in Keys :
          /\ j # k /\ Changed(y, j)' => Changed(y, j)
          /\ y # x => call'[y] = call[y]
  BY <1>1, <1>2, <1>5, <1>8 DEF Changed, InCall
<1>12. Token \notin kept  BY <1>4 DEF Tokened
<1>13. Replaced'
  BY <1>1, <1>4, <1>11, <1>12 DEF Replaced
<1>14. Durable'
  BY <1>1, <1>4, <1>12 DEF Durable
<1>15. \A j \in Keys : j = k =>
          InCall(x, j)' /\ call'[x].op = "schedule" /\ call'[x].at = "row"
  <2>1. call'[x] = n  BY <1>5
  <2> QED  BY <2>1, <1>2 DEF InCall
<1>16. Rewritten'
  <2> SUFFICES ASSUME NEW y \in Txns, NEW j \in Keys, entries'[j] \in fresh'[y]
               PROVE  \/ write[y][j] \in {"updated", "inserted"}
                      \/ InCall(y, j)' /\ call'[y].op = "schedule" /\ call'[y].at = "row"
    BY <1>1 DEF Rewritten
  <2>1. CASE j = k
    <3>1. y = x
      <4>1. Token \in fresh'[y] /\ Token \notin fresh[y]  BY <2>1, <1>4 DEF Tokened
      <4> QED  BY <4>1, <1>5
    <3> QED  BY <3>1, <2>1, <1>15
  <2>2. CASE j # k
    <3>1. entries[j] \in fresh[y]
      <4>1. entries'[j] = entries[j]  BY <2>2, <1>4
      <4>2. entries[j] # Token
        BY <1>4 DEF Tokened
      <4> QED  BY <4>1, <4>2, <1>5
    <3>2. y = x => ~InCall(y, j)  BY <2>2 DEF InCall, k
    <3> QED  BY <3>1, <3>2, <1>8, <1>11 DEF Rewritten
  <2> QED  BY <2>1, <2>2
<1>17. Cancelled'
  <2> SUFFICES ASSUME NEW y \in Txns, NEW j \in Keys, InCall(y, j)',
                      call'[y].op = "cancel", call'[y].at = "row"
               PROVE  entries'[j] \notin fresh'[y]
    BY DEF Cancelled
  <2>1. y # x  BY <1>2, <1>5
  <2>2. InCall(y, j) /\ call'[y] = call[y] /\ fresh'[y] = fresh[y]
    BY <2>1, <1>5, <1>8
  <2>3. j # k  BY <2>1, <2>2, <1>3 DEF Apart, Has
  <2> QED  BY <2>2, <2>3, <1>4 DEF Cancelled
<1>18. Clearing'
  BY <1>1 DEF Clearing
<1> QED  BY <1>6, <1>7, <1>10, <1>13, <1>14, <1>16, <1>17, <1>18

LEMMA CancelMemoryInv ==
  ASSUME TimerInv, NEW x \in Txns, CancelMemory(x)
  PROVE  TimerInv'
<1> USE DEF TimerInv
<1> DEFINE k == call[x].key
           n == [call[x] EXCEPT !.at = "row"]
<1>1. /\ call[x] # NoCall /\ call[x].op = "cancel" /\ holder = 0
      /\ entries' = [entries EXCEPT ![k] = 0]
      /\ call' = [call EXCEPT ![x] = n]
      /\ UNCHANGED <<made, heap, elapsed, pool, holder, rows, write, fresh, kept>>
  BY DEF CancelMemory, InMemory, LockFree
<1>2. k \in Keys /\ n \in Calls /\ n # NoCall /\ n.op = "cancel" /\ n.key = k /\ n.at = "row"
  BY <1>1, CallFields, CallNext
<1>3. \A y \in Txns, j \in Keys : y = x /\ InCall(y, j) => j = k
  BY DEF InCall
<1> HIDE DEF k, n
<1>4. \A y \in Txns : call'[y] = IF y = x THEN n ELSE call[y]
  BY <1>1 DEF Shaped
<1>5. \A j \in Keys : entries'[j] = IF j = k THEN 0 ELSE entries[j]
  BY <1>1 DEF Shaped
<1>6. Shaped' /\ Tokened'
  BY <1>1, <1>2, <1>5 DEF Shaped, Tokened, Issued
<1>7. \A y \in Txns, j \in Keys :
         /\ Mentions(y, j)' <=> Mentions(y, j)
         /\ InCall(y, j)' => InCall(y, j)
  <2>1. \A y \in Txns, j \in Keys : Mentions(y, j)' <=> Mentions(y, j)
    BY <1>1 DEF Mentions
  <2>2. InCall(x, k)  BY <1>1 DEF InCall, k
  <2>3. \A y \in Txns, j \in Keys : InCall(y, j)' => InCall(y, j)
    BY <2>2, <1>2, <1>4 DEF InCall
  <2> QED  BY <2>1, <2>3
<1>8. \A y \in Txns, j \in Keys :
         /\ Has(y, j)' => Has(y, j)
         /\ j # k /\ Changed(y, j)' => Changed(y, j)
  BY <1>1, <1>2, <1>4, <1>7 DEF Has, Changed, InCall
<1>9. 0 \notin kept /\ \A y \in Txns : 0 \notin fresh[y]
  BY IssuedTokens DEF Tokened
<1>10. Apart'  BY <1>8 DEF Apart
<1>11. Replaced' /\ Durable'
  BY <1>1, <1>5, <1>8, <1>9 DEF Replaced, Durable
<1>12. Rewritten'
  <2> SUFFICES ASSUME NEW y \in Txns, NEW j \in Keys, entries'[j] \in fresh'[y]
               PROVE  \/ write[y][j] \in {"updated", "inserted"}
                      \/ InCall(y, j)' /\ call'[y].op = "schedule" /\ call'[y].at = "row"
    BY <1>1 DEF Rewritten
  <2>1. j # k /\ entries[j] \in fresh[y]
    BY <1>1, <1>5, <1>9
  <2>2. InCall(y, j) => y # x /\ call'[y] = call[y] /\ InCall(y, j)'
    BY <2>1, <1>3, <1>4 DEF InCall
  <2> QED  BY <2>1, <2>2 DEF Rewritten
<1>13. Cancelled'
  <2> SUFFICES ASSUME NEW y \in Txns, NEW j \in Keys, InCall(y, j)',
                      call'[y].op = "cancel", call'[y].at = "row"
               PROVE  entries'[j] \notin fresh'[y]
    BY DEF Cancelled
  <2>1. CASE j = k  BY <2>1, <1>1, <1>5, <1>9
  <2>2. CASE j # k
    <3>1. InCall(y, j)  BY <1>7
    <3>2. y # x  BY <2>2, <3>1, <1>3
    <3>3. call'[y] = call[y]  BY <3>2, <1>4
    <3> QED  BY <3>1, <3>3, <2>2, <1>1, <1>5 DEF Cancelled
  <2> QED  BY <2>1, <2>2
<1>14. Clearing'
  BY <1>1 DEF Clearing
<1> QED  BY <1>6, <1>10, <1>11, <1>12, <1>13, <1>14

LEMMA RowStatementInv ==
  ASSUME TimerInv, NEW x \in Txns, RowStatement(x)
  PROVE  TimerInv'
<1> USE DEF TimerInv
<1> DEFINE k == call[x].key
<1>1. /\ call[x] # NoCall /\ call[x].at = "row" /\ call' = [call EXCEPT ![x] = NoCall]
      /\ UNCHANGED <<made, entries, heap, elapsed, pool, holder, rows, fresh, kept>>
  BY DEF RowStatement
<1>2. k \in Keys /\ call[x].op \in {"schedule", "cancel"}
  BY <1>1, CallFields
<1>3. PICK w \in Writes :
         /\ write' = [write EXCEPT ![x][k] = w]
         /\ call[x].op = "schedule" => w \in {"updated", "inserted"}
  <2>1. AfterSchedule(x, k) \in {"updated", "inserted"}
    BY DEF AfterSchedule
  <2>2. write[x][k] \in Writes  BY <1>2 DEF Shaped
  <2>3. CASE call[x].op = "schedule"
    BY <2>1, <2>3 DEF RowStatement, Writes
  <2>4. CASE call[x].op = "cancel" /\ Visible(x, k)
    BY <2>4 DEF RowStatement, Writes
  <2>5. CASE call[x].op = "cancel" /\ ~Visible(x, k)
    BY <2>2, <2>5 DEF RowStatement
  <2> QED  BY <1>2, <2>3, <2>4, <2>5
<1>4. InCall(x, k) /\ Has(x, k) /\ Changed(x, k)
  BY <1>1 DEF InCall, Has, Changed
<1>5. \A y \in Txns, j \in Keys : y = x /\ InCall(y, j) => j = k
  BY DEF InCall
<1>6. call[x].op = "cancel" => entries[k] \notin fresh[x]
  BY <1>1, <1>2, <1>4 DEF Cancelled
<1>7. \A y \in Txns, j \in Keys : write'[y][j] = IF y = x /\ j = k THEN w ELSE write[y][j]
  BY <1>2, <1>3 DEF Shaped
<1>8. \A y \in Txns : call'[y] = IF y = x THEN NoCall ELSE call[y]
  BY <1>1 DEF Shaped
<1>9. call[x].op = "schedule" \/ call[x].op = "cancel"  BY <1>2
<1>10. Shaped' /\ Tokened' /\ Durable' /\ Clearing'
  <2>1. write' \in [Txns -> [Keys -> Writes]]  BY <1>2, <1>3 DEF Shaped
  <2> HIDE DEF k
  <2>2. Shaped'  BY <2>1, <1>1 DEF Shaped
  <2> QED  BY <2>2, <1>1 DEF Tokened, Durable, Clearing, Issued
<1> HIDE DEF k
<1>11. \A y \in Txns, j \in Keys :
          /\ Mentions(y, j)' <=> Mentions(y, j)
          /\ InCall(y, j)' <=> InCall(y, j) /\ y # x
  BY <1>1, <1>8 DEF Mentions, InCall
<1>12. \A y \in Txns, j \in Keys :
          /\ Has(y, j)' => Has(y, j)
          /\ Changed(y, j)' => Changed(y, j)
  BY <1>4, <1>7, <1>8, <1>11 DEF Has, Changed
<1>13. Apart' /\ Replaced'
  BY <1>1, <1>12 DEF Apart, Replaced
<1>14. Rewritten'
  <2> SUFFICES ASSUME NEW y \in Txns, NEW j \in Keys, entries[j] \in fresh[y]
               PROVE  \/ write'[y][j] \in {"updated", "inserted"}
                      \/ InCall(y, j)' /\ call'[y].op = "schedule" /\ call'[y].at = "row"
    BY <1>1 DEF Rewritten
  <2>1. CASE y = x /\ j = k
    BY <2>1, <1>3, <1>6, <1>7, <1>9
  <2>2. CASE y = x /\ j # k
    BY <2>2, <1>5, <1>7 DEF Rewritten
  <2>3. CASE y # x
    BY <2>3, <1>7, <1>8, <1>11 DEF Rewritten
  <2> QED  BY <2>1, <2>2, <2>3
<1>15. Cancelled'
  BY <1>1, <1>8, <1>11 DEF Cancelled
<1> QED  BY <1>10, <1>13, <1>14, <1>15

\* A transaction has closed: nothing is left of it, and the others are as before.
LEMMA ClosedTxn ==
  ASSUME TimerInv, NEW x \in Txns, Closes(x)
  PROVE  /\ \A y \in Txns, j \in Keys :
              /\ Has(y, j)' <=> Has(y, j) /\ y # x
              /\ Changed(y, j)' <=> Changed(y, j) /\ y # x
              /\ y # x => write'[y][j] = write[y][j]
         /\ \A y \in Txns : fresh'[y] = IF y = x THEN {} ELSE fresh[y]
         /\ write' \in [Txns -> [Keys -> Writes]] /\ fresh' \in [Txns -> SUBSET Nat]
         /\ call[x] = NoCall
         /\ UNCHANGED <<made, entries, heap, elapsed, pool, holder, call>>
<1> USE DEF TimerInv
<1>1. /\ call[x] = NoCall
      /\ write' = [write EXCEPT ![x] = [k \in Keys |-> "none"]]
      /\ fresh' = [fresh EXCEPT ![x] = {}]
      /\ UNCHANGED <<made, entries, heap, elapsed, pool, holder, call>>
  BY DEF Closes
<1>2. \A y \in Txns : fresh'[y] = IF y = x THEN {} ELSE fresh[y]
  BY <1>1 DEF Shaped
<1>3. \A y \in Txns, j \in Keys : write'[y][j] = IF y = x THEN "none" ELSE write[y][j]
  BY <1>1 DEF Shaped
<1>4. write' \in [Txns -> [Keys -> Writes]] /\ fresh' \in [Txns -> SUBSET Nat]
  BY <1>1 DEF Shaped, Writes
<1>5. \A y \in Txns, j \in Keys :
         /\ Mentions(y, j)' <=> Mentions(y, j) /\ y # x
         /\ InCall(y, j)' <=> InCall(y, j)
         /\ y = x => ~InCall(y, j)
  BY <1>1, <1>2 DEF Mentions, InCall
<1> QED  BY <1>1, <1>2, <1>3, <1>4, <1>5 DEF Has, Changed

LEMMA EndTxnInv ==
  ASSUME TimerInv, NEW x \in Txns, CommitTxn(x) \/ RollbackTxn(x)
  PROVE  TimerInv'
<1> USE DEF TimerInv
<1>1. Closes(x)  BY DEF CommitTxn, RollbackTxn
<1>2. /\ \A y \in Txns, j \in Keys :
           /\ Has(y, j)' <=> Has(y, j) /\ y # x
           /\ Changed(y, j)' <=> Changed(y, j) /\ y # x
           /\ y # x => write'[y][j] = write[y][j]
      /\ \A y \in Txns : fresh'[y] = IF y = x THEN {} ELSE fresh[y]
      /\ write' \in [Txns -> [Keys -> Writes]] /\ fresh' \in [Txns -> SUBSET Nat]
      /\ call[x] = NoCall
      /\ UNCHANGED <<made, entries, heap, elapsed, pool, holder, call>>
  BY <1>1, ClosedTxn
<1>3. \A j \in Keys : entries[j] \in fresh[x] =>
         Mentions(x, j) /\ write[x][j] \in {"updated", "inserted"}
  <2> SUFFICES ASSUME NEW j \in Keys, entries[j] \in fresh[x]
               PROVE  Mentions(x, j) /\ write[x][j] \in {"updated", "inserted"}
    OBVIOUS
  <2>1. ~InCall(x, j)  BY <1>2 DEF InCall
  <2>2. entries[j] # 0  BY IssuedTokens DEF Tokened
  <2> QED  BY <2>1, <2>2 DEF Rewritten, Tokened, Mentions
<1>4. /\ rows' \subseteq Keys
      /\ kept' = kept \/ kept' = kept \cup fresh[x]
      /\ \A j \in Keys : j \in rows \ rows' => write[x][j] = "deleted"
      /\ \A j \in Keys : kept' # kept /\ write[x][j] \in {"updated", "inserted"} => j \in rows'
  <2>1. CASE CommitTxn(x)
    <3>1. /\ rows' = (rows \ Wrote(x, "deleted")) \cup Wrote(x, "inserted")
          /\ Wrote(x, "updated") \subseteq rows /\ kept' = kept \cup fresh[x]
      BY <2>1 DEF CommitTxn
    <3> QED  BY <3>1 DEF Wrote, Shaped
  <2>2. CASE RollbackTxn(x)
    BY <2>2 DEF RollbackTxn, Shaped
  <2> QED  BY <2>1, <2>2
<1>5. Issued' = Issued /\ Shaped' /\ Tokened' /\ Clearing'
  BY <1>2, <1>4 DEF Shaped, Tokened, Clearing, Issued
<1>6. Apart'  BY <1>2 DEF Apart
<1>7. Replaced'
  <2> SUFFICES ASSUME NEW y \in Txns, NEW j \in Keys, Changed(y, j)'
               PROVE  entries[j] \notin kept'
    BY <1>2 DEF Replaced
  <2>1. Changed(y, j) /\ y # x  BY <1>2
  <2>2. ~Mentions(x, j)  BY <2>1 DEF Apart, Has, Changed
  <2> QED  BY <2>1, <2>2, <1>3, <1>4 DEF Replaced
<1>8. Durable'
  <2> SUFFICES ASSUME NEW j \in Keys, entries[j] \in kept'
               PROVE  j \in rows'
    BY <1>2 DEF Durable
  <2>1. CASE entries[j] \in kept
    <3>1. write[x][j] = "none"  BY <2>1 DEF Replaced, Changed
    <3> QED  BY <2>1, <3>1, <1>4 DEF Durable
  <2>2. CASE entries[j] \notin kept
    BY <2>2, <1>3, <1>4
  <2> QED  BY <2>1, <2>2
<1>9. Rewritten'
  <2> SUFFICES ASSUME NEW y \in Txns, NEW j \in Keys, entries[j] \in fresh'[y]
               PROVE  \/ write'[y][j] \in {"updated", "inserted"}
                      \/ InCall(y, j)' /\ call'[y].op = "schedule" /\ call'[y].at = "row"
    BY <1>2 DEF Rewritten
  <2>1. y # x /\ entries[j] \in fresh[y]  BY <1>2
  <2> QED  BY <2>1, <1>2 DEF Rewritten, InCall
<1>10. Cancelled'
  BY <1>2 DEF Cancelled, InCall
<1> QED  BY <1>5, <1>6, <1>7, <1>8, <1>9, <1>10

---------------------------------------------------------------------------
(* Retries, and the restart. *)

LEMMA RetryInv ==
  ASSUME TimerInv, NEW t \in Issued, Retry(t)
  PROVE  TimerInv'
<1> USE DEF TimerInv
<1> DEFINE k == made[t]
<1>1. /\ holder = 0 /\ Push(k) /\ k \in Keys
      /\ UNCHANGED <<elapsed, holder, rows, write, call, fresh, kept>>
  BY IssuedTokens DEF Retry, LockFree
<1>2. /\ DOMAIN pool' = DOMAIN pool
      /\ \A s \in DOMAIN pool : pool'[s] = "clearing" => pool[s] = "clearing"
  BY DEF Retry, Goes
<1> HIDE DEF k
<1>3. /\ made' \in Seq(Keys) /\ Token \in Nat \ {0} /\ Token \notin Issued
      /\ Issued' = Issued \cup {Token} /\ made'[Token] = k
      /\ \A s \in Issued : made'[s] = made[s]
      /\ heap' = heap \cup {Token}
      /\ \A j \in Keys : entries'[j] = IF j = k THEN Token ELSE entries[j]
      /\ entries' \in [Keys -> Nat]
  BY <1>1, PushIssues
<1> HIDE DEF Token
<1>4. Shaped' /\ Tokened'
  BY <1>1, <1>2, <1>3 DEF Shaped, Tokened
<1>5. \A y \in Txns, j \in Keys :
         /\ Has(y, j)' <=> Has(y, j)
         /\ Changed(y, j)' <=> Changed(y, j)
         /\ InCall(y, j)' <=> InCall(y, j)
  <2>1. \A y \in Txns, j \in Keys : Mentions(y, j)' <=> Mentions(y, j)
    BY <1>1, <1>3 DEF Mentions, Tokened
  <2> QED  BY <2>1, <1>1 DEF Has, Changed, InCall
<1>6. Token \notin kept /\ \A y \in Txns : Token \notin fresh[y]
  BY <1>3 DEF Tokened
<1>7. /\ rows' = rows /\ kept' = kept /\ write' = write /\ call' = call /\ fresh' = fresh
      /\ \A j \in Keys : entries'[j] \in kept' => entries'[j] = entries[j]
      /\ \A y \in Txns, j \in Keys : entries'[j] \in fresh'[y] => entries'[j] = entries[j]
  BY <1>1, <1>3, <1>6
<1>8. Apart'
  BY <1>5 DEF Apart
<1>9. Replaced'
  BY <1>5, <1>7 DEF Replaced
<1>10. Durable'
  BY <1>7 DEF Durable
<1>11. Rewritten'
  BY <1>5, <1>7 DEF Rewritten
<1>12. Cancelled'
  <2> SUFFICES ASSUME NEW y \in Txns, NEW j \in Keys, InCall(y, j)',
                      call'[y].op = "cancel", call'[y].at = "row", entries'[j] \in fresh'[y]
               PROVE  FALSE
    BY DEF Cancelled
  <2>1. InCall(y, j) /\ entries[j] \in fresh[y]
    BY <1>5, <1>7
  <2> QED
    BY <1>7, <2>1 DEF Cancelled
<1>13. Clearing'
  BY <1>1, <1>2 DEF Clearing
<1> QED  BY <1>4, <1>8, <1>9, <1>10, <1>11, <1>12, <1>13

\* An arrangement of a set in a row, and what comes of appending it.
LEMMA Arranged ==
  ASSUME NEW S, NEW R \in SUBSET S, NEW n \in Nat, NEW f \in [1..n -> R], NEW m \in Seq(S)
  PROVE  /\ f \in Seq(S) /\ Len(f) = n /\ DOMAIN f = 1..n
         /\ m \o f \in Seq(S) /\ Len(m \o f) = Len(m) + n /\ Len(m) \in Nat
         /\ \A i \in 1..n : (m \o f)[Len(m) + i] = f[i]
<1>1. f \in [1..n -> S]  OBVIOUS
<1>2. f \in Seq(S)  BY <1>1, SeqDef
<1>3. DOMAIN f = 1..n /\ Len(f) = n  BY <1>1, <1>2, LenProperties
<1>4. m \o f \in Seq(S) /\ Len(m \o f) = Len(m) + n /\ Len(m) \in Nat
  BY <1>2, <1>3
<1>5. ASSUME NEW i \in 1..n  PROVE (m \o f)[Len(m) + i] = f[i]
  BY <1>2, <1>3, <1>4
<1> QED  BY <1>2, <1>3, <1>4, <1>5

LEMMA RestoreInv ==
  ASSUME TimerInv, RestoreTimers
  PROVE  TimerInv'
<1> USE DEF TimerInv
<1>1. Cardinality(rows) \in Nat
  BY KeysAssumption, FS_Subset, FS_CardinalityType DEF Shaped
<1>2. PICK order \in [1..Cardinality(rows) -> rows] :
        /\ rows = {order[i] : i \in DOMAIN order}
        /\ made' = made \o order
        /\ entries' = [k \in Keys |->
             IF k \in rows THEN Len(made) + (CHOOSE i \in DOMAIN order : order[i] = k)
             ELSE 0]
        /\ heap' = {Len(made) + i : i \in DOMAIN order}
        /\ kept' = heap'
        /\ pool' = << >> /\ holder' = 0 /\ rows' = rows
        /\ write' = [x \in Txns |-> [k \in Keys |-> "none"]]
        /\ call' = [x \in Txns |-> NoCall]
        /\ fresh' = [x \in Txns |-> {}]
  BY DEF RestoreTimers
<1> DEFINE n == Cardinality(rows)
<1>0. rows \in SUBSET Keys /\ made \in Seq(Keys) /\ n \in Nat /\ order \in [1..n -> rows]
  BY <1>1 DEF Shaped
<1> HIDE DEF n
<1>3. DOMAIN order = 1..n /\ order \in Seq(Keys) /\ Len(order) = n
  BY <1>0, Arranged
<1>4. /\ made' \in Seq(Keys) /\ Len(made') = Len(made) + n /\ Len(made) \in Nat
      /\ \A i \in 1..n : made'[Len(made) + i] = order[i]
  <2>1. made' = made \o order  BY <1>2
  <2>2. /\ made \o order \in Seq(Keys) /\ Len(made \o order) = Len(made) + n
        /\ Len(made) \in Nat
        /\ \A i \in 1..n : (made \o order)[Len(made) + i] = order[i]
    BY <1>0, Arranged
  <2> QED  BY <2>1, <2>2
<1>5. Issued' = 1..(Len(made) + n)
  BY <1>4 DEF Issued
<1>6. \A k \in Keys : k \in rows =>
         \E i \in 1..n : order[i] = k /\ entries'[k] = Len(made) + i
  <2> SUFFICES ASSUME NEW k \in Keys, k \in rows
               PROVE  \E i \in 1..n : order[i] = k /\ entries'[k] = Len(made) + i
    OBVIOUS
  <2> DEFINE i == CHOOSE i \in DOMAIN order : order[i] = k
  <2>1. \E j \in DOMAIN order : order[j] = k  BY <1>2
  <2>2. i \in DOMAIN order /\ order[i] = k  BY <2>1
  <2>3. entries'[k] = Len(made) + i  BY <1>2
  <2> QED  BY <2>2, <2>3, <1>3
<1>7. \A k \in Keys : k \notin rows => entries'[k] = 0
  BY <1>2
<1>8. heap' \subseteq Issued' /\ 0 \notin heap'
  <2>1. heap' = {Len(made) + i : i \in 1..n}  BY <1>2, <1>3
  <2>2. \A i \in 1..n : Len(made) + i \in 1..(Len(made) + n) /\ Len(made) + i # 0
    BY <1>0, <1>4
  <2> QED  BY <2>1, <2>2, <1>5
<1>9. \A k \in Keys : entries'[k] \in Nat
  BY <1>0, <1>4, <1>6, <1>7
<1>10. Shaped'
  <2>1. entries' \in [Keys -> Nat]  BY <1>2, <1>9
  <2> QED  BY <1>2, <1>4, <2>1 DEF Shaped, Writes
<1>11. Tokened'
  <2>1. \A k \in Keys : entries'[k] # 0 => entries'[k] \in Issued' /\ made'[entries'[k]] = k
    BY <1>0, <1>4, <1>5, <1>6, <1>7, SMTT(30)
  <2>2. DOMAIN pool' = {}  BY <1>2
  <2> QED  BY <2>1, <2>2, <1>2, <1>8 DEF Tokened
<1>12. \A x \in Txns, k \in Keys : ~Has(x, k)' /\ ~Changed(x, k)' /\ ~InCall(x, k)'
  BY <1>2 DEF Has, Changed, Mentions, InCall
<1>13. Durable'
  BY <1>2, <1>7, <1>8 DEF Durable
<1>14. Apart' /\ Replaced' /\ Rewritten' /\ Cancelled'
  BY <1>2, <1>12 DEF Apart, Replaced, Rewritten, Cancelled
<1>15. Clearing'
  BY <1>2 DEF Clearing
<1> QED  BY <1>10, <1>11, <1>13, <1>14, <1>15

LEMMA TimersInvariant == TimersSpec => []TimerInv
<1>1. TimerInv /\ [TimersNext]_timerVars => TimerInv'
  <2> SUFFICES ASSUME TimerInv, [TimersNext]_timerVars  PROVE TimerInv'
    OBVIOUS
  <2>1. CASE UNCHANGED timerVars
    <3>1. (heap \subseteq Issued /\ DOMAIN pool \subseteq Issued /\ Clearing)'
      BY <2>1 DEF timerVars, TimerInv, Tokened, Clearing, Issued
    <3> QED  BY <3>1, <2>1, SameMemory DEF timerVars, memory, TimerInv, Shaped
  <2>2. ASSUME NEW x \in Txns, TimerCalls(x)  PROVE TimerInv'
    BY <2>2, BeginsInv, ScheduleMemoryInv, CancelMemoryInv, RowStatementInv, EndTxnInv
       DEF TimerCalls
  <2>3. ASSUME NEW t \in Issued, TimerThreads(t)  PROVE TimerInv'
    BY <2>3, ElapseInv, FireInv, CallbackInv, RetryInv, PersistRetryInv, ClearBeginsInv,
       ClearRowInv DEF TimerThreads
  <2>4. CASE RestoreTimers  BY <2>4, RestoreInv
  <2> QED  BY <2>1, <2>2, <2>3, <2>4 DEF TimersNext
<1> QED  BY <1>1, TimersInitInv, PTL DEF TimersSpec

\* A timer that a committed transaction has armed is in the rows until it fires, so a
\* restart arms it again: ArmedIsDurable, of bot/timers.py's _safe_run and schedule.
THEOREM CommittedTimersSurvive == TimersSpec => []ArmedIsDurable
<1>1. TimerInv => ArmedIsDurable
  BY DEF TimerInv, Durable, ArmedIsDurable
<1> QED  BY <1>1, TimersInvariant, PTL

\* A callback starts when the delay of its own schedule is over, whatever was cancelled
\* or replaced under its key: FiresWhenDue, of bot/timers.py's _scheduler.
THEOREM NothingFiresEarly == TimersSpec => FiresWhenDue
<1> DEFINE Due == \A t \in DOMAIN pool' \ DOMAIN pool : t \in elapsed
<1>1. TimersNext => Due
  <2>1. ASSUME NEW x \in Txns, TimerCalls(x)  PROVE pool' = pool
    BY <2>1 DEF TimerCalls, Begins, ScheduleMemory, CancelMemory, RowStatement, CommitTxn,
                RollbackTxn, Closes
  <2>2. ASSUME NEW t \in Issued, TimerThreads(t)  PROVE Due
    <3>1. CASE Fire(t)
      BY <3>1 DEF Fire, Current
    <3>2. CASE ~Fire(t)
      BY <2>2, <3>2 DEF TimerThreads, Elapse, DropRecord, Callback, Retry, PersistRetry,
                        ClearBegins, ClearRow, Goes, Finishes
    <3> QED  BY <3>1, <3>2
  <2>3. CASE RestoreTimers
    BY <2>3 DEF RestoreTimers
  <2> QED  BY <2>1, <2>2, <2>3 DEF TimersNext
<1>2. [TimersNext]_timerVars => [Due]_timerVars
  BY <1>1
<1> QED  BY <1>2, PTL DEF TimersSpec, FiresWhenDue

---------------------------------------------------------------------------
(* The pool of callbacks, and the rest of the types of the scheduler. *)

\* The pool and the bound of the tokens: the callback that holds the lock deletes its row.
Pooled ==
    /\ Len(made) <= MaxToken
    /\ elapsed \subseteq heap
    /\ \A t \in DOMAIN pool : pool[t] \in Progress
    /\ holder # 0 => holder \in DOMAIN pool /\ pool[holder] = "clearing"

LEMMA SamePool ==
  ASSUME Pooled, UNCHANGED <<made, heap, elapsed, pool, holder>>  PROVE Pooled'
BY DEF Pooled

LEMMA PushedPool ==
  ASSUME TimerInv, Pooled, NEW k \in Keys, Push(k)
  PROVE  Len(made') <= MaxToken /\ (elapsed' = elapsed => elapsed' \subseteq heap')
<1>1. made \in Seq(Keys) /\ Len(made) \in Nat
  BY DEF TimerInv, Shaped
<1>2. made' = Append(made, k) /\ Len(made) + 1 <= MaxToken /\ heap \subseteq heap'
  BY DEF Push, Token
<1>3. Len(made') = Len(made) + 1
  BY <1>1, <1>2
<1> QED
  BY <1>2, <1>3 DEF Pooled

LEMMA CallsPool ==
  ASSUME TimerInv, Pooled, NEW x \in Txns, TimerCalls(x)  PROVE Pooled'
<1>1. CASE ScheduleMemory(x)
  <2>1. call[x].key \in Keys
    BY <1>1, CallFields DEF ScheduleMemory, InMemory, TimerInv
  <2>2. Push(call[x].key) /\ UNCHANGED <<elapsed, pool, holder>>
    BY <1>1 DEF ScheduleMemory
  <2> QED
    BY <2>1, <2>2, PushedPool DEF Pooled
<1>2. CASE ~ScheduleMemory(x)
  BY <1>2, SamePool DEF TimerCalls, Begins, CancelMemory, RowStatement, CommitTxn, RollbackTxn,
                        Closes
<1> QED
  BY <1>1, <1>2

\* The progress of one callback, which does not hold the lock.
LEMMA ProgressPool ==
  ASSUME Pooled, NEW t, t \in DOMAIN pool, NEW what \in Progress, Goes(t, what),
         what = "clearing" \/ holder # t
  PROVE  /\ DOMAIN pool' = DOMAIN pool /\ \A s \in DOMAIN pool' : pool'[s] \in Progress
         /\ pool'[t] = what /\ \A s \in DOMAIN pool : s # t => pool'[s] = pool[s]
BY DEF Pooled, Goes

LEMMA FinishedPool ==
  ASSUME Pooled, NEW t, Finishes(t)
  PROVE  /\ DOMAIN pool' = DOMAIN pool \ {t}
         /\ \A s \in DOMAIN pool' : pool'[s] = pool[s] /\ pool'[s] \in Progress
BY DEF Pooled, Finishes

LEMMA ThreadsPool ==
  ASSUME TimerInv, Pooled, NEW t \in Issued, TimerThreads(t)  PROVE Pooled'
<1>1. CASE Elapse(t) \/ DropRecord(t)
  BY <1>1 DEF Elapse, DropRecord, Pooled
<1>2. CASE Fire(t)
  <2>1. /\ heap' = heap \ {t} /\ elapsed' = elapsed \ {t} /\ holder' = holder /\ made' = made
        /\ pool' = [s \in DOMAIN pool \cup {t} |-> IF s \in DOMAIN pool THEN pool[s] ELSE "running"]
    BY <1>2 DEF Fire, Current
  <2>2. /\ DOMAIN pool' = DOMAIN pool \cup {t}
        /\ \A s \in DOMAIN pool : pool'[s] = pool[s]
        /\ \A s \in DOMAIN pool' : s \in DOMAIN pool \/ pool'[s] = "running"
    BY <2>1
  <2>3. \A s \in DOMAIN pool' : pool'[s] \in Progress
    BY <2>2 DEF Pooled, Progress
  <2> QED
    BY <2>1, <2>2, <2>3 DEF Pooled
<1>3. CASE Callback(t)
  <2>1. /\ t \in DOMAIN pool /\ pool[t] = "running" /\ holder' = holder /\ made' = made
        /\ heap' = heap /\ elapsed' = elapsed
        /\ \E what \in {"returned", "raised"} : Goes(t, what)
    BY <1>3 DEF Callback, In
  <2>2. holder # 0 => holder # t
    BY <2>1 DEF Pooled
  <2>3. PICK what \in {"returned", "raised"} : Goes(t, what)
    BY <2>1
  <2>4. what \in Progress /\ t # 0
    BY IssuedTokens DEF Progress, TimerInv
  <2>5. /\ DOMAIN pool' = DOMAIN pool /\ \A s \in DOMAIN pool' : pool'[s] \in Progress
        /\ \A s \in DOMAIN pool : s # t => pool'[s] = pool[s]
    BY <2>1, <2>2, <2>3, <2>4, ProgressPool
  <2> QED
    BY <2>1, <2>2, <2>5 DEF Pooled
<1>4. CASE Retry(t)
  <2>1. /\ t \in DOMAIN pool /\ pool[t] = "raised" /\ holder = 0 /\ holder' = holder
        /\ Push(made[t]) /\ Goes(t, "retrying") /\ elapsed' = elapsed
    BY <1>4 DEF Retry, In, LockFree
  <2>2. made[t] \in Keys /\ t # 0 /\ "retrying" \in Progress
    BY IssuedTokens DEF Progress, TimerInv
  <2>3. \A s \in DOMAIN pool' : pool'[s] \in Progress
    BY <2>1, <2>2, ProgressPool
  <2> QED
    BY <2>1, <2>2, <2>3, PushedPool DEF Pooled
<1>5. CASE PersistRetry(t)
  <2>1. /\ t \in DOMAIN pool /\ pool[t] = "retrying" /\ Finishes(t)
        /\ UNCHANGED <<made, heap, elapsed, holder>>
    BY <1>5 DEF PersistRetry, In
  <2>2. holder # 0 => holder # t
    BY <2>1 DEF Pooled
  <2> QED
    BY <2>1, <2>2, FinishedPool DEF Pooled
<1>6. CASE ClearBegins(t)
  <2>1. /\ t \in DOMAIN pool /\ pool[t] = "returned" /\ holder = 0
        /\ UNCHANGED <<made, heap, elapsed>>
        /\ \/ Finishes(t) /\ holder' = holder
           \/ Goes(t, "clearing") /\ holder' = t
    BY <1>6 DEF ClearBegins, In, LockFree
  <2>2. CASE Finishes(t) /\ holder' = holder
    BY <2>1, <2>2, FinishedPool DEF Pooled
  <2>3. CASE Goes(t, "clearing") /\ holder' = t
    <3>1. "clearing" \in Progress
      BY DEF Progress
    <3>2. /\ DOMAIN pool' = DOMAIN pool /\ \A s \in DOMAIN pool' : pool'[s] \in Progress
          /\ pool'[t] = "clearing"
      BY <2>1, <2>3, <3>1, ProgressPool
    <3> QED
      BY <2>1, <2>3, <3>2 DEF Pooled
  <2> QED
    BY <2>1, <2>2, <2>3
<1>7. CASE ClearRow(t)
  <2>1. Finishes(t) /\ holder' = 0 /\ UNCHANGED <<made, heap, elapsed>>
    BY <1>7 DEF ClearRow
  <2> QED
    BY <2>1, FinishedPool DEF Pooled
<1> QED
  BY <1>1, <1>2, <1>3, <1>4, <1>5, <1>6, <1>7 DEF TimerThreads

LEMMA RestoredPool ==
  ASSUME TimerInv, Pooled, RestoreTimers  PROVE Pooled'
<1>1. rows \in SUBSET Keys /\ made \in Seq(Keys) /\ Cardinality(rows) \in Nat
  BY KeysAssumption, FS_Subset, FS_CardinalityType DEF TimerInv, Shaped
<1>2. PICK order \in [1..Cardinality(rows) -> rows] :
        /\ made' = made \o order /\ Len(made) + Cardinality(rows) <= MaxToken
        /\ elapsed' = {} /\ pool' = << >> /\ holder' = 0
  BY DEF RestoreTimers
<1> DEFINE n == Cardinality(rows)
<1>3. order \in [1..n -> rows] /\ n \in Nat
  BY <1>1
<1> HIDE DEF n
<1>4. Len(made \o order) = Len(made) + n
  BY <1>1, <1>3, Arranged
<1>5. Len(made') <= MaxToken
  BY <1>2, <1>4 DEF n
<1>6. DOMAIN pool' = {}
  BY <1>2
<1> QED
  BY <1>2, <1>5, <1>6 DEF Pooled

LEMMA PoolInvariant == TimersSpec => []Pooled
<1>1. TimersInit => Pooled
  <2> SUFFICES ASSUME TimersInit  PROVE Pooled
    OBVIOUS
  <2>1. Len(made) = 0 /\ DOMAIN pool = {}
    BY DEF TimersInit
  <2> QED
    BY <2>1, MaxTokenAssumption DEF TimersInit, Pooled
<1>2. TimerInv /\ Pooled /\ [TimersNext]_timerVars => Pooled'
  BY SamePool, CallsPool, ThreadsPool, RestoredPool DEF TimersNext, timerVars
<1> QED
  BY <1>1, <1>2, TimersInvariant, PTL DEF TimersSpec

\* Every variable of the scheduler keeps its type: a token is one that was given out,
\* and the lock of bot/timers.py's _condition is held by a callback that is in the pool,
\* or by nobody (TimersTypeOK).
THEOREM TimerTypes == TimersSpec => []TimersTypeOK
<1>1. TimerInv /\ Pooled => TimersTypeOK
  <2> SUFFICES ASSUME TimerInv, Pooled  PROVE TimersTypeOK
    OBVIOUS
  <2>1. entries \in [Keys -> {0} \cup Issued] /\ fresh \in [Txns -> SUBSET Issued]
    BY DEF TimerInv, Shaped, Tokened
  <2> QED
    BY <2>1 DEF TimerInv, Shaped, Tokened, Pooled, TimersTypeOK
<1> QED
  BY <1>1, TimersInvariant, PoolInvariant, PTL
=============================================================================
