------------------------- MODULE SleepTimer_proofs --------------------------
(***************************************************************************)
(* Proofs about SleepTimer, for every set of poll timers, every choice of  *)
(* the delays and every value of the bounds.                               *)
(***************************************************************************)
EXTENDS SleepTimer, ListLemmas

(* The property QueueSorted of the list in the terms of ListLemmas.        *)
LEMMA QueueSortedIsSortedBy == QueueSorted <=> SortedBy(queue, timeout, id)
BY DEF QueueSorted, SortedBy

(***************************************************************************)
(* sleeptimer_enqueue() keeps the list sorted when t gets a new deadline   *)
(* and an id above those of the queued timers.                             *)
(***************************************************************************)
LEMMA InsertedSorted ==
  ASSUME NEW S, NEW q \in Seq(S), NEW t \in S,
         NEW dl \in [S -> Nat], NEW n \in [S -> Nat],
         NEW d \in Nat, NEW c \in Nat,
         SortedBy(q, dl, n),
         \A u \in ToSet(q) : n[u] < c
  PROVE  /\ Inserted(q, [dl EXCEPT ![t] = d], t) \in Seq(S)
         /\ ToSet(Inserted(q, [dl EXCEPT ![t] = d], t)) = ToSet(q) \cup {t}
         /\ SortedBy(Inserted(q, [dl EXCEPT ![t] = d], t),
                     [dl EXCEPT ![t] = d], [n EXCEPT ![t] = c])
<1> DEFINE ndl == [dl EXCEPT ![t] = d]
           nn == [n EXCEPT ![t] = c]
           rest == RemoveFirst(q, t)
           keys == [i \in 1..Len(rest) |-> ndl[rest[i]]]
           I == {i \in 1..Len(rest) : keys[i] > d}
           k == IF I = {} THEN Len(rest) + 1 ELSE Min(I)
<1>1. /\ rest \in Seq(S)
      /\ ToSet(rest) = ToSet(q) \ {t}
      /\ KeepsOrder(rest, q)
  BY SortedDistinct, RemoveFirstElements
<1>2. SortedBy(rest, dl, n)
  BY <1>1, KeepsOrderKeepsSorted
<1>3. Len(rest) \in Nat /\ DOMAIN rest = 1..Len(rest)
  BY <1>1, LenProperties
<1>4. ndl \in [S -> Nat] /\ nn \in [S -> Nat] /\ ndl[t] = d /\ nn[t] = c
  OBVIOUS
<1>5. Inserted(q, ndl, t) = InsertAt(rest, k, t)
  <2>1. I = {i \in 1..Len(rest) : ndl[rest[i]] > ndl[t]}
    BY <1>4
  <2> QED BY <2>1 DEF Inserted
<1> HIDE DEF rest
<1>0. \A u \in S \ {t} : ndl[u] = dl[u] /\ nn[u] = n[u]
  OBVIOUS
<1> HIDE DEF ndl, nn
<1>6. ASSUME NEW i \in 1..Len(rest)
      PROVE  /\ rest[i] \in S /\ rest[i] # t
             /\ ndl[rest[i]] = dl[rest[i]] /\ nn[rest[i]] = n[rest[i]]
             /\ nn[rest[i]] < c
  <2>1. rest[i] \in ToSet(rest)
    BY <1>3 DEF ToSet
  <2>2. rest[i] \in S
    BY <1>1, ElementOfSeq
  <2> QED BY <1>0, <1>1, <2>1, <2>2
<1>7. SortedBy(rest, ndl, nn)
  <2> SUFFICES ASSUME NEW i \in 1..Len(rest), NEW j \in 1..Len(rest), i < j
               PROVE  \/ ndl[rest[i]] < ndl[rest[j]]
                      \/ /\ ndl[rest[i]] = ndl[rest[j]]
                         /\ nn[rest[i]] < nn[rest[j]]
    BY DEF SortedBy
  <2>1. \/ dl[rest[i]] < dl[rest[j]]
        \/ dl[rest[i]] = dl[rest[j]] /\ n[rest[i]] < n[rest[j]]
    BY <1>2 DEF SortedBy
  <2> QED BY <1>6, <2>1
<1>8. /\ k \in 1..Len(rest) + 1
      /\ \A i \in 1..Len(rest) : i < k => keys[i] <= d
      /\ \A i \in 1..Len(rest) : i >= k => d < keys[i]
  <2>1. keys \in [1..Len(rest) -> Nat]
    BY <1>4, <1>6
  <2>2. \A i, j \in 1..Len(rest) : i < j => keys[i] <= keys[j]
    <3> SUFFICES ASSUME NEW i \in 1..Len(rest), NEW j \in 1..Len(rest), i < j
                 PROVE  ndl[rest[i]] <= ndl[rest[j]]
      OBVIOUS
    <3>1. ndl[rest[i]] < ndl[rest[j]] \/ ndl[rest[i]] = ndl[rest[j]]
      BY <1>7 DEF SortedBy
    <3> QED BY <1>4, <1>6, <3>1
  <2> HIDE DEF keys
  <2> QED BY <1>3, <2>1, <2>2, FirstGreater
<1>9. \A i \in 1..Len(rest) : keys[i] = ndl[rest[i]]
  OBVIOUS
<1> HIDE DEF keys, I, k
<1>10. \A i \in 1..Len(rest) :
         i < k => ndl[rest[i]] <= ndl[t] /\ nn[rest[i]] < nn[t]
  BY <1>4, <1>6, <1>8, <1>9
<1>11. \A i \in 1..Len(rest) : i >= k => ndl[t] < ndl[rest[i]]
  BY <1>4, <1>8, <1>9
<1>12. SortedBy(InsertAt(rest, k, t), ndl, nn)
  BY <1>1, <1>4, <1>7, <1>8, <1>10, <1>11, InsertAtSorted
<1>13. ToSet(InsertAt(rest, k, t)) = ToSet(rest) \cup {t}
  BY <1>1, <1>8, InsertAtToSet
<1>14. InsertAt(rest, k, t) \in Seq(S)
  BY <1>1, <1>8, InsertAtElements
<1>15. ToSet(InsertAt(rest, k, t)) = ToSet(q) \cup {t}
  BY <1>1, <1>13
<1> QED BY <1>5, <1>12, <1>14, <1>15 DEF ndl, nn

(***************************************************************************)
(* What arming and dequeueing a timer do to a good list.                   *)
(***************************************************************************)
LEMMA ArmEffect ==
  ASSUME TypeOK, QueueSorted, IdsFresh,
         NEW t \in Timers, NEW delay \in Nat, Arm(t, delay)
  PROVE  /\ timeout' = [timeout EXCEPT ![t] = now + delay]
         /\ id' = [id EXCEPT ![t] = id_counter]
         /\ id_counter' = id_counter + 1
         /\ timeout' \in [Timers -> Nat]
         /\ id' \in [Timers -> Nat]
         /\ id_counter' \in Nat
         /\ queue' \in Seq(Timers)
         /\ ToSet(queue') = ToSet(queue) \cup {t}
         /\ QueueSorted'
<1>1. /\ timeout' = [timeout EXCEPT ![t] = now + delay]
      /\ id' = [id EXCEPT ![t] = id_counter]
      /\ id_counter' = id_counter + 1
      /\ queue' = Inserted(queue, timeout', t)
  BY DEF Arm
<1>2. \A u \in ToSet(queue) : id[u] < id_counter
  <2>1. ToSet(queue) \subseteq Timers
    BY ElementOfSeq, LenProperties DEF TypeOK, ToSet
  <2> QED BY <2>1 DEF IdsFresh, Queued
<1>3. SortedBy(queue, timeout, id)
  BY QueueSortedIsSortedBy
<1>4. now + delay \in Nat
  BY DEF TypeOK
<1>5. /\ Inserted(queue, timeout', t) \in Seq(Timers)
      /\ ToSet(Inserted(queue, timeout', t)) = ToSet(queue) \cup {t}
      /\ SortedBy(Inserted(queue, timeout', t), timeout', id')
  <2>1. /\ timeout \in [Timers -> Nat] /\ id \in [Timers -> Nat]
        /\ queue \in Seq(Timers) /\ id_counter \in Nat
    BY DEF TypeOK
  <2>2. /\ Inserted(queue, [timeout EXCEPT ![t] = now + delay], t)
             \in Seq(Timers)
        /\ ToSet(Inserted(queue, [timeout EXCEPT ![t] = now + delay], t))
             = ToSet(queue) \cup {t}
        /\ SortedBy(Inserted(queue, [timeout EXCEPT ![t] = now + delay], t),
                    [timeout EXCEPT ![t] = now + delay],
                    [id EXCEPT ![t] = id_counter])
    BY <1>2, <1>3, <1>4, <2>1, InsertedSorted
  <2> QED BY <1>1, <2>2
<1>6. QueueSorted'
  <2>1. SortedBy(queue', timeout', id')
    BY <1>1, <1>5
  <2> QED BY <2>1 DEF QueueSorted, SortedBy
<1>7. /\ timeout' \in [Timers -> Nat] /\ id' \in [Timers -> Nat]
      /\ id_counter' \in Nat
  BY <1>1, <1>4 DEF TypeOK
<1> QED BY <1>1, <1>5, <1>6, <1>7

(* sleeptimer_dequeue(): the other timers stay, in their order.            *)
LEMMA DequeueEffect ==
  ASSUME TypeOK, QueueSorted, NEW t \in Timers, Dequeue(t)
  PROVE  /\ UNCHANGED <<timeout, id, id_counter>>
         /\ queue' \in Seq(Timers)
         /\ ToSet(queue') = ToSet(queue) \ {t}
         /\ QueueSorted'
<1>1. queue' = RemoveFirst(queue, t) /\ UNCHANGED <<timeout, id, id_counter>>
  BY DEF Dequeue
<1>2. SortedBy(queue, timeout, id)
  BY QueueSortedIsSortedBy
<1>3. \A i, j \in 1..Len(queue) : i < j => queue[i] # queue[j]
  BY <1>2, SortedDistinct DEF TypeOK
<1>4. /\ queue' \in Seq(Timers)
      /\ ToSet(queue') = ToSet(queue) \ {t}
      /\ KeepsOrder(queue', queue)
  BY <1>1, <1>3, RemoveFirstElements DEF TypeOK
<1>5. SortedBy(queue', timeout, id)
  BY <1>2, <1>4, KeepsOrderKeepsSorted
<1>6. QueueSorted'
  BY <1>1, <1>5 DEF QueueSorted, SortedBy
<1> QED BY <1>1, <1>4, <1>6

(* The head of a good list is queued and has the earliest deadline.        *)
LEMMA HeadEarliest ==
  ASSUME TypeOK, QueueSorted, queue # <<>>
  PROVE  /\ Head(queue) \in Timers
         /\ Queued(Head(queue))
         /\ \A t \in Timers : Queued(t) => timeout[Head(queue)] <= timeout[t]
<1>1. Len(queue) \in Nat \ {0} /\ DOMAIN queue = 1..Len(queue)
  BY EmptySeq, LenProperties DEF TypeOK
<1>2. Head(queue) = queue[1] /\ 1 \in 1..Len(queue)
  BY <1>1 DEF TypeOK
<1>3. Head(queue) \in Timers /\ Queued(Head(queue))
  BY <1>1, <1>2, ElementOfSeq DEF TypeOK, Queued, ToSet
<1>4. ASSUME NEW t \in Timers, Queued(t)
      PROVE  timeout[Head(queue)] <= timeout[t]
  <2>1. PICK i \in 1..Len(queue) : t = queue[i]
    BY <1>1, <1>4 DEF Queued, ToSet
  <2>2. timeout[t] \in Nat /\ timeout[Head(queue)] \in Nat
    BY <1>3 DEF TypeOK
  <2>3. CASE i = 1
    BY <1>2, <2>1, <2>2, <2>3
  <2>4. CASE i # 1
    <3>1. 1 < i
      BY <1>1, <2>4
    <3>2. \/ timeout[Head(queue)] < timeout[t]
          \/ timeout[Head(queue)] = timeout[t]
      BY <1>2, <2>1, <3>1 DEF QueueSorted
    <3> QED BY <2>2, <3>2
  <2> QED BY <2>3, <2>4
<1> QED BY <1>3, <1>4

(***************************************************************************)
(* The inductive invariant.  A step either leaves the list alone, arms one *)
(* timer or dequeues one.                                                  *)
(***************************************************************************)
USE TimersAssumption, DelayAssumption, BoundAssumption

(* The program starts with an empty list and no timer to sleep for.        *)
LEMMA InitIInv == Init => IInv
<1> SUFFICES ASSUME Init PROVE IInv
  OBVIOUS
<1>1. queue = <<>> /\ ToSet(queue) = {} /\ Len(queue) = 0
  BY DEF Init, ToSet
<1>2. TypeOK
  BY <1>1, EmptySeq DEF Init, TypeOK, Timers
<1>3. QueueSorted
  BY <1>1 DEF QueueSorted
<1> QED BY <1>1, <1>2, <1>3 DEF Init, IInv, NoDanglingTimer, IdsFresh,
           SnapshotValid, Deadlines, BoundedLateness, Queued

(* A step that arms t within MaxDelay, not while the program is sleeping   *)
(* for it: what a handler or a driver probe does.                          *)
LEMMA ArmStep ==
  ASSUME IInv, NEW t \in Timers, NEW delay \in 0..MaxDelay, Arm(t, delay),
         pc # "exited",
         UNCHANGED <<now, wake, timer_id>>,
         pc' = pc \/ pc' = "next",
         alive' \in SUBSET Timers, alive \subseteq alive', t \in alive'
  PROVE  IInv'
<1> DEFINE d == now + delay
<1>1. TypeOK /\ QueueSorted /\ IdsFresh /\ delay \in Nat /\ MaxDelay \in Nat
  BY DEF IInv
<1>2. /\ timeout' = [timeout EXCEPT ![t] = d]
      /\ id' = [id EXCEPT ![t] = id_counter]
      /\ id_counter' = id_counter + 1
      /\ timeout' \in [Timers -> Nat]
      /\ id' \in [Timers -> Nat]
      /\ id_counter' \in Nat
      /\ queue' \in Seq(Timers)
      /\ ToSet(queue') = ToSet(queue) \cup {t}
      /\ QueueSorted'
  BY <1>1, ArmEffect
<1>3. TypeOK'
  BY <1>1, <1>2 DEF TypeOK
<1>4. \A u \in Timers : Queued(u)' <=> Queued(u) \/ u = t
  BY <1>2 DEF Queued
<1>5. /\ timeout'[t] = d /\ id'[t] = id_counter
      /\ \A u \in Timers \ {t} : timeout'[u] = timeout[u] /\ id'[u] = id[u]
      /\ d \in Nat /\ now <= d /\ d <= now + MaxDelay /\ now' = now
  BY <1>1, <1>2 DEF TypeOK
<1>6. /\ \A u \in Timers : timeout[u] \in Nat /\ id[u] \in Nat
      /\ now \in Nat /\ wake \in Nat /\ id_counter \in Nat
      /\ timer_id \in Nat /\ Slack \in Nat /\ MaxDelay \in Nat
  BY <1>1 DEF TypeOK
<1> HIDE DEF d
<1>7. NoDanglingTimer'
  BY <1>2 DEF IInv, NoDanglingTimer
<1>8. IdsFresh'
  <2>1. \A u \in Timers : Queued(u) => id[u] < id_counter
    BY <1>1 DEF IdsFresh
  <2>2. ASSUME NEW u \in Timers, NEW v \in Timers,
               Queued(u)', Queued(v)', id'[u] = id'[v]
        PROVE  u = v
    <3>1. CASE u # t /\ v # t
      BY <1>1, <1>4, <1>5, <2>2, <3>1 DEF IdsFresh
    <3>2. CASE u = t \/ v = t
      BY <1>4, <1>5, <1>6, <2>1, <2>2, <3>2
    <3> QED BY <3>1, <3>2
  <2>3. \A u \in Timers : Queued(u)' => id'[u] < id_counter'
    BY <1>2, <1>4, <1>5, <1>6, <2>1
  <2>4. pc' \in {"sleep", "wake"} => timer_id' < id_counter'
    BY <1>1, <1>2, <1>6 DEF IdsFresh
  <2> QED BY <2>2, <2>3, <2>4 DEF IdsFresh
<1>9. SnapshotValid'
  <2> SUFFICES ASSUME pc \in {"sleep", "wake"}, NEW u \in Timers,
                      Queued(u)', id'[u] = timer_id
               PROVE  timeout'[u] = wake
    BY DEF SnapshotValid
  <2>1. u # t
    BY <1>1, <1>5, <1>6 DEF IdsFresh
  <2> QED BY <1>4, <1>5, <2>1 DEF IInv, SnapshotValid
<1>10. Deadlines'
  <2>1. pc' = "wake" => wake' <= now'
    BY DEF IInv, Deadlines
  <2>2. ASSUME NEW u \in Timers, Queued(u)'
        PROVE  timeout'[u] <= now' + MaxDelay
    BY <1>4, <1>5, <2>2 DEF IInv, Deadlines
  <2>3. ASSUME pc' \in {"sleep", "nap"}
        PROVE  /\ wake' <= now' + MaxDelay
               /\ \A u \in Timers :
                    Queued(u)' => wake' <= timeout'[u] + MaxDelay
    <3>1. /\ wake <= now + MaxDelay
          /\ \A u \in Timers : Queued(u) => wake <= timeout[u] + MaxDelay
      BY <2>3 DEF IInv, Deadlines
    <3>2. wake <= d + MaxDelay
      BY <1>5, <1>6, <3>1
    <3> QED BY <1>4, <1>5, <3>1, <3>2
  <2> QED BY <2>1, <2>2, <2>3 DEF Deadlines
<1>11. BoundedLateness'
  <2> SUFFICES ASSUME NEW u \in Timers, Queued(u)'
               PROVE  now <= timeout'[u] + MaxDelay + Slack
    BY DEF BoundedLateness
  <2>1. CASE u = t
    BY <1>5, <1>6, <2>1
  <2>2. CASE u # t
    BY <1>4, <1>5, <2>2 DEF IInv, BoundedLateness
  <2> QED BY <2>1, <2>2
<1> QED BY <1>2, <1>3, <1>7, <1>8, <1>9, <1>10, <1>11 DEF IInv

(* A step that dequeues t and perhaps frees timers: a handler that stops   *)
(* the auto-dimmer, its last callback, and the end of the program.         *)
LEMMA DequeueStep ==
  ASSUME IInv, NEW t \in Timers, Dequeue(t), pc # "exited",
         UNCHANGED <<now, wake, timer_id>>,
         pc' \in {pc, "next", "exited"},
         alive' \in SUBSET Timers, pc' = "exited" \/ alive \ {t} \subseteq alive'
  PROVE  IInv'
<1>1. /\ UNCHANGED <<timeout, id, id_counter>>
      /\ queue' \in Seq(Timers)
      /\ ToSet(queue') = ToSet(queue) \ {t}
      /\ QueueSorted'
  BY DequeueEffect DEF IInv
<1>2. \A u \in Timers : Queued(u)' => Queued(u)
  BY <1>1 DEF Queued
<1>3. TypeOK'
  BY <1>1 DEF IInv, TypeOK
<1>4. NoDanglingTimer'
  <2>1. CASE pc' = "exited"
    BY <2>1 DEF NoDanglingTimer
  <2>2. CASE pc' # "exited"
    BY <1>1, <2>2 DEF IInv, NoDanglingTimer
  <2> QED BY <2>1, <2>2
<1>5. IdsFresh'
  BY <1>1, <1>2 DEF IInv, IdsFresh
<1>6. SnapshotValid'
  BY <1>1, <1>2 DEF IInv, SnapshotValid
<1>7. Deadlines'
  BY <1>1, <1>2 DEF IInv, Deadlines
<1>8. BoundedLateness'
  BY <1>1, <1>2 DEF IInv, BoundedLateness
<1> QED BY <1>1, <1>3, <1>4, <1>5, <1>6, <1>7, <1>8 DEF IInv

(* A step that leaves the timers alone: the main loop's own.               *)
LEMMA MainStep ==
  ASSUME IInv, UNCHANGED <<now, alive, timerVars>>,
         \/ TakeNext \/ Nap \/ NapEnds \/ SleepEnds \/ NotFound
         \/ InstallHandlers
  PROVE  IInv'
<1>1. \A u \in Timers : Queued(u)' <=> Queued(u)
  BY DEF Queued, timerVars
<1>2. /\ UNCHANGED <<now, alive, timeout, id, queue, id_counter>>
      /\ pc # "exited" /\ pc' # "exited"
      /\ now \in Nat /\ wake \in Nat /\ timer_id \in Nat
      /\ \A u \in Timers : timeout[u] \in Nat /\ id[u] \in Nat
  BY DEF IInv, TypeOK, timerVars, TakeNext, Nap, NapEnds, SleepEnds, NotFound,
         InstallHandlers
<1>3. QueueSorted' /\ NoDanglingTimer' /\ BoundedLateness'
  BY <1>1, <1>2 DEF IInv, QueueSorted, NoDanglingTimer, BoundedLateness
<1>4. CASE TakeNext
  <2> DEFINE h == Head(queue)
  <2>1. /\ h \in Timers
        /\ Queued(h)
        /\ \A t \in Timers : Queued(t) => timeout[h] <= timeout[t]
    BY <1>4, HeadEarliest DEF IInv, TakeNext
  <2>2. wake' = timeout[h] /\ timer_id' = id[h] /\ pc' = "sleep"
    BY <1>4 DEF TakeNext
  <2> HIDE DEF h
  <2>3. TypeOK'
    BY <1>2, <2>1, <2>2 DEF IInv, TypeOK
  <2>4. IdsFresh' /\ SnapshotValid'
    BY <1>1, <1>2, <2>1, <2>2 DEF IInv, IdsFresh, SnapshotValid
  <2>5. wake' <= now' + MaxDelay
    BY <1>2, <2>1, <2>2 DEF IInv, Deadlines
  <2>6. ASSUME NEW t \in Timers, Queued(t)'
        PROVE  /\ timeout'[t] <= now' + MaxDelay
               /\ wake' <= timeout'[t] + MaxDelay
    <3>1. timeout[h] <= timeout[t] /\ timeout[t] <= now + MaxDelay
      BY <1>1, <1>2, <2>1, <2>6 DEF IInv, Deadlines
    <3> QED BY <1>2, <2>1, <2>2, <3>1
  <2>7. Deadlines'
    BY <2>2, <2>5, <2>6 DEF Deadlines
  <2> QED BY <1>3, <2>3, <2>4, <2>7 DEF IInv
<1>5. CASE Nap
  <2>1. wake' = now + NapTime /\ pc' = "nap" /\ timer_id' = timer_id
    BY <1>5 DEF Nap
  <2>2. \A t \in Timers : ~Queued(t)
    BY <1>5 DEF Nap, Queued, ToSet
  <2>3. wake' \in Nat /\ wake' <= now' + MaxDelay
    BY <1>2, <2>1
  <2>4. TypeOK'
    BY <1>2, <2>1, <2>3 DEF IInv, TypeOK
  <2> QED BY <1>1, <1>2, <1>3, <2>1, <2>2, <2>3, <2>4
          DEF IInv, IdsFresh, SnapshotValid, Deadlines
<1>6. CASE SleepEnds
  BY <1>1, <1>2, <1>3, <1>6
     DEF IInv, TypeOK, IdsFresh, SnapshotValid, Deadlines, SleepEnds
<1>7. CASE NapEnds \/ NotFound \/ InstallHandlers
  BY <1>1, <1>2, <1>3, <1>7
     DEF IInv, TypeOK, IdsFresh, SnapshotValid, Deadlines, NapEnds, NotFound,
         InstallHandlers
<1> QED BY <1>4, <1>5, <1>6, <1>7

(* Time passes only while the main loop sleeps for a deadline that it can  *)
(* still meet; this is what bounds the lateness.                           *)
LEMMA TickStep ==
  ASSUME IInv, Tick
  PROVE  IInv'
<1>1. /\ UNCHANGED <<alive, timeout, id, queue, id_counter, pc, wake, timer_id>>
      /\ now' = now + 1 /\ now < wake + Slack /\ pc \in {"sleep", "nap"}
  BY DEF Tick, timerVars, mainVars
<1>2. \A u \in Timers : Queued(u)' <=> Queued(u)
  BY <1>1 DEF Queued
<1>3. /\ now \in Nat /\ wake \in Nat /\ Slack \in Nat /\ MaxDelay \in Nat
      /\ \A u \in Timers : timeout[u] \in Nat
  BY DEF IInv, TypeOK
<1>4. ASSUME NEW u \in Timers, Queued(u)
      PROVE  /\ now + 1 <= timeout[u] + MaxDelay + Slack
             /\ timeout[u] <= (now + 1) + MaxDelay
  <2>1. wake <= timeout[u] + MaxDelay /\ timeout[u] <= now + MaxDelay
    BY <1>1, <1>4 DEF IInv, Deadlines
  <2> QED BY <1>1, <1>3, <2>1
<1>5. TypeOK'
  BY <1>1, <1>3 DEF IInv, TypeOK
<1>6. QueueSorted' /\ NoDanglingTimer' /\ IdsFresh' /\ SnapshotValid'
  BY <1>1, <1>2
     DEF IInv, QueueSorted, NoDanglingTimer, IdsFresh, SnapshotValid
<1>7. BoundedLateness'
  BY <1>1, <1>2, <1>4 DEF BoundedLateness
<1>8. Deadlines'
  <2>1. wake <= (now + 1) + MaxDelay
    BY <1>1, <1>3 DEF IInv, Deadlines
  <2>2. \A u \in Timers : Queued(u) => wake <= timeout[u] + MaxDelay
    BY <1>1 DEF IInv, Deadlines
  <2> QED BY <1>1, <1>2, <1>4, <2>1, <2>2 DEF Deadlines
<1> QED BY <1>5, <1>6, <1>7, <1>8 DEF IInv

(* Every step preserves the invariant.                                     *)
LEMMA NextIInv ==
  ASSUME IInv, [Next]_vars
  PROVE  IInv'
<1>1. /\ DimTimer \in Timers
      /\ \A t \in PollTimers : t \in Timers /\ PollInterval[t] \in 0..MaxDelay
      /\ \A delay \in DimDelays : delay \in 0..MaxDelay
      /\ alive \in SUBSET Timers
  BY DEF Timers, IInv, TypeOK
<1>2. ASSUME NEW t \in PollTimers, ProbeDriver(t)
      PROVE  IInv'
  <2>1. /\ t \in Timers /\ pc = "startup" /\ alive' = alive \cup {t}
        /\ UNCHANGED <<now, pc, wake, timer_id>>
    BY <1>1, <1>2 DEF ProbeDriver, mainVars
  <2>2. CASE Arm(t, PollInterval[t])
    BY <1>1, <2>1, <2>2, ArmStep
  <2>3. CASE UNCHANGED timerVars
    <3>1. \A u \in Timers : Queued(u)' <=> Queued(u)
      BY <2>3 DEF Queued, timerVars
    <3> QED BY <1>1, <2>1, <2>3, <3>1
            DEF IInv, TypeOK, QueueSorted, NoDanglingTimer, IdsFresh,
                SnapshotValid, Deadlines, BoundedLateness, timerVars
  <2> QED BY <1>2, <2>2, <2>3 DEF ProbeDriver
<1>3. CASE InstallHandlers
  BY <1>3, MainStep DEF InstallHandlers
<1>4. ASSUME NEW delay \in DimDelays, AutodimEnable(delay)
      PROVE  IInv'
  <2>1. /\ Arm(DimTimer, delay) /\ pc # "exited"
        /\ alive' = alive \cup {DimTimer} /\ UNCHANGED <<now, pc, wake, timer_id>>
    BY <1>4 DEF AutodimEnable, mainVars, HandlersMayRun
  <2> QED BY <1>1, <2>1, ArmStep
<1>5. ASSUME NEW delay \in DimDelays, AutodimRestart(delay)
      PROVE  IInv'
  <2>1. /\ Arm(DimTimer, delay) /\ pc # "exited" /\ DimTimer \in alive
        /\ UNCHANGED <<now, alive, pc, wake, timer_id>>
    BY <1>5 DEF AutodimRestart, mainVars, HandlersMayRun
  <2> QED BY <1>1, <2>1, ArmStep
<1>6. CASE AutodimSuspend
  <2>1. /\ Dequeue(DimTimer) /\ pc # "exited"
        /\ UNCHANGED <<now, alive, pc, wake, timer_id>>
    BY <1>6 DEF AutodimSuspend, mainVars, HandlersMayRun
  <2> QED BY <1>1, <2>1, DequeueStep
<1>7. CASE AutodimDisable
  <2>1. /\ Dequeue(DimTimer) /\ pc # "exited"
        /\ UNCHANGED <<now, pc, wake, timer_id>>
        /\ alive' = alive \ {DimTimer}
    BY <1>7 DEF AutodimDisable, mainVars, HandlersMayRun
  <2> QED BY <1>1, <2>1, DequeueStep
<1>8. CASE Terminate
  <2>1. /\ Dequeue(DimTimer) /\ pc # "exited"
        /\ UNCHANGED <<now, wake, timer_id>>
        /\ alive' = {} /\ pc' = "exited"
    BY <1>8 DEF Terminate
  <2> QED BY <1>1, <2>1, DequeueStep
<1>9. CASE TakeNext \/ Nap \/ NapEnds \/ SleepEnds \/ NotFound
  BY <1>9, MainStep DEF TakeNext, Nap, NapEnds, SleepEnds, NotFound
<1>10. ASSUME NEW t \in PollTimers, RunPoll(t)
       PROVE  IInv'
  <2>1. /\ Arm(t, PollInterval[t]) /\ pc # "exited" /\ pc' = "next"
        /\ UNCHANGED <<now, alive, wake, timer_id>> /\ t \in alive
    BY <1>10 DEF RunPoll, IInv, NoDanglingTimer, Queued
  <2> QED BY <1>1, <2>1, ArmStep
<1>11. CASE RunDim
  <2>1. /\ pc # "exited" /\ pc' = "next"
        /\ UNCHANGED <<now, alive, wake, timer_id>> /\ DimTimer \in alive
        /\ \/ \E delay \in DimDelays \ {0} : Arm(DimTimer, delay)
           \/ Dequeue(DimTimer)
    BY <1>11 DEF RunDim, IInv, NoDanglingTimer, Queued
  <2>2. CASE Dequeue(DimTimer)
    BY <1>1, <2>1, <2>2, DequeueStep
  <2>3. ASSUME NEW delay \in DimDelays \ {0}, Arm(DimTimer, delay)
        PROVE  IInv'
    BY <1>1, <2>1, <2>3, ArmStep
  <2> QED BY <2>1, <2>2, <2>3
<1>12. CASE Tick
  BY <1>12, TickStep
<1>13. CASE UNCHANGED vars
  <2>1. \A u \in Timers : Queued(u)' <=> Queued(u)
    BY <1>13 DEF Queued, vars, timerVars
  <2> QED BY <1>13, <2>1
          DEF IInv, TypeOK, QueueSorted, NoDanglingTimer, IdsFresh,
              SnapshotValid, Deadlines, BoundedLateness, vars, timerVars,
              mainVars
<1> QED BY <1>2, <1>3, <1>4, <1>5, <1>6, <1>7, <1>8, <1>9, <1>10, <1>11,
           <1>12, <1>13 DEF Next, Startup, Handler, MainLoop

(***************************************************************************)
(* The theorems.                                                           *)
(***************************************************************************)
(* The inductive invariant holds in every reachable state.                 *)
THEOREM InductiveInvariant == Spec => []IInv
<1>1. Init => IInv
  BY InitIInv
<1>2. IInv /\ [Next]_vars => IInv'
  BY NextIInv
<1> QED BY <1>1, <1>2, PTL DEF Spec

(* timer.c: every variable keeps its type.                                 *)
THEOREM TypeCorrect == Spec => []TypeOK
<1>1. IInv => TypeOK
  BY DEF IInv
<1> QED BY <1>1, InductiveInvariant, PTL

(* sleeptimer_enqueue(): the timer list is always sorted by deadline,      *)
(* first come first served, and links no timer twice.                      *)
THEOREM ListStaysSorted == Spec => []QueueSorted
<1>1. IInv => QueueSorted
  BY DEF IInv
<1> QED BY <1>1, InductiveInvariant, PTL

(* autodim_destroy() and the timer list: no handler, at whatever point it  *)
(* interrupts the main loop, leaves a freed timer in the list.             *)
THEOREM NoTimerDangles == Spec => []NoDanglingTimer
<1>1. IInv => NoDanglingTimer
  BY DEF IInv
<1> QED BY <1>1, InductiveInvariant, PTL

(* sleeptimer_wait_next(): although the sleep is not cut short for an      *)
(* earlier timer, no timer waits longer than one longest delay and the     *)
(* slack beyond its deadline.                                              *)
THEOREM LatenessIsBounded == Spec => []BoundedLateness
<1>1. IInv => BoundedLateness
  BY DEF IInv
<1> QED BY <1>1, InductiveInvariant, PTL

(* The timer that a step serves is the one with the copied id.             *)
LEMMA ServedTimer ==
  ASSUME IInv, [Next]_vars, NEW t \in Timers, Serves(t)
  PROVE  id[t] = timer_id /\ (RunDim \/ \E u \in PollTimers : RunPoll(u))
<1>1. pc = "wake" /\ pc' = "next" /\ Queued(t) /\ (~Queued(t)' \/ id'[t] # id[t])
  BY DEF Serves
<1>2. NotFound \/ RunDim \/ \E u \in PollTimers : RunPoll(u)
  BY <1>1 DEF Next, Startup, Handler, MainLoop, Tick, ProbeDriver, InstallHandlers,
     AutodimEnable, AutodimRestart, AutodimSuspend, AutodimDisable, Terminate,
     TakeNext, Nap, NapEnds, SleepEnds, vars, mainVars
<1>3. ~NotFound
  BY <1>1 DEF NotFound, timerVars, Queued
<1>4. TypeOK /\ QueueSorted /\ IdsFresh
  BY DEF IInv
<1>5. ASSUME NEW u \in Timers, NEW delay \in Nat, Arm(u, delay), u # t
      PROVE  FALSE
  <2>1. /\ id' = [id EXCEPT ![u] = id_counter]
        /\ ToSet(queue') = ToSet(queue) \cup {u}
    BY <1>4, <1>5, ArmEffect
  <2> QED BY <1>1, <1>4, <1>5, <2>1 DEF Queued, TypeOK
<1>6. CASE RunDim
  <2>1. ASSUME DimTimer # t
        PROVE  FALSE
    <3>1. DimTimer \in Timers /\ \A delay \in DimDelays : delay \in Nat
      BY DEF Timers
    <3>2. CASE Dequeue(DimTimer)
      <4>1. id' = id /\ ToSet(queue') = ToSet(queue) \ {DimTimer}
        BY <1>4, <3>1, <3>2, DequeueEffect
      <4> QED BY <1>1, <2>1, <4>1 DEF Queued
    <3> QED BY <1>5, <1>6, <2>1, <3>1, <3>2 DEF RunDim
  <2> QED BY <1>6, <2>1 DEF RunDim
<1>7. ASSUME NEW u \in PollTimers, RunPoll(u)
      PROVE  id[t] = timer_id
  <2>1. u \in Timers /\ PollInterval[u] \in Nat /\ Arm(u, PollInterval[u])
    BY <1>7 DEF Timers, RunPoll
  <2> QED BY <1>5, <1>7, <2>1 DEF RunPoll
<1> QED BY <1>2, <1>3, <1>6, <1>7

(* sleeptimer_wait_next(): no callback runs before its timer's deadline.   *)
THEOREM NeverServedEarly == Spec => NeverEarly
<1>1. IInv /\ [Next]_vars => [\A t \in Timers : Serves(t) => timeout[t] <= now]_vars
  <2> SUFFICES ASSUME IInv, [Next]_vars, NEW t \in Timers, Serves(t)
               PROVE  timeout[t] <= now
    OBVIOUS
  <2>1. id[t] = timer_id /\ pc = "wake" /\ Queued(t)
    BY ServedTimer DEF Serves
  <2>2. timeout[t] = wake
    BY <2>1 DEF IInv, SnapshotValid
  <2> QED BY <2>1, <2>2 DEF IInv, Deadlines
<1> QED BY <1>1, InductiveInvariant, PTL DEF Spec, NeverEarly

(***************************************************************************)
(* SleepTimer implements TimerService.                                     *)
(***************************************************************************)
(* Arming and dequeueing, seen through the refinement mapping.             *)
LEMMA ArmDeadline ==
  ASSUME IInv, NEW t \in Timers, NEW delay \in Nat, Arm(t, delay),
         pc # "exited", pc' # "exited"
  PROVE  /\ ServiceDeadline' = [ServiceDeadline EXCEPT ![t] = now + delay]
         /\ ServiceDeadline'[t] = now + delay
         /\ now + delay \in Nat /\ now + delay >= now
<1>1. TypeOK /\ QueueSorted /\ IdsFresh
  BY DEF IInv
<1>2. /\ timeout' = [timeout EXCEPT ![t] = now + delay]
      /\ ToSet(queue') = ToSet(queue) \cup {t}
  BY <1>1, ArmEffect
<1>3. \A u \in Timers :
        ServiceDeadline'[u] =
          IF u = t THEN now + delay ELSE ServiceDeadline[u]
  BY <1>1, <1>2 DEF ServiceDeadline, Queued, TypeOK
<1>4. now + delay \in Nat /\ now + delay >= now
  BY <1>1 DEF TypeOK
<1> QED BY <1>3, <1>4 DEF ServiceDeadline

(* Dequeueing takes exactly the deadline of t away.                        *)
LEMMA DequeueDeadline ==
  ASSUME IInv, NEW t \in Timers, Dequeue(t), pc # "exited", pc' # "exited"
  PROVE  /\ ServiceDeadline' = [ServiceDeadline EXCEPT ![t] = -1]
         /\ ServiceDeadline'[t] = -1
<1>1. TypeOK /\ QueueSorted
  BY DEF IInv
<1>2. timeout' = timeout /\ ToSet(queue') = ToSet(queue) \ {t}
  BY <1>1, DequeueEffect
<1>3. \A u \in Timers :
        ServiceDeadline'[u] = IF u = t THEN -1 ELSE ServiceDeadline[u]
  BY <1>2 DEF ServiceDeadline, Queued
<1> QED BY <1>3 DEF ServiceDeadline

(* Nothing is set at the start.                                            *)
LEMMA ServiceInit == Init => Service!Init
<1>1. ASSUME Init PROVE \A t \in Timers : ~Queued(t)
  BY <1>1 DEF Init, Queued, ToSet
<1> QED BY <1>1 DEF Init, Service!Init, Service!NoDeadline, ServiceDeadline

(* Every step of SleepTimer is a step of TimerService or changes nothing   *)
(* that TimerService sees.                                                 *)
LEMMA ServiceStep ==
  ASSUME IInv, IInv', [Next]_vars
  PROVE  [Service!Next]_(Service!vars)
<1>1. /\ DimTimer \in Timers /\ DimTimer \notin DOMAIN PollInterval
      /\ \A t \in PollTimers :
           t \in Timers /\ t \in DOMAIN PollInterval /\ PollInterval[t] \in Nat
      /\ \A delay \in DimDelays : delay \in Nat
  BY DEF Timers
<1>2. /\ now \in Nat /\ timeout \in [Timers -> Nat]
      /\ \A t \in Timers : Queued(t) /\ pc # "exited" => t \in alive
      /\ \A t \in Timers : ServiceDeadline[t] =
                              IF Queued(t) /\ pc # "exited" THEN timeout[t]
                              ELSE -1
  BY DEF IInv, TypeOK, NoDanglingTimer, Queued, ServiceDeadline
<1>3. ASSUME NEW t \in PollTimers, ProbeDriver(t)
      PROVE  [Service!Next]_(Service!vars)
  <2>1. /\ t \in Timers /\ t \notin alive /\ pc = "startup"
        /\ UNCHANGED <<now, pc>>
    BY <1>1, <1>3 DEF ProbeDriver, mainVars
  <2>2. CASE Arm(t, PollInterval[t])
    <3>1. /\ ServiceDeadline' =
               [ServiceDeadline EXCEPT ![t] = ServiceDeadline'[t]]
          /\ ServiceDeadline'[t] \in Nat /\ ServiceDeadline'[t] >= now
      BY <1>1, <2>1, <2>2, ArmDeadline
    <3>2. ServiceDeadline[t] = -1
      BY <1>2, <2>1
    <3> QED BY <2>1, <3>1, <3>2
            DEF Service!Next, Service!Set, Service!OnlyChanges,
                Service!NoDeadline
  <2>3. CASE UNCHANGED timerVars
    BY <2>1, <2>3 DEF timerVars, Service!vars, ServiceDeadline, Queued
  <2> QED BY <1>3, <2>2, <2>3 DEF ProbeDriver
<1>4. ASSUME NEW delay \in DimDelays,
             AutodimEnable(delay) \/ AutodimRestart(delay)
      PROVE  [Service!Next]_(Service!vars)
  <2>1. Arm(DimTimer, delay) /\ pc # "exited" /\ UNCHANGED <<now, pc>>
    BY <1>4 DEF AutodimEnable, AutodimRestart, HandlersMayRun, mainVars
  <2>2. /\ ServiceDeadline' =
             [ServiceDeadline EXCEPT ![DimTimer] = ServiceDeadline'[DimTimer]]
        /\ ServiceDeadline'[DimTimer] \in Nat
        /\ ServiceDeadline'[DimTimer] >= now
    BY <1>1, <2>1, ArmDeadline
  <2> QED BY <1>1, <2>1, <2>2
          DEF Service!Next, Service!Set, Service!OnlyChanges,
              Service!Periodic
<1>5. CASE AutodimSuspend \/ AutodimDisable
  <2>1. Dequeue(DimTimer) /\ pc # "exited" /\ UNCHANGED <<now, pc>>
    BY <1>5 DEF AutodimSuspend, AutodimDisable, HandlersMayRun, mainVars
  <2>2. ServiceDeadline' = [ServiceDeadline EXCEPT ![DimTimer] = -1]
    BY <1>1, <2>1, DequeueDeadline
  <2> QED BY <1>1, <2>1, <2>2
          DEF Service!Next, Service!Cancel, Service!Periodic,
              Service!NoDeadline
<1>6. CASE Terminate
  <2>1. ServiceDeadline' = [t \in Timers |-> -1]
    BY <1>6 DEF Terminate, ServiceDeadline
  <2> QED BY <1>6, <2>1
          DEF Terminate, Service!Next, Service!Stop, Service!NoDeadline
<1>7. CASE TakeNext \/ Nap \/ NapEnds \/ SleepEnds \/ NotFound
           \/ InstallHandlers
  <2>1. UNCHANGED <<now, timeout, queue>> /\ pc # "exited" /\ pc' # "exited"
    BY <1>7 DEF TakeNext, Nap, NapEnds, SleepEnds, NotFound, InstallHandlers,
       timerVars
  <2> QED BY <2>1 DEF Service!vars, ServiceDeadline, Queued
<1>8. ASSUME NEW t \in PollTimers, RunPoll(t)
      PROVE  [Service!Next]_(Service!vars)
  <2>1. /\ pc = "wake" /\ pc' = "next" /\ Queued(t) /\ id[t] = timer_id
        /\ Arm(t, PollInterval[t]) /\ UNCHANGED now
    BY <1>8 DEF RunPoll
  <2>2. timeout[t] <= now
    BY <1>1, <2>1 DEF IInv, SnapshotValid, Deadlines
  <2>3. ServiceDeadline[t] = timeout[t] /\ timeout[t] \in Nat
    BY <1>1, <1>2, <2>1
  <2>4. /\ ServiceDeadline' =
             [ServiceDeadline EXCEPT ![t] = ServiceDeadline'[t]]
        /\ ServiceDeadline'[t] = now + PollInterval[t]
    BY <1>1, <2>1, ArmDeadline
  <2> QED BY <1>1, <2>1, <2>2, <2>3, <2>4
          DEF Service!Next, Service!Expire, Service!OnlyChanges,
              Service!Periodic, Service!NoDeadline
<1>9. CASE RunDim
  <2>1. /\ pc = "wake" /\ pc' = "next" /\ Queued(DimTimer)
        /\ id[DimTimer] = timer_id /\ UNCHANGED now
    BY <1>9 DEF RunDim
  <2>2. timeout[DimTimer] <= now
    BY <1>1, <2>1 DEF IInv, SnapshotValid, Deadlines
  <2>3. /\ ServiceDeadline[DimTimer] = timeout[DimTimer]
        /\ timeout[DimTimer] \in Nat
    BY <1>1, <1>2, <2>1
  <2>4. /\ ServiceDeadline' =
             [ServiceDeadline EXCEPT ![DimTimer] = ServiceDeadline'[DimTimer]]
        /\ ServiceDeadline'[DimTimer] = -1 \/ ServiceDeadline'[DimTimer] > now
    <3>1. ASSUME NEW delay \in DimDelays \ {0}, Arm(DimTimer, delay)
          PROVE  /\ ServiceDeadline' = [ServiceDeadline EXCEPT
                      ![DimTimer] = ServiceDeadline'[DimTimer]]
                 /\ ServiceDeadline'[DimTimer] > now
      <4>1. /\ ServiceDeadline' =
                 [ServiceDeadline EXCEPT ![DimTimer] = now + delay]
            /\ ServiceDeadline'[DimTimer] = now + delay
        BY <1>1, <2>1, <3>1, ArmDeadline
      <4>2. now + delay > now
        BY <1>1, <1>2
      <4> QED BY <4>1, <4>2
    <3>2. CASE Dequeue(DimTimer)
      <4>1. /\ ServiceDeadline' = [ServiceDeadline EXCEPT ![DimTimer] = -1]
            /\ ServiceDeadline'[DimTimer] = -1
        BY <1>1, <2>1, <3>2, DequeueDeadline
      <4> QED BY <4>1
    <3> QED BY <1>9, <3>1, <3>2 DEF RunDim
  <2> QED BY <1>1, <2>1, <2>2, <2>3, <2>4
          DEF Service!Next, Service!Expire, Service!OnlyChanges,
              Service!Periodic, Service!NoDeadline
<1>10. CASE Tick
  <2>1. /\ now' = now + 1 /\ pc # "exited"
        /\ UNCHANGED <<timeout, queue, pc>>
    BY <1>10 DEF Tick, timerVars, mainVars
  <2>2. ServiceDeadline' = ServiceDeadline
    BY <2>1 DEF ServiceDeadline, Queued
  <2>3. ASSUME NEW t \in Timers, ServiceDeadline[t] # -1
        PROVE  now' <= ServiceDeadline[t] + (MaxDelay + Slack)
    <3>1. Queued(t) /\ ServiceDeadline[t] = timeout[t]
      BY <1>2, <2>3
    <3>2. Queued(t)' /\ timeout'[t] = timeout[t]
      BY <2>1, <3>1 DEF Queued
    <3>3. now' <= timeout'[t] + MaxDelay + Slack
      BY <2>1, <3>2 DEF IInv, BoundedLateness
    <3>4. timeout[t] \in Nat /\ MaxDelay \in Nat /\ Slack \in Nat
      BY <1>2
    <3> QED BY <3>1, <3>2, <3>3, <3>4
  <2> QED BY <2>1, <2>2, <2>3
          DEF Service!Next, Service!Pass, Service!NoDeadline
<1>11. CASE UNCHANGED vars
  BY <1>11 DEF vars, timerVars, mainVars, Service!vars, ServiceDeadline, Queued
<1> QED BY <1>3, <1>4, <1>5, <1>6, <1>7, <1>8, <1>9, <1>10, <1>11
        DEF Next, Startup, Handler, MainLoop

(* timer.c with its main loop implements the abstract timer service.       *)
THEOREM ImplementsService == Spec => ServiceSpec
<1>1. Init => Service!Init
  BY ServiceInit
<1>2. IInv /\ IInv' /\ [Next]_vars => [Service!Next]_(Service!vars)
  BY ServiceStep
<1> QED BY <1>1, <1>2, InductiveInvariant, PTL
        DEF Spec, ServiceSpec, Service!Spec

=============================================================================
