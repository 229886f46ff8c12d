---------------------------- MODULE TimerService ----------------------------
(***************************************************************************)
(* What the sleep timers promise to their users (backend/timer.h): every   *)
(* timer has at most one deadline.  A poll timer, once started, expires    *)
(* for ever, one period after its last expiry or at most MaxLateness       *)
(* later, and nobody else touches it.  The other timers can be set and     *)
(* cancelled at any time, and expire as punctually.  SleepTimer implements *)
(* this.                                                                   *)
(***************************************************************************)
EXTENDS Integers

CONSTANTS Timers, Period, MaxLateness

NoDeadline == -1

VARIABLES now, deadline, running

vars == <<now, deadline, running>>

Periodic(t) == t \in DOMAIN Period

(* The step changes the deadline of t only.                                *)
OnlyChanges(t) == deadline' = [deadline EXCEPT ![t] = deadline'[t]]

Init ==
  /\ now = 0
  /\ deadline = [t \in Timers |-> NoDeadline]
  /\ running = TRUE

(* sleeptimer_set_timeout_relative() and sleeptimer_enqueue()              *)
Set(t) ==
  /\ running
  /\ Periodic(t) => deadline[t] = NoDeadline
  /\ deadline'[t] \in Nat /\ deadline'[t] >= now
  /\ OnlyChanges(t)
  /\ UNCHANGED <<now, running>>

(* sleeptimer_dequeue()                                                    *)
Cancel(t) ==
  /\ running
  /\ ~Periodic(t)
  /\ deadline' = [deadline EXCEPT ![t] = NoDeadline]
  /\ UNCHANGED <<now, running>>

(* The callback runs; it may set a new deadline.                           *)
Expire(t) ==
  /\ running
  /\ deadline[t] # NoDeadline
  /\ deadline[t] <= now
  /\ IF Periodic(t)
       THEN deadline'[t] = now + Period[t]
       ELSE deadline'[t] = NoDeadline \/ deadline'[t] > now
  /\ OnlyChanges(t)
  /\ UNCHANGED <<now, running>>

(* Time does not leave an expired timer behind.                            *)
Pass ==
  /\ now' = now + 1
  /\ \A t \in Timers :
       deadline[t] # NoDeadline => now' <= deadline[t] + MaxLateness
  /\ UNCHANGED <<deadline, running>>

(* The program ends; nothing expires any more.                             *)
Stop ==
  /\ running /\ ~running'
  /\ deadline' = [t \in Timers |-> NoDeadline]
  /\ UNCHANGED now

Next ==
  \/ \E t \in Timers : Set(t) \/ Cancel(t) \/ Expire(t)
  \/ Pass
  \/ Stop

Spec == Init /\ [][Next]_vars
=============================================================================
