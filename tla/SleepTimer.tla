----------------------------- MODULE SleepTimer -----------------------------
(***************************************************************************)
(* The sleep timer service of pwrtray-backend (backend/timer.c) and the    *)
(* main loop that serves it (backend/main.c).                              *)
(*                                                                         *)
(* The daemon has one thread.  Its main loop takes the head of a sorted    *)
(* list of timers, sleeps until that timer's deadline and runs the         *)
(* callback.  Everything else happens in signal handlers, which run to     *)
(* completion at any moment at which the main loop does not hold           *)
(* timer_lock() (it blocks the signals), that is:                          *)
(*    pc = "next"   before sleeptimer_wait_next() looks at the list        *)
(*    pc = "sleep"  inside clock_nanosleep()                               *)
(*    pc = "wake"   after it returned, before the list is locked again     *)
(*    pc = "nap"    inside msleep(1000), because the list was empty        *)
(* A handler may free, stop and re-arm timers in each of these windows.    *)
(* While pc = "startup" the signals are ignored.                           *)
(*                                                                         *)
(* clock_gettime() and clock_nanosleep() cannot fail with the arguments    *)
(* they are given, so their error branches are left out.  An interrupted   *)
(* sleep is resumed to the same absolute deadline: a stuttering step.      *)
(***************************************************************************)
EXTENDS Integers, Sequences, FiniteSets, SequencesExt

CONSTANTS
  PollTimers,     (* timers of the backlight and battery drivers            *)
  DimTimer,       (* the timer of the auto-dimmer, armed by handlers        *)
  PollInterval,   (* poll period of every poll timer                        *)
  DimDelays,      (* delays the auto-dimmer asks for                        *)
  NapTime,        (* length of the nap of an idle main loop                 *)
  Slack,          (* timer slack: how late the kernel may end a sleep       *)
  MaxDelay,       (* an upper bound of all the delays above                 *)
  MaxTime,        (* bound: the clock stops here                            *)
  MaxId           (* bound: no handler arms a timer with this id or above   *)

Timers == PollTimers \cup {DimTimer}

ASSUME TimersAssumption == DimTimer \notin PollTimers
ASSUME DelayAssumption ==
  /\ MaxDelay \in Nat
  /\ Slack \in Nat
  /\ PollInterval \in [PollTimers -> 1..MaxDelay]
  /\ DimDelays \subseteq 0..MaxDelay
  /\ NapTime \in 1..MaxDelay
ASSUME BoundAssumption == MaxTime \in Nat /\ MaxId \in Nat

VARIABLES
  now,        (* CLOCK_MONOTONIC                                            *)
  alive,      (* timers whose enclosing structure is allocated              *)
  timeout,    (* struct sleeptimer: timeout                                 *)
  id,         (* struct sleeptimer: id                                      *)
  queue,      (* timer_list                                                 *)
  id_counter, (* id_counter                                                 *)
  pc,         (* where the main loop is                                     *)
  wake,       (* the deadline it sleeps for                                 *)
  timer_id    (* sleeptimer_wait_next(): timer_id                           *)

timerVars == <<timeout, id, queue, id_counter>>
mainVars == <<pc, wake, timer_id>>
vars == <<now, alive, timerVars, mainVars>>

Queued(t) == t \in ToSet(queue)

(* Mutant of Inserted: before the first timer that is not earlier.         *)
InsertedUnstable(q, deadline, t) ==
  LET rest  == RemoveFirst(q, t)
      later == {i \in 1..Len(rest) : deadline[rest[i]] >= deadline[t]}
  IN  InsertAt(rest, IF later = {} THEN Len(rest) + 1 ELSE Min(later), t)

(***************************************************************************)
(* sleeptimer_enqueue(): unlink t if it is queued, then put it before the  *)
(* first timer with a strictly later deadline, or at the end.              *)
(***************************************************************************)
Inserted(q, deadline, t) ==
  LET rest  == RemoveFirst(q, t)
      later == {i \in 1..Len(rest) : deadline[rest[i]] > deadline[t]}
  IN  InsertAt(rest, IF later = {} THEN Len(rest) + 1 ELSE Min(later), t)

(* Mutant of Arm: the delay is subtracted.                                 *)
ArmBackwards(t, delay) ==
  /\ timeout' = [timeout EXCEPT ![t] = now - delay]
  /\ queue' = Inserted(queue, timeout', t)
  /\ id' = [id EXCEPT ![t] = id_counter]
  /\ id_counter' = id_counter + 1

(* sleeptimer_set_timeout_relative() followed by sleeptimer_enqueue().     *)
Arm(t, delay) ==
  /\ timeout' = [timeout EXCEPT ![t] = now + delay]
  /\ queue' = Inserted(queue, timeout', t)
  /\ id' = [id EXCEPT ![t] = id_counter]
  /\ id_counter' = id_counter + 1

(* sleeptimer_dequeue(): harmless for a timer that is not queued.          *)
Dequeue(t) ==
  /\ queue' = RemoveFirst(queue, t)
  /\ UNCHANGED <<timeout, id, id_counter>>

Init ==
  /\ now = 0
  /\ alive = {}
  /\ timeout = [t \in Timers |-> 0]
  /\ id = [t \in Timers |-> 0]
  /\ queue = <<>>
  /\ id_counter = 0
  /\ pc = "startup"
  /\ wake = 0
  /\ timer_id = 0

-----------------------------------------------------------------------------
(* Startup, before the signal handlers are installed.                      *)

(* battery_probe() or backlight_probe() finds a driver; drivers that poll  *)
(* start their timer.                                                      *)
ProbeDriver(t) ==
  /\ pc = "startup"
  /\ t \in PollTimers \ alive
  /\ alive' = alive \cup {t}
  /\ \/ Arm(t, PollInterval[t])
     \/ UNCHANGED timerVars
  /\ UNCHANGED <<now, mainVars>>

(* setup_signal_handlers(0): from here on the handlers below may run.      *)
InstallHandlers ==
  /\ pc = "startup"
  /\ PollTimers \subseteq alive
  /\ pc' = "next"
  /\ UNCHANGED <<now, alive, timerVars, wake, timer_id>>

-----------------------------------------------------------------------------
(* Signal handlers (AutodimEnable also runs at startup, for                *)
(* autodim_default_on).                                                    *)

HandlersMayRun == pc \in {"next", "sleep", "wake", "nap"}

(* enable_autodim(): autodim_alloc(), autodim_init() starts the timer.     *)
AutodimEnable(delay) ==
  /\ (pc = "startup" /\ PollTimers \subseteq alive) \/ HandlersMayRun
  /\ id_counter < MaxId
  /\ DimTimer \notin alive
  /\ alive' = alive \cup {DimTimer}
  /\ Arm(DimTimer, delay)
  /\ UNCHANGED <<now, mainVars>>

(* autodim_handle_input_event(), autodim_resume(): start over.             *)
AutodimRestart(delay) ==
  /\ HandlersMayRun
  /\ id_counter < MaxId
  /\ DimTimer \in alive
  /\ Arm(DimTimer, delay)
  /\ UNCHANGED <<now, alive, mainVars>>

(* autodim_suspend()                                                       *)
AutodimSuspend ==
  /\ HandlersMayRun
  /\ DimTimer \in alive
  /\ Dequeue(DimTimer)
  /\ UNCHANGED <<now, alive, mainVars>>

(* Mutant of AutodimDisable: the structure is freed, its timer not stopped.*)
DisableKeepsTimer ==
  /\ HandlersMayRun
  /\ DimTimer \in alive
  /\ alive' = alive \ {DimTimer}
  /\ UNCHANGED <<now, timerVars, mainVars>>

(* disable_autodim(): autodim_destroy() stops the timer, autodim_free()    *)
(* frees it.                                                               *)
AutodimDisable ==
  /\ HandlersMayRun
  /\ DimTimer \in alive
  /\ Dequeue(DimTimer)
  /\ alive' = alive \ {DimTimer}
  /\ UNCHANGED <<now, mainVars>>

(* signal_terminate(), or the error path of mainloop(): shutdown_cleanup() *)
(* frees the drivers without dequeueing their poll timers, then exits.     *)
Terminate ==
  /\ pc # "exited"
  /\ pc' = "exited"
  /\ Dequeue(DimTimer)
  /\ alive' = {}
  /\ UNCHANGED <<now, wake, timer_id>>

-----------------------------------------------------------------------------
(* The main loop: sleeptimer_wait_next() and mainloop().                   *)

(* Copy deadline and id of the first timer under the lock and go to sleep. *)
TakeNext ==
  /\ pc = "next"
  /\ queue # <<>>
  /\ wake' = timeout[Head(queue)]
  /\ timer_id' = id[Head(queue)]
  /\ pc' = "sleep"
  /\ UNCHANGED <<now, alive, timerVars>>

(* Mutant of Nap: a nap much longer than any delay.                        *)
NapTooLong ==
  /\ pc = "next"
  /\ queue = <<>>
  /\ wake' = now + 4 * NapTime
  /\ pc' = "nap"
  /\ UNCHANGED <<now, alive, timerVars, timer_id>>

(* Nothing is queued: -ENOENT, and the main loop naps.                     *)
Nap ==
  /\ pc = "next"
  /\ queue = <<>>
  /\ wake' = now + NapTime
  /\ pc' = "nap"
  /\ UNCHANGED <<now, alive, timerVars, timer_id>>

NapEnds ==
  /\ pc = "nap"
  /\ now >= wake
  /\ pc' = "next"
  /\ UNCHANGED <<now, alive, timerVars, wake, timer_id>>

(* Mutant of SleepEnds: a signal ends the sleep (no retry after EINTR).    *)
SleepInterrupted ==
  /\ pc = "sleep"
  /\ pc' = "wake"
  /\ UNCHANGED <<now, alive, timerVars, wake, timer_id>>

(* clock_nanosleep() returns only when the copied deadline has passed.     *)
SleepEnds ==
  /\ pc = "sleep"
  /\ now >= wake
  /\ pc' = "wake"
  /\ UNCHANGED <<now, alive, timerVars, wake, timer_id>>

(* Mutant of RunPoll: the callback does not re-arm its timer.              *)
RunPollOnce(t) ==
  /\ pc = "wake"
  /\ t \in PollTimers
  /\ Queued(t) /\ id[t] = timer_id
  /\ Dequeue(t)
  /\ pc' = "next"
  /\ UNCHANGED <<now, alive, wake, timer_id>>

(* The timer that still carries the copied id is dequeued and its callback *)
(* runs under the lock.  A poll callback always re-arms its timer ...      *)
RunPoll(t) ==
  /\ pc = "wake"
  /\ t \in PollTimers
  /\ Queued(t) /\ id[t] = timer_id
  /\ Arm(t, PollInterval[t])
  /\ pc' = "next"
  /\ UNCHANGED <<now, alive, wake, timer_id>>

(* ... and the auto-dimmer's re-arms it unless this was the last step.     *)
RunDim ==
  /\ pc = "wake"
  /\ Queued(DimTimer) /\ id[DimTimer] = timer_id
  /\ \/ \E delay \in DimDelays \ {0} : Arm(DimTimer, delay)
     \/ Dequeue(DimTimer)
  /\ pc' = "next"
  /\ UNCHANGED <<now, alive, wake, timer_id>>

(* Mutant of NotFound: the sleep is retried with the stale copy.           *)
NotFoundRetries ==
  /\ pc = "wake"
  /\ \A t \in Timers : Queued(t) => id[t] # timer_id
  /\ pc' = "sleep"
  /\ UNCHANGED <<now, alive, timerVars, wake, timer_id>>

(* The timer was freed, stopped or re-armed during the sleep.              *)
NotFound ==
  /\ pc = "wake"
  /\ \A t \in Timers : Queued(t) => id[t] # timer_id
  /\ pc' = "next"
  /\ UNCHANGED <<now, alive, timerVars, wake, timer_id>>

(* Time passes while the main loop sleeps; the slack lets the kernel end a *)
(* sleep late.  What the code computes itself is taken to cost no time.    *)
Tick ==
  /\ pc \in {"sleep", "nap"}
  /\ now < wake + Slack
  /\ now < MaxTime
  /\ now' = now + 1
  /\ UNCHANGED <<alive, timerVars, mainVars>>

-----------------------------------------------------------------------------
Handler ==
  \/ \E delay \in DimDelays : AutodimEnable(delay) \/ AutodimRestart(delay)
  \/ AutodimSuspend
  \/ AutodimDisable
  \/ Terminate

MainLoop ==
  \/ TakeNext
  \/ Nap
  \/ NapEnds
  \/ SleepEnds
  \/ \E t \in PollTimers : RunPoll(t)
  \/ RunDim
  \/ NotFound

Startup ==
  \/ \E t \in PollTimers : ProbeDriver(t)
  \/ InstallHandlers

Next == Startup \/ Handler \/ MainLoop \/ Tick

(* The kernel keeps scheduling the process and time keeps passing; nothing *)
(* is promised about signals.                                              *)
Fairness == WF_vars(Startup) /\ WF_vars(MainLoop) /\ WF_vars(Tick)

Spec == Init /\ [][Next]_vars /\ Fairness

-----------------------------------------------------------------------------
TypeOK ==
  /\ now \in Nat
  /\ alive \subseteq Timers
  /\ timeout \in [Timers -> Nat]
  /\ id \in [Timers -> Nat]
  /\ queue \in Seq(Timers)
  /\ id_counter \in Nat
  /\ pc \in {"startup", "next", "sleep", "wake", "nap", "exited"}
  /\ wake \in Nat
  /\ timer_id \in Nat

(***************************************************************************)
(* The list is sorted by deadline, and first come first served among equal *)
(* deadlines (the strictly-later test of sleeptimer_enqueue()).  It also   *)
(* says that no timer is linked twice.                                     *)
(***************************************************************************)
QueueSorted ==
  \A i, j \in 1..Len(queue) : i < j =>
    \/ timeout[queue[i]] < timeout[queue[j]]
    \/ /\ timeout[queue[i]] = timeout[queue[j]]
       /\ id[queue[i]] < id[queue[j]]

(***************************************************************************)
(* As long as the program runs, the list links no timer whose structure    *)
(* has been freed: the list walk of sleeptimer_wait_next() and the         *)
(* callback never touch freed memory, whatever handlers ran during the     *)
(* sleep.                                                                  *)
(***************************************************************************)
NoDanglingTimer == pc # "exited" => ToSet(queue) \subseteq alive

(***************************************************************************)
(* A queued timer is never overdue by more than one longest delay plus the *)
(* slack.  The sleep is not cut short when a handler arms an earlier       *)
(* timer, so a deadline can be missed; this bounds by how much.            *)
(***************************************************************************)
BoundedLateness ==
  pc # "exited" =>
    \A t \in Timers : Queued(t) => now <= timeout[t] + MaxDelay + Slack

(***************************************************************************)
(* The inductive invariant: the above, strengthened by what connects the   *)
(* copied deadline and id with the list.                                   *)
(***************************************************************************)
(* Ids are not shared, and id_counter is above every id in use.            *)
IdsFresh ==
  /\ \A t, u \in Timers : Queued(t) /\ Queued(u) /\ id[t] = id[u] => t = u
  /\ \A t \in Timers : Queued(t) => id[t] < id_counter
  /\ pc \in {"sleep", "wake"} => timer_id < id_counter

(* A queued timer that has the copied id still has the copied deadline.    *)
SnapshotValid ==
  pc \in {"sleep", "wake"} =>
    \A t \in Timers : Queued(t) /\ id[t] = timer_id => timeout[t] = wake

(* The main loop woke up after the copied deadline, a deadline is at most  *)
(* one longest delay away, and so is the end of a sleep, which is no later *)
(* than one longest delay after any deadline.                              *)
Deadlines ==
  /\ pc = "wake" => wake <= now
  /\ pc # "exited" =>
       \A t \in Timers : Queued(t) => timeout[t] <= now + MaxDelay
  /\ pc \in {"sleep", "nap"} =>
       /\ wake <= now + MaxDelay
       /\ \A t \in Timers : Queued(t) => wake <= timeout[t] + MaxDelay

IInv ==
  /\ TypeOK
  /\ QueueSorted
  /\ NoDanglingTimer
  /\ IdsFresh
  /\ SnapshotValid
  /\ Deadlines
  /\ BoundedLateness

(* The main loop serves t in this step: t leaves the list or is re-armed.  *)
Serves(t) ==
  /\ pc = "wake" /\ pc' = "next"
  /\ Queued(t)
  /\ ~Queued(t)' \/ id'[t] # id[t]

(***************************************************************************)
(* No callback runs before the deadline its timer has now: a timer that    *)
(* was re-armed to a later deadline, or freed and allocated again, during  *)
(* the sleep is not run on account of the old one.                         *)
(***************************************************************************)
NeverEarly == [][\A t \in Timers : Serves(t) => timeout[t] <= now]_vars

(***************************************************************************)
(* The service promised in TimerService is implemented: in particular a    *)
(* poll timer keeps its period whatever the handlers do to the list, and   *)
(* the bounded lateness above holds at every step of the clock.            *)
(***************************************************************************)
ServiceDeadline ==
  [t \in Timers |-> IF Queued(t) /\ pc # "exited" THEN timeout[t] ELSE -1]

Service == INSTANCE TimerService WITH
  Period      <- PollInterval,
  MaxLateness <- MaxDelay + Slack,
  deadline    <- ServiceDeadline,
  running     <- pc # "exited"

ServiceSpec == Service!Spec

(***************************************************************************)
(* An overdue timer is eventually served, stopped or re-armed, however     *)
(* often handlers interrupt the sleep (unless the clock of the model       *)
(* stops before the sleep can end).                                        *)
(***************************************************************************)
Overdue(t) == pc # "exited" /\ Queued(t) /\ timeout[t] <= now

OverdueTimerServed ==
  \A t \in Timers :
    (Overdue(t) /\ now + MaxDelay <= MaxTime) ~> ~Overdue(t)
=============================================================================
