------------------------------ MODULE Helpers ------------------------------
(***************************************************************************)
(* The child processes of pwrtray-backend: the X11 input blocker           *)
(* (backend/x11lock.c), the X11 input event reporter (backend/xevrep.c)    *)
(* and the emergency command of the battery (backend/battery.c).           *)
(*                                                                         *)
(* The daemon remembers the pid of its two helpers only, learns from       *)
(* SIGCHLD that some child ended, and reaps with waitpid().  SIGCHLD is    *)
(* one bit: children that end while it is pending are announced together.  *)
(* Every operation runs with the signals blocked, either in a signal       *)
(* handler or in a timer callback, so it is one step; only the waiting in  *)
(* shutdown_cleanup() takes time.                                          *)
(***************************************************************************)
EXTENDS Integers, FiniteSets

CONSTANTS
  Pids,      (* bound: the pids the kernel may give to children            *)
  NoPid,     (* pid 0                                                       *)
  Builds     (* the helpers compiled in (FEATURE_XLOCK, FEATURE_XEVREP) and *)
             (* whether an emergency_command is configured                  *)

ASSUME PidAssumption == NoPid \notin Pids

Helpers == {"x11lock", "xevrep"}
Command == "command"

ASSUME BuildAssumption ==
  Builds \subseteq [features : SUBSET Helpers, emergency : BOOLEAN]

VARIABLES
  build,       (* how this daemon was built and configured                  *)
  helper_pid,  (* struct x11lock, struct xevrep: helper_pid                 *)
  killed,      (* struct x11lock, struct xevrep: killed                     *)
  proc,        (* the kernel's state of each pid; "dying": SIGTERM was sent *)
  program,     (* what runs under that pid                                  *)
  sigchld,     (* SIGCHLD is pending                                        *)
  pc,          (* "up", the waits of shutdown_cleanup(), or "exited"        *)
  wanted,      (* history: the helper was enabled last, not disabled        *)
  let_down     (* history: it could not be started, was not because it was  *)
               (* still being killed, or has ended on its own               *)

daemonVars == <<helper_pid, killed>>
kernelVars == <<proc, program, sigchld>>
historyVars == <<wanted, let_down>>
vars == <<build, daemonVars, kernelVars, pc, historyVars>>

Child(pid) == proc[pid] # "free"

Init ==
  /\ build \in Builds
  /\ helper_pid = [h \in Helpers |-> NoPid]
  /\ killed = [h \in Helpers |-> FALSE]
  /\ proc = [pid \in Pids |-> "free"]
  /\ program = [pid \in Pids |-> Command]
  /\ sigchld = FALSE
  /\ pc = "up"
  /\ wanted = [h \in Helpers |-> FALSE]
  /\ let_down = [h \in Helpers |-> FALSE]

(* subprocess_exec(): the kernel picks a pid that is not in use.           *)
Exec(pid, prog) ==
  /\ ~Child(pid)
  /\ proc' = [proc EXCEPT ![pid] = "running"]
  /\ program' = [program EXCEPT ![pid] = prog]
  /\ UNCHANGED sigchld

(* kill(pid, SIGTERM): xlock and xevrep exit in their handlers, the        *)
(* command sooner or later; a zombie stays one.                            *)
Terminated(pid) ==
  [proc EXCEPT ![pid] = IF @ = "running" THEN "dying" ELSE @]

-----------------------------------------------------------------------------
(* Mutants of Enable: a second helper is started; the result of a failed   *)
(* subprocess_exec() is stored.                                            *)
EnableAgain(h, pid) ==
  /\ pc = "up"
  /\ h \in build.features
  /\ Exec(pid, h)
  /\ helper_pid' = [helper_pid EXCEPT ![h] = pid]
  /\ wanted' = [wanted EXCEPT ![h] = TRUE]
  /\ let_down' = [let_down EXCEPT ![h] = FALSE]
  /\ UNCHANGED <<build, killed, pc>>

EnableStoresError(h, pid) ==
  /\ pc = "up"
  /\ h \in build.features
  /\ helper_pid[h] = NoPid
  /\ \/ Exec(pid, h) /\ helper_pid' = [helper_pid EXCEPT ![h] = pid]
     \/ UNCHANGED kernelVars /\ helper_pid' = [helper_pid EXCEPT ![h] = -1]
  /\ wanted' = [wanted EXCEPT ![h] = TRUE]
  /\ let_down' = [let_down EXCEPT ![h] = FALSE]
  /\ UNCHANGED <<build, killed, pc>>

(* block_x11_input(), xevrep_enable().                                     *)
Enable(h, pid) ==
  /\ pc = "up"
  /\ h \in build.features
  /\ helper_pid[h] = NoPid
  /\ Exec(pid, h)
  /\ helper_pid' = [helper_pid EXCEPT ![h] = pid]
  /\ wanted' = [wanted EXCEPT ![h] = TRUE]
  /\ let_down' = [let_down EXCEPT ![h] = FALSE]
  /\ UNCHANGED <<build, killed, pc>>

(* fork() fails.                                                           *)
EnableFails(h) ==
  /\ pc = "up"
  /\ h \in build.features
  /\ helper_pid[h] = NoPid
  /\ wanted' = [wanted EXCEPT ![h] = TRUE]
  /\ let_down' = [let_down EXCEPT ![h] = TRUE]
  /\ UNCHANGED <<build, daemonVars, kernelVars, pc>>

(* Nothing is started while a helper is remembered, even if it is being    *)
(* killed.                                                                 *)
AlreadyEnabled(h) ==
  /\ pc = "up"
  /\ helper_pid[h] # NoPid
  /\ wanted' = [wanted EXCEPT ![h] = TRUE]
  /\ let_down' = [let_down EXCEPT ![h] = @ \/ killed[h]]
  /\ UNCHANGED <<build, daemonVars, kernelVars, pc>>

(* Mutant of Kill: no signal is sent.                                      *)
MarkOnly(h) ==
  /\ wanted' = [wanted EXCEPT ![h] = FALSE]
  /\ killed' = [killed EXCEPT ![h] = helper_pid[h] # NoPid]
  /\ UNCHANGED <<helper_pid, kernelVars, let_down>>

(* unblock_x11_input(), xevrep_disable(); the pid is kept until SIGCHLD.   *)
Kill(h) ==
  /\ wanted' = [wanted EXCEPT ![h] = FALSE]
  /\ IF helper_pid[h] = NoPid
       THEN UNCHANGED <<daemonVars, kernelVars>>
       ELSE /\ killed' = [killed EXCEPT ![h] = TRUE]
            /\ proc' = Terminated(helper_pid[h])
            /\ UNCHANGED <<helper_pid, program, sigchld>>
  /\ UNCHANGED let_down

Disable(h) ==
  /\ pc = "up"
  /\ Kill(h)
  /\ UNCHANGED <<build, pc>>

(* battery_emergency_check(): the pid of the command is not kept.          *)
RunCommand(pid) ==
  /\ pc = "up"
  /\ build.emergency
  /\ Exec(pid, Command)
  /\ UNCHANGED <<build, daemonVars, pc, historyVars>>

(* A child exits, on its own (the display is gone, or is grabbed by        *)
(* somebody else) or because of the SIGTERM.                               *)
ChildExits(pid) ==
  /\ proc[pid] \in {"running", "dying"}
  /\ proc' = [proc EXCEPT ![pid] = "zombie"]
  /\ sigchld' = TRUE
  /\ let_down' = [h \in Helpers |->
                   let_down[h] \/ (proc[pid] = "running" /\ program[pid] = h)]
  /\ UNCHANGED <<build, program, daemonVars, pc, wanted>>

(***************************************************************************)
(* x11lock_sigchld(), xevrep_sigchld(): waitpid() reaps the helper if it   *)
(* has exited.  With WNOHANG it returns 0 for a helper that is still       *)
(* alive, which the code takes for an exited one, too.                     *)
(***************************************************************************)
Reaped(hs) == {helper_pid[h] : h \in {g \in hs : helper_pid[g] # NoPid}}

(* Mutant of Reap: the pid is not cleared.                                 *)
ReapKeepsPid(hs) ==
  /\ proc' = [pid \in Pids |->
                IF pid \in Reaped(hs) /\ proc[pid] = "zombie"
                  THEN "free" ELSE proc[pid]]
  /\ killed' = [h \in Helpers |-> IF h \in hs THEN FALSE ELSE killed[h]]
  /\ UNCHANGED <<helper_pid, program, historyVars>>

Reap(hs) ==
  /\ proc' = [pid \in Pids |->
                IF pid \in Reaped(hs) /\ proc[pid] = "zombie"
                  THEN "free" ELSE proc[pid]]
  /\ helper_pid' = [h \in Helpers |->
                      IF h \in hs THEN NoPid ELSE helper_pid[h]]
  /\ killed' = [h \in Helpers |-> IF h \in hs THEN FALSE ELSE killed[h]]
  /\ UNCHANGED <<program, historyVars>>

(* Mutant of SignalChild: one waitpid() for each SIGCHLD.                  *)
SignalOneChild ==
  /\ pc = "up"
  /\ sigchld
  /\ sigchld' = FALSE
  /\ \E h \in Helpers : Reap({h})
  /\ UNCHANGED <<build, pc>>

(* signal_child()                                                          *)
SignalChild ==
  /\ pc = "up"
  /\ sigchld
  /\ sigchld' = FALSE
  /\ Reap(Helpers)
  /\ UNCHANGED <<build, pc>>

(***************************************************************************)
(* shutdown_cleanup(): kill and wait for the reporter, then the blocker.   *)
(* The signals stay blocked, so SIGCHLD is not handled any more.           *)
(***************************************************************************)
Shutdown ==
  /\ pc = "up"
  /\ Kill("xevrep")
  /\ pc' = "wait_xevrep"
  /\ UNCHANGED build

(* Mutant of Wait: with WNOHANG.                                           *)
WaitNot(h) ==
  /\ Reap({h})
  /\ UNCHANGED sigchld

(* waitpid() without WNOHANG; it is skipped if there is no helper.         *)
Wait(h) ==
  /\ helper_pid[h] # NoPid => proc[helper_pid[h]] = "zombie"
  /\ Reap({h})
  /\ UNCHANGED sigchld

XevrepGone ==
  /\ pc = "wait_xevrep"
  /\ Wait("xevrep")
  /\ pc' = "unblock_x11"
  /\ UNCHANGED build

UnblockX11 ==
  /\ pc = "unblock_x11"
  /\ Kill("x11lock")
  /\ pc' = "wait_x11lock"
  /\ UNCHANGED build

X11LockGone ==
  /\ pc = "wait_x11lock"
  /\ Wait("x11lock")
  /\ pc' = "exited"
  /\ UNCHANGED build

-----------------------------------------------------------------------------
Next ==
  \/ \E h \in Helpers :
       \/ \E pid \in Pids : Enable(h, pid)
       \/ EnableFails(h) \/ AlreadyEnabled(h) \/ Disable(h)
  \/ \E pid \in Pids : RunCommand(pid) \/ ChildExits(pid)
  \/ SignalChild
  \/ Shutdown \/ XevrepGone \/ UnblockX11 \/ X11LockGone

(* Signals are delivered, the daemon is scheduled, and a SIGTERM ends a    *)
(* helper (xlock and xevrep unblock it and exit in their handlers).        *)
Fairness ==
  /\ WF_vars(SignalChild)
  /\ WF_vars(XevrepGone) /\ WF_vars(UnblockX11) /\ WF_vars(X11LockGone)
  /\ \A pid \in Pids : WF_vars(proc[pid] = "dying" /\ ChildExits(pid))

Spec == Init /\ [][Next]_vars /\ Fairness
-----------------------------------------------------------------------------
TypeOK ==
  /\ build \in Builds
  /\ helper_pid \in [Helpers -> Pids \cup {NoPid}]
  /\ killed \in [Helpers -> BOOLEAN]
  /\ proc \in [Pids -> {"free", "running", "dying", "zombie"}]
  /\ program \in [Pids -> Helpers \cup {Command}]
  /\ sigchld \in BOOLEAN
  /\ pc \in {"up", "wait_xevrep", "unblock_x11", "wait_x11lock", "exited"}
  /\ wanted \in [Helpers -> BOOLEAN]
  /\ let_down \in [Helpers -> BOOLEAN]

(***************************************************************************)
(* A remembered pid belongs to a child that has not been reaped and runs   *)
(* this helper.  Hence kill() cannot fail or hit a recycled pid, and the   *)
(* early return of unblock_x11_input() that leaves the signals blocked is  *)
(* never taken.                                                            *)
(***************************************************************************)
OwnPid ==
  \A h \in Helpers : helper_pid[h] # NoPid =>
    Child(helper_pid[h]) /\ program[helper_pid[h]] = h

(***************************************************************************)
(* The mark "killed" is about the remembered process: a helper that dies   *)
(* before the daemon kills it is reported ("murdered by a stranger"), also *)
(* after an earlier one was killed.  And what is remembered but not wanted *)
(* any more has been killed.                                               *)
(***************************************************************************)
MarkIsCurrent ==
  \A h \in Helpers :
    /\ killed[h] =>
         helper_pid[h] # NoPid /\ proc[helper_pid[h]] \in {"dying", "zombie"}
    /\ helper_pid[h] # NoPid /\ ~wanted[h] => killed[h]

(***************************************************************************)
(* A remembered helper that has exited is reaped, even if its SIGCHLD was  *)
(* merged with that of another child.                                      *)
(***************************************************************************)
Uncollected(h) == helper_pid[h] # NoPid /\ proc[helper_pid[h]] = "zombie"

ZombiesReaped == \A h \in Helpers : Uncollected(h) ~> ~Uncollected(h)

(* The waits of shutdown_cleanup() end.                                    *)
ShutdownEnds == (pc = "wait_xevrep") ~> (pc = "exited")

(***************************************************************************)
(* A helper is taken for terminated ("... terminated" is logged, the pid   *)
(* is dropped) only when it has.                                           *)
(***************************************************************************)
ForgottenOnlyWhenDead ==
  [][\A h \in Helpers :
       helper_pid[h] # NoPid /\ helper_pid'[h] # helper_pid[h] =>
         proc[helper_pid[h]] = "zombie"]_vars

(***************************************************************************)
(* Where a helper is the only child the daemon can have, the wrong guess   *)
(* of Reap is right: the helper never runs twice, and does not survive the *)
(* daemon.                                                                 *)
(***************************************************************************)
OnlyChild(h) == build = [features |-> {h}, emergency |-> FALSE]

Alive(h) == {pid \in Pids : program[pid] = h /\ proc[pid] \in {"running", "dying"}}

OneInstance ==
  \A h \in Helpers : OnlyChild(h) => Cardinality(Alive(h)) <= 1

NoneLeftBehind ==
  \A h \in Helpers : OnlyChild(h) /\ pc = "exited" => Alive(h) = {}

(***************************************************************************)
(* The helpers follow the requests: one that was enabled last runs, unless *)
(* it could not be started, ended on its own, or was asked for while its   *)
(* predecessor was still being killed; and where it is the only child, one *)
(* that was disabled last does not run on.                                 *)
(***************************************************************************)
Running(h) == \E pid \in Pids : program[pid] = h /\ proc[pid] = "running"

FollowsRequests ==
  \A h \in Helpers :
    /\ pc = "up" /\ wanted[h] /\ ~let_down[h] => Running(h)
    /\ OnlyChild(h) /\ ~wanted[h] => ~Running(h)
=============================================================================
