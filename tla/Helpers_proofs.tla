--------------------------- MODULE Helpers_proofs ---------------------------
(***************************************************************************)
(* The daemon's bookkeeping of its helpers is right for any number of pids *)
(* and for every choice of helpers compiled in: it never signals a process *)
(* that is not its own, and never confuses two of them.                    *)
(***************************************************************************)
EXTENDS Helpers, FiniteSetTheorems, TLAPS

HInv == TypeOK /\ OwnPid /\ MarkIsCurrent

USE DEF Helpers, Command

(* The initial states satisfy the invariant.                               *)
LEMMA HInvInit == Init => HInv
<1> SUFFICES ASSUME Init PROVE HInv
  OBVIOUS
<1>1. TypeOK
  <2>1. /\ killed \in [Helpers -> BOOLEAN]
        /\ wanted \in [Helpers -> BOOLEAN]
        /\ let_down \in [Helpers -> BOOLEAN]
    BY Zenon DEF Init
  <2> QED BY <2>1, PidAssumption DEF Init, TypeOK
<1>2. OwnPid /\ MarkIsCurrent
  BY DEF Init, OwnPid, MarkIsCurrent
<1> QED BY <1>1, <1>2 DEF HInv

(* Starting a child on a free pid disturbs no remembered one.              *)
LEMMA HInvEnable ==
  ASSUME HInv, NEW h \in Helpers, NEW pid \in Pids, Enable(h, pid)
  PROVE  HInv'
<1> USE PidAssumption DEF HInv, Enable, Exec, Child
<1>1. TypeOK'
  BY DEF TypeOK
<1>2. OwnPid'
  BY DEF TypeOK, OwnPid
<1>3. MarkIsCurrent'
  BY DEF TypeOK, OwnPid, MarkIsCurrent
<1> QED BY <1>1, <1>2, <1>3

(* Asking for a helper that runs, or cannot be started, changes no child.  *)
LEMMA HInvNotStarted ==
  ASSUME HInv, NEW h \in Helpers, EnableFails(h) \/ AlreadyEnabled(h)
  PROVE  HInv'
<1> USE DEF HInv, EnableFails, AlreadyEnabled, daemonVars, kernelVars
<1>1. TypeOK'
  <2>1. wanted' \in [Helpers -> BOOLEAN]
    BY DEF TypeOK
  <2>2. let_down' \in [Helpers -> BOOLEAN]
    BY DEF TypeOK
  <2> QED BY <2>1, <2>2 DEF TypeOK
<1>2. OwnPid'
  BY DEF OwnPid, Child
<1>3. MarkIsCurrent'
  BY DEF TypeOK, MarkIsCurrent
<1> QED BY <1>1, <1>2, <1>3

(* The emergency command disturbs no remembered pid.                       *)
LEMMA HInvRunCommand ==
  ASSUME HInv, NEW pid \in Pids, RunCommand(pid)
  PROVE  HInv'
<1> USE PidAssumption DEF HInv, RunCommand, Exec, Child, daemonVars, historyVars
<1>1. TypeOK'
  BY DEF TypeOK
<1>2. OwnPid'
  BY DEF TypeOK, OwnPid
<1>3. MarkIsCurrent'
  BY DEF TypeOK, OwnPid, MarkIsCurrent
<1> QED BY <1>1, <1>2, <1>3

(* A child's exit turns it into a zombie, which keeps its pid.             *)
LEMMA HInvChildExits ==
  ASSUME HInv, NEW pid \in Pids, ChildExits(pid)
  PROVE  HInv'
<1> USE PidAssumption DEF HInv, ChildExits, Child, daemonVars
<1>1. TypeOK'
  BY DEF TypeOK
<1>2. OwnPid'
  BY DEF TypeOK, OwnPid
<1>3. MarkIsCurrent'
  BY DEF TypeOK, OwnPid, MarkIsCurrent
<1> QED BY <1>1, <1>2, <1>3

(* SIGTERM marks the remembered process and nothing else.                  *)
LEMMA HInvKill ==
  ASSUME HInv, NEW h \in Helpers, Kill(h), UNCHANGED build,
         pc' \in {"up", "wait_xevrep", "wait_x11lock"}
  PROVE  HInv'
<1> USE PidAssumption DEF HInv, Kill, Terminated, Child, daemonVars, kernelVars
<1>1. TypeOK'
  <2>1. CASE helper_pid[h] = NoPid
    BY <2>1 DEF TypeOK
  <2>2. CASE helper_pid[h] # NoPid
    <3>1. proc' \in [Pids -> {"free", "running", "dying", "zombie"}]
      BY <2>2 DEF TypeOK
    <3>2. killed' \in [Helpers -> BOOLEAN]
      <4>1. killed' = [killed EXCEPT ![h] = TRUE]
        BY <2>2
      <4>2. killed \in [Helpers -> BOOLEAN]
        BY DEF TypeOK
      <4> QED BY ONLY <4>1, <4>2, Zenon
    <3>3. UNCHANGED <<helper_pid, program, sigchld>>
      BY <2>2
    <3> QED BY <3>1, <3>2, <3>3 DEF TypeOK
  <2> QED BY <2>1, <2>2
<1>2. OwnPid'
  BY DEF TypeOK, OwnPid
<1>3. MarkIsCurrent'
  BY DEF TypeOK, OwnPid, MarkIsCurrent
<1> QED BY <1>1, <1>2, <1>3

(* Two helpers have different pids, so reaping some keeps the others'.     *)
LEMMA HInvReap ==
  ASSUME HInv, NEW hs \in SUBSET Helpers, Reap(hs),
         UNCHANGED build, sigchld' \in BOOLEAN,
         pc' \in {"up", "unblock_x11", "exited"}
  PROVE  HInv'
<1> USE PidAssumption DEF HInv, Reap, historyVars
<1>1. TypeOK'
  BY DEF TypeOK
<1>2. ASSUME NEW h \in Helpers, helper_pid'[h] # NoPid
      PROVE  /\ h \notin hs /\ helper_pid'[h] = helper_pid[h]
             /\ helper_pid[h] \in Pids \ Reaped(hs)
             /\ proc'[helper_pid[h]] = proc[helper_pid[h]]
  BY <1>2 DEF TypeOK, OwnPid, Reaped
<1>3. OwnPid'
  BY <1>2 DEF TypeOK, OwnPid, Child
<1>4. ASSUME NEW h \in Helpers, killed'[h]
      PROVE  /\ helper_pid'[h] # NoPid
             /\ proc'[helper_pid'[h]] \in {"dying", "zombie"}
  <2>1. h \notin hs /\ killed[h]
    BY <1>4 DEF TypeOK
  <2>2. helper_pid'[h] = helper_pid[h] /\ helper_pid[h] # NoPid
    BY <2>1 DEF TypeOK, MarkIsCurrent
  <2> QED BY <2>1, <2>2, <1>2 DEF MarkIsCurrent
<1>5. MarkIsCurrent'
  BY <1>4 DEF MarkIsCurrent
<1> QED BY <1>1, <1>3, <1>5

(* Every step of the daemon and of its children keeps the invariant.       *)
LEMMA HInvNext == HInv /\ [Next]_vars => HInv'
<1> SUFFICES ASSUME HInv, [Next]_vars PROVE HInv'
  OBVIOUS
<1>1. ASSUME NEW h \in Helpers, Disable(h) PROVE HInv'
  BY <1>1, HInvKill DEF Disable
<1>2. ASSUME NEW h \in Helpers, NEW pid \in Pids, Enable(h, pid) PROVE HInv'
  BY <1>2, HInvEnable
<1>11. ASSUME NEW h \in Helpers, EnableFails(h) \/ AlreadyEnabled(h) PROVE HInv'
  BY <1>11, HInvNotStarted
<1>3. ASSUME NEW pid \in Pids, RunCommand(pid) PROVE HInv'
  BY <1>3, HInvRunCommand
<1>4. ASSUME NEW pid \in Pids, ChildExits(pid) PROVE HInv'
  BY <1>4, HInvChildExits
<1>5. CASE SignalChild
  BY <1>5, HInvReap DEF SignalChild
<1>6. CASE Shutdown
  BY <1>6, HInvKill DEF Shutdown
<1>7. CASE XevrepGone
  BY <1>7, HInvReap DEF XevrepGone, Wait, HInv, TypeOK
<1>8. CASE UnblockX11
  BY <1>8, HInvKill DEF UnblockX11
<1>9. CASE X11LockGone
  BY <1>9, HInvReap DEF X11LockGone, Wait, HInv, TypeOK
<1>10. CASE UNCHANGED vars
  BY <1>10 DEF vars, daemonVars, kernelVars, historyVars, HInv, TypeOK,
               OwnPid, MarkIsCurrent, Child
<1> QED
  BY <1>1, <1>2, <1>3, <1>4, <1>5, <1>6, <1>7, <1>8, <1>9, <1>10, <1>11
  DEF Next

(* The invariant holds in every reachable state.                           *)
THEOREM HelperInvariant == Spec => []HInv
BY HInvInit, HInvNext, PTL DEF Spec

(* Every variable of Helpers keeps its type.                               *)
THEOREM HelperTypes == Spec => []TypeOK
BY HelperInvariant, PTL DEF HInv

(* A remembered pid is always that of an unreaped child running that very  *)
(* helper: kill() and waitpid() in x11lock.c and xevrep.c are never given  *)
(* a stale or recycled pid.                                                *)
THEOREM PidsAreOwn == Spec => []OwnPid
BY HelperInvariant, PTL DEF HInv

(* The mark "killed" never outlives the process it was set for, and a      *)
(* helper that is remembered but not wanted has it.                        *)
THEOREM MarksAreCurrent == Spec => []MarkIsCurrent
BY HelperInvariant, PTL DEF HInv

(***************************************************************************)
(* Where a helper is the only child, every child is the remembered one,    *)
(* and a pending SIGCHLD is about it.                                      *)
(***************************************************************************)
Sole(h) ==
  /\ \A pid \in Pids : Child(pid) => pid = helper_pid[h]
  /\ \A g \in Helpers \ {h} : helper_pid[g] = NoPid
  /\ pc = "up" /\ sigchld =>
       helper_pid[h] # NoPid /\ proc[helper_pid[h]] = "zombie"

(* What the waits of shutdown_cleanup() have left.                         *)
Waited ==
  /\ pc \in {"unblock_x11", "wait_x11lock", "exited"} =>
       helper_pid["xevrep"] = NoPid
  /\ pc = "exited" => helper_pid["x11lock"] = NoPid

SoleInv == HInv /\ Waited /\ \A h \in Helpers : OnlyChild(h) => Sole(h)

(* The waits drop the pids, and nothing is started any more.               *)
LEMMA WaitedNext == HInv /\ Waited /\ [Next]_vars => Waited'
<1> SUFFICES ASSUME HInv, Waited, [Next]_vars PROVE Waited'
  OBVIOUS
<1> USE DEF Waited, HInv, TypeOK
<1>1. ASSUME NEW h \in Helpers, Disable(h) PROVE Waited'
  BY <1>1 DEF Disable
<1>2. ASSUME NEW h \in Helpers, NEW pid \in Pids, Enable(h, pid) PROVE Waited'
  BY <1>2 DEF Enable
<1>10. ASSUME NEW h \in Helpers, EnableFails(h) \/ AlreadyEnabled(h)
       PROVE  Waited'
  BY <1>10 DEF EnableFails, AlreadyEnabled, daemonVars
<1>3. ASSUME NEW pid \in Pids, RunCommand(pid) \/ ChildExits(pid) PROVE Waited'
  BY <1>3 DEF RunCommand, ChildExits, daemonVars
<1>4. CASE SignalChild
  BY <1>4 DEF SignalChild
<1>5. CASE Shutdown
  BY <1>5 DEF Shutdown
<1>6. CASE XevrepGone
  BY <1>6 DEF XevrepGone, Wait, Reap
<1>7. CASE UnblockX11
  BY <1>7 DEF UnblockX11, Kill, daemonVars
<1>8. CASE X11LockGone
  BY <1>8 DEF X11LockGone, Wait, Reap
<1>9. CASE UNCHANGED vars
  BY <1>9 DEF vars, daemonVars
<1> QED
  BY <1>1, <1>2, <1>3, <1>4, <1>5, <1>6, <1>7, <1>8, <1>9, <1>10
  DEF Next

(* Killing makes no zombie alive and changes no pid.                       *)
LEMMA SoleKill ==
  ASSUME HInv, NEW h \in Helpers, Sole(h), NEW g \in Helpers, Kill(g),
         pc' = "up" => pc = "up"
  PROVE  Sole(h)'
<1>1. CASE helper_pid[g] = NoPid
  BY <1>1 DEF Kill, Sole, Child, daemonVars, kernelVars
<1>2. CASE helper_pid[g] # NoPid
  BY <1>2 DEF Kill, Terminated, Sole, Child, HInv, TypeOK
<1> QED BY <1>1, <1>2

(* Reaping the remembered child while it is a zombie leaves no child.      *)
LEMMA SoleReap ==
  ASSUME HInv, NEW h \in Helpers, Sole(h), NEW hs \in SUBSET Helpers, Reap(hs),
         h \in hs /\ helper_pid[h] # NoPid => proc[helper_pid[h]] = "zombie",
         pc' = "up" => sigchld' = FALSE
  PROVE  Sole(h)'
<1>1. \A g \in Helpers \ {h} : helper_pid'[g] = NoPid
  BY DEF Reap, Sole
<1>2. ASSUME NEW pid \in Pids, Child(pid)' PROVE pid = helper_pid'[h]
  <2>1. Child(pid) /\ pid = helper_pid[h]
    BY <1>2 DEF Reap, Child, Sole
  <2>2. h \notin hs
    <3>1. helper_pid[h] # NoPid
      BY <2>1, PidAssumption
    <3>2. h \in hs => pid \in Reaped(hs) /\ proc[pid] = "zombie"
      BY <2>1, <3>1 DEF Reaped
    <3> QED BY <1>2, <3>2 DEF Reap, Child
  <2> QED BY <2>1, <2>2 DEF Reap
<1> QED BY <1>1, <1>2 DEF Sole

(* Every step keeps the only child the only one.                           *)
LEMMA SoleNext ==
  ASSUME SoleInv, [Next]_vars, NEW h \in Helpers, OnlyChild(h)'
  PROVE  Sole(h)'
<1>0. HInv /\ Waited
  BY DEF SoleInv
<1>1. OnlyChild(h) /\ Sole(h)
  <2>1. build' = build
    BY DEF Next, vars, Disable, Enable, EnableFails, AlreadyEnabled, RunCommand, ChildExits, SignalChild,
           Shutdown, XevrepGone, UnblockX11, X11LockGone
  <2> QED BY <2>1 DEF OnlyChild, SoleInv
<1>2. ASSUME NEW g \in Helpers, Disable(g) PROVE Sole(h)'
  BY <1>0, <1>1, <1>2, SoleKill DEF Disable
<1>3. ASSUME NEW g \in Helpers, NEW pid \in Pids, Enable(g, pid) PROVE Sole(h)'
  <2>1. g = h /\ helper_pid[h] = NoPid
    BY <1>1, <1>3 DEF Enable, OnlyChild
  <2>2. \A q \in Pids : ~Child(q)
    BY <1>1, <2>1, PidAssumption DEF Sole
  <2>3. helper_pid' = [helper_pid EXCEPT ![h] = pid] /\ pc = "up"
    BY <1>3, <2>1 DEF Enable
  <2>4. ~sigchld'
    BY <1>1, <1>3, <2>1, <2>3 DEF Enable, Exec, Sole
  <2>5. \A q \in Pids : Child(q)' => q = pid
    BY <1>0, <1>3, <2>2 DEF Enable, Exec, Child, HInv, TypeOK
  <2> QED BY <1>0, <1>1, <2>3, <2>4, <2>5 DEF Sole, HInv, TypeOK
<1>12. ASSUME NEW g \in Helpers, EnableFails(g) \/ AlreadyEnabled(g)
       PROVE  Sole(h)'
  BY <1>1, <1>12
     DEF EnableFails, AlreadyEnabled, daemonVars, kernelVars, Sole, Child
<1>4. ASSUME NEW pid \in Pids, RunCommand(pid) PROVE Sole(h)'
  BY <1>1, <1>4 DEF RunCommand, OnlyChild
<1>5. ASSUME NEW pid \in Pids, ChildExits(pid) PROVE Sole(h)'
  <2>1. Child(pid) /\ pid = helper_pid[h] /\ pid # NoPid
    BY <1>1, <1>5, PidAssumption DEF ChildExits, Child, Sole
  <2>2. /\ proc' = [proc EXCEPT ![pid] = "zombie"]
        /\ UNCHANGED <<helper_pid, pc>>
    BY <1>5 DEF ChildExits, daemonVars
  <2> QED BY <1>0, <1>1, <2>1, <2>2 DEF Sole, Child, HInv, TypeOK
<1>6. CASE SignalChild
  BY <1>0, <1>1, <1>6, SoleReap DEF SignalChild, Sole
<1>7. CASE Shutdown
  BY <1>0, <1>1, <1>7, SoleKill DEF Shutdown
<1>8. CASE XevrepGone
  BY <1>0, <1>1, <1>8, SoleReap DEF XevrepGone, Wait
<1>9. CASE UnblockX11
  BY <1>0, <1>1, <1>9, SoleKill DEF UnblockX11
<1>10. CASE X11LockGone
  BY <1>0, <1>1, <1>10, SoleReap DEF X11LockGone, Wait
<1>11. CASE UNCHANGED vars
  BY <1>1, <1>11 DEF vars, daemonVars, kernelVars, Sole, Child
<1> QED
  BY <1>2, <1>3, <1>4, <1>5, <1>6, <1>7, <1>8, <1>9, <1>10, <1>11,
     <1>12
  DEF Next

(* The daemon never confuses its only kind of child.                       *)
THEOREM OnlyChildInvariant == Spec => []SoleInv
<1>1. Init => SoleInv
  BY HInvInit DEF Init, SoleInv, Waited, Sole, Child
<1>2. SoleInv /\ [Next]_vars => SoleInv'
  BY HInvNext, WaitedNext, SoleNext DEF SoleInv
<1> QED BY <1>1, <1>2, PTL DEF Spec

(* block_x11_input() and xevrep_enable(): where a helper is the only child *)
(* it never runs twice.                                                    *)
THEOREM NeverTwice == Spec => []OneInstance
<1>1. SoleInv => OneInstance
  <2> SUFFICES ASSUME SoleInv, NEW h \in Helpers, OnlyChild(h)
               PROVE  Cardinality(Alive(h)) <= 1
    BY DEF OneInstance
  <2>1. Alive(h) \subseteq {helper_pid[h]}
    BY DEF SoleInv, Sole, Alive, Child
  <2>2. Alive(h) = {} \/ Alive(h) = {helper_pid[h]}
    BY <2>1
  <2>3. ASSUME NEW S, NEW x, S = {} \/ S = {x} PROVE Cardinality(S) <= 1
    <3>1. CASE S = {}
      <4>1. Cardinality(S) = 0
        BY <3>1, FS_EmptySet, Zenon
      <4> QED BY <4>1
    <3>2. CASE S = {x}
      <4>1. Cardinality(S) = 1
        BY <3>2, FS_Singleton, Zenon
      <4> QED BY <4>1
    <3> QED BY <2>3, <3>1, <3>2
  <2> QED BY <2>2, <2>3
<1> QED BY <1>1, OnlyChildInvariant, PTL

(* shutdown_cleanup(): where a helper is the only child none is left       *)
(* running when the daemon has exited.                                     *)
THEOREM NoneSurvives == Spec => []NoneLeftBehind
<1>1. SoleInv => NoneLeftBehind
  BY PidAssumption DEF SoleInv, Waited, Sole, NoneLeftBehind, Alive, Child
<1> QED BY <1>1, OnlyChildInvariant, PTL

(***************************************************************************)
(* The first half of FollowsRequests is kept by every step.                *)
(***************************************************************************)
Served ==
  \A h \in Helpers : pc = "up" /\ wanted[h] /\ ~let_down[h] => Running(h)

(* What runs goes on running as long as it is neither signalled nor exits. *)
LEMMA StaysRunning ==
  ASSUME NEW g \in Helpers, NEW pid \in Pids,
         program[pid] = g, proc[pid] = "running",
         program'[pid] = program[pid], proc'[pid] = proc[pid]
  PROVE  Running(g)'
BY DEF Running

(* Requests and exits keep it.                                             *)
LEMMA ServedNext == HInv /\ HInv' /\ Served /\ [Next]_vars => Served'
<1> SUFFICES ASSUME HInv, Served, [Next]_vars, NEW g \in Helpers,
                    pc' = "up", wanted'[g], ~let_down'[g]
             PROVE  Running(g)'
  BY DEF Served
<1>a. TypeOK /\ OwnPid /\ MarkIsCurrent
  BY DEF HInv
<1>1. ASSUME NEW h \in Helpers, Kill(h), pc = "up" PROVE Running(g)'
  <2>1. wanted[g] /\ ~let_down[g] /\ g # h
    BY <1>a, <1>1 DEF Kill, TypeOK
  <2>2. PICK pid \in Pids : program[pid] = g /\ proc[pid] = "running"
    BY <1>1, <2>1 DEF Served, Running
  <2>3. program'[pid] = program[pid] /\ proc'[pid] = proc[pid]
    BY <1>a, <1>1, <2>1, <2>2
       DEF Kill, Terminated, daemonVars, kernelVars, OwnPid, TypeOK
  <2> QED BY <2>2, <2>3, StaysRunning
<1>2. ASSUME NEW h \in Helpers, NEW q \in Pids, Enable(h, q)
      PROVE  Running(g)'
  <2>1. CASE g = h
    BY <1>a, <1>2, <2>1 DEF Enable, Exec, Running, TypeOK
  <2>2. CASE g # h
    <3>1. wanted[g] /\ ~let_down[g] /\ pc = "up"
      BY <1>a, <1>2, <2>2 DEF Enable, TypeOK
    <3>2. PICK pid \in Pids : program[pid] = g /\ proc[pid] = "running"
      BY <3>1 DEF Served, Running
    <3>3. program'[pid] = program[pid] /\ proc'[pid] = proc[pid]
      BY <1>a, <1>2, <3>2 DEF Enable, Exec, Child, TypeOK
    <3> QED BY <3>2, <3>3, StaysRunning
  <2> QED BY <2>1, <2>2
<1>3. ASSUME NEW h \in Helpers, EnableFails(h) \/ AlreadyEnabled(h)
      PROVE  Running(g)'
  <2>1. UNCHANGED <<proc, program>> /\ pc = "up"
    BY <1>3 DEF EnableFails, AlreadyEnabled, kernelVars
  <2>2. wanted[g] /\ ~let_down[g]
    <3>1. CASE EnableFails(h)
      BY <1>a, <3>1 DEF EnableFails, TypeOK
    <3>2. CASE AlreadyEnabled(h)
      BY <1>a, <3>2 DEF AlreadyEnabled, TypeOK, MarkIsCurrent
    <3> QED BY <1>3, <3>1, <3>2
  <2> QED BY <2>1, <2>2 DEF Served, Running
<1>4. ASSUME NEW q \in Pids, RunCommand(q) PROVE Running(g)'
  <2>1. wanted[g] /\ ~let_down[g] /\ pc = "up"
    BY <1>4 DEF RunCommand, historyVars
  <2>2. PICK pid \in Pids : program[pid] = g /\ proc[pid] = "running"
    BY <2>1 DEF Served, Running
  <2>3. program'[pid] = program[pid] /\ proc'[pid] = proc[pid]
    BY <1>a, <1>4, <2>2 DEF RunCommand, Exec, Child, TypeOK
  <2> QED BY <2>2, <2>3, StaysRunning
<1>5. ASSUME NEW q \in Pids, ChildExits(q) PROVE Running(g)'
  <2>1. /\ wanted[g] /\ ~let_down[g] /\ pc = "up"
        /\ ~(proc[q] = "running" /\ program[q] = g)
    BY <1>5 DEF ChildExits
  <2>2. PICK pid \in Pids : program[pid] = g /\ proc[pid] = "running"
    BY <2>1 DEF Served, Running
  <2>3. program'[pid] = program[pid] /\ proc'[pid] = proc[pid]
    BY <1>a, <1>5, <2>1, <2>2 DEF ChildExits, TypeOK
  <2> QED BY <2>2, <2>3, StaysRunning
<1>6. CASE SignalChild
  <2>1. wanted[g] /\ ~let_down[g] /\ pc = "up"
    BY <1>6 DEF SignalChild, Reap, historyVars
  <2>2. PICK pid \in Pids : program[pid] = g /\ proc[pid] = "running"
    BY <2>1 DEF Served, Running
  <2>3. program'[pid] = program[pid] /\ proc'[pid] = proc[pid]
    BY <1>a, <1>6, <2>2 DEF SignalChild, Reap, TypeOK
  <2> QED BY <2>2, <2>3, StaysRunning
<1>7. CASE UNCHANGED vars
  BY <1>7 DEF vars, kernelVars, historyVars, Served, Running
<1> QED
  BY <1>1, <1>2, <1>3, <1>4, <1>5, <1>6, <1>7
     DEF Next, Disable, Shutdown, XevrepGone, UnblockX11, X11LockGone

(* block_x11_input(), unblock_x11_input() and their siblings: the helpers  *)
(* follow the requests.                                                    *)
THEOREM RequestsFollowed == Spec => []FollowsRequests
<1>1. Init => Served
  BY DEF Init, Served
<1>2. SoleInv /\ Served => FollowsRequests
  <2> SUFFICES ASSUME SoleInv, Served, NEW h \in Helpers, OnlyChild(h),
                      ~wanted[h], NEW pid \in Pids, program[pid] = h,
                      proc[pid] = "running"
               PROVE  FALSE
    BY DEF FollowsRequests, Served, Running
  <2>1. pid = helper_pid[h] /\ pid # NoPid
    BY PidAssumption DEF SoleInv, Sole, Child
  <2>2. killed[h]
    BY <2>1 DEF SoleInv, HInv, MarkIsCurrent
  <2> QED BY <2>1, <2>2 DEF SoleInv, HInv, MarkIsCurrent
<1>3. Spec => []Served
  BY <1>1, ServedNext, HelperInvariant, PTL DEF Spec
<1> QED BY <1>2, <1>3, OnlyChildInvariant, PTL
=============================================================================
