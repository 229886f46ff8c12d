------------------------------ MODULE Autodim ------------------------------
(***************************************************************************)
(* Auto-dimming (backend/autodim.c), switched on and off by the clients    *)
(* (enable_autodim(), disable_autodim() in main.c), driven by its timer,   *)
(* by input events, by changes of the AC state, and suspended while the    *)
(* slide switch of the N810 locks the device (devicelock_n810.c).  It sets *)
(* the brightness through the operations of Backlight.                     *)
(*                                                                         *)
(* Every handler and callback runs with the signals blocked: one step,     *)
(* except that unlocking sets the brightness twice and takes a second step *)
(* (pc = "resume"), before which nothing else runs.                        *)
(***************************************************************************)
EXTENDS Backlight, Sequences

CONSTANTS
  Steps,        (* autodim_steps after optimizing: records second, percent  *)
  MaxPercents,  (* max_percent in requests PTREQ_BL_AUTODIM                 *)
  ACFlags,      (* PT_AUTODIM_FLG_ENABLE_AC in these requests               *)
  ACStates,     (* what on_ac() of the battery returns: among -1, 0, 1      *)
  Lockable,     (* is there a slide switch?                                 *)
  Late,         (* bound: a timer is served this late at most (SleepTimer)  *)
  MaxIdle       (* bound: the idle time is counted up to here               *)

NrSteps == Len(Steps)

ASSUME StepsAssumption ==
  /\ Steps \in Seq([second : Nat, percent : 0..100])
  /\ NrSteps > 0
  /\ \A i, j \in 1..NrSteps : i < j => Steps[i].second < Steps[j].second
ASSUME AutodimAssumption ==
  /\ MaxPercents \subseteq Int /\ ACFlags \subseteq BOOLEAN
  /\ ACStates \subseteq -1..1 /\ Lockable \in BOOLEAN
  /\ Late \in Nat
  /\ MaxIdle \in Nat /\ Steps[NrSteps].second <= MaxIdle
(* The slide switch is the N810's, and so is the panel of omapfb.          *)
ASSUME LockableAssumption ==
  Lockable => Drivers = {"omapfb"}

VARIABLES
  enabled,        (* is backend.autodim allocated?  struct autodim:         *)
  suspended,
  state,
  bl_percent,
  max_percent,
  queued, left,   (* timer: is it queued, time to its deadline              *)
  enabled_on_ac,  (* struct backlight: autodim_enabled_on_ac                *)
  on_ac,          (* on_ac() of the battery                                 *)
  slide,          (* is the slide switch closed?                            *)
  switch_state,   (* struct devicelock_n810: switch_state                   *)
  input_off,      (* touchscreen and keyboard: disable files                *)
  idle,           (* time since the last input, or since autodim was        *)
                  (* enabled, its maximum changed or the device unlocked    *)
  held_off,       (* history: did AC power hold off a step since then?      *)
  pc              (* "idle", or "resume" in the middle of unlocking         *)

dimVars == <<suspended, state, bl_percent, max_percent, queued, left, held_off>>
lockVars == <<slide, switch_state, input_off>>
vars == <<blVars, enabled, dimVars, enabled_on_ac, on_ac, lockVars, idle, pc>>

Min2(x, y) == IF x < y THEN x ELSE y

-----------------------------------------------------------------------------
(* Mutant of Delay: the seconds of a step are counted from the step before.*)
DelayAbsolute(st) == Steps[st + 1].second

(* autodim_timer_start(): nothing is left to do after the last step.       *)
Delay(st) ==
  IF st = 0 THEN Steps[1].second
            ELSE Steps[st + 1].second - Steps[st].second

TimerStart(st) ==
  IF st < NrSteps THEN queued' = TRUE /\ left' = Delay(st)
                  ELSE UNCHANGED <<queued, left>>

(* Mutant of Target: AC power is ignored.                                  *)
TargetAnyAC(percent, max, ac, onAC) == Min2(percent, max)

(***************************************************************************)
(* autodim_set_backlight(), where old is what was set before: no dimming   *)
(* on AC unless asked for (an unknown AC state, -1, counts as AC), and     *)
(* never above the maximum.                                                *)
(***************************************************************************)
HeldOff(ac, onAC) == ac # 0 /\ ~onAC

Target(percent, max, ac, onAC) ==
  Min2(IF HeldOff(ac, onAC) THEN max ELSE percent, max)

(* Mutant of SetBacklight: compares before the target is computed.         *)
SetBacklightEarly(percent, max, ac, onAC, old) ==
  LET target == Target(percent, max, ac, onAC) IN
  /\ bl_percent' = target
  /\ IF percent # old THEN SetPercentage(target) ELSE UNCHANGED blVars

SetBacklight(percent, max, ac, onAC, old) ==
  LET target == Target(percent, max, ac, onAC) IN
  /\ bl_percent' = target
  /\ IF target # old THEN SetPercentage(target) ELSE UNCHANGED blVars

(* Mutant of HandleInput: the timer is not started again.                  *)
HandleInputOldTimer(max, onAC, old) ==
  /\ state' = 0
  /\ held_off' = FALSE
  /\ UNCHANGED <<queued, left>>
  /\ SetBacklight(max, max, on_ac, onAC, old)

(* autodim_handle_input_event()                                            *)
HandleInput(max, onAC, old) ==
  /\ state' = 0
  /\ held_off' = FALSE
  /\ TimerStart(0)
  /\ SetBacklight(max, max, on_ac, onAC, old)

AutodimInit ==
  /\ BacklightInit
  /\ enabled = FALSE
  /\ suspended = 0 /\ state = 0 /\ bl_percent = 0 /\ max_percent = 0
  /\ queued = FALSE /\ left = 0 /\ held_off = FALSE
  /\ enabled_on_ac = FALSE
  /\ on_ac \in ACStates
  /\ slide = FALSE /\ switch_state = FALSE /\ input_off = FALSE
  /\ idle = 0
  /\ pc = "idle"

Ready == running /\ pc = "idle"

-----------------------------------------------------------------------------
(***************************************************************************)
(* enable_autodim(): autodim_init() starts from the present brightness;    *)
(* autodim_set_max_percent() acts if the maximum changes.                  *)
(***************************************************************************)
RequestedMax(max) == IF max < 0 THEN 100 ELSE Clamp(max, 0, 100)

EnableAutodim(request, onAC) ==
  LET max     == RequestedMax(request)
      current == IF enabled THEN max_percent ELSE ToPercent(brightness)
  IN
  /\ Ready
  /\ enabled' = TRUE
  /\ enabled_on_ac' = onAC
  /\ suspended' = IF enabled THEN suspended ELSE 0
  /\ max_percent' = max
  /\ IF max # current
       THEN HandleInput(max, onAC, IF enabled THEN bl_percent ELSE current)
       ELSE /\ UNCHANGED blVars
            /\ IF enabled
                 THEN UNCHANGED <<state, bl_percent, queued, left, held_off>>
                 ELSE /\ state' = 0 /\ bl_percent' = max /\ TimerStart(0)
                      /\ held_off' = FALSE
  /\ idle' = IF enabled /\ max = current THEN idle ELSE 0
  /\ UNCHANGED <<on_ac, lockVars, pc>>

(* autodim_init() fails: the flag has been set already.                    *)
EnableFails(onAC) ==
  /\ Ready
  /\ ~enabled
  /\ enabled_on_ac' = onAC
  /\ UNCHANGED <<blVars, enabled, dimVars, on_ac, lockVars, idle, pc>>

(* disable_autodim(): the brightness stays as it is.                       *)
DisableAutodim ==
  /\ Ready
  /\ enabled
  /\ enabled' = FALSE
  /\ suspended' = 0 /\ state' = 0 /\ bl_percent' = 0 /\ max_percent' = 0
  /\ queued' = FALSE /\ left' = 0 /\ held_off' = FALSE
  /\ enabled_on_ac' = FALSE
  /\ UNCHANGED <<blVars, on_ac, lockVars, idle, pc>>

(* SIGUSR1: signal_input_event_1(), also while suspended.                  *)
InputEvent ==
  /\ Ready
  /\ enabled
  /\ HandleInput(max_percent, enabled_on_ac, bl_percent)
  /\ idle' = 0
  /\ UNCHANGED <<enabled, suspended, max_percent, enabled_on_ac, on_ac,
                 lockVars, pc>>

(* autodim_timer_callback(): autodim_handle_state(), then the next delay.  *)
TimerCallback ==
  /\ Ready
  /\ queued /\ left <= 0
  /\ state' = state + 1
  /\ SetBacklight(Steps[state'].percent, max_percent, on_ac, enabled_on_ac,
                  bl_percent)
  /\ IF state' < NrSteps THEN TimerStart(state')
                         ELSE queued' = FALSE /\ left' = 0
  /\ held_off' = (held_off \/ HeldOff(on_ac, enabled_on_ac))
  /\ UNCHANGED <<enabled, suspended, max_percent, enabled_on_ac, on_ac,
                 lockVars, idle, pc>>

(* battery_notify_state_change() calls autodim_handle_battery_event().     *)
BatteryEvent(ac) ==
  /\ Ready
  /\ on_ac' = ac
  /\ IF enabled
       THEN SetBacklight(bl_percent, max_percent, ac, enabled_on_ac, bl_percent)
       ELSE UNCHANGED <<blVars, bl_percent>>
  /\ held_off' = (held_off \/ (HeldOff(ac, enabled_on_ac) /\ state > 0))
  /\ UNCHANGED <<enabled, suspended, state, max_percent, queued, left,
                 enabled_on_ac, lockVars, idle, pc>>

(* Mutants of Suspend: every one stops the timer; only the first counts.   *)
SuspendStops ==
  IF ~enabled
    THEN UNCHANGED dimVars
    ELSE /\ suspended' = suspended + 1
         /\ queued' = FALSE /\ left' = 0
         /\ UNCHANGED <<state, bl_percent, max_percent, held_off>>

SuspendOnce ==
  IF ~enabled \/ suspended # 0
    THEN UNCHANGED dimVars
    ELSE /\ suspended' = 1
         /\ queued' = FALSE /\ left' = 0
         /\ UNCHANGED <<state, bl_percent, max_percent, held_off>>

(* autodim_suspend(): only the first one stops the timer.                  *)
Suspend ==
  IF ~enabled
    THEN UNCHANGED dimVars
    ELSE /\ suspended' = suspended + 1
         /\ IF suspended = 0 THEN queued' = FALSE /\ left' = 0
                             ELSE UNCHANGED <<queued, left>>
         /\ UNCHANGED <<state, bl_percent, max_percent, held_off>>

(***************************************************************************)
(* SIGUSR2: devicelock_n810_event() and devicelock_n810_toggle().  Closing *)
(* the switch toggles the lock.                                            *)
(***************************************************************************)
DevicelockEvent ==
  /\ Ready
  /\ Lockable
  /\ slide # switch_state
  /\ switch_state' = slide
  /\ IF slide
       THEN /\ ScreenLock(~locked)
            /\ input_off' \in {~locked} \cup IF WriteMayFail THEN {input_off} ELSE {}
            /\ IF locked THEN pc' = "resume" /\ UNCHANGED dimVars
                         ELSE Suspend /\ UNCHANGED pc
       ELSE UNCHANGED <<blVars, input_off, dimVars, pc>>
  /\ UNCHANGED <<enabled, enabled_on_ac, on_ac, slide, idle>>

(* Mutant of Resume: the counter runs without an autodim, too.             *)
ResumeAlways ==
  /\ running /\ pc = "resume"
  /\ pc' = "idle"
  /\ suspended' = suspended - 1
  /\ IF enabled /\ suspended' = 0
       THEN HandleInput(max_percent, enabled_on_ac, bl_percent) /\ idle' = 0
       ELSE UNCHANGED <<blVars, state, bl_percent, queued, left, held_off, idle>>
  /\ UNCHANGED <<enabled, max_percent, enabled_on_ac, on_ac, lockVars>>

(* ... and its end when it unlocks: autodim_resume().                      *)
Resume ==
  /\ running /\ pc = "resume"
  /\ pc' = "idle"
  /\ suspended' = IF enabled THEN suspended - 1 ELSE suspended
  /\ IF enabled /\ suspended' = 0
       THEN HandleInput(max_percent, enabled_on_ac, bl_percent) /\ idle' = 0
       ELSE UNCHANGED <<blVars, state, bl_percent, queued, left, held_off, idle>>
  /\ UNCHANGED <<enabled, max_percent, enabled_on_ac, on_ac, lockVars>>

MoveSlide ==
  /\ Lockable
  /\ slide' = ~slide
  /\ UNCHANGED <<blVars, enabled, dimVars, enabled_on_ac, on_ac, switch_state,
                 input_off, idle, pc>>

(* PTREQ_BL_SETBRIGHTNESS                                                  *)
ClientRequest(value) ==
  /\ Ready
  /\ ClientSetBrightness(value)
  /\ UNCHANGED <<enabled, dimVars, enabled_on_ac, on_ac, lockVars, idle, pc>>

(* shutdown_cleanup(); the input devices stay as they are.                 *)
Shutdown ==
  /\ Ready
  /\ BacklightDestroy
  /\ enabled' = FALSE
  /\ suspended' = 0 /\ state' = 0 /\ bl_percent' = 0 /\ max_percent' = 0
  /\ queued' = FALSE /\ left' = 0 /\ held_off' = FALSE
  /\ UNCHANGED <<enabled_on_ac, on_ac, lockVars, idle, pc>>

(* Time passes; the main loop serves a timer at most Late after it is due. *)
Tick ==
  /\ Ready
  /\ queued => left > -Late
  /\ left' = IF queued THEN left - 1 ELSE left
  /\ idle' = Min2(idle + 1, MaxIdle)
  /\ UNCHANGED <<blVars, enabled, suspended, state, bl_percent, max_percent,
                 queued, held_off, enabled_on_ac, on_ac, lockVars, pc>>

Next ==
  \/ \E onAC \in ACFlags :
       EnableFails(onAC) \/ \E max \in MaxPercents : EnableAutodim(max, onAC)
  \/ DisableAutodim
  \/ InputEvent
  \/ TimerCallback
  \/ \E ac \in ACStates : BatteryEvent(ac)
  \/ DevicelockEvent \/ Resume \/ MoveSlide
  \/ \E value \in ClientLevels : ClientRequest(value)
  \/ Shutdown
  \/ Tick

(* The main loop serves the timer and time passes; nothing is promised     *)
(* about signals, requests and the hardware.                               *)
Spec ==
  AutodimInit /\ [][Next]_vars
    /\ WF_vars(Tick) /\ WF_vars(TimerCallback) /\ WF_vars(Resume)
-----------------------------------------------------------------------------
AutodimTypeOK ==
  /\ BacklightTypeOK
  /\ enabled \in BOOLEAN
  /\ suspended \in -1..1
  /\ state \in 0..NrSteps
  /\ bl_percent \in 0..100 /\ max_percent \in 0..100
  /\ queued \in BOOLEAN /\ left \in Int /\ held_off \in BOOLEAN
  /\ enabled_on_ac \in BOOLEAN /\ on_ac \in -1..1
  /\ slide \in BOOLEAN /\ switch_state \in BOOLEAN /\ input_off \in BOOLEAN
  /\ idle \in 0..MaxIdle
  /\ pc \in {"idle", "resume"}

(* The brightness step i asks for.                                         *)
StepPercent(i) == Min2(Steps[i].percent, max_percent)

(***************************************************************************)
(* The screen is not dimmed further than the configuration allows for the  *)
(* time without input: no sequence of input, AC changes, requests, locking *)
(* and unlocking makes a step come early.                                  *)
(***************************************************************************)
DimJustified ==
  enabled =>
    \/ bl_percent = max_percent
    \/ \E i \in 1..NrSteps :
         Steps[i].second <= idle /\ bl_percent = StepPercent(i)

(***************************************************************************)
(* After autodim_steps' idle-seconds the screen is dimmed to brightness-   *)
(* percent, or to that of a later step: at most as late as the timer       *)
(* services before it added up, unless dimming is suspended or was held    *)
(* off by AC power.                                                        *)
(***************************************************************************)
MayDim == enabled /\ suspended <= 0 /\ ~HeldOff(on_ac, enabled_on_ac)

DimInTime ==
  MayDim /\ ~held_off =>
    \A i \in 1..NrSteps : idle > Steps[i].second + i * Late =>
      \E j \in i..NrSteps : bl_percent = StepPercent(j)

(* Without input the screen ends at the brightness of the last step.       *)
(* Unplugging after the last step breaks it: nothing dims then.            *)
DimsAtLast ==
  <>[](MayDim /\ idle = MaxIdle) => <>[](bl_percent = StepPercent(NrSteps))

(***************************************************************************)
(* Without the flag "auto dimming enable on AC" nothing is dimmed on AC,   *)
(* and plugging in brightens the screen.  (Clearing the flag on AC does    *)
(* not.)                                                                   *)
(***************************************************************************)
OnACBright ==
  [][enabled' /\ HeldOff(on_ac', enabled_on_ac')
       /\ (on_ac' # on_ac \/ bl_percent' # bl_percent)
         => bl_percent' = max_percent']_vars

(***************************************************************************)
(* As long as autodim only uses the backlight, the device shows what       *)
(* autodim believes to have set, also after it was enabled on a screen     *)
(* that was dimmed before.                                                 *)
(***************************************************************************)
BrightnessApplied ==
  running /\ enabled /\ disturbed = {} => brightness = ToLevel(bl_percent)

(***************************************************************************)
(* Dimming does not get stuck: with steps left, and unless suspended, the  *)
(* timer is armed, whatever was suspended, resumed, disabled and enabled   *)
(* before.                                                                 *)
(***************************************************************************)
TimerArmed ==
  enabled /\ suspended < 1 /\ state < NrSteps => queued

(***************************************************************************)
(* The suspend counter moves with the lock, whatever its offset: autodim   *)
(* may have been enabled while the device was locked (then it starts at    *)
(* one less), but the offset never drifts.                                 *)
(***************************************************************************)
Held(lock, at) == IF lock \/ at = "resume" THEN 1 ELSE 0

SuspendedFollowsLock ==
  [][enabled /\ enabled' =>
       suspended' - suspended = Held(locked', pc') - Held(locked, pc)]_vars
=============================================================================
