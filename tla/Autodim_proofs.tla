--------------------------- MODULE Autodim_proofs ---------------------------
(***************************************************************************)
(* Proofs about Autodim, for every list of steps that grows, every device, *)
(* every maximum and every lateness of the timers: the screen is dimmed    *)
(* neither too early nor too late, never on AC, and never gets stuck,      *)
(* whatever is locked, requested, plugged in or typed in between.          *)
(*                                                                         *)
(* First the proofs about Backlight, for every device, every configuration *)
(* and every request: its types and the invariants of its run.             *)
(***************************************************************************)
EXTENDS Autodim, SequenceTheorems, TLAPS

-----------------------------------------------------------------------------
(***************************************************************************)
(* The inductive invariant: the properties themselves, and two facts they  *)
(* rest on.  Only the N810's panel can be locked, and only a framebuffer   *)
(* can be blanked.                                                         *)
(***************************************************************************)
OnlyPanelLocks == locked => driver = "omapfb"

OnlyFramebufferBlanks == fb_blanked => Framebuffer

BInv ==
  /\ BacklightTypeOK
  /\ AnnouncedCurrent
  /\ DeviceFollows
  /\ ScreenMatchesLock
  /\ VisibleAtExit
  /\ OnlyPanelLocks
  /\ OnlyFramebufferBlanks

(* A percentage of the device's range is in its range.                     *)
LEMMA LevelInRange == ASSUME NEW percent \in 0..100
                      PROVE  ToLevel(percent) \in Levels
<1>1. MaxBrightness \in Nat
  BY BacklightAssumption
<1>2. MaxBrightness * percent \in Nat /\ MaxBrightness * percent <= MaxBrightness * 100
  BY <1>1, SMT
<1>3. ASSUME NEW x \in Nat, x <= MaxBrightness * 100
      PROVE  (x + 50) \div 100 \in 0..MaxBrightness
  BY <1>1, <1>3, SMT
<1>. QED
  BY <1>2, <1>3 DEF ToLevel, DivRound, Levels

(* Clamping to the device's range.                                         *)
LEMMA ClampInRange == ASSUME NEW value \in Int
                      PROVE  Clamp(value, 0, MaxBrightness) \in Levels
  BY BacklightAssumption DEF Clamp, Levels

LEMMA ClampLevel == ASSUME NEW level \in Levels
                    PROVE  Clamp(level, 0, MaxBrightness) = level
  BY BacklightAssumption DEF Clamp, Levels

(***************************************************************************)
(* The quotient is the one number whose multiples enclose the dividend.    *)
(***************************************************************************)
LEMMA Quotient ==
  ASSUME NEW d \in Nat \ {0}, NEW q \in Int, NEW x \in Int,
         d * q <= x, x < d * q + d
  PROVE  x \div d = q
<1>. DEFINE r == x \div d
<1>1. r \in Int /\ d * r <= x /\ x < d * r + d
  BY SMT
<1>2. ~(r + 1 <= q)
  <2>. SUFFICES ASSUME r + 1 <= q PROVE FALSE
    OBVIOUS
  <2>1. d * (r + 1) <= d * q /\ d * (r + 1) = d * r + d
    BY <1>1, SMT
  <2>. QED BY <1>1, <2>1
<1>3. ~(q + 1 <= r)
  <2>. SUFFICES ASSUME q + 1 <= r PROVE FALSE
    OBVIOUS
  <2>1. d * (q + 1) <= d * r /\ d * (q + 1) = d * q + d
    BY <1>1, SMT
  <2>. QED BY <1>1, <2>1
<1>. QED BY <1>1, <1>2, <1>3

(***************************************************************************)
(* Reading a percentage back loses nothing, on a device of any number of   *)
(* levels: the percentage of a level that was set from a percentage gives  *)
(* this level again.  (With more than 100 levels other levels do not       *)
(* return.)  autodim_init() starts from backlight_get_percentage().        *)
(***************************************************************************)
THEOREM RoundTrip == ASSUME NEW percent \in 0..100
                     PROVE  ToLevel(ToPercent(ToLevel(percent))) = ToLevel(percent)
<1>. DEFINE M == MaxBrightness
            L == ToLevel(percent)
            x == L * 100 + M \div 2
            P == x \div M
<1>1. M \in Nat \ {0} /\ L \in 0..M
  BY LevelInRange, BacklightAssumption DEF Levels
<1>2. M * percent \in Nat /\ M * percent <= M * 100
  BY <1>1, SMT
<1>3. M * percent - 50 < 100 * L /\ 100 * L <= M * percent + 50
  <2>1. ASSUME NEW a \in Nat
        PROVE  a - 50 < 100 * ((a + 50) \div 100) /\ 100 * ((a + 50) \div 100) <= a + 50
    BY SMT
  <2>. QED
    BY <1>2, <2>1 DEF ToLevel, DivRound
<1>4. /\ M \div 2 \in Nat /\ 2 * (M \div 2) <= M /\ M <= 2 * (M \div 2) + 1
      /\ x \in Int
  BY <1>1, SMT
<1>5. P \in Int /\ M * P <= x /\ x < M * P + M
  BY <1>1, <1>4, SMT
<1>6. 0 <= P /\ P <= 100
  <2>1. M * (P + 1) = M * P + M /\ (P + 1 <= 0 => M * (P + 1) <= 0)
    BY <1>1, <1>5, SMT
  <2>2. P >= 101 => M * P >= M * 101
    BY <1>1, <1>5, SMT
  <2>. QED
    BY <1>1, <1>4, <1>5, <2>1, <2>2, SMT
<1>7. ToPercent(L) = P
  BY <1>5, <1>6 DEF ToPercent, DivRound, Clamp
<1>8. CASE M <= 100
  <2>1. M * P \in Int /\ M * P - 100 * L <= 50 /\ 100 * L - M * P <= 50
    BY <1>1, <1>4, <1>5, <1>8, SMT
  <2>2. M = 100 => P = L
    <3>. SUFFICES ASSUME M = 100 PROVE P = L
      OBVIOUS
    <3>1. 100 * P <= L * 100 + 50 /\ L * 100 + 50 < 100 * P + 100
      BY <1>1, <1>4, <1>5, SMT
    <3>. QED
      BY <1>1, <1>5, <3>1, SMT
  <2>3. 100 * L <= M * P + 50 /\ M * P + 50 < 100 * L + 100
    BY <1>1, <1>4, <1>5, <1>8, <2>1, <2>2, SMT
  <2>4. (M * P + 50) \div 100 = L
    <3>. HIDE DEF M, L, P
    <3>1. M * P + 50 \in Int /\ 100 \in Nat \ {0} /\ L \in Int
      BY <1>1, <2>1
    <3>. QED
      BY <2>3, <3>1, Quotient, Zenon
  <2>. QED
    BY <1>7, <2>4 DEF ToLevel, DivRound
<1>9. CASE M > 100
  <2>1. M * percent <= x /\ x < M * percent + M
    BY <1>1, <1>2, <1>3, <1>4, <1>9, SMT
  <2>2. P = percent
    <3>. HIDE DEF M, L, x
    <3>1. percent \in Int
      OBVIOUS
    <3>. QED
      BY <1>1, <1>4, <2>1, <3>1, Quotient, Zenon
  <2>. QED
    BY <1>7, <2>2
<1>. QED
  BY <1>1, <1>8, <1>9

LEMMA InitInvariant == BacklightInit => BInv
<1>. SUFFICES ASSUME BacklightInit PROVE BInv
  OBVIOUS
<1>1. PICK level \in LeftLevels, percent \in Percents, ok \in BOOLEAN :
        BacklightStart(level, percent, ok)
  BY DEF BacklightInit
<1>2. ToLevel(percent) \in Levels /\ level \in Levels
  BY LevelInRange, BacklightAssumption DEF LeftLevels, Levels
<1>. QED
  BY <1>1, <1>2, BacklightAssumption
     DEF BacklightInit, BacklightStart, BInv, BacklightTypeOK, AnnouncedCurrent,
         DeviceFollows, ScreenMatchesLock, VisibleAtExit, OnlyPanelLocks,
         OnlyFramebufferBlanks

-----------------------------------------------------------------------------
(***************************************************************************)
(* What writing a brightness does, in either driver, with the clients told *)
(* or not: the facts the operations need of it.                            *)
(***************************************************************************)
LEMMA WritingBrightness ==
  ASSUME BInv, running, NEW value \in Int, NEW ok \in BOOLEAN, NEW tell \in BOOLEAN,
         tell => ok,
         SetBrightness(value, ok, tell)
  PROVE  /\ hw' \in Levels /\ brightness' \in Levels
         /\ announced' = brightness'
         /\ ok => brightness' = Clamp(value, 0, MaxBrightness)
         /\ (ok \/ driver = "class") /\ hw = (IF locked THEN 0 ELSE brightness)
              => hw' = IF locked THEN 0 ELSE brightness'
<1>. DEFINE level == Clamp(value, 0, MaxBrightness)
<1>1. level \in Levels /\ 0 \in Levels
  BY ClampInRange, BacklightAssumption DEF Levels
<1>2. ok \/ level # brightness
  BY DEF SetBrightness
<1>3. CASE driver = "class"
  BY <1>1, <1>2, <1>3
     DEF SetBrightness, ClassSetBrightness, Notifies, BInv, BacklightTypeOK,
         AnnouncedCurrent, OnlyPanelLocks
<1>4. CASE driver = "omapfb"
  BY <1>1, <1>2, <1>4
     DEF SetBrightness, OmapfbSetBrightness, OmapfbWrite, Notifies, BInv,
         BacklightTypeOK, AnnouncedCurrent
<1>. QED
  BY <1>3, <1>4, BacklightAssumption DEF BInv, BacklightTypeOK

(* backlight_set_percentage() keeps the invariant.                         *)
LEMMA SetPercentageKeeps ==
  ASSUME BInv, NEW percent \in 0..100, SetPercentage(percent)
  PROVE  BInv'
<1>1. PICK ok \in BOOLEAN :
        /\ running
        /\ SetBrightness(ToLevel(percent), ok, ok)
        /\ disturbed' = Wrote(ok)
        /\ UNCHANGED <<running, driver, locked>>
        /\ IF ok THEN UpdateScreenBlanking ELSE UNCHANGED <<fb_blanked, blocked>>
  BY DEF SetPercentage
<1>2. ToLevel(percent) \in Levels /\ ToLevel(percent) \in Int
  BY LevelInRange, BacklightAssumption DEF Levels
<1>3. /\ hw' \in Levels /\ brightness' \in Levels
      /\ announced' = brightness'
      /\ ok => brightness' = ToLevel(percent)
      /\ (ok \/ driver = "class") /\ hw = (IF locked THEN 0 ELSE brightness)
           => hw' = IF locked THEN 0 ELSE brightness'
  BY <1>1, <1>2, WritingBrightness, ClampLevel
<1>4. BacklightTypeOK' /\ OnlyPanelLocks' /\ OnlyFramebufferBlanks'
  BY <1>1, <1>3
     DEF BInv, BacklightTypeOK, OnlyPanelLocks, OnlyFramebufferBlanks, Wrote,
         UpdateScreenBlanking
<1>5. AnnouncedCurrent' /\ VisibleAtExit'
  BY <1>1, <1>3 DEF AnnouncedCurrent, VisibleAtExit
<1>6. DeviceFollows'
  BY <1>1, <1>3, BacklightAssumption DEF BInv, BacklightTypeOK, DeviceFollows, Wrote
<1>7. ScreenMatchesLock'
  <2>. SUFFICES ASSUME "write" \notin disturbed'
                PROVE  /\ locked' => hw' = 0 /\ blocked' /\ (Framebuffer => fb_blanked')
                       /\ fb_blanked' /\ "client" \notin disturbed'
                            => locked' \/ brightness' = 0
    BY DEF ScreenMatchesLock
  <2>1. ok /\ disturbed' = disturbed
    BY <1>1 DEF Wrote
  <2>2. locked => hw = 0 /\ hw = (IF locked THEN 0 ELSE brightness)
    BY <2>1 DEF BInv, ScreenMatchesLock
  <2>. QED
    BY <1>1, <1>3, <2>1, <2>2 DEF UpdateScreenBlanking, BInv, OnlyFramebufferBlanks
<1>. QED
  BY <1>4, <1>5, <1>6, <1>7 DEF BInv

(* While nothing fails, the level of the percentage is set.                *)
LEMMA SetPercentageSets ==
  ASSUME BInv, NEW percent \in 0..100, SetPercentage(percent)
  PROVE  /\ running /\ UNCHANGED <<running, driver, locked>>
         /\ disturbed' = {} => disturbed = {} /\ brightness' = ToLevel(percent)
<1>1. PICK ok \in BOOLEAN :
        /\ running
        /\ SetBrightness(ToLevel(percent), ok, ok)
        /\ disturbed' = Wrote(ok)
        /\ UNCHANGED <<running, driver, locked>>
  BY DEF SetPercentage
<1>2. ToLevel(percent) \in Levels /\ ToLevel(percent) \in Int
  BY LevelInRange, BacklightAssumption DEF Levels
<1>3. ok => brightness' = ToLevel(percent)
  BY <1>1, <1>2, WritingBrightness, ClampLevel
<1>4. disturbed' = {} => ok /\ disturbed = {}
  BY <1>1 DEF Wrote
<1>. QED
  BY <1>1, <1>3, <1>4

(* So do locking and unlocking the panel,                                  *)
LEMMA ScreenLockKeeps ==
  ASSUME BInv, driver = "omapfb", NEW lock \in BOOLEAN, ScreenLock(lock)
  PROVE  BInv'
<1>1. PICK ok \in BOOLEAN :
        /\ running
        /\ ok \/ (WriteMayFail /\ lock # locked)
        /\ disturbed' = Wrote(ok)
        /\ UNCHANGED <<running, driver, brightness>>
        /\ locked' = lock
        /\ IF lock = locked THEN UNCHANGED hw ELSE OmapfbWrite(lock, brightness, ok)
        /\ announced' = IF ok /\ lock # locked THEN brightness ELSE announced
        /\ IF ok THEN UpdateScreenBlanking ELSE UNCHANGED <<fb_blanked, blocked>>
  BY DEF ScreenLock
<1>2. 0 \in Levels
  BY BacklightAssumption DEF Levels
<1>3. ok /\ hw = (IF locked THEN 0 ELSE brightness)
        => hw' = IF locked' THEN 0 ELSE brightness'
  BY <1>1 DEF OmapfbWrite
<1>4. BacklightTypeOK' /\ OnlyPanelLocks' /\ OnlyFramebufferBlanks'
  BY <1>1, <1>2
     DEF BInv, BacklightTypeOK, OnlyPanelLocks, OnlyFramebufferBlanks, Wrote,
         UpdateScreenBlanking, OmapfbWrite
<1>5. AnnouncedCurrent' /\ VisibleAtExit'
  BY <1>1 DEF BInv, AnnouncedCurrent, VisibleAtExit
<1>6. DeviceFollows'
  BY <1>1, <1>3 DEF BInv, DeviceFollows, Wrote
<1>7. ScreenMatchesLock'
  <2>. SUFFICES ASSUME "write" \notin disturbed'
                PROVE  /\ locked' => hw' = 0 /\ blocked' /\ (Framebuffer => fb_blanked')
                       /\ fb_blanked' /\ "client" \notin disturbed'
                            => locked' \/ brightness' = 0
    BY DEF ScreenMatchesLock
  <2>1. ok /\ disturbed' = disturbed
    BY <1>1 DEF Wrote
  <2>2. locked => hw = 0
    BY <2>1 DEF BInv, ScreenMatchesLock
  <2>. QED
    BY <1>1, <2>1, <2>2
       DEF UpdateScreenBlanking, OmapfbWrite, BInv, OnlyFramebufferBlanks
<1>. QED
  BY <1>4, <1>5, <1>6, <1>7 DEF BInv

(* a client's request, which does not look at the blanking,                *)
LEMMA ClientSetBrightnessKeeps ==
  ASSUME BInv, NEW value \in Int, ClientSetBrightness(value)
  PROVE  BInv'
<1>1. PICK ok \in BOOLEAN :
        /\ running
        /\ SetBrightness(value, ok, FALSE)
        /\ disturbed' = Wrote(ok) \cup {"client"}
        /\ UNCHANGED <<running, driver, locked, fb_blanked, blocked>>
  BY DEF ClientSetBrightness
<1>2. /\ hw' \in Levels /\ brightness' \in Levels
      /\ announced' = brightness'
      /\ (ok \/ driver = "class") /\ hw = (IF locked THEN 0 ELSE brightness)
           => hw' = IF locked THEN 0 ELSE brightness'
  BY <1>1, WritingBrightness
<1>3. /\ BacklightTypeOK' /\ OnlyPanelLocks' /\ OnlyFramebufferBlanks'
      /\ AnnouncedCurrent' /\ VisibleAtExit'
  BY <1>1, <1>2
     DEF BInv, BacklightTypeOK, OnlyPanelLocks, OnlyFramebufferBlanks, Wrote,
         AnnouncedCurrent, VisibleAtExit
<1>4. DeviceFollows'
  BY <1>1, <1>2, BacklightAssumption DEF BInv, BacklightTypeOK, DeviceFollows, Wrote
<1>5. ScreenMatchesLock'
  BY <1>1, <1>2 DEF BInv, ScreenMatchesLock, Wrote
<1>. QED
  BY <1>3, <1>4, <1>5 DEF BInv

(* the poll of the class device, which sets what the copy holds already,   *)
LEMMA PollDeviceKeeps ==
  ASSUME BInv, PollDevice
  PROVE  BInv'
<1>1. PICK ok \in BOOLEAN :
        /\ SetBrightness(brightness, ok, FALSE)
        /\ disturbed' = Wrote(ok)
  BY DEF PollDevice
<1>2. /\ running /\ driver = "class" /\ brightness \in Levels
      /\ UNCHANGED <<running, driver, locked, fb_blanked, blocked>>
  BY DEF PollDevice, BInv, BacklightTypeOK
<1>3. ok /\ UNCHANGED <<hw, brightness, announced, disturbed>>
  BY <1>1, <1>2, ClampLevel
     DEF SetBrightness, ClassSetBrightness, Notifies, Wrote
<1>. QED
  BY <1>2, <1>3
     DEF BInv, BacklightTypeOK, AnnouncedCurrent, DeviceFollows, ScreenMatchesLock,
         VisibleAtExit, OnlyPanelLocks, OnlyFramebufferBlanks

(* the firmware,                                                           *)
LEMMA FirmwareKeeps ==
  ASSUME BInv, NEW level \in FirmwareLevels, Firmware(level)
  PROVE  BInv'
  BY BacklightAssumption
     DEF Firmware, Levels, BInv, BacklightTypeOK, AnnouncedCurrent, DeviceFollows,
         ScreenMatchesLock, VisibleAtExit, OnlyPanelLocks, OnlyFramebufferBlanks

(* and the end, which unlocks the panel before it sets shutdown_percent.   *)
LEMMA BacklightDestroyKeeps ==
  ASSUME BInv, BacklightDestroy
  PROVE  BInv'
<1>1. ToLevel(ShutdownPercent) \in Levels
  BY LevelInRange, BacklightAssumption
<1>2. BacklightTypeOK' /\ OnlyPanelLocks' /\ OnlyFramebufferBlanks'
  BY <1>1
     DEF BacklightDestroy, BInv, BacklightTypeOK, OnlyPanelLocks, OnlyFramebufferBlanks
<1>3. AnnouncedCurrent' /\ DeviceFollows' /\ ScreenMatchesLock'
  BY DEF BacklightDestroy, AnnouncedCurrent, DeviceFollows, ScreenMatchesLock
<1>4. VisibleAtExit'
  <2>1. ASSUME disturbed' \subseteq {"client"}
        PROVE  hw' = ToLevel(ShutdownPercent)
    <3>1. disturbed' = disturbed
      BY <2>1 DEF BacklightDestroy
    <3>2. hw = IF locked THEN 0 ELSE brightness
      BY <2>1, <3>1 DEF BacklightDestroy, BInv, DeviceFollows
    <3>. QED
      BY <2>1, <3>2 DEF BacklightDestroy
  <2>. QED
    BY <2>1 DEF BacklightDestroy, VisibleAtExit
<1>. QED
  BY <1>2, <1>3, <1>4 DEF BInv

LEMMA StutterKeeps == BInv /\ UNCHANGED blVars => BInv'
  BY DEF blVars, BInv, BacklightTypeOK, AnnouncedCurrent, DeviceFollows,
         ScreenMatchesLock, VisibleAtExit, OnlyPanelLocks, OnlyFramebufferBlanks

-----------------------------------------------------------------------------
(* The inductive invariant holds in every reachable state of a backlight   *)
(* of either driver, whatever the clients, the firmware and the writes do. *)
THEOREM BacklightInvariant == BacklightSpec => []BInv
<1>1. BInv /\ [BacklightNext]_blVars => BInv'
  <2>. SUFFICES ASSUME BInv, [BacklightNext]_blVars PROVE BInv'
    OBVIOUS
  <2>1. CASE \E percent \in Percents : SetPercentage(percent)
    BY <2>1, SetPercentageKeeps, BacklightAssumption
  <2>2. CASE driver = "omapfb" /\ \E lock \in BOOLEAN : ScreenLock(lock)
    BY <2>2, ScreenLockKeeps
  <2>3. CASE \E value \in ClientLevels : ClientSetBrightness(value)
    BY <2>3, ClientSetBrightnessKeeps, BacklightAssumption
  <2>4. CASE \E level \in FirmwareLevels : Firmware(level)
    BY <2>4, FirmwareKeeps
  <2>5. CASE PollDevice
    BY <2>5, PollDeviceKeeps
  <2>6. CASE BacklightDestroy
    BY <2>6, BacklightDestroyKeeps
  <2>7. CASE UNCHANGED blVars
    BY <2>7, StutterKeeps
  <2>. QED
    BY <2>1, <2>2, <2>3, <2>4, <2>5, <2>6, <2>7 DEF BacklightNext
<1>. QED
  BY <1>1, InitInvariant, PTL DEF BacklightSpec

(* The clients never hold a stale brightness, whichever write failed:      *)
(* backlight_notify_state_change() is called wherever the copy changes.    *)
THEOREM AnnouncedIsCurrent == BacklightSpec => []AnnouncedCurrent
  BY BacklightInvariant, PTL DEF BInv

(* The device shows what the driver holds, or is dark while it is locked.  *)
THEOREM DeviceIsFollowing == BacklightSpec => []DeviceFollows
  BY BacklightInvariant, PTL DEF BInv

(* A locked screen is dark, blanked and blocked, and no other is blanked   *)
(* unless it is dark.                                                      *)
THEOREM ScreenIsMatching == BacklightSpec => []ScreenMatchesLock
  BY BacklightInvariant, PTL DEF BInv

(* backlight_destroy() leaves a visible screen.                            *)
THEOREM ExitLeavesVisible == BacklightSpec => []VisibleAtExit
  BY BacklightInvariant, PTL DEF BInv

-----------------------------------------------------------------------------
(***************************************************************************)
(* What makes the properties inductive.  TimerState: an armed timer is for *)
(* the next step, and the idle time and the time left add up to the second *)
(* of that step, exceeded by no more than the lateness of the steps before *)
(* it (and not counted beyond MaxIdle).  StepShown: a step that was not    *)
(* held off is in force.  SuspendOffset: the counter is that of the lock,  *)
(* or one less for an autodim that was enabled while the device was        *)
(* locked.  FromPercent: undisturbed, the brightness comes from a          *)
(* percentage, so that it survives the round trip of autodim_init().       *)
(***************************************************************************)
TimerState ==
  queued =>
    /\ enabled /\ state < NrSteps /\ -Late <= left
    /\ idle + left <= Steps[state + 1].second + state * Late
    /\ idle = MaxIdle \/ Steps[state + 1].second <= idle + left

StepShown ==
  enabled /\ ~held_off /\ state > 0 => bl_percent = StepPercent(state)

Unlocking == pc = "resume" => ~locked

SuspendOffset ==
  enabled => suspended \in {Held(locked, pc) - 1, Held(locked, pc)}

FromPercent ==
  running /\ disturbed = {} => \E percent \in 0..100 : brightness = ToLevel(percent)

Shown ==
  BrightnessApplied /\ FromPercent

AInv ==
  /\ BInv
  /\ AutodimTypeOK
  /\ TimerArmed
  /\ TimerState
  /\ Unlocking /\ SuspendOffset
  /\ DimJustified /\ StepShown
  /\ Shown
-----------------------------------------------------------------------------
(* The steps: what the configuration says of each of them.                 *)
LEMMA StepTypes ==
  /\ NrSteps \in Nat \ {0}
  /\ \A i \in 1..NrSteps : Steps[i].second \in Nat /\ Steps[i].percent \in 0..100
  /\ \A i, j \in 1..NrSteps : i <= j => Steps[i].second <= Steps[j].second
<1>1. NrSteps \in Nat \ {0}
  BY StepsAssumption DEF NrSteps
<1>2. ASSUME NEW i \in 1..NrSteps
      PROVE  Steps[i].second \in Nat /\ Steps[i].percent \in 0..100
  <2>1. Steps[i] \in [second : Nat, percent : 0..100]
    <3>. DEFINE R == [second : Nat, percent : 0..100]
    <3>1. Steps \in Seq(R) /\ i \in 1..Len(Steps)
      BY StepsAssumption DEF NrSteps
    <3>2. Steps[i] \in R
      <4>. HIDE DEF R
      <4>. QED
        BY <3>1, ElementOfSeq
    <3>. QED
      BY <3>2
  <2>. QED
    BY <2>1
<1>3. ASSUME NEW i \in 1..NrSteps, NEW j \in 1..NrSteps, i <= j
      PROVE  Steps[i].second <= Steps[j].second
  BY <1>1, <1>2, <1>3, StepsAssumption
<1>. QED
  BY <1>1, <1>2, <1>3

LEMMA FirstTypes == 0 \in 0..NrSteps /\ 0 \in 0..MaxIdle /\ Steps[1].second \in Int
  BY StepTypes, AutodimAssumption

LEMMA MaxIdleLast == \A i \in 1..NrSteps : Steps[i].second <= MaxIdle
  BY StepTypes, AutodimAssumption

LEMMA MinPercent == ASSUME NEW x \in 0..100, NEW y \in 0..100
                    PROVE  Min2(x, y) \in 0..100 /\ Min2(x, y) <= y
  BY DEF Min2

(* What autodim_set_backlight() sets is a percentage below the maximum; on *)
(* AC, and if the maximum itself is asked for, it is the maximum.          *)
LEMMA TargetInRange ==
  ASSUME NEW percent \in 0..100, NEW max \in 0..100, NEW ac, NEW onAC
  PROVE  /\ Target(percent, max, ac, onAC) \in 0..100
         /\ HeldOff(ac, onAC) \/ percent = max => Target(percent, max, ac, onAC) = max
         /\ ~HeldOff(ac, onAC) => Target(percent, max, ac, onAC) = Min2(percent, max)
  BY DEF Target, Min2

(***************************************************************************)
(* autodim_set_backlight() keeps the backlight's invariant and leaves the  *)
(* lock alone; while nothing fails, the brightness is that of the target,  *)
(* or it was believed to be.                                               *)
(***************************************************************************)
LEMMA SetBacklightEffect ==
  ASSUME BInv, running, NEW percent \in 0..100, NEW max \in 0..100, NEW ac, NEW onAC,
         NEW old \in 0..100, SetBacklight(percent, max, ac, onAC, old)
  PROVE  /\ bl_percent' = Target(percent, max, ac, onAC)
         /\ BInv'
         /\ UNCHANGED <<running, driver, locked>>
         /\ disturbed' = {} =>
              /\ disturbed = {}
              /\ \/ bl_percent' = old /\ brightness' = brightness
                 \/ brightness' = ToLevel(bl_percent')
<1>. DEFINE target == Target(percent, max, ac, onAC)
<1>1. target \in 0..100
  BY TargetInRange
<1>2. bl_percent' = target
  BY DEF SetBacklight
<1>3. CASE target # old
  <2>1. SetPercentage(target)
    BY <1>3 DEF SetBacklight
  <2>. QED
    BY <1>1, <1>2, <2>1, SetPercentageKeeps, SetPercentageSets
<1>4. CASE target = old
  <2>1. UNCHANGED blVars
    BY <1>4 DEF SetBacklight
  <2>2. BInv'
    BY <2>1, StutterKeeps
  <2>. QED
    BY <1>2, <1>4, <2>1, <2>2 DEF blVars
<1>. QED
  BY <1>3, <1>4

(* autodim_handle_input_event() starts over: the maximum, the first step's *)
(* delay, and nothing held off.                                            *)
LEMMA HandleInputEffect ==
  ASSUME BInv, running, NEW max \in 0..100, NEW onAC, NEW old \in 0..100,
         HandleInput(max, onAC, old)
  PROVE  /\ state' = 0 /\ held_off' = FALSE
         /\ queued' = TRUE /\ left' = Steps[1].second
         /\ bl_percent' = max
         /\ BInv'
         /\ UNCHANGED <<running, driver, locked>>
         /\ disturbed' = {} =>
              /\ disturbed = {}
              /\ \/ max = old /\ brightness' = brightness
                 \/ brightness' = ToLevel(max)
<1>1. TimerStart(0) /\ SetBacklight(max, max, on_ac, onAC, old)
  BY DEF HandleInput
<1>2. queued' = TRUE /\ left' = Steps[1].second
  BY <1>1, StepTypes DEF TimerStart, Delay
<1>3. Target(max, max, on_ac, onAC) = max
  BY TargetInRange
<1>. QED
  BY <1>1, <1>2, <1>3, SetBacklightEffect DEF HandleInput

(* An autodim that starts over is in order.                                *)
LEMMA StartOver ==
  ASSUME state' = 0, held_off' = FALSE, queued' = TRUE, left' = Steps[1].second,
         bl_percent' = max_percent', idle' = 0, enabled' = TRUE
  PROVE  TimerArmed' /\ TimerState' /\ DimJustified' /\ StepShown'
<1>1. Steps[1].second \in Nat /\ NrSteps > 0
  BY StepTypes
<1>2. TimerState'
  <2>1. Late \in Nat /\ 0 * Late = 0
    BY AutodimAssumption, SMT
  <2>2. Steps[0 + 1].second = Steps[1].second
    OBVIOUS
  <2>. QED
    BY <1>1, <2>1, <2>2 DEF TimerState
<1>. QED
  BY <1>1, <1>2 DEF TimerArmed, DimJustified, StepShown

(* What autodim set is below the maximum.                                  *)
LEMMA BelowMax == AInv /\ enabled => bl_percent <= max_percent
<1>. SUFFICES ASSUME AInv, enabled PROVE bl_percent <= max_percent
  OBVIOUS
<1>1. max_percent \in 0..100
  BY DEF AInv, AutodimTypeOK
<1>2. CASE bl_percent = max_percent
  BY <1>1, <1>2
<1>3. CASE \E i \in 1..NrSteps : bl_percent = StepPercent(i)
  BY <1>1, <1>3, StepTypes, MinPercent DEF StepPercent
<1>. QED
  BY <1>2, <1>3 DEF AInv, DimJustified

(* The rest of the variables does not matter.                              *)
LEMMA UnchangedKeeps ==
  ASSUME AInv, UNCHANGED <<blVars, enabled, dimVars, idle, pc>>,
         enabled_on_ac' \in BOOLEAN, on_ac' \in -1..1,
         slide' \in BOOLEAN, switch_state' \in BOOLEAN, input_off' \in BOOLEAN
  PROVE  AInv'
<1>1. BInv'
  BY StutterKeeps DEF AInv
<1>2. AutodimTypeOK'
  BY <1>1 DEF AInv, BInv, AutodimTypeOK, dimVars
<1>3. TimerArmed' /\ TimerState' /\ DimJustified' /\ StepShown'
  BY DEF AInv, dimVars, TimerArmed, TimerState, DimJustified, StepShown, StepPercent
<1>4. Unlocking' /\ SuspendOffset' /\ Shown'
  BY DEF AInv, dimVars, blVars, Unlocking, SuspendOffset, Held, Shown,
         BrightnessApplied, FromPercent
<1>. QED
  BY <1>1, <1>2, <1>3, <1>4 DEF AInv

LEMMA AInvInit == AutodimInit => AInv
<1>. SUFFICES ASSUME AutodimInit PROVE AInv
  OBVIOUS
<1>1. BInv
  BY InitInvariant DEF AutodimInit
<1>2. AutodimTypeOK
  <2>1. on_ac \in -1..1
    BY AutodimAssumption DEF AutodimInit
  <2>2. /\ suspended \in -1..1 /\ bl_percent \in 0..100 /\ max_percent \in 0..100
        /\ state \in 0..NrSteps /\ idle \in 0..MaxIdle /\ left \in Int
    BY FirstTypes DEF AutodimInit
  <2>3. /\ enabled \in BOOLEAN /\ queued \in BOOLEAN /\ held_off \in BOOLEAN
        /\ enabled_on_ac \in BOOLEAN /\ slide \in BOOLEAN
        /\ switch_state \in BOOLEAN /\ input_off \in BOOLEAN
    BY DEF AutodimInit
  <2>. QED
    BY <1>1, <2>1, <2>2, <2>3 DEF AutodimInit, BInv, AutodimTypeOK
<1>3. FromPercent
  <2>1. PICK level \in LeftLevels, percent \in Percents, ok \in BOOLEAN :
          BacklightStart(level, percent, ok)
    BY DEF AutodimInit, BacklightInit
  <2>2. percent \in 0..100 /\ (disturbed = {} => brightness = ToLevel(percent))
    BY <2>1, BacklightAssumption DEF BacklightStart
  <2>. QED
    BY <2>2 DEF FromPercent
<1>. QED
  BY <1>1, <1>2, <1>3
     DEF AutodimInit, AInv, TimerArmed, TimerState, Unlocking, SuspendOffset,
         DimJustified, StepShown, Shown, BrightnessApplied

(* Requests: autodim is enabled, or gets another maximum or AC flag,       *)
LEMMA EnableAutodimKeeps ==
  ASSUME AInv, NEW request \in Int, NEW onAC \in BOOLEAN,
         EnableAutodim(request, onAC)
  PROVE  AInv'
<1>. DEFINE max     == RequestedMax(request)
            current == IF enabled THEN max_percent ELSE ToPercent(brightness)
            old     == IF enabled THEN bl_percent ELSE current
<1>1. max \in 0..100
  BY DEF RequestedMax, Clamp
<1>2. ToPercent(brightness) \in 0..100
  <2>1. ASSUME NEW x \in Int PROVE Clamp(x, 0, 100) \in 0..100
    BY DEF Clamp
  <2>2. DivRound(brightness * 100, MaxBrightness) \in Int
    <3>1. brightness \in Int /\ MaxBrightness \in Nat \ {0}
      BY BacklightAssumption DEF AInv, BInv, BacklightTypeOK, Levels
    <3>2. ASSUME NEW a \in Int, NEW d \in Nat \ {0} PROVE DivRound(a * 100, d) \in Int
      BY SMT DEF DivRound
    <3>. QED
      BY <3>1, <3>2
  <2>. QED
    BY <2>1, <2>2 DEF ToPercent
<1>3. current \in 0..100 /\ old \in 0..100
  BY <1>2 DEF AInv, AutodimTypeOK
<1>4. /\ running /\ pc = "idle" /\ pc' = "idle" /\ enabled' = TRUE
      /\ max_percent' = max /\ enabled_on_ac' = onAC
      /\ suspended' = IF enabled THEN suspended ELSE 0
      /\ idle' = IF enabled /\ max = current THEN idle ELSE 0
      /\ UNCHANGED <<on_ac, lockVars>>
  BY DEF EnableAutodim, Ready
<1>5. BInv /\ AutodimTypeOK /\ Shown /\ Unlocking /\ SuspendOffset
  BY DEF AInv
<1>6. CASE enabled /\ max = current
  <2>1. UNCHANGED <<blVars, enabled, dimVars, idle, pc>>
    BY <1>4, <1>6 DEF EnableAutodim, dimVars
  <2>. QED
    BY <1>4, <1>5, <2>1, UnchangedKeeps DEF AutodimTypeOK, lockVars
<1>7. CASE ~(enabled /\ max = current)
  <2>1. /\ state' = 0 /\ held_off' = FALSE /\ bl_percent' = max
        /\ queued' = TRUE /\ left' = Steps[1].second
        /\ BInv'
        /\ UNCHANGED <<running, driver, locked>>
        /\ disturbed' = {} => brightness' = ToLevel(max)
    <3>1. CASE max # current
      <4>1. HandleInput(max, onAC, old)
        BY <3>1 DEF EnableAutodim
      <4>2. max = old /\ disturbed = {} => brightness = ToLevel(max)
        BY <1>4, <1>5, <3>1 DEF Shown, BrightnessApplied
      <4>. QED
        BY <1>1, <1>3, <1>4, <1>5, <4>1, <4>2, HandleInputEffect
    <3>2. CASE max = current
      <4>1. ~enabled /\ UNCHANGED blVars /\ TimerStart(0)
            /\ state' = 0 /\ bl_percent' = max /\ held_off' = FALSE
        BY <1>7, <3>2 DEF EnableAutodim
      <4>2. queued' = TRUE /\ left' = Steps[1].second
        BY <4>1, StepTypes DEF TimerStart, Delay
      <4>3. BInv' /\ UNCHANGED <<running, driver, locked, brightness, disturbed>>
        BY <1>5, <4>1, StutterKeeps DEF blVars
      <4>4. disturbed = {} => brightness = ToLevel(max)
        BY <1>4, <1>5, <3>2, <4>1, RoundTrip DEF Shown, FromPercent
      <4>. QED
        BY <4>1, <4>2, <4>3, <4>4
    <3>. QED
      BY <3>1, <3>2
  <2>2. idle' = 0
    BY <1>4, <1>7
  <2>3. AutodimTypeOK'
    <3>1. suspended' \in -1..1
      BY <1>4, <1>5 DEF AutodimTypeOK
    <3>2. on_ac' \in -1..1 /\ slide' \in BOOLEAN /\ switch_state' \in BOOLEAN
          /\ input_off' \in BOOLEAN
      BY <1>4, <1>5 DEF AutodimTypeOK, lockVars
    <3>. QED
      BY <1>1, <1>4, <2>1, <2>2, <3>1, <3>2, FirstTypes DEF BInv, AutodimTypeOK
  <2>4. TimerArmed' /\ TimerState' /\ DimJustified' /\ StepShown'
    BY <1>4, <2>1, <2>2, StartOver
  <2>5. Unlocking' /\ SuspendOffset'
    BY <1>4, <1>5, <2>1 DEF Unlocking, SuspendOffset, Held
  <2>6. Shown'
    BY <1>1, <2>1 DEF Shown, BrightnessApplied, FromPercent
  <2>. QED
    BY <2>1, <2>3, <2>4, <2>5, <2>6 DEF AInv
<1>. QED
  BY <1>6, <1>7

(* is switched off, or cannot be allocated;                                *)
LEMMA DisableAutodimKeeps ==
  ASSUME AInv, DisableAutodim
  PROVE  AInv'
<1>1. /\ enabled' = FALSE /\ queued' = FALSE /\ held_off' = FALSE
      /\ suspended' = 0 /\ state' = 0 /\ bl_percent' = 0 /\ max_percent' = 0
      /\ left' = 0 /\ enabled_on_ac' = FALSE
      /\ UNCHANGED <<blVars, on_ac, lockVars, idle, pc>>
  BY DEF DisableAutodim
<1>2. BInv'
  BY <1>1, StutterKeeps DEF AInv
<1>3. AutodimTypeOK'
  <2>1. /\ suspended' \in -1..1 /\ bl_percent' \in 0..100 /\ max_percent' \in 0..100
        /\ state' \in 0..NrSteps /\ left' \in Int
    BY <1>1, FirstTypes
  <2>2. /\ enabled' \in BOOLEAN /\ queued' \in BOOLEAN /\ held_off' \in BOOLEAN
        /\ enabled_on_ac' \in BOOLEAN
    BY <1>1
  <2>3. /\ on_ac' \in -1..1 /\ idle' \in 0..MaxIdle /\ pc' \in {"idle", "resume"}
        /\ slide' \in BOOLEAN /\ switch_state' \in BOOLEAN /\ input_off' \in BOOLEAN
    BY <1>1 DEF AInv, AutodimTypeOK, lockVars
  <2>. QED
    BY <1>2, <2>1, <2>2, <2>3 DEF BInv, AutodimTypeOK
<1>4. Unlocking' /\ Shown'
  BY <1>1 DEF AInv, Unlocking, Shown, BrightnessApplied, FromPercent, blVars
<1>. QED
  BY <1>1, <1>2, <1>3, <1>4
     DEF AInv, TimerArmed, TimerState, SuspendOffset, DimJustified, StepShown

(* input, which counts while the device is locked, too;                    *)
LEMMA InputEventKeeps ==
  ASSUME AInv, InputEvent
  PROVE  AInv'
<1>1. /\ running /\ pc = "idle" /\ enabled /\ idle' = 0
      /\ HandleInput(max_percent, enabled_on_ac, bl_percent)
      /\ UNCHANGED <<enabled, suspended, max_percent, enabled_on_ac, on_ac, lockVars, pc>>
  BY DEF InputEvent, Ready
<1>2. BInv /\ AutodimTypeOK /\ Shown /\ Unlocking /\ SuspendOffset
  BY DEF AInv
<1>3. max_percent \in 0..100 /\ bl_percent \in 0..100
  BY <1>2 DEF AutodimTypeOK
<1>4. /\ state' = 0 /\ held_off' = FALSE /\ bl_percent' = max_percent
      /\ queued' = TRUE /\ left' = Steps[1].second
      /\ BInv'
      /\ UNCHANGED <<running, driver, locked>>
      /\ disturbed' = {} =>
           /\ disturbed = {}
           /\ \/ max_percent = bl_percent /\ brightness' = brightness
              \/ brightness' = ToLevel(max_percent)
  BY <1>1, <1>2, <1>3, HandleInputEffect
<1>5. AutodimTypeOK'
  BY <1>1, <1>2, <1>3, <1>4, FirstTypes DEF BInv, AutodimTypeOK, lockVars
<1>6. TimerArmed' /\ TimerState' /\ DimJustified' /\ StepShown'
  BY <1>1, <1>4, StartOver
<1>7. Unlocking' /\ SuspendOffset'
  BY <1>1, <1>2, <1>4 DEF Unlocking, SuspendOffset, Held
<1>8. Shown'
  BY <1>1, <1>2, <1>3, <1>4 DEF Shown, BrightnessApplied, FromPercent
<1>. QED
  BY <1>4, <1>5, <1>6, <1>7, <1>8 DEF AInv

(***************************************************************************)
(* The timer: the step that comes is due, and the next one is as far away  *)
(* as the configuration says, plus what this one was late.                 *)
(***************************************************************************)
LEMMA TimerCallbackKeeps ==
  ASSUME AInv, TimerCallback
  PROVE  AInv'
<1>. DEFINE s == state + 1
<1>1. /\ running /\ pc = "idle" /\ queued /\ left <= 0 /\ state' = s
      /\ SetBacklight(Steps[s].percent, max_percent, on_ac, enabled_on_ac, bl_percent)
      /\ IF s < NrSteps THEN TimerStart(s) ELSE queued' = FALSE /\ left' = 0
      /\ held_off' = (held_off \/ HeldOff(on_ac, enabled_on_ac))
      /\ UNCHANGED <<enabled, suspended, max_percent, enabled_on_ac, on_ac,
                     lockVars, idle, pc>>
  BY DEF TimerCallback, Ready
<1>2. BInv /\ AutodimTypeOK /\ Shown /\ Unlocking /\ SuspendOffset /\ TimerState
  BY DEF AInv
<1>3. /\ enabled /\ -Late <= left
      /\ idle + left <= Steps[s].second + state * Late
      /\ idle = MaxIdle \/ Steps[s].second <= idle + left
  BY <1>1, <1>2 DEF TimerState
<1>4. /\ state \in Nat /\ s \in 1..NrSteps /\ idle \in Nat /\ left \in Int
      /\ max_percent \in 0..100 /\ bl_percent \in 0..100
  <2>1. state \in 0..NrSteps /\ state < NrSteps
    BY <1>1, <1>2 DEF TimerState, AutodimTypeOK
  <2>2. idle \in Nat /\ left \in Int /\ max_percent \in 0..100 /\ bl_percent \in 0..100
    BY <1>2, AutodimAssumption DEF AutodimTypeOK
  <2>. QED
    BY <2>1, <2>2, StepTypes
<1>5. Steps[s].second \in Nat /\ Steps[s].percent \in 0..100
  BY <1>4, StepTypes
<1>6. /\ bl_percent' = Target(Steps[s].percent, max_percent, on_ac, enabled_on_ac)
      /\ BInv'
      /\ UNCHANGED <<running, driver, locked>>
      /\ disturbed' = {} =>
           /\ disturbed = {}
           /\ \/ bl_percent' = bl_percent /\ brightness' = brightness
              \/ brightness' = ToLevel(bl_percent')
  BY <1>1, <1>2, <1>4, <1>5, SetBacklightEffect
<1>7. /\ bl_percent' \in 0..100
      /\ HeldOff(on_ac, enabled_on_ac) => bl_percent' = max_percent
      /\ ~HeldOff(on_ac, enabled_on_ac) => bl_percent' = StepPercent(s)
  <2>1. /\ Target(Steps[s].percent, max_percent, on_ac, enabled_on_ac) \in 0..100
        /\ HeldOff(on_ac, enabled_on_ac) =>
             Target(Steps[s].percent, max_percent, on_ac, enabled_on_ac) = max_percent
        /\ ~HeldOff(on_ac, enabled_on_ac) =>
             Target(Steps[s].percent, max_percent, on_ac, enabled_on_ac)
               = Min2(Steps[s].percent, max_percent)
    BY <1>4, <1>5 DEF Target, Min2
  <2>. QED
    BY <1>6, <2>1 DEF StepPercent
<1>8. /\ s < NrSteps => /\ queued' = TRUE
                        /\ left' = Steps[s + 1].second - Steps[s].second
                        /\ Steps[s + 1].second \in Nat
                        /\ Steps[s].second <= Steps[s + 1].second
      /\ ~(s < NrSteps) => queued' = FALSE /\ left' = 0
      /\ left' \in Int /\ queued' \in BOOLEAN
  <2>1. CASE s < NrSteps
    <3>1. s # 0 /\ s + 1 \in 1..NrSteps /\ s <= s + 1
      BY <1>4, <2>1, StepTypes
    <3>2. Steps[s + 1].second \in Nat /\ Steps[s].second <= Steps[s + 1].second
      BY <1>4, <3>1, StepTypes
    <3>3. queued' = TRUE /\ left' = Steps[s + 1].second - Steps[s].second
      BY <1>1, <2>1, <3>1 DEF TimerStart, Delay
    <3>. QED
      BY <1>5, <2>1, <3>2, <3>3
  <2>2. CASE ~(s < NrSteps)
    <3>1. queued' = FALSE /\ left' = 0
      BY <1>1, <2>2
    <3>2. queued' \in BOOLEAN
      BY <3>1
    <3>. QED
      BY <2>2, <3>1, <3>2
  <2>. QED
    BY <2>1, <2>2
<1>9. AutodimTypeOK'
  <2>1. state' \in 0..NrSteps /\ held_off' \in BOOLEAN
    BY <1>1, <1>4, StepTypes
  <2>. QED
    BY <1>1, <1>2, <1>6, <1>7, <1>8, <2>1 DEF BInv, AutodimTypeOK, lockVars
<1>10. TimerArmed'
  BY <1>1, <1>8 DEF TimerArmed
<1>11. idle = MaxIdle \/ Steps[s].second <= idle
  BY <1>1, <1>3, <1>4, <1>5
<1>12. TimerState'
  <2>. SUFFICES ASSUME queued' PROVE
         /\ enabled' /\ s < NrSteps /\ -Late <= left'
         /\ idle + left' <= Steps[s + 1].second + s * Late
         /\ idle = MaxIdle \/ Steps[s + 1].second <= idle + left'
    BY <1>1 DEF TimerState
  <2>1. s < NrSteps
    BY <1>8
  <2>2. Late \in Nat /\ state * Late \in Int /\ s * Late = state * Late + Late
    BY <1>4, AutodimAssumption, SMT
  <2>3. idle <= Steps[s].second + s * Late
    BY <1>3, <1>4, <1>5, <2>2
  <2>. QED
    BY <1>1, <1>3, <1>4, <1>5, <1>8, <1>11, <2>1, <2>2, <2>3
<1>13. Unlocking' /\ SuspendOffset'
  BY <1>1, <1>2, <1>6 DEF Unlocking, SuspendOffset, Held
<1>14. DimJustified'
  <2>1. Steps[s].second <= idle
    BY <1>4, <1>11, MaxIdleLast
  <2>2. \/ bl_percent' = max_percent'
        \/ bl_percent' = Min2(Steps[s].percent, max_percent')
    BY <1>1, <1>7 DEF StepPercent
  <2>3. s \in 1..NrSteps /\ idle' = idle
    BY <1>1, <1>4
  <2>. HIDE DEF s
  <2>. QED
    BY <2>1, <2>2, <2>3 DEF DimJustified, StepPercent
<1>15. StepShown'
  BY <1>1, <1>7 DEF StepShown, StepPercent
<1>16. Shown'
  BY <1>1, <1>2, <1>3, <1>6, <1>7 DEF Shown, BrightnessApplied, FromPercent
<1>. QED
  BY <1>6, <1>9, <1>10, <1>12, <1>13, <1>14, <1>15, <1>16 DEF AInv

(* A battery event: on AC the maximum, otherwise what was set before.      *)
LEMMA BatteryEventKeeps ==
  ASSUME AInv, NEW ac \in ACStates, BatteryEvent(ac)
  PROVE  AInv'
<1>1. /\ running /\ pc = "idle" /\ on_ac' = ac /\ ac \in -1..1
      /\ held_off' = (held_off \/ (HeldOff(ac, enabled_on_ac) /\ state > 0))
      /\ UNCHANGED <<enabled, suspended, state, max_percent, queued, left,
                     enabled_on_ac, lockVars, idle, pc>>
  BY AutodimAssumption DEF BatteryEvent, Ready
<1>2. BInv /\ AutodimTypeOK /\ Shown /\ Unlocking /\ SuspendOffset /\ DimJustified
      /\ StepShown /\ TimerArmed /\ TimerState
  BY DEF AInv
<1>3. held_off' \in BOOLEAN
  BY <1>1
<1>4. CASE enabled
  <2>1. SetBacklight(bl_percent, max_percent, ac, enabled_on_ac, bl_percent)
    BY <1>4 DEF BatteryEvent
  <2>2. max_percent \in 0..100 /\ bl_percent \in 0..100 /\ bl_percent <= max_percent
    BY <1>2, <1>4, BelowMax DEF AutodimTypeOK
  <2>3. /\ bl_percent' = Target(bl_percent, max_percent, ac, enabled_on_ac)
        /\ BInv'
        /\ UNCHANGED <<running, driver, locked>>
        /\ disturbed' = {} =>
             /\ disturbed = {}
             /\ \/ bl_percent' = bl_percent /\ brightness' = brightness
                \/ brightness' = ToLevel(bl_percent')
    BY <1>1, <1>2, <2>1, <2>2, SetBacklightEffect
  <2>4. /\ HeldOff(ac, enabled_on_ac) => bl_percent' = max_percent
        /\ ~HeldOff(ac, enabled_on_ac) => bl_percent' = bl_percent
        /\ bl_percent' \in 0..100
    BY <2>2, <2>3 DEF Target, Min2
  <2>5. AutodimTypeOK'
    BY <1>1, <1>2, <1>3, <2>3, <2>4 DEF BInv, AutodimTypeOK, lockVars
  <2>6. TimerArmed' /\ TimerState' /\ Unlocking' /\ SuspendOffset'
    BY <1>1, <1>2, <2>3 DEF TimerArmed, TimerState, Unlocking, SuspendOffset, Held
  <2>7. DimJustified' /\ StepShown'
    BY <1>1, <1>2, <2>4 DEF DimJustified, StepShown, StepPercent
  <2>8. Shown'
    BY <1>1, <1>2, <1>4, <2>3, <2>4 DEF Shown, BrightnessApplied, FromPercent
  <2>. QED
    BY <2>3, <2>5, <2>6, <2>7, <2>8 DEF AInv
<1>5. CASE ~enabled
  <2>1. UNCHANGED <<blVars, bl_percent>>
    BY <1>5 DEF BatteryEvent
  <2>2. BInv' /\ Unlocking' /\ Shown'
    BY <1>1, <1>2, <1>5, <2>1, StutterKeeps
       DEF Unlocking, Shown, BrightnessApplied, FromPercent, blVars
  <2>3. AutodimTypeOK'
    BY <1>1, <1>2, <1>3, <2>1, <2>2 DEF BInv, AutodimTypeOK, lockVars
  <2>4. TimerState'
    BY <1>1, <1>2, <1>5 DEF TimerState
  <2>. QED
    BY <1>1, <1>5, <2>2, <2>3, <2>4
       DEF AInv, TimerArmed, SuspendOffset, DimJustified, StepShown
<1>. QED
  BY <1>4, <1>5

(* autodim_suspend() counts; an autodim that was enabled while the device  *)
(* was locked keeps its timer.                                             *)
LEMMA SuspendEffect ==
  ASSUME AutodimTypeOK, TimerArmed, TimerState, Suspend,
         enabled => suspended \in {-1, 0}
  PROVE  /\ UNCHANGED <<state, bl_percent, max_percent, held_off>>
         /\ suspended' = IF enabled THEN suspended + 1 ELSE suspended
         /\ left' \in Int /\ queued' \in BOOLEAN
         /\ queued' => queued /\ left' = left
         /\ enabled /\ suspended' < 1 /\ state < NrSteps => queued'
<1>1. CASE ~enabled
  BY <1>1 DEF Suspend, dimVars, AutodimTypeOK
<1>2. CASE enabled /\ suspended = 0
  <2>1. /\ queued' = FALSE /\ left' = 0 /\ suspended' = suspended + 1
        /\ UNCHANGED <<state, bl_percent, max_percent, held_off>>
    BY <1>2 DEF Suspend
  <2>2. queued' \in BOOLEAN
    BY <2>1
  <2>. QED
    BY <1>2, <2>1, <2>2
<1>3. CASE enabled /\ suspended = -1
  <2>1. /\ UNCHANGED <<queued, left>> /\ suspended' = suspended + 1
        /\ UNCHANGED <<state, bl_percent, max_percent, held_off>>
    BY <1>3 DEF Suspend
  <2>2. state < NrSteps => queued
    BY <1>3 DEF TimerArmed
  <2>. QED
    BY <1>3, <2>1, <2>2 DEF AutodimTypeOK
<1>. QED
  BY <1>1, <1>2, <1>3

(* The slide switch,                                                       *)
LEMMA DevicelockEventKeeps ==
  ASSUME AInv, DevicelockEvent
  PROVE  AInv'
<1>1. /\ running /\ pc = "idle" /\ Lockable
      /\ switch_state' = slide
      /\ UNCHANGED <<enabled, enabled_on_ac, on_ac, slide, idle>>
  BY DEF DevicelockEvent, Ready
<1>2. BInv /\ AutodimTypeOK /\ Shown /\ Unlocking /\ SuspendOffset /\ DimJustified
      /\ StepShown /\ TimerArmed /\ TimerState
  BY DEF AInv
<1>3. CASE ~slide
  <2>1. UNCHANGED <<blVars, input_off, dimVars, pc>>
    BY <1>3 DEF DevicelockEvent
  <2>. QED
    BY <1>1, <1>2, <2>1, UnchangedKeeps DEF AutodimTypeOK
<1>4. CASE slide
  <2>1. /\ ScreenLock(~locked)
        /\ input_off' \in {~locked} \cup IF WriteMayFail THEN {input_off} ELSE {}
        /\ IF locked THEN pc' = "resume" /\ UNCHANGED dimVars
                     ELSE Suspend /\ UNCHANGED pc
    BY <1>4 DEF DevicelockEvent
  <2>2. driver = "omapfb" /\ locked \in BOOLEAN
    BY <1>1, <1>2, LockableAssumption DEF BInv, BacklightTypeOK
  <2>3. BInv'
    BY <1>2, <2>1, <2>2, ScreenLockKeeps
  <2>4. /\ locked' = ~locked /\ brightness' = brightness /\ running' = running
        /\ disturbed' = {} => disturbed = {}
    BY <2>1, <2>2 DEF ScreenLock, Wrote
  <2>5. input_off' \in BOOLEAN
    BY <1>2, <2>1, <2>2 DEF AutodimTypeOK
  <2>6. CASE locked
    <3>1. pc' = "resume" /\ UNCHANGED dimVars /\ locked' = FALSE
      BY <2>1, <2>4, <2>6
    <3>2. AutodimTypeOK'
      BY <1>1, <1>2, <2>3, <2>5, <3>1 DEF BInv, AutodimTypeOK, dimVars
    <3>3. Unlocking' /\ SuspendOffset'
      BY <1>1, <1>2, <2>6, <3>1 DEF Unlocking, SuspendOffset, Held, dimVars
    <3>4. TimerArmed' /\ TimerState' /\ DimJustified' /\ StepShown'
      BY <1>1, <1>2, <3>1
         DEF TimerArmed, TimerState, DimJustified, StepShown, StepPercent, dimVars
    <3>5. Shown'
      BY <1>1, <1>2, <2>4, <3>1 DEF Shown, BrightnessApplied, FromPercent, dimVars
    <3>. QED
      BY <2>3, <3>2, <3>3, <3>4, <3>5 DEF AInv
  <2>7. CASE ~locked
    <3>1. Suspend /\ pc' = "idle" /\ locked' = TRUE
      BY <1>1, <2>1, <2>4, <2>7
    <3>2. enabled => suspended \in {-1, 0}
      BY <1>1, <1>2, <2>7 DEF SuspendOffset, Held
    <3>3. /\ UNCHANGED <<state, bl_percent, max_percent, held_off>>
          /\ suspended' = IF enabled THEN suspended + 1 ELSE suspended
          /\ left' \in Int /\ queued' \in BOOLEAN
          /\ queued' => queued /\ left' = left
          /\ enabled /\ suspended' < 1 /\ state < NrSteps => queued'
      BY <1>2, <3>1, <3>2, SuspendEffect
    <3>4. AutodimTypeOK'
      <4>1. suspended' \in -1..1
        BY <1>2, <3>2, <3>3 DEF AutodimTypeOK
      <4>. QED
        BY <1>1, <1>2, <2>3, <2>5, <3>1, <3>3, <4>1 DEF BInv, AutodimTypeOK
    <3>5. Unlocking' /\ SuspendOffset'
      BY <1>1, <3>1, <3>2, <3>3 DEF Unlocking, SuspendOffset, Held
    <3>6. TimerArmed' /\ TimerState'
      BY <1>1, <1>2, <3>3 DEF TimerArmed, TimerState
    <3>7. DimJustified' /\ StepShown'
      BY <1>1, <1>2, <3>3 DEF DimJustified, StepShown, StepPercent
    <3>8. Shown'
      BY <1>1, <1>2, <2>4, <3>3 DEF Shown, BrightnessApplied, FromPercent
    <3>. QED
      BY <2>3, <3>4, <3>5, <3>6, <3>7, <3>8 DEF AInv
  <2>. QED
    BY <2>6, <2>7
<1>. QED
  BY <1>3, <1>4

(* and the second half of unlocking, which starts over or counts only.     *)
LEMMA ResumeKeeps ==
  ASSUME AInv, Resume
  PROVE  AInv'
<1>1. /\ running /\ pc = "resume" /\ pc' = "idle"
      /\ suspended' = IF enabled THEN suspended - 1 ELSE suspended
      /\ UNCHANGED <<enabled, max_percent, enabled_on_ac, on_ac, lockVars>>
  BY DEF Resume
<1>2. BInv /\ AutodimTypeOK /\ Shown /\ Unlocking /\ SuspendOffset /\ DimJustified
      /\ StepShown /\ TimerArmed /\ TimerState
  BY DEF AInv
<1>3. ~locked /\ (enabled => suspended \in {0, 1})
  BY <1>1, <1>2 DEF Unlocking, SuspendOffset, Held
<1>4. suspended' \in -1..1
  BY <1>1, <1>2, <1>3 DEF AutodimTypeOK
<1>5. CASE enabled /\ suspended' = 0
  <2>1. HandleInput(max_percent, enabled_on_ac, bl_percent) /\ idle' = 0
    BY <1>5 DEF Resume
  <2>2. max_percent \in 0..100 /\ bl_percent \in 0..100
    BY <1>2 DEF AutodimTypeOK
  <2>3. /\ state' = 0 /\ held_off' = FALSE /\ bl_percent' = max_percent
        /\ queued' = TRUE /\ left' = Steps[1].second
        /\ BInv'
        /\ UNCHANGED <<running, driver, locked>>
        /\ disturbed' = {} =>
             /\ disturbed = {}
             /\ \/ max_percent = bl_percent /\ brightness' = brightness
                \/ brightness' = ToLevel(max_percent)
    BY <1>1, <1>2, <2>1, <2>2, HandleInputEffect
  <2>4. AutodimTypeOK'
    BY <1>1, <1>2, <1>4, <2>1, <2>2, <2>3, FirstTypes DEF BInv, AutodimTypeOK, lockVars
  <2>5. TimerArmed' /\ TimerState' /\ DimJustified' /\ StepShown'
    BY <1>1, <1>5, <2>1, <2>3, StartOver
  <2>6. Unlocking' /\ SuspendOffset'
    BY <1>1, <1>3, <1>5, <2>3 DEF Unlocking, SuspendOffset, Held
  <2>7. Shown'
    BY <1>1, <1>2, <1>5, <2>2, <2>3 DEF Shown, BrightnessApplied, FromPercent
  <2>. QED
    BY <2>3, <2>4, <2>5, <2>6, <2>7 DEF AInv
<1>6. CASE ~(enabled /\ suspended' = 0)
  <2>1. UNCHANGED <<blVars, state, bl_percent, queued, left, held_off, idle>>
    BY <1>6 DEF Resume
  <2>2. BInv' /\ Shown'
    BY <1>1, <1>2, <2>1, StutterKeeps DEF Shown, BrightnessApplied, FromPercent, blVars
  <2>3. AutodimTypeOK'
    BY <1>1, <1>2, <1>4, <2>1, <2>2 DEF BInv, AutodimTypeOK, lockVars
  <2>4. Unlocking' /\ SuspendOffset'
    BY <1>1, <1>3, <2>1 DEF Unlocking, SuspendOffset, Held, blVars
  <2>5. TimerArmed'
    BY <1>1, <1>2, <1>3, <1>6, <2>1 DEF TimerArmed
  <2>6. TimerState' /\ DimJustified' /\ StepShown'
    BY <1>1, <1>2, <2>1 DEF TimerState, DimJustified, StepShown, StepPercent
  <2>. QED
    BY <2>2, <2>3, <2>4, <2>5, <2>6 DEF AInv
<1>. QED
  BY <1>5, <1>6

(* A client that sets the brightness itself disturbs.                      *)
LEMMA ClientRequestKeeps ==
  ASSUME AInv, NEW value \in Int, ClientRequest(value)
  PROVE  AInv'
<1>1. /\ ClientSetBrightness(value)
      /\ UNCHANGED <<enabled, dimVars, enabled_on_ac, on_ac, lockVars, idle, pc>>
  BY DEF ClientRequest
<1>2. BInv' /\ locked' = locked /\ disturbed' # {}
  <2>1. BInv'
    BY <1>1, ClientSetBrightnessKeeps DEF AInv
  <2>. QED
    BY <1>1, <2>1 DEF ClientSetBrightness
<1>3. AutodimTypeOK'
  BY <1>1, <1>2 DEF AInv, BInv, AutodimTypeOK, dimVars, lockVars
<1>4. TimerArmed' /\ TimerState' /\ DimJustified' /\ StepShown'
  BY <1>1 DEF AInv, dimVars, TimerArmed, TimerState, DimJustified, StepShown, StepPercent
<1>5. Unlocking' /\ SuspendOffset' /\ Shown'
  BY <1>1, <1>2 DEF AInv, dimVars, Unlocking, SuspendOffset, Held, Shown,
                    BrightnessApplied, FromPercent
<1>. QED
  BY <1>2, <1>3, <1>4, <1>5 DEF AInv

LEMMA ShutdownKeeps ==
  ASSUME AInv, Shutdown
  PROVE  AInv'
<1>1. /\ BacklightDestroy /\ running' = FALSE /\ pc = "idle"
      /\ enabled' = FALSE /\ queued' = FALSE /\ held_off' = FALSE
      /\ suspended' = 0 /\ state' = 0 /\ bl_percent' = 0 /\ max_percent' = 0
      /\ left' = 0
      /\ UNCHANGED <<enabled_on_ac, on_ac, lockVars, idle, pc>>
  BY DEF Shutdown, BacklightDestroy, Ready
<1>2. BInv'
  BY <1>1, BacklightDestroyKeeps DEF AInv
<1>3. AutodimTypeOK'
  <2>1. /\ suspended' \in -1..1 /\ bl_percent' \in 0..100 /\ max_percent' \in 0..100
        /\ state' \in 0..NrSteps /\ left' \in Int
    BY <1>1, FirstTypes
  <2>2. enabled' \in BOOLEAN /\ queued' \in BOOLEAN /\ held_off' \in BOOLEAN
    BY <1>1
  <2>3. /\ on_ac' \in -1..1 /\ idle' \in 0..MaxIdle /\ pc' \in {"idle", "resume"}
        /\ slide' \in BOOLEAN /\ switch_state' \in BOOLEAN /\ input_off' \in BOOLEAN
        /\ enabled_on_ac' \in BOOLEAN
    BY <1>1 DEF AInv, AutodimTypeOK, lockVars
  <2>. QED
    BY <1>2, <2>1, <2>2, <2>3 DEF BInv, AutodimTypeOK
<1>. QED
  BY <1>1, <1>2, <1>3
     DEF AInv, TimerArmed, TimerState, Unlocking, SuspendOffset, DimJustified,
         StepShown, Shown, BrightnessApplied, FromPercent

(* Time moves the idle time up and the timer down.                         *)
LEMMA TickKeeps ==
  ASSUME AInv, Tick
  PROVE  AInv'
<1>1. /\ queued => left > -Late
      /\ left' = IF queued THEN left - 1 ELSE left
      /\ idle' = Min2(idle + 1, MaxIdle)
      /\ UNCHANGED <<blVars, enabled, suspended, state, bl_percent, max_percent,
                     queued, held_off, enabled_on_ac, on_ac, lockVars, pc>>
  BY DEF Tick
<1>2. BInv /\ AutodimTypeOK /\ Shown /\ Unlocking /\ SuspendOffset /\ DimJustified
      /\ StepShown /\ TimerArmed /\ TimerState
  BY DEF AInv
<1>3. /\ idle \in Nat /\ idle <= MaxIdle /\ left \in Int /\ MaxIdle \in Nat /\ Late \in Nat
  BY <1>2, AutodimAssumption DEF AutodimTypeOK
<1>4. /\ idle' \in 0..MaxIdle /\ idle <= idle' /\ idle' <= idle + 1 /\ left' \in Int
      /\ idle' = MaxIdle \/ idle' = idle + 1
  BY <1>1, <1>3 DEF Min2
<1>5. BInv' /\ Unlocking' /\ SuspendOffset' /\ Shown'
  BY <1>1, <1>2, StutterKeeps
     DEF Unlocking, SuspendOffset, Held, Shown, BrightnessApplied, FromPercent, blVars
<1>6. AutodimTypeOK'
  BY <1>1, <1>2, <1>4, <1>5 DEF BInv, AutodimTypeOK, lockVars
<1>7. TimerArmed' /\ StepShown'
  BY <1>1, <1>2 DEF TimerArmed, StepShown, StepPercent
<1>8. TimerState'
  <2>. SUFFICES ASSUME queued
                PROVE  /\ enabled /\ state < NrSteps /\ -Late <= left'
                       /\ idle' + left' <= Steps[state + 1].second + state * Late
                       /\ idle' = MaxIdle \/ Steps[state + 1].second <= idle' + left'
    BY <1>1 DEF TimerState
  <2>1. /\ enabled /\ state < NrSteps /\ left' = left - 1
        /\ idle + left <= Steps[state + 1].second + state * Late
        /\ idle = MaxIdle \/ Steps[state + 1].second <= idle + left
    BY <1>1, <1>2 DEF TimerState
  <2>2. Steps[state + 1].second \in Nat /\ state * Late \in Int
    <3>1. state \in Nat /\ state + 1 \in 1..NrSteps
      BY <1>2, <2>1, StepTypes DEF AutodimTypeOK
    <3>. QED
      BY <1>3, <3>1, StepTypes
  <2>. QED
    BY <1>1, <1>3, <1>4, <2>1, <2>2
<1>9. DimJustified'
  <2>1. ASSUME NEW i \in 1..NrSteps, Steps[i].second <= idle
        PROVE  Steps[i].second <= idle'
    BY <1>3, <1>4, <2>1, StepTypes
  <2>. QED
    BY <1>1, <1>2, <2>1 DEF DimJustified, StepPercent
<1>. QED
  BY <1>5, <1>6, <1>7, <1>8, <1>9 DEF AInv

-----------------------------------------------------------------------------
LEMMA NextKeeps == AInv /\ [Next]_vars => AInv'
<1>. SUFFICES ASSUME AInv, [Next]_vars PROVE AInv'
  OBVIOUS
<1>0. AutodimTypeOK
  BY DEF AInv
<1>1. ASSUME NEW onAC \in ACFlags, EnableFails(onAC) PROVE AInv'
  BY <1>0, <1>1, UnchangedKeeps, AutodimAssumption DEF EnableFails, AutodimTypeOK, lockVars
<1>2. ASSUME NEW onAC \in ACFlags, NEW max \in MaxPercents, EnableAutodim(max, onAC)
      PROVE  AInv'
  BY <1>2, EnableAutodimKeeps, AutodimAssumption
<1>3. CASE DisableAutodim
  BY <1>3, DisableAutodimKeeps
<1>4. CASE InputEvent
  BY <1>4, InputEventKeeps
<1>5. CASE TimerCallback
  BY <1>5, TimerCallbackKeeps
<1>6. CASE \E ac \in ACStates : BatteryEvent(ac)
  BY <1>6, BatteryEventKeeps
<1>7. CASE DevicelockEvent
  BY <1>7, DevicelockEventKeeps
<1>8. CASE Resume
  BY <1>8, ResumeKeeps
<1>9. CASE MoveSlide
  BY <1>0, <1>9, UnchangedKeeps DEF MoveSlide, AutodimTypeOK
<1>10. CASE \E value \in ClientLevels : ClientRequest(value)
  BY <1>10, ClientRequestKeeps, BacklightAssumption
<1>11. CASE Shutdown
  BY <1>11, ShutdownKeeps
<1>12. CASE Tick
  BY <1>12, TickKeeps
<1>13. CASE UNCHANGED vars
  BY <1>0, <1>13, UnchangedKeeps DEF vars, AutodimTypeOK, lockVars
<1>. QED
  BY <1>1, <1>2, <1>3, <1>4, <1>5, <1>6, <1>7, <1>8, <1>9, <1>10, <1>11, <1>12,
     <1>13 DEF Next

(* The inductive invariant of autodim on top of the backlight.             *)
THEOREM AutodimInvariant == Spec => []AInv
  BY AInvInit, NextKeeps, PTL DEF Spec

(* Every variable keeps its type; above all the suspend counter stays      *)
(* between -1 and 1 and the state within the steps.                        *)
THEOREM AutodimTypes == Spec => []AutodimTypeOK
  BY AutodimInvariant, PTL DEF AInv

(* Dimming never gets stuck: autodim_suspend() and autodim_resume() leave  *)
(* the timer armed whenever steps are left.                                *)
THEOREM TimerIsArmed == Spec => []TimerArmed
  BY AutodimInvariant, PTL DEF AInv

(* No step of autodim_steps comes before its idle-seconds.                 *)
THEOREM DimIsJustified == Spec => []DimJustified
  BY AutodimInvariant, PTL DEF AInv

(* What autodim_set_backlight() believes is what the device shows.         *)
THEOREM BrightnessIsApplied == Spec => []BrightnessApplied
  BY AutodimInvariant, PTL DEF AInv, Shown

(***************************************************************************)
(* Each step of autodim_steps comes at the latest when the services before *)
(* it were all as late as they may be: otherwise the timer would be armed  *)
(* for a step whose time has passed by more than that.                     *)
(***************************************************************************)
LEMMA InvariantInTime == AInv => DimInTime
<1>. SUFFICES ASSUME AInv, MayDim, ~held_off, NEW i \in 1..NrSteps,
                     idle > Steps[i].second + i * Late
              PROVE  \E j \in i..NrSteps : bl_percent = StepPercent(j)
  BY DEF DimInTime
<1>1. enabled /\ suspended < 1 /\ AutodimTypeOK /\ TimerArmed /\ TimerState /\ StepShown
  BY DEF MayDim, AInv, AutodimTypeOK
<1>2. /\ state \in 0..NrSteps /\ idle \in Nat /\ left \in Int
      /\ Late \in Nat /\ NrSteps \in Nat
  BY <1>1, AutodimAssumption, StepTypes DEF AutodimTypeOK
<1>3. i <= state
  <2>. SUFFICES ASSUME state < i PROVE FALSE
    BY <1>2
  <2>1. state + 1 \in 1..NrSteps /\ state + 1 <= i /\ state < NrSteps
    BY <1>2
  <2>2. idle <= Steps[state + 1].second + state * Late + Late
    <3>1. idle + left <= Steps[state + 1].second + state * Late /\ -Late <= left
      BY <1>1, <2>1 DEF TimerArmed, TimerState
    <3>2. Steps[state + 1].second \in Nat /\ state * Late \in Int
      BY <1>2, <2>1, StepTypes
    <3>. QED
      BY <1>2, <3>1, <3>2
  <2>3. Steps[state + 1].second <= Steps[i].second
    BY <2>1, StepTypes
  <2>4. state * Late + Late <= i * Late
    <3>1. state * Late + Late = (state + 1) * Late
      BY <1>2, SMT
    <3>2. (state + 1) * Late <= i * Late
      BY <1>2, <2>1, SMT
    <3>. QED
      BY <3>1, <3>2
  <2>5. Steps[state + 1].second \in Nat /\ Steps[i].second \in Nat
        /\ state * Late \in Int /\ i * Late \in Int
    BY <1>2, <2>1, StepTypes
  <2>. QED
    BY <1>2, <2>2, <2>3, <2>4, <2>5
<1>4. bl_percent = StepPercent(state) /\ state \in i..NrSteps
  BY <1>1, <1>2, <1>3 DEF StepShown
<1>. QED
  BY <1>4

(* The steps of autodim_steps come in time: autodim_timer_start() counts   *)
(* each delay from the step before, so that late services only add up.     *)
THEOREM DimsInTime == Spec => []DimInTime
  BY AutodimInvariant, InvariantInTime, PTL

(* Without the flag nothing is dimmed on AC, and plugging in brightens.    *)
THEOREM BrightOnAC == Spec => OnACBright
<1>. DEFINE Bright == enabled' /\ HeldOff(on_ac', enabled_on_ac')
                        /\ (on_ac' # on_ac \/ bl_percent' # bl_percent)
                          => bl_percent' = max_percent'
<1>1. ASSUME AInv, [Next]_vars PROVE [Bright]_vars
  <2>. SUFFICES ASSUME Next, enabled', HeldOff(on_ac', enabled_on_ac'),
                       on_ac' # on_ac \/ bl_percent' # bl_percent
                PROVE  bl_percent' = max_percent'
    BY <1>1
  <2>0. BInv /\ AutodimTypeOK
    BY <1>1 DEF AInv
  <2>1. ASSUME NEW onAC \in ACFlags, NEW max \in MaxPercents, EnableAutodim(max, onAC)
        PROVE  bl_percent' = max_percent'
    BY <2>0, <2>1 DEF EnableAutodim, HandleInput, SetBacklight, Target, Min2, HeldOff
  <2>2. CASE InputEvent
    BY <2>2 DEF InputEvent, HandleInput, SetBacklight, Target, Min2
  <2>3. CASE TimerCallback
    BY <2>3 DEF TimerCallback, SetBacklight, Target, Min2
  <2>4. ASSUME NEW ac \in ACStates, BatteryEvent(ac)
        PROVE  bl_percent' = max_percent'
    BY <2>4 DEF BatteryEvent, SetBacklight, Target, Min2
  <2>5. CASE Resume
    BY <2>5 DEF Resume, HandleInput, SetBacklight, Target, Min2
  <2>6. CASE \E onAC \in ACFlags : EnableFails(onAC)
    BY <2>6 DEF EnableFails, dimVars
  <2>7. CASE DisableAutodim \/ Shutdown
    BY <2>7 DEF DisableAutodim, Shutdown
  <2>8. CASE DevicelockEvent
    BY <2>8 DEF DevicelockEvent, Suspend, dimVars
  <2>9. CASE MoveSlide \/ Tick \/ \E value \in ClientLevels : ClientRequest(value)
    BY <2>9 DEF MoveSlide, Tick, ClientRequest, dimVars
  <2>. QED
    BY <2>1, <2>2, <2>3, <2>4, <2>5, <2>6, <2>7, <2>8, <2>9 DEF Next
<1>. QED
  BY <1>1, AutodimInvariant, PTL DEF Spec, OnACBright

(***************************************************************************)
(* The suspend counter moves with the lock: locking counts up with it,     *)
(* unlocking in its second step (before which it is still held), and       *)
(* nothing else touches either.                                            *)
(***************************************************************************)
THEOREM SuspensionFollows == Spec => SuspendedFollowsLock
<1>. DEFINE Follows == enabled /\ enabled' =>
              suspended' - suspended = Held(locked', pc') - Held(locked, pc)
<1>1. ASSUME AInv, [Next]_vars PROVE [Follows]_vars
  <2>. SUFFICES ASSUME Next, enabled, enabled'
                PROVE  suspended' - suspended = Held(locked', pc') - Held(locked, pc)
    BY <1>1
  <2>0. /\ BInv /\ AutodimTypeOK /\ Unlocking
        /\ suspended \in Int /\ locked \in BOOLEAN
        /\ max_percent \in 0..100 /\ bl_percent \in 0..100
    BY <1>1 DEF AInv, AutodimTypeOK, BInv, BacklightTypeOK
  <2>1. ASSUME UNCHANGED <<suspended, locked, pc>>
        PROVE  suspended' - suspended = Held(locked', pc') - Held(locked, pc)
    BY <2>0, <2>1 DEF Held
  <2>2. ASSUME NEW onAC \in ACFlags, NEW max \in MaxPercents, EnableAutodim(max, onAC)
        PROVE  UNCHANGED <<suspended, locked, pc>>
    <3>1. /\ running /\ suspended' = suspended /\ pc' = pc
          /\ \/ HandleInput(RequestedMax(max), onAC, bl_percent)
             \/ UNCHANGED blVars
      BY <2>2 DEF EnableAutodim, Ready
    <3>2. RequestedMax(max) \in 0..100
      BY AutodimAssumption DEF RequestedMax, Clamp
    <3>3. locked' = locked
      BY <2>0, <3>1, <3>2, HandleInputEffect DEF blVars
    <3>. QED
      BY <3>1, <3>3
  <2>3. CASE InputEvent
    <3>1. /\ running /\ UNCHANGED <<suspended, pc>>
          /\ HandleInput(max_percent, enabled_on_ac, bl_percent)
      BY <2>3 DEF InputEvent, Ready
    <3>2. locked' = locked
      BY <2>0, <3>1, HandleInputEffect
    <3>. QED
      BY <2>1, <3>1, <3>2
  <2>4. CASE TimerCallback
    <3>1. /\ UNCHANGED <<suspended, pc>>
          /\ SetBacklight(Steps[state'].percent, max_percent, on_ac, enabled_on_ac,
                          bl_percent)
      BY <2>4 DEF TimerCallback
    <3>2. locked' = locked
      BY <3>1 DEF SetBacklight, SetPercentage, blVars
    <3>. QED
      BY <2>1, <3>1, <3>2
  <2>5. ASSUME NEW ac \in ACStates, BatteryEvent(ac)
        PROVE  UNCHANGED <<suspended, locked, pc>>
    <3>1. /\ UNCHANGED <<suspended, pc>>
          /\ SetBacklight(bl_percent, max_percent, ac, enabled_on_ac, bl_percent)
      BY <2>5 DEF BatteryEvent
    <3>2. locked' = locked
      BY <3>1 DEF SetBacklight, SetPercentage, blVars
    <3>. QED
      BY <3>1, <3>2
  <2>6. CASE DevicelockEvent
    <3>1. CASE ~slide
      <4>1. UNCHANGED <<suspended, locked, pc>>
        BY <2>6, <3>1 DEF DevicelockEvent, blVars, dimVars
      <4>. QED
        BY <2>1, <4>1
    <3>2. CASE slide
      <4>1. /\ pc = "idle" /\ Lockable /\ ScreenLock(~locked)
            /\ IF locked THEN pc' = "resume" /\ UNCHANGED dimVars
                         ELSE Suspend /\ UNCHANGED pc
        BY <2>6, <3>2 DEF DevicelockEvent, Ready
      <4>2. driver = "omapfb"
        BY <2>0, <4>1, LockableAssumption DEF BacklightTypeOK, BInv
      <4>3. locked' = ~locked
        BY <4>1, <4>2 DEF ScreenLock
      <4>4. suspended' = IF locked THEN suspended ELSE suspended + 1
        BY <4>1 DEF Suspend, dimVars
      <4>5. CASE locked
        <5>1. Held(locked', pc') = 1 /\ Held(locked, pc) = 1 /\ suspended' = suspended
          BY <4>1, <4>4, <4>5 DEF Held
        <5>. QED
          BY <2>0, <5>1
      <4>6. CASE ~locked
        <5>1. Held(locked, pc) = 0 /\ suspended' = suspended + 1
          BY <4>1, <4>4, <4>6 DEF Held
        <5>2. Held(locked', pc') = 1
          BY <4>3, <4>6 DEF Held
        <5>. QED
          BY <2>0, <5>1, <5>2
      <4>. QED
        BY <4>5, <4>6
    <3>. QED
      BY <3>1, <3>2
  <2>7. CASE Resume
    <3>1. /\ running /\ pc = "resume" /\ pc' = "idle" /\ suspended' = suspended - 1
          /\ \/ HandleInput(max_percent, enabled_on_ac, bl_percent)
             \/ UNCHANGED blVars
      BY <2>7 DEF Resume
    <3>2. locked' = locked /\ ~locked
      BY <2>0, <3>1, HandleInputEffect DEF Unlocking, blVars
    <3>. QED
      BY <2>0, <3>1, <3>2 DEF Held
  <2>8. CASE MoveSlide \/ Tick
    BY <2>1, <2>8 DEF MoveSlide, Tick, blVars, dimVars
  <2>9. ASSUME NEW value \in ClientLevels, ClientRequest(value)
        PROVE  UNCHANGED <<suspended, locked, pc>>
    BY <2>9 DEF ClientRequest, ClientSetBrightness, dimVars
  <2>10. CASE (\E onAC \in ACFlags : EnableFails(onAC)) \/ DisableAutodim \/ Shutdown
    BY <2>10 DEF EnableFails, DisableAutodim, Shutdown
  <2>. QED
    BY <2>1, <2>2, <2>3, <2>4, <2>5, <2>6, <2>7, <2>8, <2>9, <2>10 DEF Next
<1>. QED
  BY <1>1, AutodimInvariant, PTL DEF Spec, SuspendedFollowsLock
=============================================================================
