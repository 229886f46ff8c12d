--------------------------- MODULE Battery_proofs ---------------------------
(***************************************************************************)
(* Proofs about Battery, for every machine, every capacity, every          *)
(* threshold and every way in which its files may fail: who listens is up  *)
(* to date, the emergency command is executed for a low battery only, and  *)
(* once, and the files of a driver are those of one battery.               *)
(***************************************************************************)
EXTENDS Battery, ListLemmas

(***************************************************************************)
(* What makes the properties inductive.  ChargeMax: the full charge is     *)
(* unknown or that of the hardware, or 100 where the hardware reports      *)
(* percent.  Unfinished: only an update that has found a change has        *)
(* something to tell, and a change is found after the first file only.     *)
(* Attempted: after an attempt for a battery that still is low, the flag   *)
(* is set, and so it stays: a copy that is above the threshold was read    *)
(* from a battery that was.  (Only a powerbook checks a copy it has not    *)
(* read in the same update.)                                               *)
(***************************************************************************)
ChargeMax ==
  charge_max \in IF driver = "n810" THEN {100} ELSE {0, FullCharge}

CopyLow == Percent(charge_now, FullCharge) <= EmergencyThreshold

Unfinished ==
  /\ pc \in {"probe", "idle", "ac"} => ~value_changed
  /\ driver = "n810" => ~value_changed
  /\ pc = "probe" <=> driver = "none"
  /\ ~dropped /\ ~value_changed => Current

Attempted ==
  /\ driver = "none" \/ HwPercent > EmergencyThreshold => attempts = 0
  /\ attempts > 0 =>
       attempts = 1 /\ emergency_handled /\ (driver = "powerbook" => CopyLow)

BatInv == TypeOK /\ ChargeMax /\ Unfinished /\ Attempted
-----------------------------------------------------------------------------
(* Percentages of a charge.                                                *)
LEMMA PercentNat ==
  ASSUME NEW d \in Nat \ {0}, NEW x \in Nat
  PROVE  Percent(x, d) \in Nat
<1>. DEFINE n == x * 100 + d \div 2
<1>1. d \div 2 \in Nat
  OBVIOUS
<1>2. n \in Nat
  BY <1>1
<1>3. n \div d \in Nat
  <2>. HIDE DEF n
  <2>. QED
    BY <1>2
<1>. QED
  BY <1>3 DEF Percent, DivRound

(* A percentage of 100 is itself: what the n810 reports.                   *)
LEMMA PercentOfHundred ==
  ASSUME NEW x \in Nat
  PROVE  Percent(x, 100) = x
  BY SMT DEF Percent, DivRound

(* A charge that is not known has no percentage.                           *)
LEMMA PercentUnknown == ASSUME NEW x \in Int PROVE Percent(x, 0) = -1
  BY DEF Percent

LEMMA ThresholdInt == EmergencyThreshold \in Int
  BY DriverAssumption DEF EmergencyThreshold

(* What the probe functions return.                                        *)
LEMMA ProbedTypes ==
  ASSUME NEW k \in 1..5, NEW p \in BatModules(machine)[k]
  PROVE  /\ p.driver \in {"powerbook", "n810", "class", "acpi", "dummy"}
         /\ p.has_ac \in BOOLEAN
<1>1. ASSUME NEW name, NEW ac \in BOOLEAN, NEW full, NEW now,
             p = Probed(name, ac, full, now)
      PROVE  p.driver = name /\ p.has_ac \in BOOLEAN
  BY <1>1 DEF Probed
<1>2. /\ FindAcFile(machine) \in BOOLEAN
      /\ AcpiFindAcFile(machine) \in BOOLEAN
  BY Zenon DEF FindAcFile, AcpiFindAcFile
<1>3. CASE k = 1
  <2>1. p = Probed("powerbook", FALSE, NoFile, NoFile)
    BY <1>3 DEF BatModules, BatteryPowerbookProbe
  <2>. QED
    BY <1>1, <2>1
<1>4. CASE k = 2
  <2>1. p = Probed("n810", FALSE, NoFile, NoFile)
    BY <1>4 DEF BatModules, BatteryN810Probe
  <2>. QED
    BY <1>1, <2>1
<1>5. CASE k = 3
  <2>1. p = Probed("class", FindAcFile(machine), FindFullFile(machine),
                   FindNowFile(machine))
    BY <1>5 DEF BatModules, BatteryClassProbe
  <2>. QED
    BY <1>1, <1>2, <2>1
<1>6. CASE k = 4
  <2>1. p = Probed("acpi", AcpiFindAcFile(machine), AcpiFindFullFile(machine),
                   AcpiFindNowFile(machine))
    BY <1>6 DEF BatModules, BatteryAcpiProbe
  <2>. QED
    BY <1>1, <1>2, <2>1
<1>7. CASE k = 5
  <2>1. p = Probed("dummy", FALSE, NoFile, NoFile)
    BY <1>7 DEF BatModules, BatteryDummyProbe
  <2>. QED
    BY <1>1, <2>1
<1>. QED
  BY <1>3, <1>4, <1>5, <1>6, <1>7

(* The dummy is always found.                                              *)
LEMMA DummyFound == BatModules(machine)[5] # {}
  BY DEF BatModules, BatteryDummyProbe
-----------------------------------------------------------------------------
(* battery_emergency_check(): nothing, or the flag says what the known     *)
(* percentage is, and a flag that is set now makes an attempt.             *)
LEMMA EmergencyCheckEffect ==
  ASSUME emergency_handled \in BOOLEAN, attempts \in 0..2,
         NEW ac \in Int, NEW max \in Int, NEW now \in Int,
         EmergencyCheck(ac, max, now)
  PROVE  /\ emergency_handled' \in BOOLEAN /\ attempts' \in 0..2
         /\ \/ UNCHANGED <<emergency_handled, attempts>>
            \/ /\ EmergencyThreshold > 0 /\ ~(Percent(now, max) < 0)
               /\ emergency_handled' = (Percent(now, max) <= EmergencyThreshold)
               /\ IF emergency_handled' /\ ~emergency_handled
                    THEN CountAttempt ELSE UNCHANGED attempts
<1>1. CASE UNCHANGED <<emergency_handled, attempts>>
  BY <1>1
<1>2. CASE ~UNCHANGED <<emergency_handled, attempts>>
  <2>1. /\ ~(EmergencyThreshold <= 0) /\ ~(Percent(now, max) < 0)
        /\ emergency_handled' = (Percent(now, max) <= EmergencyThreshold)
        /\ IF emergency_handled' /\ ~emergency_handled
             THEN CountAttempt ELSE UNCHANGED attempts
    BY <1>2, Zenon DEF EmergencyCheck
  <2>2. EmergencyThreshold > 0
    BY <2>1, ThresholdInt
  <2>3. emergency_handled' \in BOOLEAN
    BY <2>1
  <2>4. attempts' \in 0..2
    BY <2>1 DEF CountAttempt
  <2>. QED
    BY <2>1, <2>2, <2>3, <2>4
<1>. QED
  BY <1>1, <1>2

(***************************************************************************)
(* The charge an update ends with is that of the hardware, or unknown, or  *)
(* zero for a file that could not be opened, or the copy of a powerbook.   *)
(***************************************************************************)
Known(max, now) ==
  /\ \/ max = 0
     \/ Percent(now, max) \in {HwPercent, 0}
     \/ driver = "powerbook" /\ now = charge_now
  /\ driver = "powerbook" => now \in {charge_now, hw_now} /\ max \in {0, FullCharge}

(* Then the end of an update keeps what is said of attempts,               *)
LEMMA FinishAttempted ==
  ASSUME BatInv, driver # "none", NEW max \in {0, FullCharge, 100}, NEW now \in Nat, Known(max, now),
         NEW changed \in BOOLEAN, Finish(changed, on_ac, max, now),
         charge_now' = now, UNCHANGED <<hwVars, driver>>
  PROVE  /\ emergency_handled' \in BOOLEAN /\ attempts' \in 0..2
         /\ Attempted'
<1>1. /\ TypeOK /\ Attempted
      /\ HwPercent \in Nat /\ HwPercent' = HwPercent /\ EmergencyThreshold \in Int
      /\ EmergencyThreshold' = EmergencyThreshold
      /\ on_ac \in Int /\ max \in Int /\ now \in Int
      /\ emergency_handled \in BOOLEAN /\ attempts \in 0..2
  BY PercentNat, ThresholdInt, DriverAssumption
     DEF BatInv, TypeOK, HwPercent, Percent, hwVars, EmergencyThreshold
<1>2. /\ emergency_handled' \in BOOLEAN /\ attempts' \in 0..2
      /\ \/ UNCHANGED <<emergency_handled, attempts>>
         \/ /\ EmergencyThreshold > 0 /\ ~(Percent(now, max) < 0)
            /\ emergency_handled' = (Percent(now, max) <= EmergencyThreshold)
            /\ IF emergency_handled' /\ ~emergency_handled
                 THEN CountAttempt ELSE UNCHANGED attempts
  <2>1. CASE changed
    <3>1. EmergencyCheck(on_ac, max, now)
      BY <2>1 DEF Finish, NotifyStateChange
    <3>. QED
      BY <1>1, <3>1, EmergencyCheckEffect
  <2>2. CASE ~changed
    BY <1>1, <2>2 DEF Finish, noticeVars
  <2>. QED
    BY <2>1, <2>2
<1>3. HwPercent > EmergencyThreshold => attempts' = 0
  BY <1>1, <1>2 DEF Attempted, CountAttempt
<1>4. ASSUME attempts' > 0, driver = "powerbook"
      PROVE  emergency_handled /\ attempts > 0 => CopyLow'
  <2>. SUFFICES ASSUME emergency_handled, attempts > 0 PROVE CopyLow'
    OBVIOUS
  <2>1. CopyLow /\ HwPercent <= EmergencyThreshold
    BY <1>1, <1>4 DEF Attempted
  <2>2. CopyLow' = (Percent(now, FullCharge) <= EmergencyThreshold)
    BY <1>1 DEF CopyLow, Percent
  <2>. QED
    BY <1>4, <2>1, <2>2 DEF CopyLow, HwPercent, Known
<1>5. CASE UNCHANGED <<emergency_handled, attempts>>
  BY <1>1, <1>2, <1>3, <1>4, <1>5 DEF Attempted
<1>6. CASE ~UNCHANGED <<emergency_handled, attempts>>
  <2>1. /\ EmergencyThreshold > 0 /\ ~(Percent(now, max) < 0)
        /\ emergency_handled' = (Percent(now, max) <= EmergencyThreshold)
        /\ IF emergency_handled' /\ ~emergency_handled
             THEN CountAttempt ELSE UNCHANGED attempts
    BY <1>2, <1>6
  <2>2. max # 0 /\ max \in Nat \ {0} /\ Percent(now, max) \in Nat
    <3>1. max # 0
      BY <1>1, <2>1, PercentUnknown
    <3>2. max \in Nat \ {0}
      BY <3>1, DriverAssumption
    <3>. QED
      BY <3>1, <3>2, PercentNat
  <2>3. CASE emergency_handled' /\ ~emergency_handled
    <3>1. attempts = 0
      BY <1>1, <2>3 DEF Attempted
    <3>2. attempts' \in {0, 1}
      BY <2>1, <2>3, <3>1 DEF CountAttempt
    <3>3. driver = "powerbook" => CopyLow'
      <4>. SUFFICES ASSUME driver = "powerbook" PROVE CopyLow'
        OBVIOUS
      <4>1. max = FullCharge
        BY <2>2 DEF Known
      <4>2. CopyLow' = (Percent(now, FullCharge) <= EmergencyThreshold)
        BY <1>1 DEF CopyLow, Percent
      <4>. QED
        BY <2>1, <2>3, <4>1, <4>2
    <3>. QED
      BY <1>1, <1>2, <1>3, <2>3, <3>2, <3>3 DEF Attempted
  <2>4. CASE emergency_handled' /\ emergency_handled
    BY <1>1, <1>2, <1>3, <1>4, <2>1, <2>4 DEF Attempted
  <2>5. CASE ~emergency_handled'
    <3>1. ~(Percent(now, max) <= EmergencyThreshold) /\ attempts' = attempts
      BY <1>2, <2>1, <2>5
    <3>2. attempts = 0
      <4>1. CASE Percent(now, max) = HwPercent
        BY <1>1, <3>1, <4>1 DEF Attempted
      <4>2. CASE Percent(now, max) = 0
        BY <1>1, <2>1, <3>1, <4>2
      <4>3. CASE driver = "powerbook" /\ now = charge_now
        <5>1. max = FullCharge
          BY <2>2, <4>3 DEF Known
        <5>2. ~CopyLow
          BY <3>1, <4>3, <5>1 DEF CopyLow
        <5>. QED
          BY <1>1, <4>3, <5>2 DEF Attempted
      <4>. QED
        BY <2>2, <4>1, <4>2, <4>3 DEF Known
    <3>. QED
      BY <1>1, <1>2, <1>3, <3>1, <3>2 DEF Attempted
  <2>. QED
    BY <1>2, <2>3, <2>4, <2>5
<1>. QED
  BY <1>2, <1>5, <1>6

-----------------------------------------------------------------------------
LEMMA BatInvInit == Init => BatInv
<1>. SUFFICES ASSUME Init PROVE BatInv
  OBVIOUS
<1>1. /\ has_ac \in BOOLEAN /\ value_changed \in BOOLEAN
      /\ emergency_handled \in BOOLEAN /\ dropped \in BOOLEAN
  BY DEF Init
<1>2. TypeOK
  BY <1>1 DEF Init, TypeOK
<1>3. ChargeMax /\ Unfinished /\ Attempted
  BY DEF Init, ChargeMax, Unfinished, Current, Attempted
<1>. QED
  BY <1>2, <1>3 DEF BatInv

(* The history of the readings that failed.                                *)
LEMMA MarkTypes ==
  ASSUME BatInv, NEW read, NEW notRead \in SUBSET {"ac", "max", "now"},
         Mark(read, notRead)
  PROVE  failed' \subseteq {"ac", "max", "now"}
  BY DEF BatInv, TypeOK, Mark

(* Probing: one driver after the other, at the latest the dummy.           *)
LEMMA ProbeFailsKeeps ==
  ASSUME BatInv, ProbeFails
  PROVE  BatInv'
<1>1. probe' \in 1..5
  <2>1. probe \in 1..5 /\ probe' = probe + 1 /\ probe # 5
    BY DummyFound DEF BatInv, TypeOK, ProbeFails
  <2>. QED
    BY <2>1
<1>. QED
  BY <1>1 DEF BatInv, TypeOK, ProbeFails, ChargeMax, Unfinished, Current, Attempted,
              HwPercent, CopyLow, hwVars, copyVars, noticeVars

LEMMA ProbeSucceedsKeeps ==
  ASSUME BatInv, ProbeSucceeds
  PROVE  BatInv'
<1>1. PICK p \in BatModules(machine)[probe] :
        /\ pc = "probe"
        /\ driver' = p.driver /\ has_ac' = p.has_ac
        /\ charge_max' = IF p.driver = "n810" THEN 100 ELSE 0
        /\ pc' = IF p.driver = "dummy" THEN "idle" ELSE FirstFile(p.driver)
        /\ told' = [told EXCEPT !.max = charge_max']
        /\ UNCHANGED <<machine, probe, hwVars, on_ac, charge_now, value_changed,
                       emergency_handled, attempts, failed, dropped>>
  BY DEF ProbeSucceeds
<1>2. /\ driver' \in {"powerbook", "n810", "class", "acpi", "dummy"}
      /\ has_ac' \in BOOLEAN
  BY <1>1, ProbedTypes DEF BatInv, TypeOK
<1>3. /\ charge_max' \in {0, FullCharge, 100} /\ ChargeMax'
      /\ pc' \in {"idle", "ac", "now"} /\ (driver' # "n810" /\ pc' # "idle" => pc' = "ac")
  BY <1>1 DEF ChargeMax, FirstFile
<1>4. TypeOK'
  BY <1>1, <1>2, <1>3 DEF BatInv, TypeOK, hwVars
<1>5. Unfinished'
  <2>1. ~value_changed /\ driver = "none"
    BY <1>1 DEF BatInv, Unfinished
  <2>2. Current => Current'
    BY <1>1 DEF BatInv, TypeOK, Current
  <2>. QED
    BY <1>1, <1>2, <1>3, <2>1, <2>2 DEF BatInv, Unfinished
<1>6. Attempted'
  <2>1. attempts' = 0
    BY <1>1 DEF BatInv, Attempted, Unfinished
  <2>. QED
    BY <2>1 DEF Attempted
<1>. QED
  BY <1>3, <1>4, <1>5, <1>6 DEF BatInv

(* The parts of the invariant an update disturbs are those of its copies.  *)
LEMMA PollKeeps ==
  ASSUME BatInv, Poll
  PROVE  BatInv'
<1>1. /\ pc = "idle" /\ driver # "dummy" /\ pc' = FirstFile(driver)
      /\ value_changed' = FALSE
      /\ UNCHANGED <<probeVars, hwVars, copyVars, noticeVars, failed, dropped>>
  BY DEF Poll
<1>2. pc' \in {"ac", "now"}
  BY <1>1 DEF FirstFile
<1>3. value_changed' \in BOOLEAN
  BY <1>1
<1>4. TypeOK'
  BY <1>1, <1>2, <1>3 DEF BatInv, TypeOK, probeVars, hwVars, copyVars, noticeVars
<1>5. ChargeMax' /\ Unfinished' /\ Attempted'
  BY <1>1, <1>2 DEF BatInv, TypeOK, ChargeMax, Unfinished, Current, Attempted, HwPercent,
                    CopyLow, probeVars, hwVars, copyVars, noticeVars
<1>. QED
  BY <1>4, <1>5 DEF BatInv

LEMMA GiveUpKeeps ==
  ASSUME BatInv, NEW file \in {"ac", "max", "now"}, GiveUp(file)
  PROVE  BatInv'
<1>1. /\ pc = file /\ pc' = "idle" /\ value_changed' = FALSE
      /\ failed' = failed \cup {file}
      /\ dropped' = (dropped \/ value_changed)
      /\ UNCHANGED <<probeVars, hwVars, copyVars, noticeVars>>
  BY DEF GiveUp
<1>2. value_changed' \in BOOLEAN /\ dropped' \in BOOLEAN
  BY <1>1
<1>3. TypeOK'
  BY <1>1, <1>2 DEF BatInv, TypeOK, probeVars, hwVars, copyVars, noticeVars
<1>4. ChargeMax' /\ Unfinished' /\ Attempted'
  BY <1>1 DEF BatInv, ChargeMax, Unfinished, Current, Attempted, HwPercent,
              CopyLow, probeVars, hwVars, copyVars, noticeVars
<1>. QED
  BY <1>3, <1>4 DEF BatInv

LEMMA ClassReadACKeeps ==
  ASSUME BatInv, ClassReadAC
  PROVE  BatInv'
<1>1. /\ SysfsDriver /\ pc = "ac" /\ pc' = "max"
      /\ on_ac' = IF has_ac THEN hw_ac ELSE -1
      /\ value_changed' = (value_changed \/ on_ac' # on_ac)
      /\ failed' = (failed \ {"ac"}) \cup {}
      /\ UNCHANGED <<probeVars, hwVars, charge_max, charge_now, noticeVars, dropped>>
  BY DEF ClassReadAC, Mark
<1>2. on_ac' \in -1..1 /\ failed' \subseteq {"ac", "max", "now"}
  BY <1>1 DEF BatInv, TypeOK
<1>3. value_changed' \in BOOLEAN
  BY <1>1
<1>4. TypeOK'
  BY <1>1, <1>2, <1>3 DEF BatInv, TypeOK, probeVars, hwVars, noticeVars
<1>5. Unfinished'
  BY <1>1 DEF BatInv, Unfinished, Current, SysfsDriver, probeVars, noticeVars
<1>6. ChargeMax' /\ Attempted'
  BY <1>1 DEF BatInv, ChargeMax, Attempted, HwPercent, CopyLow, probeVars, hwVars, noticeVars
<1>. QED
  BY <1>4, <1>5, <1>6 DEF BatInv

LEMMA ClassReadMaxKeeps ==
  ASSUME BatInv, ClassReadMax
  PROVE  BatInv'
<1>1. PICK ok \in Opened("max") :
        /\ charge_max' = IF ok THEN FullCharge ELSE 0
        /\ IF ok THEN Mark({"max"}, {}) ELSE Mark({}, {"max"})
  BY DEF ClassReadMax
<1>2. /\ SysfsDriver /\ pc = "max" /\ pc' = "now"
      /\ value_changed' = (value_changed \/ charge_max' # charge_max)
      /\ UNCHANGED <<probeVars, hwVars, on_ac, charge_now, noticeVars, dropped>>
  BY DEF ClassReadMax
<1>3. charge_max' \in {0, FullCharge} /\ failed' \subseteq {"ac", "max", "now"}
  BY <1>1, MarkTypes
<1>4. value_changed' \in BOOLEAN
  BY <1>2
<1>5. TypeOK'
  BY <1>2, <1>3, <1>4 DEF BatInv, TypeOK, probeVars, hwVars, noticeVars
<1>6. Unfinished' /\ ChargeMax'
  BY <1>2, <1>3 DEF BatInv, Unfinished, Current, ChargeMax, SysfsDriver, probeVars,
                    noticeVars
<1>7. Attempted'
  BY <1>2 DEF BatInv, Attempted, HwPercent, CopyLow, probeVars, hwVars, noticeVars
<1>. QED
  BY <1>5, <1>6, <1>7 DEF BatInv

(* The end of an update: whoever listens is told, if anything has changed. *)
LEMMA FinishKeeps ==
  ASSUME BatInv, NEW changed \in BOOLEAN, driver # "none", pc # "probe",
         charge_max' \in {0, FullCharge, 100}, ChargeMax', charge_now' \in Nat,
         Known(charge_max', charge_now'),
         Finish(changed, on_ac, charge_max', charge_now'),
         failed' \subseteq {"ac", "max", "now"},
         UNCHANGED <<probeVars, hwVars, on_ac, dropped>>,
         ~changed => ~value_changed /\ UNCHANGED <<charge_max, charge_now>>
  PROVE  BatInv'
<1>1. /\ pc' = "idle" /\ value_changed' = FALSE
      /\ told' = IF changed THEN [ac |-> on_ac, max |-> charge_max', now |-> charge_now']
                            ELSE told
  BY DEF Finish, NotifyStateChange, noticeVars
<1>2. emergency_handled' \in BOOLEAN /\ attempts' \in 0..2 /\ Attempted'
  BY FinishAttempted DEF probeVars
<1>3. value_changed' \in BOOLEAN
  BY <1>1
<1>4. told' \in [ac : -1..1, max : {0, FullCharge, 100}, now : Nat]
  BY <1>1 DEF BatInv, TypeOK
<1>5. TypeOK'
  BY <1>1, <1>2, <1>3, <1>4 DEF BatInv, TypeOK, probeVars, hwVars
<1>6. Unfinished'
  <2>1. CASE changed
    BY <1>1, <2>1 DEF Unfinished, Current, probeVars
  <2>2. CASE ~changed
    BY <1>1, <2>2 DEF BatInv, Unfinished, Current, probeVars
  <2>. QED
    BY <2>1, <2>2
<1>. QED
  BY <1>2, <1>5, <1>6 DEF BatInv

LEMMA ClassReadNowKeeps ==
  ASSUME BatInv, ClassReadNow
  PROVE  BatInv'
<1>1. PICK ok \in Opened("now") :
        /\ ReadNow(IF ok THEN hw_now ELSE 0)
        /\ Finish(value_changed \/ charge_now' # charge_now,
                  on_ac, charge_max, charge_now')
  BY DEF ClassReadNow
<1>2. /\ SysfsDriver /\ pc = "now" /\ driver \in {"class", "acpi"}
      /\ UNCHANGED <<probeVars, hwVars, on_ac, charge_max, dropped>>
      /\ failed' \subseteq {"ac", "max", "now"}
  BY <1>1, MarkTypes DEF ReadNow, SysfsDriver
<1>3. /\ charge_max \in {0, FullCharge} /\ hw_now \in 0..FullCharge
      /\ FullCharge \in Nat \ {0}
  BY <1>2, DriverAssumption DEF BatInv, ChargeMax, TypeOK
<1>4. \/ charge_max = 0 /\ charge_now' = 0
      \/ charge_max = FullCharge /\ charge_now' \in {0, hw_now}
  BY <1>1, <1>3 DEF ReadNow
<1>5. Known(charge_max', charge_now')
  <2>1. Percent(0, FullCharge) = 0
    <3>1. FullCharge \div 2 \in Nat /\ FullCharge \div 2 < FullCharge
      BY <1>3
    <3>2. (FullCharge \div 2) \div FullCharge = 0
      BY <1>3, <3>1, SMT
    <3>. QED
      BY <1>3, <3>1, <3>2 DEF Percent, DivRound
  <2>. QED
    BY <1>2, <1>4, <2>1 DEF Known, HwPercent
<1>6. ChargeMax' /\ charge_max' \in {0, FullCharge, 100} /\ charge_now' \in Nat
  BY <1>2, <1>3, <1>4 DEF ChargeMax, BatInv, probeVars
<1>7. driver # "none" /\ pc # "probe"
  BY <1>2
<1>8. Finish(value_changed \/ charge_now' # charge_now, on_ac, charge_max', charge_now')
  BY <1>1, <1>2
<1>. DEFINE changed == value_changed \/ charge_now' # charge_now
<1>9. /\ changed \in BOOLEAN
      /\ ~changed => ~value_changed /\ UNCHANGED <<charge_max, charge_now>>
  BY <1>2 DEF BatInv, TypeOK
<1>. QED
  BY <1>2, <1>5, <1>6, <1>7, <1>8, <1>9, FinishKeeps

LEMMA PowerbookReadInfoKeeps ==
  ASSUME BatInv, PowerbookReadInfo
  PROVE  BatInv'
<1>1. PICK missing \in SUBSET (CannotRead \cap {"ac"}) :
        /\ on_ac' = IF "ac" \in missing THEN on_ac ELSE hw_ac
        /\ Mark({"ac"}, missing)
  BY DEF PowerbookReadInfo
<1>2. /\ driver = "powerbook" /\ pc = "ac" /\ pc' = "now"
      /\ value_changed' = (on_ac' # on_ac)
      /\ UNCHANGED <<probeVars, hwVars, charge_max, charge_now, noticeVars, dropped>>
  BY DEF PowerbookReadInfo
<1>3. on_ac' \in -1..1 /\ failed' \subseteq {"ac", "max", "now"}
  BY <1>1, MarkTypes DEF BatInv, TypeOK
<1>4. value_changed' \in BOOLEAN
  BY <1>2
<1>5. TypeOK'
  BY <1>2, <1>3, <1>4 DEF BatInv, TypeOK, probeVars, hwVars, noticeVars
<1>6. Unfinished'
  BY <1>2 DEF BatInv, Unfinished, Current, probeVars, noticeVars
<1>7. ChargeMax' /\ Attempted'
  BY <1>2 DEF BatInv, ChargeMax, Attempted, HwPercent, CopyLow, probeVars, hwVars, noticeVars
<1>. QED
  BY <1>5, <1>6, <1>7 DEF BatInv

LEMMA PowerbookReadStatKeeps ==
  ASSUME BatInv, PowerbookReadStat
  PROVE  BatInv'
<1>. DEFINE changed == value_changed \/ charge_max' # charge_max \/ charge_now' # charge_now
<1>1. PICK missing \in SUBSET (CannotRead \cap {"max", "now"}) :
        /\ charge_max' = IF "max" \in missing THEN charge_max ELSE FullCharge
        /\ charge_now' = IF "now" \in missing THEN charge_now ELSE hw_now
        /\ Mark({"max", "now"}, missing)
  BY DEF PowerbookReadStat
<1>2. /\ driver = "powerbook" /\ pc = "now"
      /\ Finish(changed, on_ac, charge_max', charge_now')
      /\ UNCHANGED <<probeVars, hwVars, on_ac, dropped>>
  BY DEF PowerbookReadStat
<1>3. /\ charge_max \in {0, FullCharge} /\ hw_now \in Nat /\ charge_now \in Nat
      /\ FullCharge \in Nat \ {0}
  BY <1>2, DriverAssumption DEF BatInv, ChargeMax, TypeOK
<1>4. /\ charge_max' \in {0, FullCharge} /\ charge_now' \in {charge_now, hw_now}
      /\ failed' \subseteq {"ac", "max", "now"}
  BY <1>1, <1>3, MarkTypes
<1>5. Known(charge_max', charge_now')
  BY <1>2, <1>4 DEF Known, HwPercent
<1>6. ChargeMax' /\ charge_max' \in {0, FullCharge, 100} /\ charge_now' \in Nat
  BY <1>2, <1>3, <1>4 DEF ChargeMax, probeVars
<1>7. /\ changed \in BOOLEAN
      /\ ~changed => ~value_changed /\ UNCHANGED <<charge_max, charge_now>>
  BY DEF BatInv, TypeOK
<1>. QED
  BY <1>2, <1>4, <1>5, <1>6, <1>7, FinishKeeps

LEMMA N810ReadLevelKeeps ==
  ASSUME BatInv, N810ReadLevel
  PROVE  BatInv'
<1>. DEFINE changed == charge_now' # charge_now
<1>1. /\ driver = "n810" /\ pc = "now" /\ charge_now' = HwPercent
      /\ Mark({"now"}, {})
      /\ Finish(changed, on_ac, charge_max, charge_now')
      /\ UNCHANGED <<probeVars, hwVars, on_ac, charge_max, dropped>>
  BY DEF N810ReadLevel, HwPercent
<1>2. HwPercent \in Nat /\ charge_max = 100
  BY <1>1, PercentNat, DriverAssumption DEF BatInv, ChargeMax, TypeOK, HwPercent
<1>3. Known(charge_max', charge_now')
  BY <1>1, <1>2, PercentOfHundred DEF Known
<1>4. /\ ChargeMax' /\ charge_max' \in {0, FullCharge, 100} /\ charge_now' \in Nat
      /\ failed' \subseteq {"ac", "max", "now"}
  BY <1>1, <1>2, MarkTypes DEF ChargeMax, probeVars
<1>5. /\ changed \in BOOLEAN
      /\ ~changed => ~value_changed /\ UNCHANGED <<charge_max, charge_now>>
  BY <1>1 DEF BatInv, Unfinished
<1>6. Finish(changed, on_ac, charge_max', charge_now')
  BY <1>1
<1>. QED
  BY <1>1, <1>3, <1>4, <1>5, <1>6, FinishKeeps

(* The hardware goes on; a battery that is charged ends the emergency.     *)
LEMMA PlugKeeps ==
  ASSUME BatInv, Plug
  PROVE  BatInv'
<1>1. hw_ac' \in {0, 1}
  BY DEF BatInv, TypeOK, Plug
<1>. QED
  BY <1>1 DEF BatInv, TypeOK, Plug, ChargeMax, Unfinished, Current, Attempted, HwPercent,
              CopyLow, probeVars, copyVars, noticeVars

LEMMA ChargeKeeps ==
  ASSUME BatInv, Charge
  PROVE  BatInv'
<1>1. /\ hw_now' \in 0..FullCharge
      /\ attempts' = IF HwPercent' > EmergencyThreshold THEN 0 ELSE attempts
      /\ UNCHANGED <<probeVars, hw_ac, copyVars, value_changed, pc, emergency_handled,
                     told, failed, dropped>>
  BY DEF Charge, HwPercent
<1>2. attempts' \in 0..2 /\ EmergencyThreshold' = EmergencyThreshold
  BY <1>1 DEF BatInv, TypeOK, EmergencyThreshold
<1>3. TypeOK'
  BY <1>1, <1>2 DEF BatInv, TypeOK, probeVars, copyVars
<1>4. ChargeMax' /\ Unfinished'
  BY <1>1 DEF BatInv, ChargeMax, Unfinished, Current, probeVars, copyVars
<1>5. Attempted'
  BY <1>1, <1>2 DEF BatInv, Attempted, CopyLow, probeVars, copyVars
<1>. QED
  BY <1>3, <1>4, <1>5 DEF BatInv

-----------------------------------------------------------------------------
LEMMA BatInvNext == BatInv /\ [Next]_vars => BatInv'
<1>. SUFFICES ASSUME BatInv, [Next]_vars PROVE BatInv'
  OBVIOUS
<1>1. CASE ProbeFails \/ ProbeSucceeds
  BY <1>1, ProbeFailsKeeps, ProbeSucceedsKeeps
<1>2. CASE Update
  BY <1>2, PollKeeps, ClassReadACKeeps, ClassReadMaxKeeps, ClassReadNowKeeps,
     PowerbookReadInfoKeeps, PowerbookReadStatKeeps, N810ReadLevelKeeps DEF Update
<1>3. CASE \E file \in {"ac", "max", "now"} : GiveUp(file)
  BY <1>3, GiveUpKeeps
<1>4. CASE Plug \/ Charge
  BY <1>4, PlugKeeps, ChargeKeeps
<1>5. CASE UNCHANGED vars
  BY <1>5 DEF vars, BatInv, TypeOK, ChargeMax, Unfinished, Current, Attempted, HwPercent,
              CopyLow, probeVars, hwVars, copyVars, noticeVars
<1>. QED
  BY <1>1, <1>2, <1>3, <1>4, <1>5 DEF Next

(* The inductive invariant of the monitor and its drivers.                 *)
THEOREM BatteryInvariant == Spec => []BatInv
  BY BatInvInit, BatInvNext, PTL DEF Spec

(* Every variable keeps its type, whatever machine the drivers are probed  *)
(* on, in the order of the Makefile: above all a driver is found, at the   *)
(* latest the dummy, and no copy is ever an error code.                    *)
THEOREM BatteryTypes == Spec => []TypeOK
  BY BatteryInvariant, PTL DEF BatInv

(* Between two updates autodim and the clients know the driver's copies.   *)
THEOREM ListenersAreCurrent == Spec => []ListenersCurrent
<1>1. BatInv => ListenersCurrent
  BY DEF BatInv, Unfinished, ListenersCurrent
<1>. QED
  BY <1>1, BatteryInvariant, PTL

(* One emergency makes one attempt to execute the command.                 *)
THEOREM AttemptedOnce == Spec => []OncePerEmergency
<1>1. BatInv => OncePerEmergency
  BY DEF BatInv, TypeOK, Attempted, OncePerEmergency
<1>. QED
  BY <1>1, BatteryInvariant, PTL

(***************************************************************************)
(* The emergency command is executed for a low battery only: the flag is   *)
(* set for a known percentage, and a known percentage is that of the       *)
(* hardware unless the charge could not be read.                           *)
(***************************************************************************)
THEOREM CommandOnlyWhenLow == Spec => EmergencyOnlyWhenLow
<1>. DEFINE Justified == ~emergency_handled /\ emergency_handled' =>
                           "now" \in failed' \/ HwPercent <= EmergencyThreshold
<1>1. ASSUME BatInv, [Next]_vars PROVE [Justified]_vars
  <2>. SUFFICES ASSUME Next, ~emergency_handled, emergency_handled', "now" \notin failed'
                PROVE  HwPercent <= EmergencyThreshold
    BY <1>1
  <2>1. ASSUME NEW changed \in BOOLEAN, NEW max \in {0, FullCharge, 100}, NEW now \in Nat,
               Finish(changed, on_ac, max, now)
        PROVE  max # 0 /\ Percent(now, max) <= EmergencyThreshold
    <3>1. EmergencyCheck(on_ac, max, now)
      BY <2>1 DEF Finish, NotifyStateChange, noticeVars
    <3>2. /\ emergency_handled \in BOOLEAN /\ attempts \in 0..2
          /\ on_ac \in Int /\ max \in Int /\ now \in Int
      BY <1>1, DriverAssumption DEF BatInv, TypeOK
    <3>3. ~(Percent(now, max) < 0) /\ Percent(now, max) <= EmergencyThreshold
      BY <3>1, <3>2, EmergencyCheckEffect
    <3>. QED
      BY <3>2, <3>3, PercentUnknown
  <2>2. FullCharge \in Nat \ {0} /\ hw_now \in 0..FullCharge /\ charge_now \in Nat
        /\ charge_max \in {0, FullCharge, 100} /\ ChargeMax
        /\ value_changed \in BOOLEAN
    BY <1>1, DriverAssumption DEF BatInv, TypeOK
  <2>3. CASE ClassReadNow
    <3>1. PICK ok \in Opened("now") :
            /\ ReadNow(IF ok THEN hw_now ELSE 0)
            /\ Finish(value_changed \/ charge_now' # charge_now,
                      on_ac, charge_max, charge_now')
      BY <2>3 DEF ClassReadNow
    <3>2. SysfsDriver /\ charge_max \in {0, FullCharge}
      BY <2>2, <3>1 DEF ReadNow, SysfsDriver, ChargeMax
    <3>3. charge_now' \in Nat /\ (charge_max = FullCharge => charge_now' = hw_now)
      <4>1. (IF ok THEN hw_now ELSE 0) = hw_now
        BY <3>1 DEF ReadNow, Mark
      <4>. QED
        BY <2>2, <3>1, <3>2, <4>1 DEF ReadNow
    <3>4. charge_max # 0 /\ Percent(charge_now', charge_max) <= EmergencyThreshold
      BY <2>1, <2>2, <3>1, <3>3
    <3>. QED
      BY <3>2, <3>3, <3>4 DEF HwPercent
  <2>4. CASE PowerbookReadStat
    <3>1. PICK missing \in SUBSET (CannotRead \cap {"max", "now"}) :
            /\ charge_max' = IF "max" \in missing THEN charge_max ELSE FullCharge
            /\ charge_now' = IF "now" \in missing THEN charge_now ELSE hw_now
            /\ Mark({"max", "now"}, missing)
      BY <2>4 DEF PowerbookReadStat
    <3>2. /\ driver = "powerbook"
          /\ Finish(value_changed \/ charge_max' # charge_max \/ charge_now' # charge_now,
                    on_ac, charge_max', charge_now')
      BY <2>4 DEF PowerbookReadStat
    <3>3. charge_max' \in {0, FullCharge} /\ charge_now' = hw_now /\ hw_now \in Nat
      BY <2>2, <3>1, <3>2 DEF ChargeMax, Mark
    <3>4. charge_max' # 0 /\ Percent(charge_now', charge_max') <= EmergencyThreshold
      BY <2>1, <3>2, <3>3
    <3>. QED
      BY <3>3, <3>4 DEF HwPercent
  <2>5. CASE N810ReadLevel
    <3>1. /\ driver = "n810" /\ charge_now' = HwPercent
          /\ Finish(charge_now' # charge_now, on_ac, charge_max, charge_now')
      BY <2>5 DEF N810ReadLevel, HwPercent
    <3>2. HwPercent \in Nat /\ charge_max = 100
      BY <2>2, <3>1, PercentNat DEF ChargeMax, HwPercent
    <3>3. Percent(HwPercent, 100) <= EmergencyThreshold
      BY <2>1, <3>1, <3>2
    <3>. QED
      BY <3>2, <3>3, PercentOfHundred
  <2>6. CASE ProbeFails \/ ProbeSucceeds \/ Poll \/ Plug \/ Charge
    BY <2>6 DEF ProbeFails, ProbeSucceeds, Poll, Plug, Charge, noticeVars
  <2>7. CASE ClassReadAC \/ ClassReadMax \/ PowerbookReadInfo
    BY <2>7 DEF ClassReadAC, ClassReadMax, PowerbookReadInfo, noticeVars
  <2>8. CASE \E file \in {"ac", "max", "now"} : GiveUp(file)
    BY <2>8 DEF GiveUp, noticeVars
  <2>. QED
    BY <2>3, <2>4, <2>5, <2>6, <2>7, <2>8 DEF Next, Update
<1>. QED
  BY <1>1, BatteryInvariant, PTL DEF Spec, EmergencyOnlyWhenLow
-----------------------------------------------------------------------------
(***************************************************************************)
(* The search for the hardware.  The driver is the first of the table that *)
(* finds its own, and its files are those its probe function found.        *)
(***************************************************************************)
ProbeInv ==
  /\ \A k \in 1..(probe - 1) : BatModules(machine)[k] = {}
  /\ driver # "none" =>
       \E p \in BatModules(machine)[probe] :
         driver = p.driver /\ full_file = p.full /\ now_file = p.now

(* The places of the batteries, and of the files of a kind.                *)
Bats(supplies) == {k \in DOMAIN supplies : supplies[k].name = "BAT"}
OfKind(files, kind) == {k \in DOMAIN files : files[k].of = kind}

LEMMA FindFileExpanded ==
  ASSUME NEW supplies, NEW kind
  PROVE  FindFile(supplies, kind) =
           IF Bats(supplies) = {} THEN NoFile
           ELSE IF OfKind(supplies[Min(Bats(supplies))].files, kind) = {} THEN NoFile
           ELSE [battery |-> Min(Bats(supplies)),
                 file |-> supplies[Min(Bats(supplies))].files[
                            Min(OfKind(supplies[Min(Bats(supplies))].files, kind))]]
  BY Zenon DEF FindFile, Matching, Bats, OfKind

LEMMA FirstBattery ==
  ASSUME NEW supplies \in Seq(Supplies), Bats(supplies) # {}
  PROVE  /\ Min(Bats(supplies)) \in Bats(supplies) /\ Min(Bats(supplies)) \in Nat
         /\ Min(Bats(supplies)) \in DOMAIN supplies
         /\ supplies[Min(Bats(supplies))].files \in Seq(Files)
<1>1. Len(supplies) \in Nat /\ DOMAIN supplies = 1..Len(supplies)
  BY LenProperties
<1>2. Bats(supplies) \in SUBSET Nat /\ Bats(supplies) \subseteq 1..Len(supplies)
  BY <1>1 DEF Bats
<1>. DEFINE b == Min(Bats(supplies))
<1>3. b \in Bats(supplies)
  BY <1>2, LeastElement
<1>. HIDE DEF b
<1>4. b \in 1..Len(supplies) /\ supplies[b] \in Supplies
  BY <1>2, <1>3, ElementOfSeq
<1>5. supplies[b].files \in Seq(Files)
  BY <1>4 DEF Supplies
<1>. QED
  BY <1>1, <1>3, <1>4, <1>5 DEF b

LEMMA FirstFileOfKind ==
  ASSUME NEW files \in Seq(Files), NEW kind, OfKind(files, kind) # {}
  PROVE  /\ Min(OfKind(files, kind)) \in DOMAIN files
         /\ files[Min(OfKind(files, kind))] \in Files
         /\ files[Min(OfKind(files, kind))].of = kind
<1>1. Len(files) \in Nat /\ DOMAIN files = 1..Len(files)
  BY LenProperties
<1>2. OfKind(files, kind) \in SUBSET Nat /\ OfKind(files, kind) \subseteq 1..Len(files)
  BY <1>1 DEF OfKind
<1>. DEFINE f == Min(OfKind(files, kind))
<1>3. f \in OfKind(files, kind)
  BY <1>2, LeastElement
<1>. HIDE DEF f
<1>4. f \in 1..Len(files) /\ files[f] \in Files
  BY <1>2, <1>3, ElementOfSeq
<1>. QED
  BY <1>1, <1>3, <1>4 DEF f, OfKind

(***************************************************************************)
(* A walk that finds a file finds it in the first battery, and it is of    *)
(* the kind that was looked for; a battery that has files of both kinds    *)
(* makes both walks succeed if it is the first.                            *)
(***************************************************************************)
LEMMA FileFound ==
  ASSUME NEW supplies \in Seq(Supplies), NEW kind,
         FindFile(supplies, kind) # NoFile
  PROVE  LET b == Min(Bats(supplies))
             found == FindFile(supplies, kind)
         IN  /\ b \in DOMAIN supplies /\ found.battery = b
             /\ found.file.of = kind
             /\ \E k \in DOMAIN supplies[b].files :
                  found.file = supplies[b].files[k]
<1>. DEFINE b == Min(Bats(supplies))
            files == supplies[b].files
            f == Min(OfKind(files, kind))
<1>1. /\ Bats(supplies) # {} /\ OfKind(files, kind) # {}
      /\ FindFile(supplies, kind) = [battery |-> b, file |-> files[f]]
  BY FindFileExpanded
<1>2. b \in DOMAIN supplies /\ files \in Seq(Files)
  BY <1>1, FirstBattery
<1>. HIDE DEF b, files
<1>3. f \in DOMAIN files /\ files[f].of = kind
  BY <1>1, <1>2, FirstFileOfKind
<1>. HIDE DEF f
<1>. QED
  BY <1>1, <1>2, <1>3 DEF b, files

LEMMA BothFound ==
  ASSUME NEW supplies \in Seq(Supplies), HasBoth(supplies), NEW kind \in {"now", "full"}
  PROVE  FindFile(supplies, kind) # NoFile
<1>. DEFINE b == Min(Bats(supplies))
            files == supplies[b].files
            f == Min(OfKind(files, kind))
<1>1. /\ Bats(supplies) # {}
      /\ \A bat \in Bats(supplies) :
           \E k \in DOMAIN supplies[bat].files : supplies[bat].files[k].of = kind
  BY Zenon DEF HasBoth, Matching, Bats
<1>2. b \in Bats(supplies) /\ b \in Nat /\ files \in Seq(Files)
  BY <1>1, FirstBattery
<1>3. OfKind(files, kind) # {}
  BY <1>1, <1>2 DEF OfKind
<1>4. FindFile(supplies, kind) = [battery |-> b, file |-> files[f]]
  BY <1>1, <1>3, FindFileExpanded
<1>. HIDE DEF b, files
<1>5. files[f] \in Files
  BY <1>2, <1>3, FirstFileOfKind
<1>. HIDE DEF f
<1>6. [battery |-> b, file |-> files[f]] \in Found
  BY <1>2, <1>5 DEF Found
<1>. QED
  BY <1>4, <1>6, NoFileAssumption

(* The supplies of a machine are sequences of supplies.                    *)
LEMMA SuppliesTypes ==
  ASSUME TypeOK
  PROVE  /\ machine.power_supply \in Seq(Supplies)
         /\ machine.acpi_battery \in Seq(Device({"PNP", "other"}))
         /\ AcpiSupplies(machine.acpi_battery, "PNP") \in Seq(Supplies)
<1>1. machine \in Machine
  BY DriverAssumption DEF TypeOK
<1>2. /\ machine.power_supply \in Seq(Supplies)
      /\ machine.acpi_battery \in Seq(Device({"PNP", "other"}))
  BY <1>1 DEF Machine
<1>. DEFINE devices == machine.acpi_battery
            found == {k \in DOMAIN devices : devices[k].name = "PNP"}
<1>3. AcpiSupplies(devices, "PNP") =
        IF found = {} THEN <<>> ELSE devices[Min(found)].power_supply
  BY Zenon DEF AcpiSupplies, Matching
<1>4. ASSUME found # {} PROVE devices[Min(found)].power_supply \in Seq(Supplies)
  <2>1. Len(devices) \in Nat /\ DOMAIN devices = 1..Len(devices)
    BY <1>2, LenProperties
  <2>2. found \in SUBSET Nat /\ found \subseteq 1..Len(devices)
    BY <2>1
  <2>. HIDE DEF found
  <2>. DEFINE m == Min(found)
  <2>3. m \in 1..Len(devices)
    BY <1>4, <2>2, LeastElement
  <2>. HIDE DEF m
  <2>4. devices[m] \in Device({"PNP", "other"})
    BY <1>2, <2>3, ElementOfSeq
  <2>. QED
    BY <2>4 DEF Device, m
<1>5. <<>> \in Seq(Supplies)
  OBVIOUS
<1>. QED
  BY Zenon, <1>2, <1>3, <1>4, <1>5

(* The first device of the battery driver of ACPI is the one looked into.  *)
LEMMA AcpiDevice ==
  ASSUME TypeOK, NEW k \in DOMAIN machine.acpi_battery,
         machine.acpi_battery[k].name = "PNP"
  PROVE  \E l \in DOMAIN machine.acpi_battery :
           /\ machine.acpi_battery[l].name = "PNP"
           /\ AcpiSupplies(machine.acpi_battery, "PNP")
                = machine.acpi_battery[l].power_supply
<1>. DEFINE devices == machine.acpi_battery
            found == {l \in DOMAIN devices : devices[l].name = "PNP"}
<1>1. devices \in Seq(Device({"PNP", "other"}))
  BY SuppliesTypes
<1>2. Len(devices) \in Nat /\ DOMAIN devices = 1..Len(devices)
  BY <1>1, LenProperties
<1>3. found \in SUBSET Nat /\ found # {}
  BY <1>2
<1>4. AcpiSupplies(devices, "PNP") = devices[Min(found)].power_supply
  BY Zenon, <1>3 DEF AcpiSupplies, Matching
<1>5. Min(found) \in found
  <2>. HIDE DEF found
  <2>. QED
    BY <1>3, LeastElement
<1>. QED
  BY <1>4, <1>5

(* What each driver found, and that the dummy comes last.                  *)
LEMMA WhatWasFound ==
  ASSUME NEW k \in 1..5, NEW p \in BatModules(machine)[k]
  PROVE  /\ p.driver = "dummy" => k = 5
         /\ p.driver = "class" =>
              /\ p.full = FindFile(machine.power_supply, "full") /\ p.full # NoFile
              /\ p.now = FindFile(machine.power_supply, "now") /\ p.now # NoFile
         /\ p.driver = "acpi" =>
              LET supplies == AcpiSupplies(machine.acpi_battery, "PNP") IN
              /\ p.full = FindFile(supplies, "full") /\ p.full # NoFile
              /\ p.now = FindFile(supplies, "now") /\ p.now # NoFile
<1>1. CASE k = 1
  BY <1>1 DEF BatModules, BatteryPowerbookProbe, Probed
<1>2. CASE k = 2
  BY <1>2 DEF BatModules, BatteryN810Probe, Probed
<1>3. CASE k = 3
  <2>1. /\ FindFullFile(machine) # NoFile /\ FindNowFile(machine) # NoFile
        /\ p = Probed("class", FindAcFile(machine), FindFullFile(machine),
                      FindNowFile(machine))
    BY <1>3 DEF BatModules, BatteryClassProbe
  <2>. QED
    BY <2>1 DEF Probed, FindFullFile, FindNowFile
<1>4. CASE k = 4
  <2>1. /\ AcpiFindFullFile(machine) # NoFile /\ AcpiFindNowFile(machine) # NoFile
        /\ p = Probed("acpi", AcpiFindAcFile(machine), AcpiFindFullFile(machine),
                      AcpiFindNowFile(machine))
    BY <1>4 DEF BatModules, BatteryAcpiProbe
  <2>. QED
    BY <2>1 DEF Probed, AcpiFindFullFile, AcpiFindNowFile
<1>5. CASE k = 5
  BY <1>5 DEF BatModules, BatteryDummyProbe, Probed
<1>. QED
  BY <1>1, <1>2, <1>3, <1>4, <1>5

LEMMA ProbeInvInit == Init => ProbeInv
  BY DEF Init, ProbeInv

LEMMA ProbeInvNext == BatInv /\ ProbeInv /\ [Next]_vars => ProbeInv'
<1>. SUFFICES ASSUME BatInv, ProbeInv, [Next]_vars PROVE ProbeInv'
  OBVIOUS
<1>. USE DEF ProbeInv
<1>1. CASE ProbeFails
  <2>1. /\ probe \in 1..5 /\ probe' = probe + 1 /\ driver' = driver
        /\ BatModules(machine)[probe] = {} /\ machine' = machine
        /\ driver = "none"
    BY <1>1 DEF BatInv, TypeOK, Unfinished, ProbeFails
  <2>2. BatModules(machine)' = BatModules(machine)
    BY <2>1
  <2>. QED
    BY <2>1, <2>2
<1>2. CASE ProbeSucceeds
  <2>1. /\ probe' = probe /\ machine' = machine
        /\ \E p \in BatModules(machine)[probe] :
             driver' = p.driver /\ full_file' = p.full /\ now_file' = p.now
    BY <1>2 DEF ProbeSucceeds
  <2>2. BatModules(machine)' = BatModules(machine)
    BY <2>1
  <2>. QED
    BY <2>1, <2>2
<1>3. CASE UNCHANGED probeVars
  <2>1. UNCHANGED <<machine, probe, driver, full_file, now_file>>
    BY <1>3 DEF probeVars
  <2>2. BatModules(machine)' = BatModules(machine)
    BY <2>1
  <2>. QED
    BY <2>1, <2>2
<1>4. Update => UNCHANGED probeVars
  BY DEF Update, Poll, ClassReadAC, ClassReadMax, ClassReadNow, ReadNow,
         PowerbookReadInfo, PowerbookReadStat, N810ReadLevel
<1>5. (\E file \in {"ac", "max", "now"} : GiveUp(file)) => UNCHANGED probeVars
  BY DEF GiveUp
<1>6. Plug \/ Charge \/ UNCHANGED vars => UNCHANGED probeVars
  BY DEF Plug, Charge, vars
<1>. QED
  BY <1>1, <1>2, <1>3, <1>4, <1>5, <1>6 DEF Next

(***************************************************************************)
(* Whatever supplies and devices a machine has, in whatever order: the     *)
(* dummy is taken only where no driver finds its hardware, and the two     *)
(* files a sysfs driver found in separate walks belong together where a    *)
(* battery has its files in one unit.                                      *)
(***************************************************************************)
THEOREM FilesBelongTogether == Spec => []ProbedBattery
<1>1. ASSUME BatInv, ProbeInv PROVE ProbedBattery
  <2>. DEFINE class == machine.power_supply
              acpi == AcpiSupplies(machine.acpi_battery, "PNP")
  <2>1. TypeOK /\ probe \in 1..5
    BY <1>1 DEF BatInv, TypeOK
  <2>2. class \in Seq(Supplies) /\ acpi \in Seq(Supplies)
    BY <2>1, SuppliesTypes
  <2>3. ASSUME driver = "dummy"
        PROVE  /\ machine.n810bm = {} /\ machine.pmu # {"info", "battery_0"}
               /\ ~HasBoth(class) /\ ~HasBoth(acpi)
    <3>1. probe = 5
      BY <1>1, <2>1, <2>3, WhatWasFound DEF ProbeInv
    <3>2. \A k \in 1..4 : BatModules(machine)[k] = {}
      BY <1>1, <3>1 DEF ProbeInv
    <3>3. /\ BatteryPowerbookProbe(machine) = {} /\ BatteryN810Probe(machine) = {}
          /\ BatteryClassProbe(machine) = {} /\ BatteryAcpiProbe(machine) = {}
      BY <3>2 DEF BatModules
    <3>4. machine.n810bm = {} /\ machine.pmu # {"info", "battery_0"}
      BY <3>3 DEF BatteryPowerbookProbe, BatteryN810Probe
    <3>5. FindFile(class, "full") = NoFile \/ FindFile(class, "now") = NoFile
      BY Zenon, <3>3 DEF BatteryClassProbe, FindFullFile, FindNowFile
    <3>6. FindFile(acpi, "full") = NoFile \/ FindFile(acpi, "now") = NoFile
      BY Zenon, <3>3 DEF BatteryAcpiProbe, AcpiFindFullFile, AcpiFindNowFile
    <3>. HIDE DEF class, acpi
    <3>. QED
      BY <2>2, <3>4, <3>5, <3>6, BothFound
  <2>4. ASSUME driver = "dummy", NEW k \in DOMAIN machine.acpi_battery,
               machine.acpi_battery[k].name = "PNP"
        PROVE  \E l \in DOMAIN machine.acpi_battery :
                 /\ machine.acpi_battery[l].name = "PNP"
                 /\ ~HasBoth(machine.acpi_battery[l].power_supply)
    BY Zenon, <2>1, <2>3, <2>4, AcpiDevice
  <2>5. ASSUME SysfsDriver, SingleUnit(SuppliesSeen)
        PROVE  /\ full_file.battery = now_file.battery
               /\ full_file.file.unit = now_file.file.unit
               /\ full_file.file.of = "full" /\ now_file.file.of = "now"
    <3>1. driver \in {"class", "acpi"}
      BY <2>5 DEF SysfsDriver
    <3>2. PICK p \in BatModules(machine)[probe] :
            driver = p.driver /\ full_file = p.full /\ now_file = p.now
      BY <1>1, <3>1 DEF ProbeInv
    <3>. DEFINE seen == SuppliesSeen
                b == Min(Bats(seen))
    <3>3. seen \in Seq(Supplies)
      BY <2>2 DEF SuppliesSeen
    <3>4. /\ full_file = FindFile(seen, "full") /\ full_file # NoFile
          /\ now_file = FindFile(seen, "now") /\ now_file # NoFile
      BY <2>1, <3>1, <3>2, WhatWasFound DEF SuppliesSeen
    <3>5. SingleUnit(seen)
      BY <2>5
    <3>. HIDE DEF seen
    <3>6. /\ b \in DOMAIN seen /\ full_file.battery = b /\ now_file.battery = b
          /\ full_file.file.of = "full" /\ now_file.file.of = "now"
          /\ \E k \in DOMAIN seen[b].files : full_file.file = seen[b].files[k]
          /\ \E k \in DOMAIN seen[b].files : now_file.file = seen[b].files[k]
      BY <3>3, <3>4, FileFound
    <3>. HIDE DEF b
    <3>. QED
      BY <3>5, <3>6 DEF SingleUnit
  <2>. QED
    BY <2>3, <2>4, <2>5 DEF ProbedBattery
<1>2. Spec => []ProbeInv
  BY BatteryInvariant, ProbeInvInit, ProbeInvNext, PTL DEF Spec
<1>. QED
  BY <1>1, <1>2, BatteryInvariant, PTL
=============================================================================
