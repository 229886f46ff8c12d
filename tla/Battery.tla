------------------------------ MODULE Battery ------------------------------
(***************************************************************************)
(* The battery monitor of pwrtray-backend: the poll callback and the       *)
(* emergency check (backend/battery.c) on top of the update operations of  *)
(* the drivers (battery_class.c and battery_acpi.c, which are the same;    *)
(* battery_powerbook.c; battery_n810.c).                                   *)
(*                                                                         *)
(* An update reads one file after the other.  Signals are blocked while it *)
(* runs, but the hardware goes on changing between the reads, and every    *)
(* read may fail.  The driver is found by Probing.                         *)
(***************************************************************************)
EXTENDS Probing

CONSTANTS
  Machines,    (* bound: what the machine may have                          *)
  FullCharge,  (* the capacity the hardware reports                         *)
  Threshold,   (* emergency_threshold of the configuration                  *)
  CannotOpen,  (* files that may fail to open:  among "ac", "max", "now"    *)
  CannotRead   (* files that may fail to be read; of a powerbook also lines *)
               (* that may be missing from its two files                    *)

ASSUME DriverAssumption ==
  /\ Machines \subseteq Machine
  /\ FullCharge \in Nat \ {0}
  /\ Threshold \in Int

VARIABLES
  machine,            (* what the machine has                               *)
  probe,              (* battery_probe(): probe                             *)
  driver,             (* the driver it found, or "none" so far              *)
  has_ac,             (* class and acpi: ac_online_filename is not empty    *)
  full_file,          (* class and acpi: charge_max_filename, ...           *)
  now_file,           (* ... charge_now_filename                            *)
  hw_ac, hw_now,      (* the hardware: on AC (0 or 1), charge               *)
  on_ac,              (* the driver's copies: on_ac, ...                    *)
  charge_max,
  charge_now,
  value_changed,      (* update: value_changed                              *)
  pc,                 (* "probe", "idle", or the file an update reads next  *)
  emergency_handled,  (* struct battery: emergency_handled                  *)
  told,               (* the copies as autodim and clients last heard them  *)
  failed,             (* history: files whose last reading failed           *)
  dropped,            (* history: an update gave up after finding a change  *)
  attempts            (* history: attempts (at most 2 are counted) to run   *)
                      (* the command since the charge was above the         *)
                      (* threshold                                          *)

hwVars == <<hw_ac, hw_now>>
copyVars == <<on_ac, charge_max, charge_now>>
noticeVars == <<emergency_handled, told, attempts>>
probeVars == <<machine, probe, driver, has_ac, full_file, now_file>>
vars == <<probeVars, hwVars, copyVars, value_changed, pc, noticeVars, failed, dropped>>

SysfsDriver == driver \in {"class", "acpi"}

-----------------------------------------------------------------------------
DivRound(x, d) == (x + d \div 2) \div d

(* battery_get_charge_percent(); no driver changes default_min_level().    *)
Percent(level, max_level) ==
  IF level < 0 \/ max_level <= 0 THEN -1
  ELSE DivRound(level * 100, max_level)

(* default_charging(): no driver overrides it.                             *)
Charging(ac, percent) ==
  IF ac < 0 \/ percent < 0 THEN -1
  ELSE IF ac # 0 /\ percent < 95 THEN 1 ELSE 0

EmergencyThreshold == IF Threshold > 95 THEN 95 ELSE Threshold

Draining(ac, percent) ==
  /\ ~(ac < 0 /\ Charging(ac, percent) < 0)
  /\ ~(ac > 0 \/ Charging(ac, percent) > 0)

(***************************************************************************)
(* Attempts to execute the command while the battery is really low; a      *)
(* false alarm is not counted.                                             *)
(***************************************************************************)
HwPercent == Percent(hw_now, FullCharge)

CountAttempt ==
  attempts' = IF HwPercent > EmergencyThreshold THEN 0
              ELSE IF attempts < 2 THEN attempts + 1 ELSE 2

(* Mutants of EmergencyCheck: an unknown charge counts as a low one; the   *)
(* command is executed again after AC power.                               *)
EmergencyCheckUnknown(ac, max, now) ==
  LET percent == Percent(now, max) IN
  IF EmergencyThreshold <= 0 \/ ~Draining(ac, percent)
    THEN UNCHANGED <<emergency_handled, attempts>>
    ELSE /\ emergency_handled' = (percent <= EmergencyThreshold)
         /\ IF emergency_handled' /\ ~emergency_handled
              THEN CountAttempt ELSE UNCHANGED attempts

EmergencyCheckRearms(ac, max, now) ==
  LET percent == Percent(now, max) IN
  /\ emergency_handled' =
       (EmergencyThreshold > 0 /\ Draining(ac, percent) /\ percent >= 0
         /\ percent <= EmergencyThreshold)
  /\ IF emergency_handled' /\ ~emergency_handled
       THEN CountAttempt ELSE UNCHANGED attempts

(***************************************************************************)
(* battery_emergency_check(), with the values of the copies after the      *)
(* update.  When emergency_handled becomes TRUE the command is executed;   *)
(* whether that succeeds makes no difference.                              *)
(***************************************************************************)
EmergencyCheck(ac, max, now) ==
  LET percent == Percent(now, max) IN
  IF EmergencyThreshold <= 0 \/ ~Draining(ac, percent) \/ percent < 0
    THEN UNCHANGED <<emergency_handled, attempts>>
    ELSE /\ emergency_handled' = (percent <= EmergencyThreshold)
         /\ IF emergency_handled' /\ ~emergency_handled
              THEN CountAttempt ELSE UNCHANGED attempts

(* battery_notify_state_change(): the check, autodim and the clients.      *)
NotifyStateChange(ac, max, now) ==
  /\ EmergencyCheck(ac, max, now)
  /\ told' = [ac |-> ac, max |-> max, now |-> now]

(* The end of every update.                                                *)
Finish(changed, ac, max, now) ==
  /\ pc' = "idle"
  /\ value_changed' = FALSE
  /\ IF changed THEN NotifyStateChange(ac, max, now)
                ELSE UNCHANGED noticeVars

(* zalloc(): the copies of the driver.                                     *)
Init ==
  /\ machine \in Machines
  /\ probe = 1
  /\ driver = "none" /\ has_ac = FALSE
  /\ full_file = NoFile /\ now_file = NoFile
  /\ hw_ac \in {0, 1}
  /\ hw_now \in 0..FullCharge
  /\ on_ac = 0 /\ charge_max = 0 /\ charge_now = 0
  /\ value_changed = FALSE
  /\ pc = "probe"
  /\ emergency_handled = FALSE
  /\ told = [ac |-> 0, max |-> 0, now |-> 0]
  /\ failed = {}
  /\ dropped = FALSE
  /\ attempts = 0

(* The file that update() reads first.                                     *)
FirstFile(d) == IF d = "n810" THEN "now" ELSE "ac"

(* battery_probe() tries one driver.                                       *)
ProbeFails ==
  /\ pc = "probe"
  /\ BatModules(machine)[probe] = {}
  /\ probe' = probe + 1
  /\ UNCHANGED <<machine, driver, has_ac, full_file, now_file, hwVars, copyVars,
                 value_changed, pc, noticeVars, failed, dropped>>

(***************************************************************************)
(* One is found: battery_init() and battery_start(), which updates at      *)
(* once.  on_ac() and max_level() of the n810 are the defaults of          *)
(* battery.c, which never change; the dummy has no update().               *)
(***************************************************************************)
ProbeSucceeds ==
  /\ pc = "probe"
  /\ \E p \in BatModules(machine)[probe] :
       /\ driver' = p.driver /\ has_ac' = p.has_ac
       /\ full_file' = p.full /\ now_file' = p.now
       /\ charge_max' = IF p.driver = "n810" THEN 100 ELSE 0
       /\ pc' = IF p.driver = "dummy" THEN "idle" ELSE FirstFile(p.driver)
  /\ told' = [told EXCEPT !.max = charge_max']
  /\ UNCHANGED <<machine, probe, hwVars, on_ac, charge_now, value_changed,
                 emergency_handled, attempts, failed, dropped>>

(* battery_poll_callback(): calls update().                                *)
Poll ==
  /\ pc = "idle"
  /\ driver # "dummy"
  /\ pc' = FirstFile(driver)
  /\ value_changed' = FALSE
  /\ UNCHANGED <<probeVars, hwVars, copyVars, noticeVars, failed, dropped>>

(***************************************************************************)
(* battery_class_update(): ac/online, charge_max, charge_now.  A file that *)
(* cannot be read ends the update at once; a charge file that cannot be    *)
(* opened counts as zero.                                                  *)
(***************************************************************************)
GiveUp(file) ==
  /\ pc = file
  /\ \/ file \in CannotRead
     \/ file \in CannotOpen /\ file = "ac"
  /\ SysfsDriver /\ file = "ac" => has_ac
  /\ pc' = "idle"
  /\ value_changed' = FALSE
  /\ failed' = failed \cup {file}
  /\ dropped' = (dropped \/ value_changed)
  /\ UNCHANGED <<probeVars, hwVars, copyVars, noticeVars>>

(* How reading a file may go, other than giving up.                        *)
Opened(file) == IF file \in CannotOpen THEN BOOLEAN ELSE {TRUE}

Mark(read, notRead) == failed' = (failed \ read) \cup notRead

(* Mutant of ClassReadAC: the change is not remembered.                    *)
ClassReadACSilently ==
  /\ SysfsDriver /\ pc = "ac"
  /\ on_ac' = IF has_ac THEN hw_ac ELSE -1
  /\ pc' = "max"
  /\ Mark({"ac"}, {})
  /\ UNCHANGED <<probeVars, hwVars, charge_max, charge_now, value_changed,
                 noticeVars, dropped>>

ClassReadAC ==
  /\ SysfsDriver /\ pc = "ac"
  /\ on_ac' = IF has_ac THEN hw_ac ELSE -1
  /\ value_changed' = (value_changed \/ on_ac' # on_ac)
  /\ pc' = "max"
  /\ Mark({"ac"}, {})
  /\ UNCHANGED <<probeVars, hwVars, charge_max, charge_now, noticeVars, dropped>>

ClassReadMax ==
  /\ SysfsDriver /\ pc = "max"
  /\ \E ok \in Opened("max") :
       /\ charge_max' = IF ok THEN FullCharge ELSE 0
       /\ IF ok THEN Mark({"max"}, {}) ELSE Mark({}, {"max"})
  /\ value_changed' = (value_changed \/ charge_max' # charge_max)
  /\ pc' = "now"
  /\ UNCHANGED <<probeVars, hwVars, on_ac, charge_now, noticeVars, dropped>>

ReadNow(value) ==
  /\ SysfsDriver /\ pc = "now"
  /\ charge_now' = IF value > charge_max THEN charge_max ELSE value
  /\ IF value = hw_now THEN Mark({"now"}, {}) ELSE Mark({}, {"now"})
  /\ UNCHANGED <<probeVars, hwVars, on_ac, charge_max, dropped>>

(* Mutants of ClassReadNow: an error code is stored; the change of an      *)
(* earlier file is dropped.                                                *)
ClassReadNowError ==
  \E value \in {hw_now, -1} :
    /\ ReadNow(value)
    /\ Finish(value_changed \/ charge_now' # charge_now,
              on_ac, charge_max, charge_now')

ClassReadNowOnly ==
  \E ok \in Opened("now") :
    /\ ReadNow(IF ok THEN hw_now ELSE 0)
    /\ Finish(charge_now' # charge_now, on_ac, charge_max, charge_now')

ClassReadNow ==
  \E ok \in Opened("now") :
    /\ ReadNow(IF ok THEN hw_now ELSE 0)
    /\ Finish(value_changed \/ charge_now' # charge_now,
              on_ac, charge_max, charge_now')

(* battery_powerbook_update(): /proc/pmu/info, then /proc/pmu/battery_0. A *)
(* missing line keeps the copy.                                            *)
PowerbookReadInfo ==
  /\ driver = "powerbook" /\ pc = "ac"
  /\ \E missing \in SUBSET (CannotRead \cap {"ac"}) :
       /\ on_ac' = IF "ac" \in missing THEN on_ac ELSE hw_ac
       /\ Mark({"ac"}, missing)
  /\ value_changed' = (on_ac' # on_ac)
  /\ pc' = "now"
  /\ UNCHANGED <<probeVars, hwVars, charge_max, charge_now, noticeVars, dropped>>

PowerbookReadStat ==
  /\ driver = "powerbook" /\ pc = "now"
  /\ \E missing \in SUBSET (CannotRead \cap {"max", "now"}) :
       /\ charge_max' = IF "max" \in missing THEN charge_max ELSE FullCharge
       /\ charge_now' = IF "now" \in missing THEN charge_now ELSE hw_now
       /\ Mark({"max", "now"}, missing)
  /\ Finish(value_changed \/ charge_max' # charge_max \/ charge_now' # charge_now,
            on_ac, charge_max', charge_now')
  /\ UNCHANGED <<probeVars, hwVars, on_ac, dropped>>

(* battery_n810_update(): the hardware reports percent.                    *)
N810ReadLevel ==
  /\ driver = "n810" /\ pc = "now"
  /\ charge_now' = Percent(hw_now, FullCharge)
  /\ Mark({"now"}, {})
  /\ Finish(charge_now' # charge_now, on_ac, charge_max, charge_now')
  /\ UNCHANGED <<probeVars, hwVars, on_ac, charge_max, dropped>>

-----------------------------------------------------------------------------
(* The hardware: the plug, the charge going up on AC and down otherwise.   *)
Plug ==
  /\ hw_ac' = 1 - hw_ac
  /\ UNCHANGED <<probeVars, hw_now, copyVars, value_changed, pc, noticeVars, failed, dropped>>

Charge ==
  /\ hw_now' = hw_now + (IF hw_ac = 1 THEN 1 ELSE -1)
  /\ hw_now' \in 0..FullCharge
  /\ attempts' = IF Percent(hw_now', FullCharge) > EmergencyThreshold
                   THEN 0 ELSE attempts
  /\ UNCHANGED <<probeVars, hw_ac, copyVars, value_changed, pc, emergency_handled,
                 told, failed, dropped>>

Update ==
  \/ Poll
  \/ ClassReadAC \/ ClassReadMax \/ ClassReadNow
  \/ PowerbookReadInfo \/ PowerbookReadStat
  \/ N810ReadLevel

Next ==
  \/ ProbeFails \/ ProbeSucceeds
  \/ Update
  \/ \E file \in {"ac", "max", "now"} : GiveUp(file)
  \/ Plug
  \/ Charge

(* The timer keeps calling update() (SleepTimer), and its reads end.       *)
Spec == Init /\ [][Next]_vars /\ WF_vars(Update)
        /\ WF_vars(ProbeFails \/ ProbeSucceeds)
-----------------------------------------------------------------------------
TypeOK ==
  /\ machine \in Machines /\ probe \in 1..5
  /\ driver \in {"none", "powerbook", "n810", "class", "acpi", "dummy"}
  /\ has_ac \in BOOLEAN
  /\ hw_ac \in {0, 1} /\ hw_now \in 0..FullCharge
  /\ on_ac \in -1..1
  /\ charge_max \in {0, FullCharge, 100}
  /\ charge_now \in Nat
  /\ value_changed \in BOOLEAN
  /\ pc \in {"probe", "idle", "ac", "max", "now"}
  /\ emergency_handled \in BOOLEAN
  /\ told \in [ac : -1..1, max : {0, FullCharge, 100}, now : Nat]
  /\ failed \subseteq {"ac", "max", "now"}
  /\ dropped \in BOOLEAN
  /\ attempts \in 0..2

(***************************************************************************)
(* battery_probe(): the dummy is taken only where no driver has its        *)
(* hardware (the sysfs drivers look at the first battery only); and where  *)
(* a battery has its files in one unit, the two that a sysfs driver found  *)
(* in separate walks are of the same battery and the same unit.            *)
(***************************************************************************)
HasBoth(supplies) ==
  LET bats == Matching(supplies, LAMBDA s : s.name = "BAT")
  IN  /\ bats # {}
      /\ \A bat \in bats : \A kind \in {"now", "full"} :
           \E k \in DOMAIN supplies[bat].files : supplies[bat].files[k].of = kind

SingleUnit(supplies) ==
  \A bat \in DOMAIN supplies : \E unit \in {"charge", "energy"} :
    \A k \in DOMAIN supplies[bat].files : supplies[bat].files[k].unit = unit

SuppliesSeen ==
  IF driver = "class" THEN machine.power_supply
  ELSE AcpiSupplies(machine.acpi_battery, "PNP")

ProbedBattery ==
  /\ driver = "dummy" =>
       /\ machine.n810bm = {} /\ machine.pmu # {"info", "battery_0"}
       /\ ~HasBoth(machine.power_supply)
       /\ \A k \in DOMAIN machine.acpi_battery :
            machine.acpi_battery[k].name = "PNP" =>
              \E l \in DOMAIN machine.acpi_battery :
                /\ machine.acpi_battery[l].name = "PNP"
                /\ ~HasBoth(machine.acpi_battery[l].power_supply)
  /\ SysfsDriver /\ SingleUnit(SuppliesSeen) =>
       /\ full_file.battery = now_file.battery
       /\ full_file.file.unit = now_file.file.unit
       /\ full_file.file.of = "full" /\ now_file.file.of = "now"

(***************************************************************************)
(* Between two updates autodim and the clients know the driver's copies,   *)
(* although a change is found in one of several reads and told after the   *)
(* last one only.  Files that do not open and lines that are missing do    *)
(* not disturb it; an update that gives up after finding a change does.    *)
(***************************************************************************)
Current == told = [ac |-> on_ac, max |-> charge_max, now |-> charge_now]

ListenersCurrent == pc = "idle" /\ ~dropped => Current

(* "Handle possible change of on-AC state" (autodim_handle_battery_event): *)
(* autodim is told of every change of the state of the AC power.  The      *)
(* update that gives up on charge_max or charge_now breaks it.             *)
AutodimKnowsAC == pc = "idle" => told.ac = on_ac

(***************************************************************************)
(* The emergency command is executed only if the battery really is low,    *)
(* whichever other reads failed before or during the update.  (A charge    *)
(* file that does not open counts as an empty battery.)                    *)
(***************************************************************************)
EmergencyOnlyWhenLow ==
  [][~emergency_handled /\ emergency_handled' =>
       "now" \in failed' \/ HwPercent <= EmergencyThreshold]_vars

(***************************************************************************)
(* One emergency makes one attempt to execute the command: between two of  *)
(* them the battery was really above the threshold.  A plug going in and   *)
(* out, a failing read or a command that cannot be executed gives no       *)
(* second one.                                                             *)
(***************************************************************************)
OncePerEmergency == attempts <= 1

(***************************************************************************)
(* A battery that drains and stays low is noticed, whichever of its values *)
(* changed last and although reads may fail, if updates that read all      *)
(* files do not cease and none gave up after finding a change.  Not        *)
(* noticed: a battery without an AC file ("Assume charging"), and an n810  *)
(* whose level is zero from the start on, the value its copy starts with.  *)
(***************************************************************************)
Low == hw_ac = 0 /\ HwPercent <= EmergencyThreshold

Noticing ==
  /\ <>[](driver # "dummy" /\ (SysfsDriver => has_ac))
  /\ []<>(pc = "idle" /\ failed = {})
  /\ []~dropped
  /\ <>(driver = "n810") => <>(charge_now # 0)

EmergencyDetected == <>[]Low /\ Noticing => <>[]emergency_handled
=============================================================================
