------------------------------ MODULE Probing ------------------------------
(***************************************************************************)
(* How the battery drivers of pwrtray-backend look for their hardware: the *)
(* probe functions of backend/battery_*.c.  A directory is the sequence of *)
(* its entries in the order in which readdir() returns them, as            *)
(* list_directory() does; one that is missing or cannot be read to its end *)
(* is empty, for both look the same to the callers.                        *)
(***************************************************************************)
EXTENDS Integers, Sequences, FiniteSetsExt

CONSTANT NoFile   (* the empty file name                                     *)

(* A charge file tells the charge now or the full one, in one of two units *)
(* (charge_now, energy_full, ...); a supply is a directory.                *)
Files    == [of : {"now", "full"}, unit : {"charge", "energy"}]
Supplies == [name : {"AC", "BAT", "other"}, files : Seq(Files)]

(* A file that is found, with the place of its battery in the directory.   *)
Found == [battery : Nat, file : Files]

ASSUME NoFileAssumption == NoFile \notin Found

(***************************************************************************)
(* What a machine has: files under /proc/pmu, an n810 battery level under  *)
(* one of three paths, /sys/class/power_supply, and the devices of the     *)
(* ACPI drivers "ac" and "battery" with the supplies below each.           *)
(***************************************************************************)
Device(names) == [name : names, power_supply : Seq(Supplies)]

Machine ==
  [pmu : SUBSET {"info", "battery_0"},
   n810bm : SUBSET {"n810bm", "tahvo", "retu"},
   power_supply : Seq(Supplies),
   acpi_ac : Seq(Device({"ACPI", "other"})),
   acpi_battery : Seq(Device({"PNP", "other"}))]

(* The entries of a directory that match; the walks take the first one, of *)
(* the least index, and stop.                                              *)
Matching(dir, Test(_)) == {k \in DOMAIN dir : Test(dir[k])}


-----------------------------------------------------------------------------
(* find_ac_file() of the class driver; the file itself is not looked for.  *)
FindAcFile(machine) ==
  Matching(machine.power_supply, LAMBDA s : s.name = "AC") # {}

(***************************************************************************)
(* The walk for the full or the now file among some supplies: the first    *)
(* BAT* entry, and in it the first file of that kind.  Its result names    *)
(* the battery, too.                                                       *)
(***************************************************************************)
FindFile(supplies, kind) ==
  LET bats  == Matching(supplies, LAMBDA s : s.name = "BAT")
      bat   == Min(bats)
      files == Matching(supplies[bat].files, LAMBDA f : f.of = kind)
  IN  IF bats = {} THEN NoFile
      ELSE IF files = {} THEN NoFile
      ELSE [battery |-> bat, file |-> supplies[bat].files[Min(files)]]

(* find_battery_full_file(), find_battery_now_file() of the class driver.  *)
FindFullFile(machine) == FindFile(machine.power_supply, "full")

(* Mutant of FindNowFile: the walk does not stop at the first battery.     *)
FindNowFileLast(machine) ==
  LET supplies == machine.power_supply
      bats  == Matching(supplies, LAMBDA s : s.name = "BAT")
      bat   == Max(bats)
      files == Matching(supplies[bat].files, LAMBDA f : f.of = "now")
  IN  IF bats = {} THEN NoFile
      ELSE IF files = {} THEN NoFile
      ELSE [battery |-> bat, file |-> supplies[bat].files[Min(files)]]

FindNowFile(machine) == FindFile(machine.power_supply, "now")

(* The same of the acpi driver: only the first device is looked into.      *)
AcpiSupplies(devices, name) ==
  LET found == Matching(devices, LAMBDA d : d.name = name)
  IN  IF found = {} THEN <<>> ELSE devices[Min(found)].power_supply

AcpiFindAcFile(machine) ==
  Matching(AcpiSupplies(machine.acpi_ac, "ACPI"), LAMBDA s : s.name = "AC") # {}

AcpiFindFullFile(machine) ==
  FindFile(AcpiSupplies(machine.acpi_battery, "PNP"), "full")

AcpiFindNowFile(machine) ==
  FindFile(AcpiSupplies(machine.acpi_battery, "PNP"), "now")

-----------------------------------------------------------------------------
(* The probe functions: does the driver find its hardware?                 *)
Probed(driver, has_ac, full, now) ==
  [driver |-> driver, has_ac |-> has_ac, full |-> full, now |-> now]

BatteryClassProbe(machine) ==
  LET full == FindFullFile(machine)  now == FindNowFile(machine)
  IN  IF full = NoFile \/ now = NoFile THEN {}
      ELSE {Probed("class", FindAcFile(machine), full, now)}

BatteryAcpiProbe(machine) ==
  LET full == AcpiFindFullFile(machine)  now == AcpiFindNowFile(machine)
  IN  IF full = NoFile \/ now = NoFile THEN {}
      ELSE {Probed("acpi", AcpiFindAcFile(machine), full, now)}

BatteryPowerbookProbe(machine) ==
  IF {"info", "battery_0"} \subseteq machine.pmu
    THEN {Probed("powerbook", FALSE, NoFile, NoFile)} ELSE {}

BatteryN810Probe(machine) ==
  IF machine.n810bm # {}
    THEN {Probed("n810", FALSE, NoFile, NoFile)} ELSE {}

BatteryDummyProbe == {Probed("dummy", FALSE, NoFile, NoFile)}

(* The table of the linker, in the order of the object files, which is     *)
(* that of BAT_MODULES in the Makefile.                                    *)
BatModules(machine) ==
  <<BatteryPowerbookProbe(machine), BatteryN810Probe(machine),
    BatteryClassProbe(machine), BatteryAcpiProbe(machine), BatteryDummyProbe>>
=============================================================================
