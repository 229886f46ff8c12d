----------------------------- MODULE MCBattery -----------------------------
(* Five charge levels (0, 25, ... 100 percent) and a threshold of 30: two  *)
(* of them are low.  The machines have batteries in either unit and with   *)
(* the files in either order, none, two, or one without charge files.      *)
EXTENDS Battery

F(of, unit) == [of |-> of, unit |-> unit]
Supply(name, files) == [name |-> name, files |-> files]
AC     == Supply("AC", <<>>)
Mouse  == Supply("other", <<>>)
Charge0 == Supply("BAT", <<F("now", "charge"), F("full", "charge")>>)
Energy0 == Supply("BAT", <<F("full", "energy"), F("now", "energy")>>)
Both    == Supply("BAT", <<F("full", "energy"), F("now", "charge"),
                           F("full", "charge"), F("now", "energy")>>)
NoFiles == Supply("BAT", <<>>)
NowOnly == Supply("BAT", <<F("now", "charge")>>)

Bare == [pmu |-> {}, n810bm |-> {}, power_supply |-> <<>>, acpi_ac |-> <<>>,
         acpi_battery |-> <<>>]
Sysfs(supplies) == [Bare EXCEPT !.power_supply = supplies]
Acpi(ac, bats) ==
  [Bare EXCEPT !.power_supply = <<NoFiles>>,
               !.acpi_ac = <<[name |-> "ACPI", power_supply |-> ac]>>,
               !.acpi_battery = <<[name |-> "other", power_supply |-> <<>>],
                                  [name |-> "PNP", power_supply |-> bats]>>]

MCMachines ==
  {Bare, [Bare EXCEPT !.pmu = {"info", "battery_0"}],
   [Bare EXCEPT !.pmu = {"info"}, !.n810bm = {"tahvo"}],
   Sysfs(<<Mouse, Charge0, Energy0, AC>>), Sysfs(<<Energy0, Charge0>>),
   Sysfs(<<AC, Both>>), Sysfs(<<NoFiles, Charge0>>), Sysfs(<<NowOnly>>),
   Acpi(<<AC>>, <<Energy0>>)}

ClassMachine == {Sysfs(<<AC, Charge0>>)}
=============================================================================
