# A TLA+ model of pwrtray

pwrtray is a power management daemon, `pwrtray-backend`, and a tray icon that
talks to it. The daemon dims the backlight of a laptop or an N810 tablet when
nobody touches it, watches the battery, and locks the screen of the N810 when
its slide switch is closed. This directory models the daemon in TLA+, checks
the model with TLC, and proves its safety properties with TLAPS. File and line references are relative to the root of the repository.

## 1. Inventory

### How the daemon runs

The daemon has one thread. Its main loop (`backend/main.c`, `mainloop()`)
sleeps for the earliest timer and runs the timer's callback. Everything else
happens in signal handlers:

| signal  | raised by                         | handler                                          |
|---------|-----------------------------------|--------------------------------------------------|
| SIGIO   | a client connects, sends or leaves | `signal_async_io()`: accept one client, take one message of each |
| SIGUSR1 | the event reporter, input devices | `signal_input_event_1()`: autodim starts over    |
| SIGUSR2 | the slide switch                  | `signal_input_event_2()`: lock or unlock         |
| SIGCHLD | the kernel                        | `signal_child()`: reap the helpers               |
| SIGTERM, SIGINT | the system                | `signal_terminate()`: `shutdown_cleanup()`, exit |

A handler runs with all signals blocked and so does a timer callback. So there
is no interleaving inside an operation. What interleaves are whole operations,
at every point where the main loop does not block the signals; that includes
the middle of a sleep, whose deadline the main loop copied beforehand. What is
hard is therefore: a timer that is freed, stopped or re-armed by a handler
while the main loop sleeps for it; signals that are one bit each and merge;
reads and writes of device files that fail one by one in the middle of an
operation, after some state was changed; and long sequences of legal
operations (lock, dim, disable, unlock, plug in, enable) over state that
several parts keep a copy of.

### The components

| component | state | operations | talks to | must hold |
|---|---|---|---|---|
| sleep timers (`timer.c`) | sorted list, ids, the copied deadline | set, enqueue, dequeue, wait for the next | all parts that poll | sorted; nothing freed is linked; not early, not too late; nobody starves |
| helper processes (`x11lock.c`, `xevrep.c`, `subprocess_exec()`) | pid and mark of each helper | start, kill, reap, wait at shutdown | kernel; backlight and requests start and kill | a pid is the daemon's own child; exited helpers are reaped; one of each; none left behind; shutdown ends |
| battery (`battery*.c`, `probe.c`) | files found, copies of AC state and charge, `emergency_handled` | probe, update, emergency check, notify | autodim, clients, emergency command | both charge files are those of one battery; listeners hold the current values; the command runs for a low battery, once, and always then |
| backlight (`backlight*.c`) | copy of the brightness, lock, blanking, input blocking | set percentage, set level, screen lock, poll, destroy | framebuffer, X11 blocker, clients | device, copy, blanking, blocking and the clients' view agree; visible at exit |
| autodim (`autodim.c`) | step, timer, what was set, maximum, suspension | enable, disable, input, timer, battery event, suspend, resume | backlight, battery, timers | not early, not late, not on AC, not stuck |
| configuration (`conf.c`) | hash tables of sections and items | parse a line, look up | steps and others | an item is the one the file names first |
| steps (`autodim_steps_get()`) | the list of steps | parse, smoothen, optimize | configuration | grow; pass through what is configured |
| device lock (`devicelock_n810.c`) | last state of the slide switch | toggle | autodim, backlight, input devices | suspension follows the lock |
| requests (`main.c`) | list of clients | ten requests, notifications | all of the above | replies match requests; notifications reach everybody |
| tray (`tray/`) | socket, queued notifications, error count, check boxes, slider | connect, synchronous requests, notifications, the end of the daemon | the daemon | shows the daemon's state; is never stuck |
| helper programs (`xlock/`, `xevrep/`) | grab; grace period | | X server | |

The list of what can go wrong at which line, and of the property that would
catch it, is under "hazards" in `PROJECT.json`.

## 2. The modules

| module | models | checked by |
|---|---|---|
| `SleepTimer` | `timer.c` and the main loop that serves it | `MCSleepTimer` |
| `TimerService` | what the timers promise; `SleepTimer` implements it | (through `SleepTimer`) |
| `Helpers` | `x11lock.c`, `xevrep.c`, SIGCHLD, the waits of `shutdown_cleanup()` | `MCHelpers` |
| `Probing` | the probe functions of the battery drivers, over the directories of a machine | (through `Battery`) |
| `Battery` | `battery.c` and the drivers class, acpi, powerbook, n810; extends `Probing` | `MCBattery` |
| `Backlight` | `backlight.c` and the drivers class and omapfb | `MCBacklight` |
| `Autodim` | `autodim.c` and `devicelock_n810.c` on top of `Backlight` | `MCAutodim` |
| `Conf` | `conf.c` | (through `AutodimSteps`) |
| `AutodimSteps` | `autodim_steps_get()` on a configuration file; extends `Conf` | `MCAutodimSteps` |
| `Clients` | the connections: `main.c` on the one side, `tray/backend.cpp` and `tray/main.cpp` on the other | `MCClients` |
| `Tray` | slider and check boxes of the trays (`tray/main.cpp`) against the daemon's autodim state | `MCTray` |
| `ListLemmas`, and for each component `X` a module `X_proofs` | the proofs about `SleepTimer`, `Helpers`, `Battery`, `Autodim` with `Backlight`, `AutodimSteps` with `Conf`, `Tray`, `Clients` | `tlapm` |

### SleepTimer

`queue` is `timer_list`; `timeout` and `id` are the fields of `struct
sleeptimer`; `id_counter`, `wake` and `timer_id` are the counter of the file
and the copies `sleeptimer_wait_next()` makes before it sleeps. `alive` says
which timers lie in allocated memory: the auto-dimmer is allocated and freed by
client requests. `pc` is where the main loop is. The actions of the main loop
are the stretches it runs with the signals blocked; `AutodimEnable`,
`AutodimRestart`, `AutodimSuspend`, `AutodimDisable` and `Terminate` are what
handlers do to timers, and are enabled in every window. `Tick` is the clock; it
moves while the program sleeps only, up to `Slack` beyond the deadline.

`TimerService` is the promise to the users of `timer.h`: every timer has at
most one deadline, periodic timers expire for ever and drift by no more than
`MaxLateness` a period, the others can be set and cancelled. The refinement
maps a timer's deadline to its `timeout` if it is queued, and `MaxLateness` to
`MaxDelay + Slack`: a sleep is not cut short when a handler arms an earlier
timer, so a timer may wait for one whole longer sleep.

### Helpers

A pid is free, running, dying (SIGTERM was sent) or a zombie; `sigchld` is one
bit. `Enable`, `Kill`, `Reap` and `Wait` are the functions both files have;
`SignalChild` and the four steps of the shutdown call them in the order of the
code. `Reap` keeps the code's reading of `waitpid()`: with `WNOHANG` it returns
0 for a helper that is alive, and the code takes that for its exit. The
initial state chooses which helpers are compiled in and whether there is an
emergency command. A start fails (`EnableFails`) or finds the helper there
(`AlreadyEnabled`), which `block_x11_input()` also believes of one that is
being killed. Two histories tell what the helpers were asked for: `wanted`, and
`let_down` for a helper that was not started, or ended by itself; with them
`FollowsRequests` says that a screen that is to be blocked is.

### Probing and Battery

A directory is the sequence of its entries as `readdir()` returns them, so that
"the first battery" is a matter of order, as in the code. `Probing` translates
the walk of each driver: the class driver looks for the full and the now file
in two separate walks, each of which takes the first directory `BAT*` it finds
and, within it, the first file that fits; acpi does so below the first device of
its bus. `Battery` starts in phase "probe": it takes the drivers one after the
other until one of them finds what it needs; the dummy driver always does. The
table of the drivers is put together by the linker in the order of the object
files, which is that of `BAT_MODULES` in `backend/Makefile`, and the model has
this order only.

An update is one step for each file it reads, so that the hardware may change
between them (`Plug`, `Charge`). `GiveUp` is every early return for a file that
cannot be read, `Opened` the charge files that are skipped if they cannot be
opened, a missing line of a powerbook's file keeps the copy. The last read
calls `NotifyStateChange` (the emergency check, autodim, clients), which sets
`emergency_handled` and `told`. Two history variables say which files failed
when last read (`failed`) and whether an update gave up after it had found a
change (`dropped`); the properties state with them exactly which failures they
do not tolerate. `attempts` counts how often the command was executed, or would
have been, since the charge was above the threshold.

### Backlight

`hw` is the device, `brightness` the driver's copy, `announced` the last
notification; `fb_blanked` and `blocked` are what was told to the framebuffer
and the X11 blocker. The operations follow the calls of the generic layer into
the drivers: the class driver changes its copy after a successful write,
omapfb before it; only `backlight_set_percentage()` and
`backlight_screen_lock()` update the blanking, a client's
PTREQ_BL_SETBRIGHTNESS and the poll call the driver directly.
The history variable `disturbed` says whether a write has failed, a client has
set the brightness, or the firmware has. `backlight_start()` is the initial
state, and its write may fail, too.

### Autodim

Extends `Backlight`, whose operators it calls where the code calls the
functions. A handler is a step, except that unlocking is two: the lock, and
`autodim_resume()`, because both set the brightness; nothing runs in between.
`left` is the time to the timer's deadline; it may become as low as `-Late`,
which is what `SleepTimer` says about lateness. `idle` counts the time since
the idle time of the user started to count; it is history, as is `held_off`,
which says whether a step has been held off by AC power since then.

### Conf and AutodimSteps

`Conf` keeps the two levels of hash tables of `struct config_file`: sections
with the same name stay separate and the first of them is found, and names that
share a bucket are told apart by comparing them. A line is what
`string_strip()` leaves of it.

`AutodimSteps` reads a file line by line, asks `Conf` for `autodim_steps` and
`autodim_smooth`, and computes the steps. One action is one line, or one
iteration of one of the three loops. The initial state chooses any file within
the bounds. The interpolation is exact, the code's is in single precision: at a
value exactly between two percentages they may differ by one. What the code
reads behind the end of an empty array is a step with any content
(`CopiedSteps`). `Says` and `Malformed` are the reference: what a file says, in
terms of its lines alone.

### Clients

Both ends of the socket. The daemon has `clients` and what `notify_clients()`
and `received_message()` do with it; a tray is a process with a phase, which is
mostly the request it waits for, in the order in which `connectToBackend()` and
the constructor of `TrayWindow` send them. `backlog`, `request` and `inbox` are
the socket's queues; `sigio` is one bit. `SignalAsyncIO` accepts one connection;
`RecvClient` then takes one message of the next client, if there is one, until
the handler has come to all: the trays are other processes and run meanwhile,
timers and signals wait. `clients` are those behind the handler, `ahead` those
it will still come to; together they are `client_list`. A connection that is not
accepted raises no SIGIO for its messages. What a tray shows after the
notifications it deferred is the last one of each kind (`ShowAll`), which is
what processing them in their order comes to. Three histories say what
the properties have to excuse: a message that did not fit (`lost`), a
connection that ended before it was accepted (`disturbed`), and a battery
notification that came while the window was being built (`missed`, of each
tray): the slots are connected only afterwards (`tray/main.cpp:285`), so that
the bar stays stale until the next one.

### Tray

The daemon counts brightness in levels while auto-dimming is off and in percent
while it is on; a tray takes the scale of its slider from the last state it was
sent and the meaning of a move from its own check box. `daemon` holds the part
of the daemon that requests change, and the operations on it are functions from
a state to the new state, the notification sent and the error. A tray is started
in the steps in which `TrayWindow` fetches the slider, then the boxes. A request
and its reply are one step here (`Clients` has the messages one by one), and the
notifications that come before the reply are shown after it, each over the one
before, so that the last one stays (`ShownAfter`). `stale` are the
trays whose slider nobody corrects: auto-dimming was switched without a
notification, a move was refused, or it was switched while the window was being
built. `overruled` says which requests another tray has replaced.

### Met while modelling

Behaviour of the code that the model contains and no property forbids.

Daemon and trays: a client whose end is merged
with its last request, or that leaves messages unread, stays in the list until
the next SIGIO; `remove_client()` never closes the socket; a tray that ends
switches the event reporter off for the others; a brightness that the daemon
refuses stays on the slider; a box that is switched while the screen is dimmed
makes the dimmed brightness the maximum (`ActsAsShown` says that it is the
level shown, dimmed or not, that becomes the maximum); it may change this level
by up to one percent, because autodim takes it over in percent; "Force minval
to >= 1%" gives 0 for a device of less than 50 levels.

Some of these are recorded by a history variable, and the property next to it
excuses them: a property with an excuse does not catch the behaviour, it says
that nothing else goes wrong. `lost` and `missed` excuse what `ShownCurrent` and
`NeverStuck` say after a message was dropped; `stale` a slider that nobody
corrects; `overruled` boxes that nobody updates and an event reporter that was
switched off for another tray (what is left of `RequestsInForce` for the
reporter is that a tray that connects afterwards has it); `dropped` listeners of
an update that gave up, which `AutodimKnowsAC` of the run `battery_ac` catches.
The hazards of these kinds name no property, or a note says which part a
property covers.

Backlight: a screen that is unlocked at brightness 0 keeps its input blocked
until a percentage is set, also when a client lights it with
PTREQ_BL_SETBRIGHTNESS (`backend/backlight.c:285`).

Battery: a charge file that cannot be opened counts as an empty battery and
executes the emergency command (`EmergencyOnlyWhenLow` allows for it with
`failed`); an n810 whose level is 0 from the start on is not noticed
(`EmergencyDetected` says so); the first directory `BAT*` ends the search,
although a later one may have the files; the full and the now file may be found
in two units, or of two batteries (`ProbedBattery` is about the machines where
they are not).

Configuration: blanks around the `=` of an item belong to its name, so that it
is never found; an empty `autodim_steps` gives no step, and what is smoothened
and waited for is read beyond the array; clearing the AC flag on a dimmed screen
on AC does not brighten it (`OnACBright` is about changes of the AC state for
this reason); `autodim_optimize_steps()` leaves one of three equal steps.

## 3. The runs

Every run names its properties in `PROJECT.json`. Those that pass:

| run | states | shows | bounds, and why they are enough |
|---|---|---|---|
| `sleep_timer` | 152 k | the list stays sorted and free of freed timers; no callback is early, none is later than a longest delay and the slack; an overdue timer is served; `TimerService` is implemented | two poll timers and the dimmer's, with delays 0 to 3: a handler can arm earlier, equal and later deadlines than the one slept for. Clock up to 6, two periods of each timer; six ids, so that the dimmer's timer is re-armed in several windows. `MaxTime` and `MaxId` are bounds of the model; the proofs do not depend on their values |
| `helpers` | 115 k | remembered pids are the daemon's own unreaped children that run the helper, zombies are reaped, the shutdown ends; a helper that is wanted runs unless it was let down; with a single kind of child it never runs twice and none survives | three pids: both helpers and the command at a time, or a forgotten helper, its successor and another child |
| `battery` | 92 k | the files found belong together; listeners are current; the emergency command is executed only for a low battery, attempted once, and always for one that stays low | five charge levels, two of them low; nine machines, for every driver at least one, with batteries in either unit, files in either order, a battery without files before one that has them; the drivers in the order of the Makefile; every file failing in every way at any time |
| `backlight` | 10 k | the clients hold the driver's brightness; device, lock, blanking and input blocking agree as long as the named disturbance is absent; the screen is visible at exit | 25 levels and all 101 percentages, so that both roundings, and percentages that share a level, occur; client levels beyond both ends |
| `autodim` | 341 k | no step early, none late, none on AC, none missing; what autodim believes is what is shown; the suspend counter follows the lock | two steps, the last one dark; the full brightness and a smaller maximum; AC states off and unknown, which counts as AC; idle time up to 6, one more than the last step may take (3 + 2 late services) |
| `autodim_steps` | 86 k | the steps grow strictly; they and the switch are those the file says first; the schedule passes through the configured steps and stays between them | all lists of up to three entries out of four times and four percentages: slopes above and below one percent a second, down to 0, rising; all files of up to four lines out of eight, with two sections and two items of which each two share a bucket, malformed lines, repeated sections |
| `clients` | 662 k | a tray that has read its messages shows the daemon's brightness and battery state; every request is answered and every tray becomes ready although SIGIOs merge; no tray outlives the daemon | two trays: connections, requests and ends that merge and cross. One change and one move of a slider: a notification comes before, during and after a request, of the same or another value. Two messages fit in a socket, so that the third is lost; two errors end a tray (25 in the code). The liveness property is about one of the trays; they are alike |
| `tray` | 261 k | a slider that has read its messages stands where the daemon's brightness is, in its scale; the daemon follows the last request of any tray; what a box or a slider does is what it shows | two trays that overrule each other; 64 levels, so that levels and percentages differ and do not map one to one, and the slider does not reach 0; one step to dim, down to 0. Three actions of users: one tray switches, the other moves, the first switches back. Two unread messages: one of either scale |

Those that fail, because the code does not do what it says:

| run | property | what happens |
|---|---|---|
| `helpers_forget` | `ForgottenOnlyWhenDead` | another child exits; the handler takes a living helper for terminated and forgets its pid (`backend/x11lock.c:105`, `backend/xevrep.c`) |
| `battery_ac` | `AutodimKnowsAC` | the update stores a new AC state, then gives up on a charge file; nobody is told, because the next update sees no change (`backend/battery_class.c:60`) |
| `backlight_firmware` | `FirmwareAmended` | the poll that "amends" the brightness asks the driver to set what its copy already holds, which returns early (`backend/backlight_class.c:51`, `:90`) |
| `autodim_unplug` | `DimsAtLast` | AC power is lost after the last step has passed: the screen stays bright (`backend/autodim.c:436`) |

`*.cfg` files turn deadlock checking off where the daemon or all trays may end
(`helpers`, `clients`, `tray`), where the bound on time ends a behaviour or the
last step is the end (`autodim`, `autodim_steps`), and where `backlight` shuts
down.

### Fairness

* `SleepTimer`: the startup goes on, the main loop is scheduled, time passes.
  Nothing is assumed of handlers: they may interrupt for ever or never.
* `Helpers`: SIGCHLD is delivered, the shutdown is scheduled, and a child that
  got SIGTERM exits: xlock and xevrep unblock the signals they inherit as
  blocked and exit in their handlers. A helper that nobody kills may run for
  ever. The emergency command may, too; nobody waits for it.
* `Clients`: SIGIO is delivered, a shutdown that has begun ends (which
  `Helpers` shows), and a tray that can go on does: Qt reports a readable
  socket again and again. Nothing is assumed of users, changes or kills.
* `Battery`: the probing ends, the poll timer keeps calling (which `SleepTimer`
  shows) and reads return. That updates which read all the files do not cease is
  a premise of `EmergencyDetected`, not an assumption about the machine.
* `Backlight`: the poll goes on. Only `backlight_firmware` uses it.
* `Autodim`: time passes, the timer is served, a started unlock ends.
* `AutodimSteps`: the daemon starts; it is sequential code.
* `Tray`: none. A user, a dimming timer or a message may come or not.

The properties of `Autodim` that say "in time" are invariants with a clock and
need no fairness: `DimInTime` bounds the time, by the lateness of the timers.

## 4. The proofs

TLAPS proves, for every value of the constants that satisfies the assumptions
of the modules (they are named, in the module that declares the constants, and
TLC evaluates them in the runs):

* `SleepTimer_proofs`: `TypeCorrect`, `ListStaysSorted`, `NoTimerDangles`,
  `LatenessIsBounded`, `NeverServedEarly` and `ImplementsService`, for any
  number of poll timers, any periods, delays and slack.
  The invariant `IInv` adds three parts that make it inductive. `IdsFresh`: ids
  are not shared and the counter is above them all, so the copied id can only
  be found on the timer it was copied from, and not on one allocated at the
  same address since. `SnapshotValid`: a queued timer that has the copied id
  still has the copied deadline. `Deadlines`: every deadline, and the end of
  the current sleep, is at most one `MaxDelay` away, and the end of the sleep
  is at most one `MaxDelay` after any deadline, which is what bounds the
  lateness when a handler arms an earlier timer. `ListLemmas` says what
  inserting into and removing from a sorted list do; it is about sequences
  only. `ImplementsService` shows that each step is one of `TimerService` or
  changes nothing it sees.
  The assumptions are `DelayAssumption` (all delays are at most `MaxDelay`),
  `TimersAssumption` and `BoundAssumption`.
* `Helpers_proofs`: `PidsAreOwn`, `HelperTypes`, `RequestsFollowed` and
  `MarksAreCurrent` from the invariant `HInv`, for any set of pids: a remembered
  pid is an unreaped child that runs that helper, so different helpers have
  different pids, and reaping one keeps the other's; and one that is remembered
  but not wanted is marked. `NeverTwice` and `NoneSurvives` from `SoleInv`,
  which adds that in a daemon with one kind of child the remembered pid is the
  only child there is; a SIGCHLD is then its own, and the early return with a
  living helper is not taken.
* `Battery_proofs`: `BatteryTypes`, `ListenersAreCurrent`, `AttemptedOnce`,
  `CommandOnlyWhenLow` and `FilesBelongTogether`, for any machines, thresholds
  and failing files, with the drivers in the order of the Makefile. `BatInv`
  adds `ChargeMax` (the copy of the full charge is that of the hardware, or
  unknown), `Unfinished` (the listeners hold the copies unless an update has
  found a change it has not told yet) and `Attempted` (after an attempt for a
  battery that is still low the flag is set, and no update can clear it: a copy
  above the threshold would have been read from such a battery).
  `FilesBelongTogether` rests on `ProbeInv`, which says that the drivers tried
  before found nothing and the chosen one what its probe function finds, and on
  lemmas about the walks: which entry of a directory, and which file of it,
  `FindFile` takes. The assumption `NoFileAssumption` is that the empty name is
  not that of a file.
* `Autodim_proofs`, about the backlight: `AnnouncedIsCurrent`,
  `DeviceIsFollowing`, `ScreenIsMatching`, `ExitLeavesVisible`, for any number
  of levels. They hold together with the types and two facts about the drivers
  (`OnlyPanelLocks`, `OnlyFramebufferBlanks`). `RoundTrip` is arithmetic:
  setting the percentage that is read back of a level sets this level again, if
  it was set from a percentage; `autodim_init()` relies on it.
  About the auto-dimmer: `AutodimTypes`, `TimerIsArmed`, `DimIsJustified`,
  `DimsInTime`, `BrightnessIsApplied`, `BrightOnAC` and `SuspensionFollows`, for
  any list of growing steps, any maxima and any lateness. `AInv` is the
  invariant of the backlight together with `TimerState` (the deadline lies as
  far from the next step as the idle time says, up to the services that were
  late), `StepShown` (a step that was not held off is in force),
  `SuspendOffset`, `Unlocking` and `FromPercent`
  (while nothing disturbed it, the brightness comes from a percentage, which is
  where `RoundTrip` is used). The assumptions are that the steps grow
  (`StepsAssumption`, which `StepsAreGrowing` shows of the steps the
  configuration yields) and that a slide switch means the panel of the N810.
* `AutodimSteps_proofs`: `StepsAreGrowing` and `ConfigurationIsFollowed`, for
  any set of files, hash function and default. `SInv` says that the hash tables
  hold lines of the file only (so that what is looked up is a list of entries),
  and in each loop that the steps collected so far grow and end before the step
  that comes next. `FInv` adds two parts. `Written` relates the tables to the
  lines read so far: each header has its section in the table; the chain of a
  bucket leads to the first section, or item, of each name in that bucket,
  whatever else was hung into it; and the last section is that of the last
  header, which is where the next item goes. `Schedule` relates the steps to the
  entries: all entries parsed so far are sound; the steps collected show each of
  the first entries at its time (`Through`), and in between a brightness
  between two neighbours (`Between`). A schedule shows at a time the percentage
  of the last step that is not after it (`Shows`, which is what `BrightnessAt`
  computes); the lemmas say that appending a later step, smoothening a pair and
  removing a duplicate keep what is shown, and `InterpolateBetween` that the
  rounded straight line does not leave the pair. The assumptions are that the
  value of `autodim_steps` is a list of entries (`ConfigurationAssumption`), that
  lines are of the four kinds (`LinesAssumption`), and that the default of
  `config_get()`, a null pointer, is not the value of an item
  (`MissingAssumption`).
* `Tray_proofs`: `RequestsAreInForce`, `TrayTypes`, `SliderIsCurrent` and
  `WidgetsActAsShown`, for any number of trays, any device and autodim step.
  `RInv` strengthens the first from windows to connections: the reporter
  is on for every connected tray that was not overruled, also while its window
  is being built. `TInv` are types and ranges: a slider stays within its scale
  and no message is in percent unless auto-dimming is on. `CInv` says of a ready
  tray that is not stale that its slider shows the daemon's state or, if
  messages are on their way, that the last of them does. `WidgetsActAsShown` is
  an action property: it combines both with the arithmetic of levels, which is
  off by at most one percent where a level becomes a percentage and a level
  again.
* `Clients_proofs`: `ClientsTypes` and `TraysShowTheState`, for any number of
  trays, any size of the sockets and any number of errors. `TInv` are the types
  (no client is listed twice), and that a tray that has not connected is in no
  list. `CInv` follows each tray, as long as nothing was lost: `Protocol` (one
  request or one reply is outstanding, of what the tray waits for), `Told`
  (from the reply to its subscription on a tray is notified) and `Tracks`: what
  the tray shows, after the messages it deferred and then those in its socket,
  is the daemon's value. While the request of a moved slider is on its way the
  slider is already where the daemon will be, and only the brightness the
  daemon has now is tracked.

Every invariant and every safety action property of a run is the property of one
of these theorems. Only model-checked are the liveness properties
(`OverdueTimerServed`, `ZombiesReaped`, `ShutdownEnds`, `EmergencyDetected`,
`NeverStuck`): fairness is about `ENABLED`, which is beyond the proof system.
The runs that fail are counterexamples and need no proof.

## 5. Abstractions

* A signal handler or callback is one step, justified by `block_signals()`
  around it. The nesting counter of `block_signals()` itself is not modelled.
* The lists of `list.h` are sequences or sets.
* Ids, clock and pids do not wrap around. The id counter has 64 bits in the code.
* `subprocess_exec()`, `malloc()` and `fork()` failures that leave the state
  alone are stuttering steps; where they do not (`EnableFails`), they are
  actions.
* The framebuffer's ioctl and the start of the X11 blocker are taken to
  succeed within `Backlight`; `Helpers` says what starting a blocker does.
* The arithmetic of brightness, percent and charge is exact and within the
  range of `int`.
* A line of the configuration is one of four kinds, a value what its reader
  makes of it.

### Not modelled

* Logging, command line arguments, pid file, niceness: output and one-time I/O.
* The buffers and number formatting of `fileaccess.c`; that a file cannot be
  opened, read or written is a choice of the module that uses it.
* The search for the backlight's and the slide switch's files: which of the
  drivers is found is an initial choice, since the search keeps no other state.
* The dummy backlight and device lock, which keep no state and do nothing.
* The layout of the Qt widgets, and what the two X11 programs do with the X
  server: they appear as helpers and input events.
* In `Clients`, messages that are cut off, and connections made between
  `listen()` and the installation of the signal handlers; the number of
  descriptors, which `remove_client()` never gives back.

## 6. Plan

Done: the modules and runs above and the proofs of all their safety properties.
What would add most next:

1. Compositions: `Backlight` with `Helpers` (a locked screen has a blocker, also
   when it is locked again while the old blocker is being killed), `Battery`
   with `Helpers` (an emergency command that cannot be started), the event
   reporter of `Helpers` with the requests of `Tray`.
2. An abstract specification of a tray's view of the daemon, implemented by
   `Clients`, and the invariant behind `NeverStuck`: whenever a connection or a
   request waits, a SIGIO is pending or an accepted tray is about to send.
3. `Clients` with descriptors as a bounded resource, and with messages that are
   cut off.
