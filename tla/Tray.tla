-------------------------------- MODULE Tray --------------------------------
(***************************************************************************)
(* The slider and the check boxes of the trays (tray/main.cpp) against the *)
(* daemon's state, and against each other.                                 *)
(*                                                                         *)
(* The daemon counts brightness in the levels of the device while auto-    *)
(* dimming is off, and in percent while it is on.  A tray takes the scale  *)
(* of its slider from the last state it got, and the meaning of a move     *)
(* from its own check box.  Nobody tells the other trays that auto-dimming *)
(* was switched, unless the brightness changes with it.                    *)
(*                                                                         *)
(* A request and its reply are one step: a tray does nothing else between  *)
(* them, and what the daemon does meanwhile it may as well do before the   *)
(* request or after the reply (Clients has the messages one by one).       *)
(***************************************************************************)
EXTENDS Integers, Sequences, SequencesExt

CONSTANTS
  Trays,       (* the trays that may be started                             *)
  MaxLevel,    (* max_brightness of the device, the minimum is 0            *)
  DimPercent,  (* the autodim step                                          *)
  WriteMayFail,(* may writes to the device fail?                            *)
  MaxUnread,   (* bound: messages a tray has not read when the daemon dims  *)
  MaxActions   (* bound: what users do                                      *)

ASSUME TrayAssumption ==
  /\ MaxLevel \in Nat \ {0} /\ DimPercent \in 0..100
  /\ WriteMayFail \in BOOLEAN
  /\ MaxUnread \in Nat /\ MaxActions \in Nat

VARIABLES
  usable,    (* does autodim_init() succeed (/dev/input, the configuration)? *)
  daemon,    (* backlight, auto-dimmer and event reporter                   *)
  inbox,     (* PTNOTI_BL_CHANGED not read yet                              *)
  tray,      (* the windows                                                 *)
  actions,   (* counts what users did, for the bound                        *)
  stale,     (* history: trays whose slider is wrong and that were sent     *)
             (* nothing since                                               *)
  overruled  (* history: <<tray, "boxes">>, <<tray, "reporter">>: what it   *)
             (* asked for is replaced by another's request or was refused   *)

vars == <<usable, daemon, inbox, tray, actions, stale, overruled>>

Clamp(x, lo, hi) == IF x < lo THEN lo ELSE IF x > hi THEN hi ELSE x
Least(x, y) == IF x < y THEN x ELSE y
DivRound(x, d) == (x + d \div 2) \div d

(* backlight_set_percentage_no_notify(), backlight_get_percentage()        *)
ToLevel(percent) == DivRound(MaxLevel * percent, 100)
ToPercent(level) == Clamp(DivRound(level * 100, MaxLevel), 0, 100)

(* backlight_fill_pt_message_stat()                                        *)
State(d) ==
  [autodim |-> d.enabled, autodim_ac |-> d.on_ac,
   max |-> IF d.enabled THEN 100 ELSE MaxLevel,
   brightness |-> IF d.enabled THEN ToPercent(d.level) ELSE d.level]

(* The trays that are clients with notifications enabled.                  *)
Listening == {t \in Trays : tray[t].pc \notin {"off", "gone"}}

(* Those whose boxes show something.                                       *)
Windows == {t \in Trays : tray[t].pc \in {"ready", "refetch"}}

-----------------------------------------------------------------------------
(* The daemon's operations: from its state to [d, told, err], with the     *)
(* state of the notification it sends, if any.  ok: does a write succeed?  *)
Nothing == <<>>
Result(d, told, err) == [d |-> d, told |-> told, err |-> err]

(* Mutant of SetLevel: the level is not clamped.                           *)
SetLevelRaw(d, value, ok) ==
  LET new == [d EXCEPT !.level = value]
  IN  IF ok THEN Result(new, <<State(new)>>, FALSE) ELSE Result(d, Nothing, TRUE)

(* backlight_class_set_brightness(); only a change is written.             *)
SetLevel(d, value, ok) ==
  LET level == Clamp(value, 0, MaxLevel)
      new   == [d EXCEPT !.level = level]
  IN  IF level = d.level THEN Result(d, Nothing, FALSE)
      ELSE IF ok THEN Result(new, <<State(new)>>, FALSE)
      ELSE Result(d, Nothing, TRUE)

(* backlight_set_percentage(): announces again what the driver announced.  *)
SetPercentage(d, percent, ok) ==
  LET r == SetLevel(d, ToLevel(percent), ok)
  IN  IF r.err THEN r ELSE [r EXCEPT !.told = <<State(r.d)>>]

(* autodim_set_backlight(), whose error nobody looks at.                   *)
AutodimSet(d, percent, ok) ==
  LET p == Least(percent, d.max)
  IN  IF p = d.set THEN Result(d, Nothing, FALSE)
      ELSE [SetPercentage([d EXCEPT !.set = p], p, ok) EXCEPT !.err = FALSE]

(* autodim_set_max_percent(), autodim_handle_input_event()                 *)
SetMaxPercent(d, max_percent, ok) ==
  LET max == IF max_percent < 0 THEN 100 ELSE Clamp(max_percent, 0, 100)
  IN  IF max = d.max THEN Result(d, Nothing, FALSE)
      ELSE AutodimSet([d EXCEPT !.max = max], max, ok)

(* Mutant of EnableAutodim: the flag is set when it is started only.       *)
EnableOnce(d, max_percent, on_ac, ok) ==
  LET percent == ToPercent(d.level)
      started == [d EXCEPT !.on_ac = on_ac, !.enabled = TRUE,
                           !.max = percent, !.set = percent]
  IN  IF d.enabled THEN SetMaxPercent(d, max_percent, ok)
      ELSE IF usable THEN SetMaxPercent(started, max_percent, ok)
      ELSE Result(d, Nothing, TRUE)

(* enable_autodim(), autodim_init(): it takes over the present brightness. *)
EnableAutodim(d, max_percent, on_ac, ok) ==
  LET percent == ToPercent(d.level)
      started == IF d.enabled THEN [d EXCEPT !.on_ac = on_ac]
                 ELSE [d EXCEPT !.on_ac = on_ac, !.enabled = TRUE,
                                !.max = percent, !.set = percent]
  IN  IF ~d.enabled /\ ~usable
        THEN Result([d EXCEPT !.on_ac = on_ac], Nothing, TRUE)
        ELSE SetMaxPercent(started, max_percent, ok)

(* disable_autodim()                                                       *)
DisableAutodim(d) ==
  Result([d EXCEPT !.enabled = FALSE, !.on_ac = FALSE, !.max = 0, !.set = 0],
         Nothing, FALSE)

-----------------------------------------------------------------------------
(* backlight_start() with the default startup_percent; the auto-dimmer may *)
(* be enabled by the configuration (autodim_default_on).                   *)
Fresh ==
  [level |-> MaxLevel, enabled |-> FALSE, on_ac |-> FALSE,
   max |-> 0, set |-> 0, reporter |-> FALSE]

Init ==
  /\ usable \in BOOLEAN
  /\ daemon \in {Fresh} \cup {EnableAutodim(Fresh, 100, on_ac, TRUE).d :
                               on_ac \in BOOLEAN}
  /\ inbox = [t \in Trays |-> <<>>]
  /\ tray = [t \in Trays |->
              [pc |-> "off", auto |-> FALSE, auto_ac |-> FALSE,
               ac_usable |-> TRUE, slider |-> [min |-> 0, max |-> 99, value |-> 0]]]
  /\ actions = 0
  /\ stale = {} /\ overruled = {}

-----------------------------------------------------------------------------
(* notify_clients()                                                        *)
Notified(told) ==
  [t \in Trays |-> IF t \in Listening THEN inbox[t] \o told ELSE inbox[t]]

(* A timer or an input event: nobody waits for a reply.                    *)
Event(r) ==
  /\ \A t \in Trays : Len(inbox[t]) < MaxUnread
  /\ daemon' = r.d
  /\ inbox' = Notified(r.told)
  /\ stale' = IF r.told = Nothing THEN stale ELSE {}
  /\ UNCHANGED <<usable, tray, actions, overruled>>

Oks == IF WriteMayFail THEN BOOLEAN ELSE {TRUE}

(* autodim_handle_state()                                                  *)
Dim ==
  /\ daemon.enabled /\ daemon.set > DimPercent
  /\ \E ok \in Oks : Event(AutodimSet(daemon, DimPercent, ok))

(* signal_input_event_1()                                                  *)
Input ==
  /\ daemon.enabled /\ daemon.set # daemon.max
  /\ \E ok \in Oks : Event(AutodimSet(daemon, daemon.max, ok))

-----------------------------------------------------------------------------
(* Mutant of SliderShows: the range is not changed.                        *)
SliderKeepsRange(slider, s) ==
  [slider EXCEPT !.value = Clamp(s.brightness, slider.min, slider.max)]

(* updateBacklightSlider(): the range, then the value within it.           *)
SliderShows(slider, s) ==
  LET min == IF s.autodim THEN 1 ELSE DivRound(s.max, 100)
  IN  [min |-> min, max |-> s.max, value |-> Clamp(s.brightness, min, s.max)]

(* The slider after messages: each sets all of it, so the last one stays.  *)
ShownAfter(slider, msgs) ==
  IF msgs = <<>> THEN slider ELSE SliderShows(slider, Last(msgs))

(* A request of a ready tray: the notifications that come before the reply *)
(* are shown after it.                                                     *)
Request(t, r, window) ==
  LET msgs == inbox[t] \o r.told
  IN  /\ daemon' = r.d
      /\ inbox' = [Notified(r.told) EXCEPT ![t] = <<>>]
      /\ tray' = [tray EXCEPT ![t] =
                    [window EXCEPT !.slider = ShownAfter(@, msgs)]]

(* A GETSTATE request of a tray without slots: its notifications are lost. *)
Fetch(t, window) ==
  /\ inbox' = [inbox EXCEPT ![t] = <<>>]
  /\ tray' = [tray EXCEPT ![t] = window]
  /\ UNCHANGED <<usable, daemon, actions>>

(* connectToBackend(): PTREQ_WANT_NOTIFY and PTREQ_XEVREP                   *)
Connect(t) ==
  /\ tray[t].pc = "off"
  /\ tray' = [tray EXCEPT ![t].pc = "connected"]
  /\ daemon' = [daemon EXCEPT !.reporter = TRUE]
  /\ UNCHANGED <<usable, inbox, actions, stale, overruled>>

(* TrayWindow::TrayWindow(): update() ...                                  *)
FetchSlider(t) ==
  /\ tray[t].pc = "connected"
  /\ Fetch(t, [tray[t] EXCEPT !.pc = "fetched",
                              !.slider = SliderShows(@, State(daemon))])
  /\ stale' = stale \ {t}
  /\ UNCHANGED overruled

(* ... and the check boxes; the range of the slider is not fetched again.  *)
FetchBoxes(t) ==
  LET s == State(daemon)
      new == [tray[t] EXCEPT !.pc = "ready",
                !.auto = s.autodim, !.auto_ac = s.autodim_ac,
                !.slider.value = Clamp(s.brightness, tray[t].slider.min,
                                                     tray[t].slider.max)]
  IN
  /\ tray[t].pc = "fetched"
  /\ Fetch(t, new)
  /\ stale' = IF s.max = new.slider.max THEN stale \ {t} ELSE stale \cup {t}
  /\ UNCHANGED overruled

(* Backend::readNotification()                                             *)
ReadNotification(t) ==
  /\ tray[t].pc = "ready"
  /\ inbox[t] # <<>>
  /\ tray' = [tray EXCEPT ![t].slider = SliderShows(@, Head(inbox[t]))]
  /\ inbox' = [inbox EXCEPT ![t] = Tail(@)]
  /\ UNCHANGED <<usable, daemon, actions, stale, overruled>>

User ==
  /\ actions < MaxActions
  /\ actions' = actions + 1
  /\ UNCHANGED usable

(* PTREQ_BL_AUTODIM                                                        *)
Autodim(on, on_ac, percent, ok) ==
  IF on THEN EnableAutodim(daemon, percent, on_ac, ok) ELSE DisableAutodim(daemon)

(* A slider that was moved stays there if nothing is announced.            *)
Confirms(t, r) ==
  stale' = IF r.told # Nothing THEN {}
           ELSE IF r.d.enabled # daemon.enabled THEN Trays
           ELSE IF inbox[t] = <<>> THEN stale \cup {t} ELSE stale

Overrules(t, r) ==
  overruled' = IF r.err THEN overruled \cup {<<t, "boxes">>}
               ELSE (overruled \ {<<t, "boxes">>})
                      \cup {<<u, "boxes">> : u \in Windows \ {t}}

(* desiredBrightnessChanged()                                              *)
MoveSlider(t, value) ==
  LET window == [tray[t] EXCEPT !.slider.value = value] IN
  /\ tray[t].pc = "ready"
  /\ value # tray[t].slider.value
  /\ User
  /\ \E ok \in Oks :
       IF tray[t].auto
         THEN LET r == Autodim(TRUE, tray[t].auto_ac, value, ok)
              IN  Request(t, r, window) /\ Confirms(t, r) /\ Overrules(t, r)
         ELSE LET r == SetLevel(daemon, value, ok)
              IN  Request(t, r, window) /\ Confirms(t, r) /\ UNCHANGED overruled

(* Mutant of ScaledValue: the value is taken for a percentage.             *)
RawValue(slider) == slider.value

(* brightnessAutoAdjChanged(): the slider's value in percent.              *)
ScaledValue(slider) == DivRound(slider.value * 100, slider.max)

AutoAdjChanged(t, window) ==
  /\ tray[t].pc = "ready"
  /\ User
  /\ \E ok \in Oks :
       LET r == Autodim(window.auto, window.auto_ac, ScaledValue(window.slider), ok)
       IN  /\ Request(t, r, [window EXCEPT !.pc = "refetch",
                                           !.ac_usable = window.auto])
           /\ Confirms(t, r) /\ Overrules(t, r)

ToggleAuto(t) == AutoAdjChanged(t, [tray[t] EXCEPT !.auto = ~@])

ToggleAutoAC(t) ==
  /\ tray[t].ac_usable
  /\ AutoAdjChanged(t, [tray[t] EXCEPT !.auto_ac = ~@])

(* ... and updateBacklightSlider()                                         *)
Refetch(t) ==
  /\ tray[t].pc = "refetch"
  /\ Fetch(t, [tray[t] EXCEPT !.pc = "ready",
                              !.slider = SliderShows(@, State(daemon))])
  /\ stale' = stale \ {t}
  /\ UNCHANGED overruled

(* ~Backend(): the event reporter is switched off.                         *)
Quit(t) ==
  /\ tray[t].pc = "ready"
  /\ User
  /\ tray' = [tray EXCEPT ![t].pc = "gone"]
  /\ inbox' = [inbox EXCEPT ![t] = <<>>]
  /\ daemon' = [daemon EXCEPT !.reporter = FALSE]
  /\ overruled' = overruled \cup {<<u, "reporter">> : u \in Listening \ {t}}
  /\ UNCHANGED stale

(* The tray is killed.                                                     *)
Killed(t) ==
  /\ tray[t].pc \in {"connected", "fetched", "ready", "refetch"}
  /\ User
  /\ tray' = [tray EXCEPT ![t].pc = "gone"]
  /\ inbox' = [inbox EXCEPT ![t] = <<>>]
  /\ UNCHANGED <<daemon, stale, overruled>>

(* Positions of the slider a user may choose: the ends and the middle.     *)
Positions(slider) ==
  {slider.min, slider.max, (slider.min + slider.max) \div 2}

UserActs(t) ==
  \/ Connect(t) \/ ToggleAuto(t) \/ ToggleAutoAC(t) \/ Quit(t) \/ Killed(t)
  \/ \E value \in Positions(tray[t].slider) : MoveSlider(t, value)

Next ==
  \/ Dim \/ Input
  \/ \E t \in Trays : \/ FetchSlider(t) \/ FetchBoxes(t) \/ Refetch(t)
                      \/ ReadNotification(t) \/ UserActs(t)

Spec == Init /\ [][Next]_vars
-----------------------------------------------------------------------------
Percents == 0..100
Stats ==
  [autodim : BOOLEAN, autodim_ac : BOOLEAN, max : {MaxLevel, 100},
   brightness : 0..100 \cup 0..MaxLevel]

TrayTypeOK ==
  /\ usable \in BOOLEAN
  /\ daemon \in [level : 0..MaxLevel, enabled : BOOLEAN, on_ac : BOOLEAN,
                 max : Percents, set : Percents, reporter : BOOLEAN]
  /\ daemon.enabled => usable /\ daemon.set <= daemon.max
  /\ \A t \in Trays :
       /\ \A i \in DOMAIN inbox[t] : inbox[t][i] \in Stats
       /\ tray[t].pc \in {"off", "connected", "fetched", "ready", "refetch", "gone"}
       /\ {tray[t].auto, tray[t].auto_ac, tray[t].ac_usable} \subseteq BOOLEAN
       /\ tray[t].slider.value \in tray[t].slider.min .. tray[t].slider.max
  /\ actions \in 0..MaxActions
  /\ stale \subseteq Trays
  /\ overruled \subseteq Trays \X {"boxes", "reporter"}

UpToDate(t) == tray[t].pc = "ready" /\ inbox[t] = <<>> /\ t \notin stale

(***************************************************************************)
(* The slider of a tray that has read its messages stands where the        *)
(* daemon's brightness is, in the daemon's scale, whatever users, timers   *)
(* and the other tray do.  Exceptions (stale): a switch of auto-dimming    *)
(* that nobody is told of, a move the daemon did not carry out, and a      *)
(* switch while the window was being built ("TODO slider min/max?").       *)
(***************************************************************************)
SliderCurrent ==
  \A t \in Trays : UpToDate(t) =>
    LET slider == tray[t].slider
        shown  == State(daemon)
    IN  /\ slider.max = shown.max
        /\ slider.value = Clamp(shown.brightness, slider.min, slider.max)

(***************************************************************************)
(* What a tray asked for, or found when it started, stays in force until   *)
(* another tray asks for something else (or the daemon refused it): the    *)
(* event reporter is on, and auto-dimming is as its boxes say.             *)
(***************************************************************************)
RequestsInForce ==
  \A t \in Windows :
    /\ <<t, "reporter">> \notin overruled => daemon.reporter
    /\ <<t, "boxes">> \notin overruled =>
         /\ daemon.enabled = tray[t].auto
         /\ daemon.enabled => daemon.on_ac = tray[t].auto_ac

(***************************************************************************)
(* The widgets do what they show.  Bright is the brightness an active user *)
(* sees: the maximum, while auto-dimming is on.  Switching a box makes it  *)
(* what the slider shows, the level of the device, within one percent, be  *)
(* the screen dimmed or not, be the level written or not (a dimmed level   *)
(* does become the maximum).  A move of the slider sets the fraction it is *)
(* moved to, of the levels or of 100 percent, unless it is refused.  Both  *)
(* of a tray that is up to date and whose boxes are not overruled;         *)
(* otherwise a percentage is taken for a level or a level for one.         *)
(***************************************************************************)
Bright(d) == IF d.enabled THEN ToLevel(d.max) ELSE d.level

(* A percent of the levels; nothing if there are less than 50.             *)
Near(x, y) ==
  x - y <= DivRound(MaxLevel, 100) /\ y - x <= DivRound(MaxLevel, 100)

Acts(t) == UpToDate(t) /\ <<t, "boxes">> \notin overruled

ActsAsShown ==
  [][\A t \in Trays : Acts(t) =>
       /\ (ToggleAuto(t) \/ ToggleAutoAC(t)) =>
            Near(Bright(daemon'), daemon.level)
       /\ \A value \in Positions(tray[t].slider) :
            (MoveSlider(t, value) /\ (tray[t].auto \/ t \notin stale')) =>
              Bright(daemon') = DivRound(MaxLevel * value, tray[t].slider.max)]_vars
=============================================================================
