---------------------------- MODULE Tray_proofs ----------------------------
(***************************************************************************)
(* For any number of trays, any device and any autodim step: what a tray   *)
(* asked for last stays in force until another one is heard; the slider of *)
(* a tray that has read its messages shows the daemon's brightness; and    *)
(* the widgets do what they show.                                          *)
(***************************************************************************)
EXTENDS Tray, TLAPS

IsDaemon(d) ==
  d \in [level : {d.level}, enabled : {d.enabled}, on_ac : {d.on_ac},
         max : {d.max}, set : {d.set}, reporter : {d.reporter}]

IsResult(r) == r = [d |-> r.d, told |-> r.told, err |-> r.err]

IsWindow(w) ==
  w \in [pc : {w.pc}, auto : {w.auto}, auto_ac : {w.auto_ac},
         ac_usable : {w.ac_usable}, slider : {w.slider}]

(* Two states of the daemon with the same switches.                        *)
SameSwitches(d, e) ==
  e.enabled = d.enabled /\ e.on_ac = d.on_ac /\ e.reporter = d.reporter

BoxesInForce(t) ==
  <<t, "boxes">> \notin overruled =>
    /\ daemon.enabled = tray[t].auto
    /\ daemon.enabled => daemon.on_ac = tray[t].auto_ac

(***************************************************************************)
(* The reporter is kept for every tray that is connected, the boxes for    *)
(* those whose window was built.                                           *)
(***************************************************************************)
RInv ==
  /\ IsDaemon(daemon)
  /\ daemon.enabled \in BOOLEAN
  /\ tray = [t \in Trays |-> tray[t]]
  /\ \A t \in Trays : IsWindow(tray[t]) /\ tray[t].auto \in BOOLEAN
  /\ \A t \in Listening : <<t, "reporter">> \notin overruled => daemon.reporter = TRUE
  /\ \A t \in Windows : BoxesInForce(t)

-----------------------------------------------------------------------------
(* The daemon's operations.                                                *)
LEMMA SetLevelKeeps ==
  ASSUME NEW d, IsDaemon(d), NEW value, NEW ok
  PROVE  /\ IsResult(SetLevel(d, value, ok)) /\ IsDaemon(SetLevel(d, value, ok).d)
         /\ SameSwitches(d, SetLevel(d, value, ok).d)
<1>. DEFINE level == Clamp(value, 0, MaxLevel)
            new   == [d EXCEPT !.level = level]
            told  == <<State(new)>>
            r     == SetLevel(d, value, ok)
<1>1. r = IF level = d.level THEN Result(d, Nothing, FALSE)
          ELSE IF ok THEN Result(new, told, FALSE) ELSE Result(d, Nothing, TRUE)
  BY DEF SetLevel
<1>2. IsDaemon(new) /\ SameSwitches(d, new)
  <2>. HIDE DEF level
  <2>. QED
    BY DEF IsDaemon, SameSwitches
<1>3. \/ r = [d |-> d, told |-> Nothing, err |-> FALSE]
      \/ r = [d |-> new, told |-> told, err |-> FALSE]
      \/ r = [d |-> d, told |-> Nothing, err |-> TRUE]
  BY <1>1 DEF Result
<1>. HIDE DEF new, told, r
<1>4. IsResult(r) /\ (r.d = d \/ r.d = new)
  BY <1>3 DEF IsResult
<1>. QED
  BY <1>2, <1>4 DEF r, SameSwitches

LEMMA SetPercentageKeeps ==
  ASSUME NEW d, IsDaemon(d), NEW percent, NEW ok
  PROVE  /\ IsResult(SetPercentage(d, percent, ok))
         /\ IsDaemon(SetPercentage(d, percent, ok).d)
         /\ SameSwitches(d, SetPercentage(d, percent, ok).d)
<1>. DEFINE r == SetLevel(d, ToLevel(percent), ok)
            told == <<State(r.d)>>
            p == SetPercentage(d, percent, ok)
<1>1. p = IF r.err THEN r ELSE [r EXCEPT !.told = told]
  BY DEF SetPercentage
<1>2. IsResult(r) /\ IsDaemon(r.d) /\ SameSwitches(d, r.d)
  BY SetLevelKeeps
<1>. HIDE DEF r, told, p
<1>3. IsResult(p) /\ p.d = r.d
  BY <1>1, <1>2 DEF IsResult
<1>. QED
  BY <1>2, <1>3 DEF p

LEMMA AutodimSetKeeps ==
  ASSUME NEW d, IsDaemon(d), NEW percent, NEW ok
  PROVE  /\ IsResult(AutodimSet(d, percent, ok))
         /\ IsDaemon(AutodimSet(d, percent, ok).d)
         /\ SameSwitches(d, AutodimSet(d, percent, ok).d)
         /\ AutodimSet(d, percent, ok).err = FALSE
<1>. DEFINE p == Least(percent, d.max)
            new == [d EXCEPT !.set = p]
            r == SetPercentage(new, p, ok)
            a == AutodimSet(d, percent, ok)
<1>1. a = IF p = d.set THEN Result(d, Nothing, FALSE) ELSE [r EXCEPT !.err = FALSE]
  BY DEF AutodimSet
<1>. HIDE DEF p
<1>2. IsDaemon(new) /\ SameSwitches(d, new)
  BY DEF IsDaemon, SameSwitches
<1>. HIDE DEF new
<1>3. IsResult(r) /\ IsDaemon(r.d) /\ SameSwitches(d, r.d)
  <2>1. IsResult(r) /\ IsDaemon(r.d) /\ SameSwitches(new, r.d)
    BY <1>2, SetPercentageKeeps
  <2>. QED
    BY <1>2, <2>1 DEF SameSwitches
<1>. HIDE DEF r, a
<1>4. IsResult(a) /\ a.err = FALSE /\ (a.d = d \/ a.d = r.d)
  BY <1>1, <1>3 DEF IsResult, Result
<1>. QED
  BY <1>3, <1>4 DEF a, SameSwitches

LEMMA SetMaxPercentKeeps ==
  ASSUME NEW d, IsDaemon(d), NEW max_percent, NEW ok
  PROVE  /\ IsDaemon(SetMaxPercent(d, max_percent, ok).d)
         /\ SameSwitches(d, SetMaxPercent(d, max_percent, ok).d)
         /\ SetMaxPercent(d, max_percent, ok).err = FALSE
<1>. DEFINE max == IF max_percent < 0 THEN 100 ELSE Clamp(max_percent, 0, 100)
            new == [d EXCEPT !.max = max]
            a == AutodimSet(new, max, ok)
            r == SetMaxPercent(d, max_percent, ok)
<1>1. r = IF max = d.max THEN Result(d, Nothing, FALSE) ELSE a
  BY DEF SetMaxPercent
<1>. HIDE DEF max
<1>2. IsDaemon(new) /\ SameSwitches(d, new)
  BY DEF IsDaemon, SameSwitches
<1>. HIDE DEF new
<1>3. IsDaemon(a.d) /\ SameSwitches(new, a.d) /\ a.err = FALSE
  BY <1>2, AutodimSetKeeps
<1>. HIDE DEF a, r
<1>4. r.err = FALSE /\ (r.d = d \/ r.d = a.d)
  BY <1>1, <1>3 DEF Result
<1>. QED
  BY <1>2, <1>3, <1>4 DEF r, SameSwitches

LEMMA DisableKeeps ==
  ASSUME NEW d, IsDaemon(d)
  PROVE  LET e == [d EXCEPT !.enabled = FALSE, !.on_ac = FALSE, !.max = 0, !.set = 0]
         IN  IsDaemon(e) /\ e.reporter = d.reporter /\ e.enabled = FALSE
<1>1. ASSUME NEW off, NEW m
      PROVE  LET e == [d EXCEPT !.enabled = off, !.on_ac = off, !.max = m, !.set = m]
             IN  IsDaemon(e) /\ e.reporter = d.reporter /\ e.enabled = off
  BY DEF IsDaemon
<1>. QED
  BY <1>1

LEMMA DisableFollows ==
  ASSUME NEW d, IsDaemon(d), NEW r, r = DisableAutodim(d)
  PROVE  /\ IsDaemon(r.d) /\ r.d.reporter = d.reporter
         /\ r.err = FALSE /\ r.d.enabled = FALSE
<1>. DEFINE new == [d EXCEPT !.enabled = FALSE, !.on_ac = FALSE, !.max = 0, !.set = 0]
<1>1. r.d = new /\ r.err = FALSE
  BY DEF DisableAutodim, Result
<1>2. IsDaemon(new) /\ new.reporter = d.reporter /\ new.enabled = FALSE
  BY DisableKeeps
<1>. QED
  BY <1>1, <1>2

-----------------------------------------------------------------------------
(* The numbers of the daemon, and what an operation tells of them: the new *)
(* state, unless brightness and maximum are as they were.                  *)
Numbers(d) ==
  /\ d.level \in 0..MaxLevel
  /\ d.max \in Percents /\ d.set \in Percents

Tells(d, r) ==
  \/ r.told = <<>> /\ r.d.level = d.level
  \/ r.told = <<State(r.d)>>

LEMMA Clamped ==
  ASSUME NEW x \in Int, NEW lo \in Int, NEW hi \in Int, lo <= hi
  PROVE  /\ Clamp(x, lo, hi) \in lo..hi
         /\ x \in lo..hi => Clamp(x, lo, hi) = x
  BY DEF Clamp

LEMMA DivRoundInt ==
  ASSUME NEW x \in Int, NEW d \in Nat \ {0}
  PROVE  DivRound(x, d) \in Int
  BY DEF DivRound

LEMMA LevelsInt ==
  /\ MaxLevel \in Nat \ {0}
  /\ \A percent \in Int : ToLevel(percent) \in Int
  /\ \A level \in Int : ToPercent(level) \in Percents
<1>1. MaxLevel \in Nat \ {0}
  BY TrayAssumption
<1>2. ASSUME NEW percent \in Int PROVE ToLevel(percent) \in Int
  <2>1. MaxLevel * percent \in Int
    BY <1>1
  <2>. QED
    BY <2>1, DivRoundInt DEF ToLevel
<1>3. ASSUME NEW level \in Int PROVE ToPercent(level) \in Percents
  <2>1. DivRound(level * 100, MaxLevel) \in Int
    BY <1>1, DivRoundInt
  <2>. QED
    BY <2>1 DEF ToPercent, Percents, Clamp
<1>. QED
  BY <1>1, <1>2, <1>3

LEMMA SetLevelCounts ==
  ASSUME NEW d, IsDaemon(d), Numbers(d), NEW value \in Int, NEW ok, NEW r,
         r = SetLevel(d, value, ok)
  PROVE  /\ Numbers(r.d) /\ r.d.max = d.max /\ r.d.set = d.set
         /\ Tells(d, r)
<1>. DEFINE level == Clamp(value, 0, MaxLevel)
            new   == [d EXCEPT !.level = level]
            told  == <<State(new)>>
<1>1. level \in 0..MaxLevel
  BY LevelsInt DEF Clamp
<1>2. r = IF level = d.level THEN Result(d, Nothing, FALSE)
          ELSE IF ok THEN Result(new, told, FALSE) ELSE Result(d, Nothing, TRUE)
  BY DEF SetLevel
<1>3. Numbers(new) /\ new.max = d.max /\ new.set = d.set /\ new.level = level
  <2>. HIDE DEF level
  <2>. QED
    BY <1>1 DEF IsDaemon, Numbers
<1>. HIDE DEF new
<1>4. told # <<>>
  OBVIOUS
<1>5. \/ r.d = d /\ r.told = <<>> /\ r.err = FALSE /\ level = d.level
      \/ r.d = new /\ r.told = told /\ r.err = FALSE
      \/ r.d = d /\ r.told = <<>> /\ r.err = TRUE
  BY <1>2 DEF Result, Nothing
<1>. QED
  BY <1>3, <1>4, <1>5 DEF Tells

LEMMA SetPercentageCounts ==
  ASSUME NEW d, IsDaemon(d), Numbers(d), NEW percent \in Int, NEW ok, NEW r,
         r = SetPercentage(d, percent, ok)
  PROVE  /\ Numbers(r.d) /\ r.d.max = d.max /\ r.d.set = d.set
         /\ Tells(d, r)
<1>. DEFINE l == SetLevel(d, ToLevel(percent), ok)
            told == <<State(l.d)>>
<1>1. r = IF l.err THEN l ELSE [l EXCEPT !.told = told]
  BY DEF SetPercentage
<1>2. IsResult(l)
  BY SetLevelKeeps
<1>3. Numbers(l.d) /\ l.d.max = d.max /\ l.d.set = d.set /\ Tells(d, l)
  <2>1. ToLevel(percent) \in Int
    BY LevelsInt
  <2>. QED
    BY <2>1, SetLevelCounts
<1>4. told = <<State(l.d)>>
  OBVIOUS
<1>. HIDE DEF l, told
<1>5. r.d = l.d /\ (r = l \/ r.told = told)
  BY <1>1, <1>2 DEF IsResult
<1>. QED
  BY <1>3, <1>4, <1>5 DEF Tells

LEMMA AutodimSetCounts ==
  ASSUME NEW d, IsDaemon(d), Numbers(d), NEW percent \in Percents, NEW ok, NEW r,
         r = AutodimSet(d, percent, ok)
  PROVE  /\ Numbers(r.d) /\ Tells(d, r)
         /\ r.d.max = d.max /\ r.d.set = Least(percent, d.max)
<1>. DEFINE p == Least(percent, d.max)
            new == [d EXCEPT !.set = p]
            s == SetPercentage(new, p, ok)
<1>1. r = IF p = d.set THEN Result(d, Nothing, FALSE) ELSE [s EXCEPT !.err = FALSE]
  BY DEF AutodimSet
<1>2. p \in Percents
  BY DEF Least, Numbers, Percents
<1>. HIDE DEF p
<1>3. /\ IsDaemon(new) /\ Numbers(new)
      /\ new.level = d.level /\ new.max = d.max /\ new.set = p
  BY <1>2 DEF IsDaemon, Numbers
<1>. HIDE DEF new
<1>4. IsResult(s) /\ Numbers(s.d) /\ s.d.max = d.max /\ s.d.set = p /\ Tells(new, s)
  <2>1. p \in Int
    BY <1>2 DEF Percents
  <2>. QED
    BY <1>3, <2>1, SetPercentageKeeps, SetPercentageCounts
<1>. HIDE DEF s
<1>5. \/ r.d = d /\ r.told = <<>> /\ p = d.set
      \/ r.d = s.d /\ r.told = s.told
  BY <1>1, <1>4 DEF Result, Nothing, IsResult
<1>6. Numbers(r.d) /\ r.d.max = d.max /\ r.d.set = p
  BY <1>4, <1>5
<1>. QED
  BY <1>3, <1>4, <1>5, <1>6 DEF Tells, p

(* The maximum that is asked for.                                          *)
Maximum(percent) == IF percent < 0 THEN 100 ELSE Clamp(percent, 0, 100)

LEMMA SetMaxPercentCounts ==
  ASSUME NEW d, IsDaemon(d), Numbers(d), d.set <= d.max,
         NEW percent \in Int, NEW ok, NEW r, r = SetMaxPercent(d, percent, ok)
  PROVE  /\ Numbers(r.d) /\ r.d.set <= r.d.max /\ Tells(d, r)
         /\ r.d.max = Maximum(percent)
<1>. DEFINE max == Maximum(percent)
            new == [d EXCEPT !.max = max]
            a == AutodimSet(new, max, ok)
<1>1. r = IF max = d.max THEN Result(d, Nothing, FALSE) ELSE a
  BY DEF SetMaxPercent, Maximum
<1>2. max \in Percents
  BY DEF Clamp, Maximum, Percents
<1>. HIDE DEF max
<1>3. IsDaemon(new) /\ Numbers(new) /\ new.level = d.level /\ new.max = max
  BY <1>2 DEF IsDaemon, Numbers
<1>. HIDE DEF new
<1>4. Numbers(a.d) /\ a.d.max = max /\ a.d.set = max /\ Tells(new, a)
  <2>1. Least(max, max) = max
    BY DEF Least
  <2>. QED
    BY <1>2, <1>3, <2>1, AutodimSetCounts
<1>. HIDE DEF a
<1>5. \/ r.d = d /\ r.told = <<>> /\ max = d.max
      \/ r.d = a.d /\ r.told = a.told
  BY <1>1 DEF Result, Nothing
<1>6. Numbers(r.d) /\ r.d.set <= r.d.max /\ r.d.max = max
  BY <1>2, <1>4, <1>5 DEF Percents
<1>. QED
  BY <1>3, <1>4, <1>5, <1>6 DEF Tells, max

-----------------------------------------------------------------------------
(* A window in which only the slider, pc and ac_usable may differ.         *)
SameBoxes(v, w) == w.auto = v.auto /\ w.auto_ac = v.auto_ac

(* One tray changes, the others stay.                                      *)
OnlyTray(t, w) ==
  /\ tray' = [u \in Trays |-> tray'[u]]
  /\ tray'[t] = w
  /\ \A u \in Trays \ {t} : tray'[u] = tray[u]

LEMMA TrayChanges ==
  ASSUME tray = [t \in Trays |-> tray[t]], NEW t \in Trays, NEW w,
         tray' = [tray EXCEPT ![t] = w]
  PROVE  OnlyTray(t, w)
  BY DEF OnlyTray

LEMMA SliderChanges ==
  ASSUME NEW w, IsWindow(w), NEW s
  PROVE  /\ IsWindow([w EXCEPT !.slider = s])
         /\ [w EXCEPT !.slider = s].pc = w.pc
         /\ SameBoxes(w, [w EXCEPT !.slider = s])
  BY DEF IsWindow, SameBoxes

LEMMA RequestChanges ==
  ASSUME RInv, NEW t \in Trays, NEW r, NEW window, IsWindow(window),
         Request(t, r, window)
  PROVE  /\ daemon' = r.d
         /\ \E w : OnlyTray(t, w) /\ IsWindow(w) /\ w.pc = window.pc /\ SameBoxes(window, w)
<1>. DEFINE s == ShownAfter(window.slider, inbox[t] \o r.told)
            w == [window EXCEPT !.slider = s]
<1>1. daemon' = r.d /\ tray' = [tray EXCEPT ![t] = w]
  BY DEF Request
<1>. HIDE DEF s
<1>2. IsWindow(w) /\ w.pc = window.pc /\ SameBoxes(window, w)
  BY SliderChanges
<1>. HIDE DEF w
<1>3. OnlyTray(t, w)
  BY <1>1, TrayChanges DEF RInv
<1>. QED
  BY <1>1, <1>2, <1>3

(* What does not touch windows or requests.                                *)
LEMMA SwitchesStay ==
  ASSUME RInv, IsDaemon(daemon'), SameSwitches(daemon, daemon'),
         UNCHANGED <<tray, overruled>>
  PROVE  RInv'
  BY DEF RInv, SameSwitches, Listening, Windows, BoxesInForce

(* A change of one tray that leaves its boxes and the daemon alone.        *)
LEMMA BoxesStay ==
  ASSUME RInv, NEW t \in Trays, NEW w, OnlyTray(t, w), IsWindow(w),
         SameBoxes(tray[t], w), IsDaemon(daemon'), SameSwitches(daemon, daemon'),
         t \in Listening' => t \in Listening, t \in Windows' => t \in Windows,
         UNCHANGED overruled
  PROVE  RInv'
<1>1. IsDaemon(daemon') /\ daemon'.enabled \in BOOLEAN
  BY DEF RInv, SameSwitches
<1>2. \A u \in Trays : IsWindow(tray'[u]) /\ tray'[u].auto \in BOOLEAN
  BY DEF RInv, OnlyTray, SameBoxes
<1>3. ASSUME NEW u \in Listening', <<u, "reporter">> \notin overruled'
      PROVE  daemon'.reporter = TRUE
  <2>1. u \in Listening
    BY <1>3 DEF OnlyTray, Listening
  <2>. QED
    BY <1>3, <2>1 DEF RInv, SameSwitches
<1>4. ASSUME NEW u \in Windows' PROVE BoxesInForce(u)'
  <2>1. u \in Windows
    BY <1>4 DEF OnlyTray, Windows
  <2>2. BoxesInForce(u) /\ u \in Trays
    BY <2>1 DEF RInv, Windows
  <2>3. tray'[u].auto = tray[u].auto /\ tray'[u].auto_ac = tray[u].auto_ac
    BY <2>2 DEF OnlyTray, SameBoxes
  <2>. QED
    BY <2>2, <2>3 DEF BoxesInForce, SameSwitches
<1>. QED
  BY <1>1, <1>2, <1>3, <1>4 DEF RInv, OnlyTray

-----------------------------------------------------------------------------
(* A request of auto-dimming: it is in force, or refused and auto-dimming  *)
(* stays off; the boxes of the others are overruled.                       *)
LEMMA RequestForces ==
  ASSUME RInv, NEW t \in Trays, tray[t].pc = "ready",
         NEW window, IsWindow(window), window.auto \in BOOLEAN,
         window.pc \in {"ready", "refetch"}, NEW percent, NEW ok, NEW r,
         r = Autodim(window.auto, window.auto_ac, percent, ok),
         Request(t, r, window), Overrules(t, r)
  PROVE  RInv'
<1>1. IsDaemon(daemon) /\ daemon.enabled \in BOOLEAN
  BY DEF RInv
<1>2. /\ window.auto => r = EnableAutodim(daemon, percent, window.auto_ac, ok)
      /\ ~window.auto => r = DisableAutodim(daemon)
  BY DEF Autodim
<1>3. /\ IsDaemon(r.d) /\ r.d.reporter = daemon.reporter /\ r.err \in BOOLEAN
      /\ r.err => daemon.enabled = FALSE /\ r.d.enabled = FALSE
      /\ ~r.err => r.d.enabled = window.auto /\ (window.auto => r.d.on_ac = window.auto_ac)
  <2>1. CASE window.auto
    <3>. DEFINE d == daemon
                on_ac == window.auto_ac
                p == ToPercent(d.level)
                refused == [d EXCEPT !.on_ac = on_ac]
                new == IF d.enabled THEN [d EXCEPT !.on_ac = on_ac]
                       ELSE [d EXCEPT !.on_ac = on_ac, !.enabled = TRUE,
                                      !.max = p, !.set = p]
    <3>1. r = IF ~d.enabled /\ ~usable THEN Result(refused, Nothing, TRUE)
              ELSE SetMaxPercent(new, percent, ok)
      BY <1>2, <2>1 DEF EnableAutodim
    <3>2. IsDaemon(d) /\ d.enabled \in BOOLEAN
      BY <1>1
    <3>. HIDE DEF p, d, on_ac
    <3>3. CASE ~d.enabled /\ ~usable
      <4>1. r.d = refused /\ r.err = TRUE
        BY <3>1, <3>3 DEF Result
      <4>2. IsDaemon(refused) /\ refused.reporter = d.reporter /\ refused.enabled = FALSE
        BY <3>2, <3>3 DEF IsDaemon
      <4>. QED
        BY <3>2, <3>3, <4>1, <4>2 DEF d
    <3>4. CASE ~(~d.enabled /\ ~usable)
      <4>1. r = SetMaxPercent(new, percent, ok)
        BY <3>1, <3>4
      <4>2. /\ IsDaemon(r.d) /\ r.d.reporter = d.reporter
            /\ r.err = FALSE /\ r.d.enabled = TRUE /\ r.d.on_ac = on_ac
        <5>1. /\ IsDaemon(new) /\ new.reporter = d.reporter
              /\ new.enabled = TRUE /\ new.on_ac = on_ac
          BY <3>2 DEF IsDaemon
        <5>. HIDE DEF new
        <5>2. IsDaemon(r.d) /\ SameSwitches(new, r.d) /\ r.err = FALSE
          BY <4>1, <5>1, SetMaxPercentKeeps
        <5>. QED
          BY <5>1, <5>2 DEF SameSwitches
      <4>. QED
        BY <2>1, <4>2 DEF d, on_ac
    <3>. QED
      BY <3>3, <3>4
  <2>2. CASE ~window.auto
    BY <1>1, <1>2, <2>2, DisableFollows
  <2>. QED
    BY <2>1, <2>2
<1>4. PICK w : /\ daemon' = r.d /\ OnlyTray(t, w) /\ IsWindow(w)
               /\ w.pc = window.pc /\ SameBoxes(window, w)
  BY RequestChanges
<1>5. /\ tray' = [u \in Trays |-> tray'[u]] /\ tray'[t] = w
      /\ \A u \in Trays \ {t} : tray'[u] = tray[u]
      /\ w.auto = window.auto /\ w.auto_ac = window.auto_ac
      /\ w.pc \in {"ready", "refetch"}
  BY <1>4 DEF OnlyTray, SameBoxes
<1>6. IsDaemon(daemon') /\ daemon'.enabled \in BOOLEAN
  BY <1>3, <1>4
<1>7. ASSUME NEW u \in Trays PROVE IsWindow(tray'[u]) /\ tray'[u].auto \in BOOLEAN
  BY <1>4, <1>5 DEF RInv
<1>8. Listening' = Listening /\ Windows' = Windows
  <2>1. tray[t].pc = "ready" /\ tray'[t].pc \in {"ready", "refetch"}
    BY <1>5
  <2>2. \A u \in Trays \ {t} : tray'[u].pc = tray[u].pc
    BY <1>5
  <2>. QED
    BY <2>1, <2>2 DEF Listening, Windows
<1>9. ASSUME NEW u \in Listening', <<u, "reporter">> \notin overruled'
      PROVE  daemon'.reporter = TRUE
  <2>1. <<u, "reporter">> \notin overruled
    BY <1>9 DEF Overrules
  <2>. QED
    BY <1>3, <1>4, <1>8, <1>9, <2>1 DEF RInv
<1>10. ASSUME NEW u \in Windows' PROVE BoxesInForce(u)'
  <2>1. u \in Windows /\ u \in Trays
    BY <1>8, <1>10 DEF Windows
  <2>2. CASE r.err
    <3>1. CASE u = t
      BY <2>2, <3>1 DEF Overrules, BoxesInForce
    <3>2. CASE u # t
      <4>1. BoxesInForce(u) /\ daemon'.enabled = daemon.enabled /\ tray'[u] = tray[u]
            /\ daemon'.enabled = FALSE
        BY <1>3, <1>4, <1>5, <2>1, <2>2, <3>2 DEF RInv
      <4>2. overruled \subseteq overruled'
        BY <2>2 DEF Overrules
      <4>. QED
        BY <4>1, <4>2 DEF BoxesInForce
    <3>. QED
      BY <3>1, <3>2
  <2>3. CASE ~r.err
    <3>1. CASE u = t
      BY <1>3, <1>4, <1>5, <2>3, <3>1 DEF BoxesInForce
    <3>2. CASE u # t
      <4>1. <<u, "boxes">> \in overruled'
        BY <2>1, <2>3, <3>2 DEF Overrules
      <4>. QED
        BY <4>1 DEF BoxesInForce
    <3>. QED
      BY <3>1, <3>2
  <2>. QED
    BY <1>3, <2>2, <2>3
<1>. QED
  BY <1>5, <1>6, <1>7, <1>9, <1>10 DEF RInv

LEMMA MoveSliderKeeps ==
  ASSUME RInv, NEW t \in Trays, NEW value, MoveSlider(t, value)
  PROVE  RInv'
<1>. DEFINE window == [tray[t] EXCEPT !.slider.value = value]
            s == [tray[t].slider EXCEPT !.value = value]
<1>1. tray[t].pc = "ready" /\ IsWindow(tray[t]) /\ tray[t].auto \in BOOLEAN
  BY DEF MoveSlider, RInv
<1>2. window = [tray[t] EXCEPT !.slider = s]
  OBVIOUS
<1>3. PICK ok \in Oks :
        IF tray[t].auto
          THEN LET r == Autodim(TRUE, tray[t].auto_ac, value, ok)
               IN  Request(t, r, window) /\ Overrules(t, r)
          ELSE LET r == SetLevel(daemon, value, ok)
               IN  Request(t, r, window) /\ UNCHANGED overruled
  BY Zenon DEF MoveSlider
<1>. HIDE DEF s, window
<1>4. IsWindow(window) /\ window.pc = "ready" /\ SameBoxes(tray[t], window)
  BY <1>1, <1>2, SliderChanges
<1>5. CASE tray[t].auto
  <2>. DEFINE r == Autodim(TRUE, tray[t].auto_ac, value, ok)
  <2>1. Request(t, r, window) /\ Overrules(t, r)
    BY <1>3, <1>5
  <2>2. window.auto = TRUE /\ window.auto_ac = tray[t].auto_ac
    BY <1>1, <1>4, <1>5 DEF SameBoxes
  <2>3. r = Autodim(window.auto, window.auto_ac, value, ok)
    BY <2>2
  <2>. HIDE DEF r
  <2>. QED
    BY <1>1, <1>4, <2>1, <2>2, <2>3, RequestForces
<1>6. CASE ~tray[t].auto
  <2>. DEFINE r == SetLevel(daemon, value, ok)
  <2>1. Request(t, r, window) /\ UNCHANGED overruled
    BY <1>3, <1>6
  <2>2. IsDaemon(r.d) /\ SameSwitches(daemon, r.d)
    BY SetLevelKeeps DEF RInv
  <2>. HIDE DEF r
  <2>3. PICK w : /\ daemon' = r.d /\ OnlyTray(t, w) /\ IsWindow(w)
                 /\ w.pc = window.pc /\ SameBoxes(window, w)
    BY <1>4, <2>1, RequestChanges
  <2>4. t \in Listening /\ t \in Windows
    BY <1>1 DEF Listening, Windows
  <2>5. SameBoxes(tray[t], w)
    BY <1>4, <2>3 DEF SameBoxes
  <2>. QED
    BY <2>1, <2>2, <2>3, <2>4, <2>5, BoxesStay
<1>. QED
  BY <1>5, <1>6

LEMMA AutoAdjKeeps ==
  ASSUME RInv, NEW t \in Trays, NEW window, IsWindow(window),
         window.auto \in BOOLEAN, AutoAdjChanged(t, window)
  PROVE  RInv'
<1>. DEFINE w == [window EXCEPT !.pc = "refetch", !.ac_usable = window.auto]
            percent == ScaledValue(window.slider)
<1>1. IsWindow(w) /\ w.pc = "refetch" /\ SameBoxes(window, w)
  BY DEF IsWindow, SameBoxes
<1>2. PICK ok \in Oks :
        LET r == Autodim(window.auto, window.auto_ac, percent, ok)
        IN  Request(t, r, w) /\ Overrules(t, r)
  BY Zenon DEF AutoAdjChanged
<1>3. tray[t].pc = "ready"
  BY DEF AutoAdjChanged
<1>. DEFINE r == Autodim(window.auto, window.auto_ac, percent, ok)
<1>. HIDE DEF w, percent
<1>4. r = Autodim(w.auto, w.auto_ac, percent, ok) /\ w.auto \in BOOLEAN
  BY <1>1 DEF SameBoxes
<1>5. Request(t, r, w) /\ Overrules(t, r)
  BY <1>2
<1>. HIDE DEF r
<1>. QED
  BY <1>1, <1>3, <1>4, <1>5, RequestForces

LEMMA ConnectKeeps ==
  ASSUME RInv, NEW t \in Trays, Connect(t)
  PROVE  RInv'
<1>. DEFINE w == [tray[t] EXCEPT !.pc = "connected"]
<1>1. /\ tray[t].pc = "off" /\ tray' = [tray EXCEPT ![t] = w] /\ overruled' = overruled
      /\ daemon' = [daemon EXCEPT !.reporter = TRUE]
  BY DEF Connect
<1>2. IsWindow(tray[t]) /\ tray[t].auto \in BOOLEAN
  BY DEF RInv
<1>3. IsWindow(w) /\ w.pc = "connected" /\ SameBoxes(tray[t], w)
  BY <1>2 DEF IsWindow, SameBoxes
<1>. HIDE DEF w
<1>4. OnlyTray(t, w)
  BY <1>1, TrayChanges DEF RInv
<1>5. IsDaemon(daemon) /\ daemon.enabled \in BOOLEAN
  BY DEF RInv
<1>6. /\ IsDaemon(daemon') /\ daemon'.reporter = TRUE
      /\ daemon'.enabled = daemon.enabled /\ daemon'.on_ac = daemon.on_ac
  BY <1>1, <1>5 DEF IsDaemon
<1>7. \A u \in Trays : IsWindow(tray'[u]) /\ tray'[u].auto \in BOOLEAN
  BY <1>2, <1>3, <1>4 DEF RInv, OnlyTray, SameBoxes
<1>8. ASSUME NEW u \in Windows' PROVE BoxesInForce(u)'
  <2>1. u \in Windows /\ u \in Trays /\ tray'[u] = tray[u]
    BY <1>3, <1>4, <1>8 DEF OnlyTray, Windows
  <2>2. BoxesInForce(u)
    BY <2>1 DEF RInv
  <2>. QED
    BY <1>1, <1>6, <2>1, <2>2 DEF BoxesInForce
<1>9. tray' = [u \in Trays |-> tray'[u]]
  BY <1>4 DEF OnlyTray
<1>. QED
  BY <1>5, <1>6, <1>7, <1>8, <1>9 DEF RInv

(* A reply without a request of auto-dimming.                              *)
LEMMA FetchSliderKeeps ==
  ASSUME RInv, NEW t \in Trays, FetchSlider(t) \/ Refetch(t)
  PROVE  RInv'
<1>. DEFINE s == SliderShows(tray[t].slider, State(daemon))
<1>1. IsWindow(tray[t])
  BY DEF RInv
<1>2. PICK pc \in {"fetched", "ready"} :
        /\ tray' = [tray EXCEPT ![t] = [tray[t] EXCEPT !.pc = pc, !.slider = s]]
        /\ tray[t].pc \in {"connected", "refetch"}
        /\ pc = "ready" => tray[t].pc = "refetch"
        /\ daemon' = daemon /\ overruled' = overruled
  BY DEF FetchSlider, Refetch, Fetch
<1>. HIDE DEF s
<1>. DEFINE w == [tray[t] EXCEPT !.pc = pc, !.slider = s]
<1>3. IsWindow(w) /\ w.pc = pc /\ SameBoxes(tray[t], w)
  BY <1>1 DEF IsWindow, SameBoxes
<1>. HIDE DEF w
<1>4. OnlyTray(t, w)
  BY <1>2, TrayChanges DEF RInv, w
<1>5. t \in Listening /\ (t \in Windows' => t \in Windows)
  BY <1>2, <1>3, <1>4 DEF Listening, Windows, OnlyTray
<1>6. IsDaemon(daemon') /\ SameSwitches(daemon, daemon')
  BY <1>2 DEF RInv, SameSwitches
<1>. QED
  BY <1>2, <1>3, <1>4, <1>5, <1>6, BoxesStay

LEMMA ReadNotificationKeeps ==
  ASSUME RInv, NEW t \in Trays, ReadNotification(t)
  PROVE  RInv'
<1>. DEFINE s == SliderShows(tray[t].slider, Head(inbox[t]))
            w == [tray[t] EXCEPT !.slider = s]
<1>1. /\ tray' = [tray EXCEPT ![t] = w] /\ tray[t].pc = "ready"
      /\ daemon' = daemon /\ overruled' = overruled
  BY DEF ReadNotification
<1>. HIDE DEF s
<1>2. IsWindow(w) /\ SameBoxes(tray[t], w)
  BY SliderChanges DEF RInv
<1>. HIDE DEF w
<1>3. OnlyTray(t, w)
  BY <1>1, TrayChanges DEF RInv
<1>4. t \in Listening /\ t \in Windows
  BY <1>1 DEF Listening, Windows
<1>5. IsDaemon(daemon') /\ SameSwitches(daemon, daemon')
  BY <1>1 DEF RInv, SameSwitches
<1>. QED
  BY <1>1, <1>2, <1>3, <1>4, <1>5, BoxesStay

LEMMA KilledKeeps ==
  ASSUME RInv, NEW t \in Trays, Killed(t)
  PROVE  RInv'
<1>. DEFINE w == [tray[t] EXCEPT !.pc = "gone"]
<1>1. /\ tray' = [tray EXCEPT ![t] = w] /\ daemon' = daemon /\ overruled' = overruled
  BY DEF Killed
<1>2. IsWindow(tray[t])
  BY DEF RInv
<1>3. IsWindow(w) /\ w.pc = "gone" /\ SameBoxes(tray[t], w)
  BY <1>2 DEF IsWindow, SameBoxes
<1>. HIDE DEF w
<1>4. OnlyTray(t, w)
  BY <1>1, TrayChanges DEF RInv
<1>5. t \notin Listening' /\ t \notin Windows'
  BY <1>3, <1>4 DEF Listening, Windows, OnlyTray
<1>6. IsDaemon(daemon') /\ SameSwitches(daemon, daemon')
  BY <1>1 DEF RInv, SameSwitches
<1>. QED
  BY <1>1, <1>3, <1>4, <1>5, <1>6, BoxesStay

(* The event reporter is off: the others are overruled.                    *)
LEMMA QuitKeeps ==
  ASSUME RInv, NEW t \in Trays, Quit(t)
  PROVE  RInv'
<1>. DEFINE w == [tray[t] EXCEPT !.pc = "gone"]
<1>1. /\ tray' = [tray EXCEPT ![t] = w]
      /\ daemon' = [daemon EXCEPT !.reporter = FALSE]
      /\ overruled' = overruled \cup {<<u, "reporter">> : u \in Listening \ {t}}
  BY DEF Quit
<1>2. IsWindow(tray[t]) /\ tray[t].auto \in BOOLEAN
  BY DEF RInv
<1>3. IsWindow(w) /\ w.pc = "gone" /\ SameBoxes(tray[t], w)
  BY <1>2 DEF IsWindow, SameBoxes
<1>. HIDE DEF w
<1>4. OnlyTray(t, w)
  BY <1>1, TrayChanges DEF RInv
<1>5. IsDaemon(daemon) /\ daemon.enabled \in BOOLEAN
  BY DEF RInv
<1>6. /\ IsDaemon(daemon') /\ daemon'.enabled = daemon.enabled
      /\ daemon'.on_ac = daemon.on_ac
  BY <1>1, <1>5 DEF IsDaemon
<1>7. \A u \in Trays : IsWindow(tray'[u]) /\ tray'[u].auto \in BOOLEAN
  BY <1>2, <1>3, <1>4 DEF RInv, OnlyTray, SameBoxes
<1>8. ASSUME NEW u \in Listening' PROVE <<u, "reporter">> \in overruled'
  <2>1. u \in Listening \ {t}
    BY <1>3, <1>4, <1>8 DEF OnlyTray, Listening
  <2>. QED
    BY <1>1, <2>1
<1>9. ASSUME NEW u \in Windows' PROVE BoxesInForce(u)'
  <2>1. u \in Windows /\ u \in Trays /\ tray'[u] = tray[u]
    BY <1>3, <1>4, <1>9 DEF OnlyTray, Windows
  <2>2. BoxesInForce(u) /\ overruled \subseteq overruled'
    BY <1>1, <2>1 DEF RInv
  <2>. QED
    BY <1>6, <2>1, <2>2 DEF BoxesInForce
<1>10. tray' = [u \in Trays |-> tray'[u]]
  BY <1>4 DEF OnlyTray
<1>. QED
  BY <1>5, <1>6, <1>7, <1>8, <1>9, <1>10 DEF RInv

(* The boxes show what the daemon does.                                    *)
LEMMA FetchBoxesKeeps ==
  ASSUME RInv, NEW t \in Trays, FetchBoxes(t)
  PROVE  RInv'
<1>. DEFINE old == tray[t]
            s == [old.slider EXCEPT !.value =
                    Clamp(State(daemon).brightness, old.slider.min, old.slider.max)]
            w == [old EXCEPT !.pc = "ready", !.auto = State(daemon).autodim,
                             !.auto_ac = State(daemon).autodim_ac, !.slider = s]
            v == [old EXCEPT !.pc = "ready", !.auto = State(daemon).autodim,
                             !.auto_ac = State(daemon).autodim_ac,
                             !.slider.value = Clamp(State(daemon).brightness,
                                                    old.slider.min, old.slider.max)]
<1>1. IsWindow(old) /\ daemon.enabled \in BOOLEAN /\ IsDaemon(daemon)
  BY DEF RInv
<1>2. /\ tray' = [tray EXCEPT ![t] = v] /\ tray[t].pc = "fetched"
      /\ daemon' = daemon /\ overruled' = overruled
  BY DEF FetchBoxes, Fetch
<1>3. v = w
  BY <1>1 DEF IsWindow
<1>4. State(daemon).autodim = daemon.enabled /\ State(daemon).autodim_ac = daemon.on_ac
  BY DEF State
<1>. HIDE DEF s, v
<1>5. IsWindow(w) /\ w.pc = "ready" /\ w.auto = daemon.enabled /\ w.auto_ac = daemon.on_ac
  BY <1>1, <1>4 DEF IsWindow
<1>. HIDE DEF w
<1>6. OnlyTray(t, w)
  BY <1>2, <1>3, TrayChanges DEF RInv
<1>7. ASSUME NEW u \in Trays PROVE IsWindow(tray'[u]) /\ tray'[u].auto \in BOOLEAN
  BY <1>1, <1>5, <1>6 DEF RInv, OnlyTray
<1>8. Listening' = Listening
  BY <1>2, <1>5, <1>6 DEF Listening, OnlyTray
<1>9. ASSUME NEW u \in Windows' PROVE BoxesInForce(u)'
  <2>1. CASE u = t
    BY <1>2, <1>5, <1>6, <2>1 DEF BoxesInForce, OnlyTray
  <2>2. CASE u # t
    <3>1. u \in Windows /\ tray'[u] = tray[u]
      BY <1>6, <1>9, <2>2 DEF OnlyTray, Windows
    <3>2. BoxesInForce(u)
      BY <3>1 DEF RInv
    <3>. QED
      BY <1>2, <3>1, <3>2 DEF BoxesInForce
  <2>. QED
    BY <2>1, <2>2
<1>10. tray' = [u \in Trays |-> tray'[u]]
  BY <1>6 DEF OnlyTray
<1>. QED
  BY <1>1, <1>2, <1>7, <1>8, <1>9, <1>10 DEF RInv

LEMMA TogglesKeep ==
  ASSUME RInv, NEW t \in Trays, ToggleAuto(t) \/ ToggleAutoAC(t)
  PROVE  RInv'
<1>1. IsWindow(tray[t]) /\ tray[t].auto \in BOOLEAN
  BY DEF RInv
<1>2. CASE ToggleAuto(t)
  <2>. DEFINE window == [tray[t] EXCEPT !.auto = ~tray[t].auto]
  <2>1. AutoAdjChanged(t, window)
    BY <1>2 DEF ToggleAuto
  <2>2. IsWindow(window) /\ window.auto \in BOOLEAN
    BY <1>1 DEF IsWindow
  <2>. HIDE DEF window
  <2>. QED
    BY <2>1, <2>2, AutoAdjKeeps
<1>3. CASE ToggleAutoAC(t)
  <2>. DEFINE window == [tray[t] EXCEPT !.auto_ac = ~tray[t].auto_ac]
  <2>1. AutoAdjChanged(t, window)
    BY <1>3 DEF ToggleAutoAC
  <2>2. IsWindow(window) /\ window.auto \in BOOLEAN
    BY <1>1 DEF IsWindow
  <2>. HIDE DEF window
  <2>. QED
    BY <2>1, <2>2, AutoAdjKeeps
<1>. QED
  BY <1>2, <1>3

LEMMA EventKeeps ==
  ASSUME RInv, Dim \/ Input
  PROVE  RInv'
<1>1. PICK percent : \E ok \in Oks : Event(AutodimSet(daemon, percent, ok))
  BY DEF Dim, Input
<1>2. PICK ok \in Oks : Event(AutodimSet(daemon, percent, ok))
  BY <1>1
<1>. DEFINE r == AutodimSet(daemon, percent, ok)
<1>3. IsDaemon(daemon)
  BY DEF RInv
<1>4. IsDaemon(r.d) /\ SameSwitches(daemon, r.d)
  BY <1>3, AutodimSetKeeps
<1>. HIDE DEF r
<1>5. daemon' = r.d /\ UNCHANGED <<tray, overruled>>
  BY <1>2 DEF Event, r
<1>. QED
  BY <1>4, <1>5, SwitchesStay

-----------------------------------------------------------------------------
LEMMA RequestsInitial == Init => RInv
<1>. SUFFICES ASSUME Init PROVE RInv
  OBVIOUS
<1>1. IsDaemon(Fresh) /\ Fresh.enabled = FALSE
  BY DEF Fresh, IsDaemon
<1>2. IsDaemon(daemon) /\ daemon.enabled \in BOOLEAN
  <2>1. CASE daemon = Fresh
    BY <1>1, <2>1
  <2>2. CASE \E on_ac \in BOOLEAN : daemon = EnableAutodim(Fresh, 100, on_ac, TRUE).d
    <3>1. PICK on_ac \in BOOLEAN : daemon = EnableAutodim(Fresh, 100, on_ac, TRUE).d
      BY <2>2
    <3>. DEFINE p == ToPercent(Fresh.level)
                d == Fresh
                new == [d EXCEPT !.on_ac = on_ac]
                started == [d EXCEPT !.on_ac = on_ac, !.enabled = TRUE,
                                     !.max = p, !.set = p]
                a == SetMaxPercent(started, 100, TRUE)
    <3>2. daemon = new \/ daemon = a.d
      BY <1>1, <3>1 DEF EnableAutodim, Result
    <3>. HIDE DEF p, d
    <3>3. IsDaemon(d) /\ d.enabled = FALSE
      BY <1>1 DEF d
    <3>4. IsDaemon(new) /\ new.enabled = FALSE
      BY <3>3 DEF IsDaemon
    <3>5. IsDaemon(started) /\ started.enabled = TRUE
      BY <3>3 DEF IsDaemon
    <3>. HIDE DEF new, started
    <3>6. IsDaemon(a.d) /\ a.d.enabled = TRUE
      BY <3>5, SetMaxPercentKeeps DEF SameSwitches
    <3>. QED
      BY <3>2, <3>4, <3>6
  <2>. QED
    BY <2>1, <2>2 DEF Init
<1>. DEFINE slider == [min |-> 0, max |-> 99, value |-> 0]
            w == [pc |-> "off", auto |-> FALSE, auto_ac |-> FALSE,
                  ac_usable |-> TRUE, slider |-> slider]
<1>3. tray = [t \in Trays |-> w]
  BY DEF Init
<1>. HIDE DEF slider
<1>4. IsWindow(w) /\ w.auto \in BOOLEAN /\ w.pc = "off"
  BY DEF IsWindow
<1>. HIDE DEF w
<1>. QED
  BY <1>2, <1>3, <1>4 DEF RInv, Listening, Windows

LEMMA RequestsNext == RInv /\ [Next]_vars => RInv'
<1>. SUFFICES ASSUME RInv, [Next]_vars PROVE RInv'
  OBVIOUS
<1>1. CASE Dim \/ Input
  BY <1>1, EventKeeps
<1>2. ASSUME NEW t \in Trays, FetchSlider(t) \/ Refetch(t) PROVE RInv'
  BY <1>2, FetchSliderKeeps
<1>3. ASSUME NEW t \in Trays, FetchBoxes(t) PROVE RInv'
  BY <1>3, FetchBoxesKeeps
<1>4. ASSUME NEW t \in Trays, ReadNotification(t) PROVE RInv'
  BY <1>4, ReadNotificationKeeps
<1>5. ASSUME NEW t \in Trays, Connect(t) PROVE RInv'
  BY <1>5, ConnectKeeps
<1>6. ASSUME NEW t \in Trays, ToggleAuto(t) \/ ToggleAutoAC(t) PROVE RInv'
  BY <1>6, TogglesKeep
<1>7. ASSUME NEW t \in Trays, Quit(t) PROVE RInv'
  BY <1>7, QuitKeeps
<1>8. ASSUME NEW t \in Trays, Killed(t) PROVE RInv'
  BY <1>8, KilledKeeps
<1>9. ASSUME NEW t \in Trays,
             NEW value \in Positions(tray[t].slider), MoveSlider(t, value)
      PROVE  RInv'
  BY <1>9, MoveSliderKeeps
<1>10. CASE UNCHANGED vars
  <2>1. UNCHANGED <<tray, daemon, overruled>>
    BY <1>10 DEF vars
  <2>. QED
    BY <2>1, SwitchesStay DEF RInv, SameSwitches
<1>. QED
  BY <1>1, <1>2, <1>3, <1>4, <1>5, <1>6, <1>7, <1>8, <1>9, <1>10 DEF Next, UserActs

(***************************************************************************)
(* The invariant: the reporter is on for every connected tray that nobody  *)
(* overruled, and auto-dimming is as the boxes of such a window say.       *)
(***************************************************************************)
THEOREM RequestsInvariant == Spec => []RInv
  BY RequestsInitial, RequestsNext, PTL DEF Spec

(***************************************************************************)
(* What a tray asked for stays in force until another one is heard.        *)
(***************************************************************************)
THEOREM RequestsAreInForce == Spec => []RequestsInForce
<1>1. RInv => RequestsInForce
  <2>. SUFFICES ASSUME RInv, NEW t \in Windows
                PROVE  /\ <<t, "reporter">> \notin overruled => daemon.reporter
                       /\ BoxesInForce(t)
    BY DEF RequestsInForce, BoxesInForce
  <2>1. t \in Listening
    BY DEF Listening, Windows
  <2>. QED
    BY <2>1 DEF RInv
<1>. QED
  BY <1>1, RequestsInvariant, PTL
-----------------------------------------------------------------------------
(* Types: of the daemon, of a slider and of a window.                      *)
DaemonTyped(d) ==
  /\ IsDaemon(d) /\ Numbers(d) /\ d.set <= d.max
  /\ d.enabled \in BOOLEAN /\ d.on_ac \in BOOLEAN /\ d.reporter \in BOOLEAN
  /\ d.enabled => usable

(* A state that is sent: auto-dimming counts in percent.                   *)
Sent == {s \in Stats : s.autodim => s.max = 100}

(* A slider ends at one percent, or at nothing.                            *)
IsSlider(s) ==
  /\ s \in [min : Int, max : Nat \ {0}, value : Int]
  /\ s.min \in 0..DivRound(s.max, 100)
  /\ s.value \in s.min .. s.max

Phases == {"off", "connected", "fetched", "ready", "refetch", "gone"}

WindowTyped(w) ==
  /\ IsWindow(w) /\ w.pc \in Phases
  /\ w.auto \in BOOLEAN /\ w.auto_ac \in BOOLEAN /\ w.ac_usable \in BOOLEAN
  /\ IsSlider(w.slider)

TInv ==
  /\ usable \in BOOLEAN
  /\ DaemonTyped(daemon)
  /\ inbox \in [Trays -> Seq(Sent)]
  /\ tray = [t \in Trays |-> tray[t]]
  /\ \A t \in Trays : WindowTyped(tray[t])
  /\ actions \in 0..MaxActions
  /\ stale \subseteq Trays
  /\ overruled \subseteq Trays \X {"boxes", "reporter"}

(* The scale and the brightness of two states are the same.                *)
SameScale(s, u) == s.max = u.max /\ s.brightness = u.brightness

Shows(slider, s) ==
  slider.max = s.max /\ slider.value = Clamp(s.brightness, slider.min, slider.max)

(***************************************************************************)
(* What a ready tray shows, or will show when it has read its messages, is *)
(* the state of the daemon, unless the tray is stale.                      *)
(***************************************************************************)
ShowsAtLast(t) ==
  /\ inbox[t] = <<>> => Shows(tray[t].slider, State(daemon))
  /\ inbox[t] # <<>> => SameScale(inbox[t][Len(inbox[t])], State(daemon))

CInv ==
  \A t \in Trays : tray[t].pc = "ready" /\ t \notin stale => ShowsAtLast(t)

-----------------------------------------------------------------------------
(* The state that is sent, and the slider that shows it.                   *)
LEMMA StateTyped ==
  ASSUME NEW d, Numbers(d), d.enabled \in BOOLEAN, d.on_ac \in BOOLEAN
  PROVE  State(d) \in Sent
<1>1. ToPercent(d.level) \in Percents /\ d.level \in 0..MaxLevel
  BY LevelsInt DEF Numbers
<1>. DEFINE max == IF d.enabled THEN 100 ELSE MaxLevel
            brightness == IF d.enabled THEN ToPercent(d.level) ELSE d.level
<1>2. max \in {MaxLevel, 100} /\ brightness \in 0..100 \cup 0..MaxLevel
  BY <1>1 DEF Percents
<1>3. State(d) = [autodim |-> d.enabled, autodim_ac |-> d.on_ac,
                  max |-> max, brightness |-> brightness]
  BY DEF State
<1>4. d.enabled => max = 100
  OBVIOUS
<1>. HIDE DEF max, brightness
<1>5. State(d) \in Stats /\ State(d).autodim = d.enabled /\ State(d).max = max
  BY <1>2, <1>3 DEF Stats
<1>. QED
  BY <1>4, <1>5 DEF Sent

LEMMA ScaleOfState ==
  ASSUME NEW d, NEW e, e.level = d.level, e.enabled = d.enabled
  PROVE  SameScale(State(e), State(d))
  BY DEF State, SameScale

LEMMA SentNumbers ==
  ASSUME NEW s \in Sent
  PROVE  s.max \in Nat \ {0} /\ s.brightness \in Int
  BY TrayAssumption DEF Sent, Stats

LEMMA SliderShowsState ==
  ASSUME NEW slider, NEW s \in Sent
  PROVE  IsSlider(SliderShows(slider, s)) /\ Shows(SliderShows(slider, s), s)
<1>. DEFINE min == IF s.autodim THEN 1 ELSE DivRound(s.max, 100)
            value == Clamp(s.brightness, min, s.max)
<1>1. s.max \in Nat \ {0} /\ s.brightness \in Int
  BY SentNumbers
<1>2. min \in Int /\ min <= s.max /\ min \in 0..DivRound(s.max, 100)
  <2>1. s.autodim \in BOOLEAN /\ (s.autodim => s.max = 100)
    BY DEF Sent, Stats
  <2>. QED
    BY <1>1, <2>1 DEF DivRound
<1>3. SliderShows(slider, s) = [min |-> min, max |-> s.max, value |-> value]
  BY DEF SliderShows
<1>4. value \in min..s.max
  <2>. HIDE DEF min
  <2>. QED
    BY <1>1, <1>2 DEF Clamp
<1>5. value = Clamp(s.brightness, min, s.max)
  OBVIOUS
<1>. HIDE DEF min, value
<1>. QED
  BY <1>1, <1>2, <1>3, <1>4, <1>5 DEF IsSlider, Shows

(* What the slider shows depends on scale and brightness only.             *)
LEMMA ShowsSame ==
  ASSUME NEW slider, NEW s, NEW u, Shows(slider, s), SameScale(s, u)
  PROVE  Shows(slider, u)
  BY DEF Shows, SameScale

LEMMA LastOfSeq ==
  ASSUME NEW S, NEW s \in Seq(S), NEW e \in S
  PROVE  /\ s \o <<e>> \in Seq(S) /\ s \o <<e>> # <<>>
         /\ (s \o <<e>>)[Len(s \o <<e>>)] = e
         /\ s \o <<>> = s
<1>1. s \o <<e>> = Append(s, e)
  OBVIOUS
<1>. QED
  BY <1>1

LEMMA LastOfTail ==
  ASSUME NEW S, NEW s \in Seq(S), s # <<>>
  PROVE  /\ Tail(s) = <<>> => Head(s) = s[Len(s)]
         /\ Tail(s) # <<>> => Tail(s)[Len(Tail(s))] = s[Len(s)]
<1>1. Len(s) \in Nat \ {0} /\ Len(Tail(s)) = Len(s) - 1 /\ Head(s) = s[1]
  OBVIOUS
<1>2. ASSUME Tail(s) = <<>> PROVE Len(s) = 1
  <2>1. Len(<<>>) = 0
    OBVIOUS
  <2>2. Len(Tail(s)) = 0
    BY <1>2, <2>1, Zenon
  <2>. DEFINE n == Len(s)
  <2>3. n \in Nat \ {0} /\ 0 = n - 1
    BY <1>1, <2>2, Zenon
  <2>. HIDE DEF n
  <2>4. n = 1
    BY <2>3
  <2>. QED
    BY <2>4 DEF n
<1>3. Tail(s) # <<>> => Len(Tail(s)) \in 1..Len(Tail(s))
  <2>1. Tail(s) \in Seq(S)
    OBVIOUS
  <2>. QED
    BY <2>1
<1>4. \A i \in 1..Len(Tail(s)) : Tail(s)[i] = s[i + 1]
  OBVIOUS
<1>. QED
  BY <1>1, <1>2, <1>3, <1>4

LEMMA ShownAfterMessages ==
  ASSUME NEW slider, IsSlider(slider), NEW msgs \in Seq(Sent)
  PROVE  /\ IsSlider(ShownAfter(slider, msgs))
         /\ msgs = <<>> => ShownAfter(slider, msgs) = slider
         /\ msgs # <<>> => Shows(ShownAfter(slider, msgs), msgs[Len(msgs)])
<1>1. CASE msgs = <<>>
  BY <1>1 DEF ShownAfter
<1>2. CASE msgs # <<>>
  <2>1. msgs[Len(msgs)] \in Sent
    BY <1>2
  <2>2. ShownAfter(slider, msgs) = SliderShows(slider, msgs[Len(msgs)])
    BY <1>2 DEF ShownAfter, Last
  <2>. QED
    BY <1>2, <2>1, <2>2, SliderShowsState
<1>. QED
  BY <1>1, <1>2

(* What an operation of the daemon leaves behind: numbers and switches.    *)
LEMMA TellsTyped ==
  ASSUME NEW d, NEW r, Tells(d, r), DaemonTyped(r.d)
  PROVE  \/ r.told = <<>>
         \/ r.told = <<State(r.d)>> /\ State(r.d) \in Sent
  BY StateTyped DEF Tells, DaemonTyped

(* The messages after a notification.                                      *)
LEMMA NotifiedTyped ==
  ASSUME TInv, NEW r, Tells(daemon, r), DaemonTyped(r.d)
  PROVE  /\ Notified(r.told) \in [Trays -> Seq(Sent)]
         /\ r.told = <<>> => Notified(r.told) = inbox
         /\ r.told # <<>> =>
              \A t \in Listening :
                LET msgs == Notified(r.told)[t]
                IN  msgs # <<>> /\ msgs[Len(msgs)] = State(r.d)
<1>1. inbox \in [Trays -> Seq(Sent)] /\ Listening \subseteq Trays
  BY DEF TInv, Listening
<1>. DEFINE s == State(r.d)
<1>2. CASE r.told = <<>>
  <2>1. \A t \in Trays : inbox[t] \o <<>> = inbox[t]
    BY <1>1
  <2>2. Notified(<<>>) = inbox
    BY <1>1, <2>1 DEF Notified
  <2>. QED
    BY <1>1, <1>2, <2>2
<1>3. CASE r.told = <<s>> /\ s \in Sent
  <2>. HIDE DEF s
  <2>1. ASSUME NEW t \in Trays
        PROVE  /\ inbox[t] \in Seq(Sent)
               /\ inbox[t] \o <<s>> \in Seq(Sent) /\ inbox[t] \o <<s>> # <<>>
               /\ (inbox[t] \o <<s>>)[Len(inbox[t] \o <<s>>)] = s
    BY <1>1, <1>3, LastOfSeq
  <2>2. Notified(r.told) = [t \in Trays |-> IF t \in Listening THEN inbox[t] \o <<s>>
                                                              ELSE inbox[t]]
    BY <1>3 DEF Notified
  <2>3. Notified(r.told) \in [Trays -> Seq(Sent)]
    BY <2>1, <2>2
  <2>4. \A t \in Listening : Notified(r.told)[t] = inbox[t] \o <<s>>
    BY <1>1, <2>2
  <2>5. r.told # <<>>
    BY <1>3
  <2>. QED
    BY <1>1, <2>1, <2>3, <2>4, <2>5 DEF s
<1>. QED
  BY <1>2, <1>3, TellsTyped

-----------------------------------------------------------------------------
(* What the other trays show at last, after a notification or without one. *)
LEMMA OthersShow ==
  ASSUME TInv, CInv, NEW r, Tells(daemon, r), DaemonTyped(r.d), daemon' = r.d,
         NEW u \in Trays, u \in Listening,
         inbox'[u] = Notified(r.told)[u], tray'[u] = tray[u],
         tray[u].pc = "ready",
         r.told = <<>> => r.d.enabled = daemon.enabled /\ u \notin stale
  PROVE  ShowsAtLast(u)'
<1>1. CASE r.told = <<>>
  <2>1. inbox'[u] = inbox[u] /\ ShowsAtLast(u)
    BY <1>1, NotifiedTyped DEF CInv
  <2>2. r.d.level = daemon.level
    BY <1>1 DEF Tells
  <2>3. SameScale(State(daemon), State(daemon'))
    BY <1>1, <2>2, ScaleOfState
  <2>. QED
    BY <2>1, <2>3, ShowsSame DEF ShowsAtLast, SameScale
<1>2. CASE r.told # <<>>
  <2>1. inbox'[u] # <<>> /\ inbox'[u][Len(inbox'[u])] = State(daemon')
    BY <1>2, NotifiedTyped
  <2>. QED
    BY <2>1 DEF ShowsAtLast, SameScale
<1>. QED
  BY <1>1, <1>2

(* Timers and input events.                                                *)
LEMMA EventTyped ==
  ASSUME RInv, TInv, CInv, Dim \/ Input
  PROVE  TInv' /\ CInv'
<1>1. DaemonTyped(daemon) /\ IsDaemon(daemon) /\ Numbers(daemon)
  BY DEF TInv, DaemonTyped
<1>2. PICK percent \in Percents : \E ok \in Oks : Event(AutodimSet(daemon, percent, ok))
  BY <1>1, TrayAssumption DEF Dim, Input, Numbers, Percents
<1>3. PICK ok \in Oks : Event(AutodimSet(daemon, percent, ok))
  BY <1>2
<1>. DEFINE r == AutodimSet(daemon, percent, ok)
<1>4. /\ daemon' = r.d /\ inbox' = Notified(r.told)
      /\ stale' = IF r.told = Nothing THEN stale ELSE {}
      /\ UNCHANGED <<usable, tray, actions, overruled>>
  BY <1>3 DEF Event
<1>5. /\ Numbers(r.d) /\ Tells(daemon, r)
      /\ r.d.max = daemon.max /\ r.d.set = Least(percent, daemon.max)
  BY <1>1, AutodimSetCounts
<1>6. IsDaemon(r.d) /\ SameSwitches(daemon, r.d)
  BY <1>1, AutodimSetKeeps
<1>. HIDE DEF r
<1>7. DaemonTyped(r.d)
  <2>1. Least(percent, daemon.max) <= daemon.max
    BY <1>1 DEF Least, Numbers, Percents
  <2>. QED
    BY <1>1, <1>5, <1>6, <2>1 DEF DaemonTyped, SameSwitches
<1>8. TInv'
  <2>1. inbox' \in [Trays -> Seq(Sent)]
    BY <1>4, <1>5, <1>7, NotifiedTyped
  <2>2. DaemonTyped(daemon)'
    BY <1>4, <1>7 DEF DaemonTyped
  <2>3. stale' \subseteq Trays
    BY <1>4 DEF TInv
  <2>. QED
    BY <1>4, <2>1, <2>2, <2>3 DEF TInv
<1>9. ASSUME NEW u \in Trays, tray'[u].pc = "ready", u \notin stale'
      PROVE  ShowsAtLast(u)'
  <2>1. u \in Listening /\ tray[u].pc = "ready" /\ tray'[u] = tray[u]
    BY <1>4, <1>9 DEF Listening
  <2>2. r.told = <<>> => u \notin stale
    BY <1>4, <1>9 DEF Nothing
  <2>3. r.d.enabled = daemon.enabled
    BY <1>6 DEF SameSwitches
  <2>. QED
    BY <1>4, <1>5, <1>7, <2>1, <2>2, <2>3, OthersShow
<1>. QED
  BY <1>8, <1>9 DEF CInv

(* A request: its tray shows the last message that came with the reply.    *)
LEMMA RequestTyped ==
  ASSUME RInv, TInv, CInv, NEW t \in Trays, tray[t].pc = "ready",
         NEW r, Tells(daemon, r), DaemonTyped(r.d),
         NEW window, WindowTyped(window),
         User, Request(t, r, window), Confirms(t, r),
         overruled' \subseteq Trays \X {"boxes", "reporter"}
  PROVE  TInv' /\ CInv'
<1>. DEFINE msgs == inbox[t] \o r.told
            s == ShownAfter(window.slider, msgs)
            w == [window EXCEPT !.slider = s]
<1>1. /\ daemon' = r.d /\ tray' = [tray EXCEPT ![t] = w]
      /\ inbox' = [Notified(r.told) EXCEPT ![t] = <<>>]
  BY DEF Request
<1>2. inbox[t] \in Seq(Sent) /\ msgs \in Seq(Sent)
      /\ (r.told # <<>> => msgs # <<>> /\ msgs[Len(msgs)] = State(daemon'))
      /\ (r.told = <<>> => msgs = inbox[t])
  <2>1. inbox[t] \in Seq(Sent)
    BY DEF TInv
  <2>2. CASE r.told = <<>>
    BY <2>1, <2>2
  <2>3. CASE r.told = <<State(r.d)>> /\ State(r.d) \in Sent
    BY <1>1, <2>1, <2>3, LastOfSeq
  <2>. QED
    BY <2>1, <2>2, <2>3, TellsTyped
<1>3. IsSlider(window.slider)
  BY DEF WindowTyped
<1>. HIDE DEF msgs
<1>4. /\ IsSlider(s)
      /\ msgs # <<>> => Shows(s, msgs[Len(msgs)])
  BY <1>2, <1>3, ShownAfterMessages
<1>. HIDE DEF s
<1>5. WindowTyped(w) /\ w.slider = s
  BY <1>4 DEF WindowTyped, IsWindow
<1>. HIDE DEF w
<1>6. OnlyTray(t, w)
  BY <1>1, TrayChanges DEF RInv
<1>7. TInv'
  <2>1. Notified(r.told) \in [Trays -> Seq(Sent)]
    BY NotifiedTyped
  <2>2. inbox' \in [Trays -> Seq(Sent)]
    BY <1>1, <2>1
  <2>3. \A u \in Trays : WindowTyped(tray'[u])
    BY <1>5, <1>6 DEF OnlyTray, TInv
  <2>4. usable' = usable /\ actions' \in 0..MaxActions
    BY TrayAssumption DEF User, TInv
  <2>5. DaemonTyped(daemon)'
    BY <1>1, <2>4 DEF DaemonTyped
  <2>6. stale' \subseteq Trays
    BY DEF Confirms, TInv
  <2>. QED
    BY <1>6, <2>2, <2>3, <2>4, <2>5, <2>6 DEF TInv, OnlyTray
<1>8. ASSUME NEW u \in Trays, tray'[u].pc = "ready", u \notin stale'
      PROVE  ShowsAtLast(u)'
  <2>1. /\ r.told = <<>> => r.d.enabled = daemon.enabled /\ u \notin stale
        /\ (r.told = <<>> /\ u = t) => inbox[t] # <<>>
    BY <1>8 DEF Confirms, Nothing
  <2>2. CASE u # t
    <3>1. /\ tray'[u] = tray[u] /\ tray[u].pc = "ready" /\ u \in Listening
          /\ inbox'[u] = Notified(r.told)[u]
      <4>1. Notified(r.told) \in [Trays -> Seq(Sent)]
        BY NotifiedTyped
      <4>2. tray'[u] = tray[u]
        BY <1>6, <2>2 DEF OnlyTray
      <4>. QED
        BY <1>1, <1>8, <2>2, <4>1, <4>2 DEF Listening
    <3>. QED
      BY <1>1, <2>1, <3>1, OthersShow
  <2>3. CASE u = t
    <3>1. tray'[u].slider = s /\ inbox'[u] = <<>>
      <4>1. Notified(r.told) \in [Trays -> Seq(Sent)]
        BY NotifiedTyped
      <4>. QED
        BY <1>1, <1>5, <1>6, <2>3, <4>1 DEF OnlyTray
    <3>2. msgs # <<>> /\ SameScale(msgs[Len(msgs)], State(daemon'))
      <4>1. CASE r.told # <<>>
        BY <1>2, <4>1 DEF SameScale
      <4>2. CASE r.told = <<>>
        <5>1. msgs = inbox[t] /\ inbox[t] # <<>> /\ t \notin stale
          BY <1>2, <2>1, <2>3, <4>2
        <5>2. SameScale(inbox[t][Len(inbox[t])], State(daemon))
          BY <5>1 DEF CInv, ShowsAtLast
        <5>3. SameScale(State(daemon), State(daemon'))
          BY <1>1, <2>1, <4>2, ScaleOfState DEF Tells
        <5>. QED
          BY <5>1, <5>2, <5>3 DEF SameScale
      <4>. QED
        BY <4>1, <4>2
    <3>3. Shows(s, State(daemon'))
      BY <1>4, <3>2, ShowsSame
    <3>. QED
      BY <3>1, <3>3 DEF ShowsAtLast
  <2>. QED
    BY <2>2, <2>3
<1>. QED
  BY <1>7, <1>8 DEF CInv

(* One tray and its messages change; the daemon shows what it showed.      *)
LEMMA OneTrayTyped ==
  ASSUME TInv, CInv, NEW t \in Trays, NEW w, OnlyTray(t, w), WindowTyped(w),
         DaemonTyped(daemon)', daemon'.level = daemon.level,
         daemon'.enabled = daemon.enabled, usable' = usable,
         inbox' \in [Trays -> Seq(Sent)],
         \A u \in Trays \ {t} : inbox'[u] = inbox[u],
         stale \ {t} \subseteq stale', stale' \subseteq Trays,
         actions' \in 0..MaxActions,
         overruled' \subseteq Trays \X {"boxes", "reporter"},
         w.pc = "ready" /\ t \notin stale' => ShowsAtLast(t)'
  PROVE  TInv' /\ CInv'
<1>1. \A u \in Trays : WindowTyped(tray'[u])
  BY DEF OnlyTray, TInv
<1>2. TInv'
  BY <1>1 DEF OnlyTray, TInv
<1>3. ASSUME NEW u \in Trays \ {t}, tray'[u].pc = "ready", u \notin stale'
      PROVE  ShowsAtLast(u)'
  <2>1. tray'[u] = tray[u] /\ inbox'[u] = inbox[u] /\ u \notin stale
    BY <1>3 DEF OnlyTray
  <2>2. ShowsAtLast(u)
    BY <1>3, <2>1 DEF CInv
  <2>3. SameScale(State(daemon), State(daemon'))
    BY ScaleOfState
  <2>. QED
    BY <2>1, <2>2, <2>3, ShowsSame DEF ShowsAtLast, SameScale
<1>4. tray'[t] = w
  BY DEF OnlyTray
<1>. QED
  BY <1>2, <1>3, <1>4 DEF CInv

LEMMA FetchSliderTyped ==
  ASSUME RInv, TInv, CInv, NEW t \in Trays, FetchSlider(t) \/ Refetch(t)
  PROVE  TInv' /\ CInv'
<1>. DEFINE s == SliderShows(tray[t].slider, State(daemon))
<1>1. WindowTyped(tray[t]) /\ DaemonTyped(daemon)
  BY DEF TInv
<1>2. PICK pc \in {"fetched", "ready"} :
        /\ tray' = [tray EXCEPT ![t] = [tray[t] EXCEPT !.pc = pc, !.slider = s]]
        /\ inbox' = [inbox EXCEPT ![t] = <<>>] /\ stale' = stale \ {t}
        /\ UNCHANGED <<usable, daemon, actions, overruled>>
  BY DEF FetchSlider, Refetch, Fetch
<1>3. IsSlider(s) /\ Shows(s, State(daemon))
  BY <1>1, StateTyped, SliderShowsState DEF DaemonTyped
<1>. HIDE DEF s
<1>. DEFINE w == [tray[t] EXCEPT !.pc = pc, !.slider = s]
<1>4. WindowTyped(w) /\ w.slider = s
  BY <1>1, <1>3 DEF WindowTyped, IsWindow, Phases
<1>. HIDE DEF w
<1>5. OnlyTray(t, w)
  BY <1>2, TrayChanges DEF RInv, w
<1>6. /\ inbox' \in [Trays -> Seq(Sent)] /\ inbox'[t] = <<>>
      /\ \A u \in Trays \ {t} : inbox'[u] = inbox[u]
  BY <1>2 DEF TInv
<1>7. ShowsAtLast(t)'
  BY <1>2, <1>3, <1>4, <1>5, <1>6 DEF ShowsAtLast, OnlyTray
<1>8. DaemonTyped(daemon)' /\ stale' \subseteq Trays
  BY <1>1, <1>2 DEF DaemonTyped, TInv
<1>9. /\ stale \ {t} \subseteq stale' /\ actions' \in 0..MaxActions
      /\ overruled' \subseteq Trays \X {"boxes", "reporter"}
  BY <1>2 DEF TInv
<1>. QED
  BY <1>2, <1>4, <1>5, <1>6, <1>7, <1>8, <1>9, OneTrayTyped

LEMMA FetchBoxesTyped ==
  ASSUME RInv, TInv, CInv, NEW t \in Trays, FetchBoxes(t)
  PROVE  TInv' /\ CInv'
<1>. DEFINE old == tray[t]
            value == Clamp(State(daemon).brightness, old.slider.min, old.slider.max)
            s == [old.slider EXCEPT !.value = value]
            w == [old EXCEPT !.pc = "ready", !.auto = State(daemon).autodim,
                             !.auto_ac = State(daemon).autodim_ac, !.slider = s]
            v == [old EXCEPT !.pc = "ready", !.auto = State(daemon).autodim,
                             !.auto_ac = State(daemon).autodim_ac,
                             !.slider.value = value]
<1>1. WindowTyped(old) /\ DaemonTyped(daemon)
  BY DEF TInv
<1>2. /\ tray' = [tray EXCEPT ![t] = v] /\ inbox' = [inbox EXCEPT ![t] = <<>>]
      /\ stale' = IF State(daemon).max = v.slider.max THEN stale \ {t}
                  ELSE stale \cup {t}
      /\ UNCHANGED <<usable, daemon, actions, overruled>>
  BY DEF FetchBoxes, Fetch
<1>3. v = w
  BY <1>1 DEF WindowTyped, IsWindow
<1>4. State(daemon).autodim = daemon.enabled /\ State(daemon).autodim_ac = daemon.on_ac
  BY DEF State
<1>5. State(daemon).brightness \in Int
  BY <1>1, StateTyped, SentNumbers DEF DaemonTyped
<1>6. value \in old.slider.min .. old.slider.max
  BY <1>1, <1>5 DEF Clamp, WindowTyped, IsSlider
<1>7. value = Clamp(State(daemon).brightness, old.slider.min, old.slider.max)
  OBVIOUS
<1>. HIDE DEF v, value
<1>8. /\ IsSlider(s) /\ s.max = old.slider.max /\ s.min = old.slider.min
      /\ s.value = value
  BY <1>1, <1>6 DEF WindowTyped, IsSlider
<1>. HIDE DEF s
<1>9. IsWindow(w) /\ w.pc = "ready" /\ w.slider = s /\ w.auto = daemon.enabled
      /\ w.auto_ac = daemon.on_ac /\ w.ac_usable = old.ac_usable
  BY <1>1, <1>4 DEF WindowTyped, IsWindow
<1>10. WindowTyped(w)
  BY <1>1, <1>8, <1>9 DEF WindowTyped, DaemonTyped, Phases
<1>. HIDE DEF w
<1>11. OnlyTray(t, w)
  BY <1>2, <1>3, TrayChanges DEF RInv
<1>12. /\ inbox' \in [Trays -> Seq(Sent)] /\ inbox'[t] = <<>>
       /\ \A u \in Trays \ {t} : inbox'[u] = inbox[u]
  BY <1>2 DEF TInv
<1>13. t \notin stale' => ShowsAtLast(t)'
  <2>1. t \notin stale' => State(daemon).max = s.max
    BY <1>2, <1>3, <1>9
  <2>2. t \notin stale' => Shows(s, State(daemon))
    BY <1>7, <1>8, <2>1 DEF Shows
  <2>. QED
    BY <1>2, <1>9, <1>11, <1>12, <2>2 DEF ShowsAtLast, OnlyTray
<1>14. DaemonTyped(daemon)' /\ stale' \subseteq Trays /\ stale \ {t} \subseteq stale'
  BY <1>1, <1>2 DEF DaemonTyped, TInv
<1>15. /\ actions' \in 0..MaxActions
       /\ overruled' \subseteq Trays \X {"boxes", "reporter"}
  BY <1>2 DEF TInv
<1>. QED
  BY <1>2, <1>10, <1>11, <1>12, <1>13, <1>14, <1>15, OneTrayTyped

LEMMA ReadNotificationTyped ==
  ASSUME RInv, TInv, CInv, NEW t \in Trays, ReadNotification(t)
  PROVE  TInv' /\ CInv'
<1>. DEFINE s == SliderShows(tray[t].slider, Head(inbox[t]))
            w == [tray[t] EXCEPT !.slider = s]
<1>1. WindowTyped(tray[t]) /\ DaemonTyped(daemon) /\ inbox[t] \in Seq(Sent)
  BY DEF TInv
<1>2. /\ tray' = [tray EXCEPT ![t] = w] /\ tray[t].pc = "ready"
      /\ inbox[t] # <<>> /\ inbox' = [inbox EXCEPT ![t] = Tail(inbox[t])]
      /\ UNCHANGED <<usable, daemon, actions, stale, overruled>>
  BY DEF ReadNotification
<1>3. Head(inbox[t]) \in Sent /\ Tail(inbox[t]) \in Seq(Sent)
  BY <1>1, <1>2
<1>4. IsSlider(s) /\ Shows(s, Head(inbox[t]))
  BY <1>3, SliderShowsState
<1>. HIDE DEF s
<1>5. WindowTyped(w) /\ w.slider = s
  BY <1>1, <1>4 DEF WindowTyped, IsWindow
<1>. HIDE DEF w
<1>6. OnlyTray(t, w)
  BY <1>2, TrayChanges DEF RInv
<1>7. /\ inbox' \in [Trays -> Seq(Sent)] /\ inbox'[t] = Tail(inbox[t])
      /\ \A u \in Trays \ {t} : inbox'[u] = inbox[u]
  BY <1>2, <1>3 DEF TInv
<1>8. ASSUME t \notin stale' PROVE ShowsAtLast(t)'
  <2>1. SameScale(inbox[t][Len(inbox[t])], State(daemon))
    BY <1>2, <1>8 DEF CInv, ShowsAtLast
  <2>2. tray'[t].slider = s
    BY <1>5, <1>6 DEF OnlyTray
  <2>3. CASE Tail(inbox[t]) = <<>>
    <3>1. Head(inbox[t]) = inbox[t][Len(inbox[t])]
      BY <1>1, <1>2, <2>3, LastOfTail
    <3>2. Shows(s, State(daemon))
      BY <1>4, <2>1, <3>1, ShowsSame
    <3>. QED
      BY <1>2, <1>7, <2>2, <2>3, <3>2 DEF ShowsAtLast
  <2>4. CASE Tail(inbox[t]) # <<>>
    <3>1. Tail(inbox[t])[Len(Tail(inbox[t]))] = inbox[t][Len(inbox[t])]
      BY <1>1, <1>2, <2>4, LastOfTail
    <3>. QED
      BY <1>2, <1>7, <2>1, <2>4, <3>1 DEF ShowsAtLast
  <2>. QED
    BY <2>3, <2>4
<1>9. DaemonTyped(daemon)' /\ stale' \subseteq Trays /\ stale \ {t} \subseteq stale'
  BY <1>1, <1>2 DEF DaemonTyped, TInv
<1>10. /\ actions' \in 0..MaxActions
       /\ overruled' \subseteq Trays \X {"boxes", "reporter"}
  BY <1>2 DEF TInv
<1>. QED
  BY <1>2, <1>5, <1>6, <1>7, <1>8, <1>9, <1>10, OneTrayTyped

(* A tray starts, ends or is killed.                                       *)
LEMMA PhaseTyped ==
  ASSUME RInv, TInv, CInv, NEW t \in Trays, Connect(t) \/ Quit(t) \/ Killed(t)
  PROVE  TInv' /\ CInv'
<1>1. WindowTyped(tray[t]) /\ DaemonTyped(daemon) /\ inbox[t] \in Seq(Sent)
  BY DEF TInv
<1>2. PICK pc \in {"connected", "gone"}, on \in {TRUE, FALSE, daemon.reporter} :
        /\ tray' = [tray EXCEPT ![t] = [tray[t] EXCEPT !.pc = pc]]
        /\ daemon' = [daemon EXCEPT !.reporter = on]
        /\ UNCHANGED <<usable, stale>>
  <2>1. daemon = [daemon EXCEPT !.reporter = daemon.reporter]
    BY <1>1 DEF DaemonTyped, IsDaemon
  <2>2. CASE Connect(t)
    BY <2>2 DEF Connect
  <2>3. CASE Quit(t)
    BY <2>3 DEF Quit, User
  <2>4. CASE Killed(t)
    BY <2>1, <2>4 DEF Killed, User
  <2>. QED
    BY <2>2, <2>3, <2>4
<1>3. /\ actions' \in 0..MaxActions
      /\ overruled' \subseteq Trays \X {"boxes", "reporter"}
  <2>1. actions \in 0..MaxActions /\ Listening \subseteq Trays
        /\ overruled \subseteq Trays \X {"boxes", "reporter"}
    BY DEF TInv, Listening
  <2>2. CASE Connect(t)
    BY <2>1, <2>2 DEF Connect
  <2>3. CASE Quit(t)
    BY <2>1, <2>3, TrayAssumption DEF Quit, User
  <2>4. CASE Killed(t)
    BY <2>1, <2>4, TrayAssumption DEF Killed, User
  <2>. QED
    BY <2>2, <2>3, <2>4
<1>. DEFINE w == [tray[t] EXCEPT !.pc = pc]
            d == [daemon EXCEPT !.reporter = on]
<1>4. WindowTyped(w) /\ w.pc # "ready"
  BY <1>1 DEF WindowTyped, IsWindow, Phases
<1>. HIDE DEF w
<1>5. OnlyTray(t, w)
  BY <1>2, TrayChanges DEF RInv, w
<1>6. /\ inbox' \in [Trays -> Seq(Sent)]
      /\ \A u \in Trays \ {t} : inbox'[u] = inbox[u]
  <2>1. inbox' = inbox \/ inbox' = [inbox EXCEPT ![t] = <<>>]
    BY DEF Connect, Quit, Killed
  <2>2. inbox \in [Trays -> Seq(Sent)] /\ <<>> \in Seq(Sent)
    BY DEF TInv
  <2>3. CASE inbox' = inbox
    BY <2>2, <2>3
  <2>4. CASE inbox' = [inbox EXCEPT ![t] = <<>>]
    BY <2>2, <2>4
  <2>. QED
    BY <2>1, <2>3, <2>4
<1>7. DaemonTyped(daemon)' /\ daemon'.level = daemon.level
      /\ daemon'.enabled = daemon.enabled
  <2>1. /\ IsDaemon(d) /\ d.level = daemon.level /\ d.max = daemon.max
        /\ d.set = daemon.set /\ d.enabled = daemon.enabled
        /\ d.on_ac = daemon.on_ac /\ d.reporter = on
    BY <1>1 DEF DaemonTyped, IsDaemon
  <2>2. on \in BOOLEAN
    BY <1>1 DEF DaemonTyped
  <2>3. daemon' = d
    BY <1>2
  <2>. HIDE DEF d
  <2>4. /\ IsDaemon(daemon') /\ Numbers(daemon') /\ daemon'.set <= daemon'.max
        /\ daemon'.enabled \in BOOLEAN /\ daemon'.on_ac \in BOOLEAN
        /\ daemon'.enabled => usable'
    BY <1>1, <1>2, <2>1, <2>3 DEF DaemonTyped, Numbers
  <2>5. daemon'.reporter \in BOOLEAN
    BY <2>1, <2>2, <2>3
  <2>. QED
    BY <2>1, <2>3, <2>4, <2>5 DEF DaemonTyped
<1>8. stale' \subseteq Trays /\ stale \ {t} \subseteq stale'
  BY <1>2 DEF TInv
<1>. QED
  BY <1>2, <1>3, <1>4, <1>5, <1>6, <1>7, <1>8, OneTrayTyped

(* Auto-dimming is enabled or disabled.  If it is enabled, the maximum is  *)
(* what was asked for; if this is refused, the brightness stays.           *)
Enables(d, e, percent) ==
  \/ e.enabled = TRUE /\ e.max = Maximum(percent)
  \/ e.enabled = FALSE /\ d.enabled = FALSE /\ e.level = d.level

LEMMA EnableTyped ==
  ASSUME NEW d, DaemonTyped(d), NEW on_ac \in BOOLEAN, NEW percent \in Int,
         NEW ok, NEW r, r = EnableAutodim(d, percent, on_ac, ok)
  PROVE  DaemonTyped(r.d) /\ Tells(d, r) /\ Enables(d, r.d, percent)
<1>. DEFINE p == ToPercent(d.level)
            refused == [d EXCEPT !.on_ac = on_ac]
            started == [d EXCEPT !.on_ac = on_ac, !.enabled = TRUE,
                                 !.max = p, !.set = p]
            new == IF d.enabled THEN refused ELSE started
<1>1. r = IF ~d.enabled /\ ~usable THEN Result(refused, Nothing, TRUE)
          ELSE SetMaxPercent(new, percent, ok)
  BY DEF EnableAutodim
<1>2. IsDaemon(d) /\ Numbers(d) /\ d.set <= d.max
  BY DEF DaemonTyped
<1>3. p \in Percents
  BY <1>2, LevelsInt DEF Numbers
<1>. HIDE DEF p
<1>4. /\ IsDaemon(refused) /\ Numbers(refused) /\ refused.set <= refused.max
      /\ refused.level = d.level /\ refused.enabled = d.enabled
      /\ refused.on_ac = on_ac /\ refused.reporter = d.reporter
  <2>1. /\ IsDaemon(refused) /\ refused.level = d.level /\ refused.max = d.max
        /\ refused.set = d.set /\ refused.enabled = d.enabled
        /\ refused.on_ac = on_ac /\ refused.reporter = d.reporter
    <3>1. ASSUME NEW a
          PROVE  LET e == [d EXCEPT !.on_ac = a]
                 IN  /\ IsDaemon(e) /\ e.level = d.level /\ e.max = d.max
                     /\ e.set = d.set /\ e.enabled = d.enabled
                     /\ e.on_ac = a /\ e.reporter = d.reporter
      BY <1>2 DEF IsDaemon
    <3>. QED
      BY <3>1
  <2>. HIDE DEF refused
  <2>. QED
    BY <1>2, <2>1 DEF Numbers
<1>5. /\ IsDaemon(started) /\ Numbers(started) /\ started.set <= started.max
      /\ started.level = d.level /\ started.enabled = TRUE
      /\ started.on_ac = on_ac /\ started.reporter = d.reporter
  <2>1. /\ IsDaemon(started) /\ started.level = d.level /\ started.max = p
        /\ started.set = p /\ started.enabled = TRUE
        /\ started.on_ac = on_ac /\ started.reporter = d.reporter
    <3>1. ASSUME NEW a, NEW on
          PROVE  LET e == [d EXCEPT !.on_ac = a, !.enabled = on, !.max = p, !.set = p]
                 IN  /\ IsDaemon(e) /\ e.level = d.level /\ e.max = p
                     /\ e.set = p /\ e.enabled = on
                     /\ e.on_ac = a /\ e.reporter = d.reporter
      BY <1>2 DEF IsDaemon
    <3>. QED
      BY <3>1
  <2>. HIDE DEF started
  <2>. QED
    BY <1>2, <1>3, <2>1 DEF Numbers, Percents
<1>. HIDE DEF refused, started
<1>6. CASE ~d.enabled /\ ~usable
  <2>1. r.d = refused /\ r.told = <<>>
    BY <1>1, <1>6 DEF Result, Nothing
  <2>2. refused.enabled = FALSE
    BY <1>4, <1>6 DEF DaemonTyped
  <2>3. DaemonTyped(refused)
    BY <1>4, <1>6 DEF DaemonTyped
  <2>4. d.enabled = FALSE
    BY <1>6 DEF DaemonTyped
  <2>. QED
    BY <1>4, <2>1, <2>2, <2>3, <2>4 DEF Tells, Enables
<1>7. CASE d.enabled \/ usable
  <2>1. /\ IsDaemon(new) /\ Numbers(new) /\ new.set <= new.max
        /\ new.level = d.level /\ new.enabled = TRUE
        /\ new.on_ac = on_ac /\ new.reporter = d.reporter
    BY <1>4, <1>5 DEF DaemonTyped
  <2>2. r = SetMaxPercent(new, percent, ok)
    BY <1>1, <1>7
  <2>. HIDE DEF new
  <2>3. /\ Numbers(r.d) /\ r.d.set <= r.d.max /\ Tells(new, r)
        /\ r.d.max = Maximum(percent)
    BY <2>1, <2>2, SetMaxPercentCounts
  <2>4. IsDaemon(r.d) /\ SameSwitches(new, r.d)
    BY <2>1, <2>2, SetMaxPercentKeeps
  <2>5. usable = TRUE
    BY <1>7 DEF DaemonTyped
  <2>6. r.d.enabled = TRUE /\ r.d.on_ac \in BOOLEAN /\ r.d.reporter \in BOOLEAN
    BY <2>1, <2>4 DEF SameSwitches, DaemonTyped
  <2>7. DaemonTyped(r.d)
    BY <2>3, <2>4, <2>5, <2>6 DEF DaemonTyped
  <2>. QED
    BY <1>7, <2>1, <2>3, <2>6, <2>7 DEF Tells, Enables
<1>. QED
  BY <1>6, <1>7

LEMMA DisableTyped ==
  ASSUME NEW d, DaemonTyped(d), NEW r, r = DisableAutodim(d)
  PROVE  DaemonTyped(r.d) /\ Tells(d, r) /\ r.d.enabled = FALSE /\ r.d.level = d.level
<1>. DEFINE off == FALSE
            new == [d EXCEPT !.enabled = off, !.on_ac = off, !.max = 0, !.set = 0]
<1>1. off = FALSE
  OBVIOUS
<1>2. r.d = new /\ r.told = <<>>
  BY DEF DisableAutodim, Result, Nothing
<1>. HIDE DEF off
<1>3. /\ IsDaemon(new) /\ new.level = d.level /\ new.max = 0 /\ new.set = 0
      /\ new.enabled = off /\ new.on_ac = off /\ new.reporter = d.reporter
  BY DEF IsDaemon, DaemonTyped
<1>. HIDE DEF new
<1>4. Numbers(new)
  BY <1>3 DEF Numbers, DaemonTyped, Percents
<1>5. DaemonTyped(new)
  <2>1. new.enabled \in BOOLEAN /\ new.on_ac \in BOOLEAN /\ (new.enabled => usable)
    BY <1>1, <1>3, Zenon
  <2>2. d.reporter \in BOOLEAN
    BY DEF DaemonTyped
  <2>3. new.reporter \in BOOLEAN /\ new.set <= new.max
    BY <1>3, <2>2
  <2>. QED
    BY <1>3, <1>4, <2>1, <2>3, Zenon DEF DaemonTyped
<1>. QED
  BY <1>1, <1>2, <1>3, <1>5 DEF Tells

LEMMA AutodimTyped ==
  ASSUME NEW on \in BOOLEAN, NEW on_ac \in BOOLEAN, NEW percent \in Int, NEW ok,
         DaemonTyped(daemon), NEW r, r = Autodim(on, on_ac, percent, ok)
  PROVE  DaemonTyped(r.d) /\ Tells(daemon, r)
<1>1. CASE on
  <2>1. r = EnableAutodim(daemon, percent, on_ac, ok)
    BY <1>1 DEF Autodim
  <2>. QED
    BY <2>1, EnableTyped
<1>2. CASE ~on
  <2>1. r = DisableAutodim(daemon)
    BY <1>2 DEF Autodim
  <2>. QED
    BY <2>1, DisableTyped
<1>. QED
  BY <1>1, <1>2

LEMMA OverrulesTyped ==
  ASSUME NEW t \in Trays, NEW r, Overrules(t, r),
         overruled \subseteq Trays \X {"boxes", "reporter"}
  PROVE  overruled' \subseteq Trays \X {"boxes", "reporter"}
<1>1. Windows \subseteq Trays
  BY DEF Windows
<1>. QED
  BY <1>1 DEF Overrules

LEMMA SetLevelTyped ==
  ASSUME DaemonTyped(daemon), NEW value \in Int, NEW ok, NEW r,
         r = SetLevel(daemon, value, ok)
  PROVE  DaemonTyped(r.d) /\ Tells(daemon, r)
<1>1. IsDaemon(daemon) /\ Numbers(daemon)
  BY DEF DaemonTyped
<1>2. IsDaemon(r.d) /\ SameSwitches(daemon, r.d)
  BY <1>1, SetLevelKeeps
<1>3. /\ Numbers(r.d) /\ r.d.max = daemon.max /\ r.d.set = daemon.set
      /\ Tells(daemon, r)
  BY <1>1, SetLevelCounts
<1>4. r.d.set <= r.d.max
  BY <1>3 DEF DaemonTyped
<1>. QED
  BY <1>2, <1>3, <1>4 DEF DaemonTyped, SameSwitches

LEMMA MoveSliderTyped ==
  ASSUME RInv, TInv, CInv, NEW t \in Trays,
         NEW value \in Positions(tray[t].slider), MoveSlider(t, value)
  PROVE  TInv' /\ CInv'
<1>. DEFINE window == [tray[t] EXCEPT !.slider.value = value]
            s == [tray[t].slider EXCEPT !.value = value]
<1>1. tray[t].pc = "ready" /\ User /\ WindowTyped(tray[t]) /\ DaemonTyped(daemon)
  BY DEF MoveSlider, TInv
<1>2. value \in Int /\ value \in tray[t].slider.min .. tray[t].slider.max
  BY <1>1 DEF Positions, WindowTyped, IsSlider
<1>3. window = [tray[t] EXCEPT !.slider = s]
  OBVIOUS
<1>4. PICK ok \in Oks :
        IF tray[t].auto
          THEN LET r == Autodim(TRUE, tray[t].auto_ac, value, ok)
               IN  Request(t, r, window) /\ Confirms(t, r) /\ Overrules(t, r)
          ELSE LET r == SetLevel(daemon, value, ok)
               IN  Request(t, r, window) /\ Confirms(t, r) /\ UNCHANGED overruled
  BY Zenon DEF MoveSlider
<1>5. IsSlider(s)
  BY <1>1, <1>2 DEF WindowTyped, IsSlider
<1>. HIDE DEF s, window
<1>6. WindowTyped(window)
  BY <1>1, <1>3, <1>5 DEF WindowTyped, IsWindow
<1>7. overruled \subseteq Trays \X {"boxes", "reporter"}
  BY DEF TInv
<1>8. CASE tray[t].auto
  <2>. DEFINE r == Autodim(TRUE, tray[t].auto_ac, value, ok)
  <2>1. Request(t, r, window) /\ Confirms(t, r) /\ Overrules(t, r)
    BY <1>4, <1>8
  <2>2. DaemonTyped(r.d) /\ Tells(daemon, r)
    BY <1>1, <1>2, AutodimTyped DEF WindowTyped
  <2>. HIDE DEF r
  <2>3. overruled' \subseteq Trays \X {"boxes", "reporter"}
    BY <1>7, <2>1, OverrulesTyped
  <2>. QED
    BY <1>1, <1>6, <2>1, <2>2, <2>3, RequestTyped
<1>9. CASE ~tray[t].auto
  <2>. DEFINE r == SetLevel(daemon, value, ok)
  <2>1. Request(t, r, window) /\ Confirms(t, r) /\ UNCHANGED overruled
    BY <1>4, <1>9
  <2>2. DaemonTyped(r.d) /\ Tells(daemon, r)
    BY <1>1, <1>2, SetLevelTyped
  <2>. HIDE DEF r
  <2>. QED
    BY <1>1, <1>6, <1>7, <2>1, <2>2, RequestTyped
<1>. QED
  BY <1>8, <1>9

LEMMA ScaledValueInt ==
  ASSUME NEW s, IsSlider(s)
  PROVE  ScaledValue(s) \in Int
<1>1. s.value * 100 \in Int /\ s.max \in Nat \ {0}
  BY DEF IsSlider
<1>. QED
  BY <1>1, DivRoundInt DEF ScaledValue

LEMMA AutoAdjTyped ==
  ASSUME RInv, TInv, CInv, NEW t \in Trays, NEW window, WindowTyped(window),
         AutoAdjChanged(t, window)
  PROVE  TInv' /\ CInv'
<1>. DEFINE w == [window EXCEPT !.pc = "refetch", !.ac_usable = window.auto]
            percent == ScaledValue(window.slider)
<1>1. WindowTyped(w)
  BY DEF WindowTyped, IsWindow, Phases
<1>2. percent \in Int
  BY ScaledValueInt DEF WindowTyped
<1>3. PICK ok \in Oks :
        LET r == Autodim(window.auto, window.auto_ac, percent, ok)
        IN  Request(t, r, w) /\ Confirms(t, r) /\ Overrules(t, r)
  BY Zenon DEF AutoAdjChanged
<1>4. tray[t].pc = "ready" /\ User /\ DaemonTyped(daemon)
      /\ overruled \subseteq Trays \X {"boxes", "reporter"}
  BY DEF AutoAdjChanged, TInv
<1>. DEFINE r == Autodim(window.auto, window.auto_ac, percent, ok)
<1>. HIDE DEF w, percent
<1>5. Request(t, r, w) /\ Confirms(t, r) /\ Overrules(t, r)
  BY <1>3
<1>6. DaemonTyped(r.d) /\ Tells(daemon, r)
  BY <1>2, <1>4, AutodimTyped DEF WindowTyped
<1>. HIDE DEF r
<1>7. overruled' \subseteq Trays \X {"boxes", "reporter"}
  BY <1>4, <1>5, OverrulesTyped
<1>. QED
  BY <1>1, <1>4, <1>5, <1>6, <1>7, RequestTyped

LEMMA TogglesTyped ==
  ASSUME RInv, TInv, CInv, NEW t \in Trays, ToggleAuto(t) \/ ToggleAutoAC(t)
  PROVE  TInv' /\ CInv'
<1>1. WindowTyped(tray[t])
  BY DEF TInv
<1>2. ASSUME NEW b \in BOOLEAN
      PROVE  WindowTyped([tray[t] EXCEPT !.auto = b])
             /\ WindowTyped([tray[t] EXCEPT !.auto_ac = b])
  BY <1>1 DEF WindowTyped, IsWindow
<1>3. CASE ToggleAuto(t)
  <2>. DEFINE window == [tray[t] EXCEPT !.auto = ~tray[t].auto]
  <2>1. AutoAdjChanged(t, window)
    BY <1>3 DEF ToggleAuto
  <2>2. WindowTyped(window)
    BY <1>2
  <2>. HIDE DEF window
  <2>. QED
    BY <2>1, <2>2, AutoAdjTyped
<1>4. CASE ToggleAutoAC(t)
  <2>. DEFINE window == [tray[t] EXCEPT !.auto_ac = ~tray[t].auto_ac]
  <2>1. AutoAdjChanged(t, window)
    BY <1>4 DEF ToggleAutoAC
  <2>2. WindowTyped(window)
    BY <1>2
  <2>. HIDE DEF window
  <2>. QED
    BY <2>1, <2>2, AutoAdjTyped
<1>. QED
  BY <1>3, <1>4

-----------------------------------------------------------------------------
LEMMA SliderInitial == Init => TInv /\ CInv
<1>. SUFFICES ASSUME Init PROVE TInv /\ CInv
  OBVIOUS
<1>1. DaemonTyped(Fresh) /\ usable \in BOOLEAN
  <2>1. MaxLevel \in 0..MaxLevel
    BY LevelsInt
  <2>2. Fresh.enabled = FALSE
    BY DEF Fresh
  <2>. QED
    BY <2>1, <2>2 DEF Fresh, DaemonTyped, IsDaemon, Numbers, Percents, Init
<1>2. DaemonTyped(daemon)
  <2>1. CASE daemon = Fresh
    BY <1>1, <2>1
  <2>2. CASE \E on_ac \in BOOLEAN : daemon = EnableAutodim(Fresh, 100, on_ac, TRUE).d
    <3>1. PICK on_ac \in BOOLEAN : daemon = EnableAutodim(Fresh, 100, on_ac, TRUE).d
      BY <2>2
    <3>2. ASSUME NEW percent \in Int, NEW ok, NEW r,
                 r = EnableAutodim(Fresh, percent, on_ac, ok)
          PROVE  DaemonTyped(r.d)
      BY <1>1, <3>2, EnableTyped
    <3>. DEFINE ok == TRUE
                r == EnableAutodim(Fresh, 100, on_ac, ok)
    <3>3. daemon = r.d
      BY <3>1
    <3>. HIDE DEF ok
    <3>4. DaemonTyped(r.d)
      BY <3>2
    <3>. QED
      BY <3>3, <3>4
  <2>. QED
    BY <2>1, <2>2 DEF Init
<1>. DEFINE slider == [min |-> 0, max |-> 99, value |-> 0]
            w == [pc |-> "off", auto |-> FALSE, auto_ac |-> FALSE,
                  ac_usable |-> TRUE, slider |-> slider]
<1>3. tray = [t \in Trays |-> w] /\ inbox = [t \in Trays |-> <<>>]
      /\ actions = 0 /\ stale = {} /\ overruled = {}
  BY DEF Init
<1>4. IsSlider(slider)
  BY DEF IsSlider, DivRound
<1>. HIDE DEF slider
<1>5. WindowTyped(w) /\ w.pc = "off"
  BY <1>4 DEF WindowTyped, IsWindow, Phases
<1>. HIDE DEF w
<1>6. actions \in 0..MaxActions /\ inbox \in [Trays -> Seq(Sent)]
  BY <1>3, TrayAssumption
<1>. QED
  BY <1>1, <1>2, <1>3, <1>5, <1>6 DEF TInv, CInv

LEMMA SliderNext == RInv /\ TInv /\ CInv /\ [Next]_vars => TInv' /\ CInv'
<1>. SUFFICES ASSUME RInv, TInv, CInv, [Next]_vars PROVE TInv' /\ CInv'
  OBVIOUS
<1>1. CASE Dim \/ Input
  BY <1>1, EventTyped
<1>2. ASSUME NEW t \in Trays, FetchSlider(t) \/ Refetch(t) PROVE TInv' /\ CInv'
  BY <1>2, FetchSliderTyped
<1>3. ASSUME NEW t \in Trays, FetchBoxes(t) PROVE TInv' /\ CInv'
  BY <1>3, FetchBoxesTyped
<1>4. ASSUME NEW t \in Trays, ReadNotification(t) PROVE TInv' /\ CInv'
  BY <1>4, ReadNotificationTyped
<1>5. ASSUME NEW t \in Trays, Connect(t) \/ Quit(t) \/ Killed(t) PROVE TInv' /\ CInv'
  BY <1>5, PhaseTyped
<1>6. ASSUME NEW t \in Trays, ToggleAuto(t) \/ ToggleAutoAC(t) PROVE TInv' /\ CInv'
  BY <1>6, TogglesTyped
<1>7. ASSUME NEW t \in Trays,
             NEW value \in Positions(tray[t].slider), MoveSlider(t, value)
      PROVE  TInv' /\ CInv'
  BY <1>7, MoveSliderTyped
<1>8. CASE UNCHANGED vars
  BY <1>8 DEF vars, TInv, CInv, DaemonTyped, ShowsAtLast
<1>. QED
  BY <1>1, <1>2, <1>3, <1>4, <1>5, <1>6, <1>7, <1>8 DEF Next, UserActs

(***************************************************************************)
(* The invariant behind the sliders: types, and what a ready tray shows    *)
(* when it has read its messages.                                          *)
(***************************************************************************)
THEOREM SliderInvariant == Spec => [](RInv /\ TInv /\ CInv)
<1>1. Init => RInv /\ TInv /\ CInv
  BY RequestsInitial, SliderInitial
<1>2. RInv /\ TInv /\ CInv /\ [Next]_vars => (RInv /\ TInv /\ CInv)'
  BY RequestsNext, SliderNext
<1>. QED
  BY <1>1, <1>2, PTL DEF Spec

(***************************************************************************)
(* The state of the daemon, the messages and the windows have their types; *)
(* the slider is within its range.                                         *)
(***************************************************************************)
THEOREM TrayTypes == Spec => []TrayTypeOK
<1>1. RInv /\ TInv /\ CInv => TrayTypeOK
  <2>. SUFFICES ASSUME TInv PROVE TrayTypeOK
    OBVIOUS
  <2>1. daemon \in [level : 0..MaxLevel, enabled : BOOLEAN, on_ac : BOOLEAN,
                    max : Percents, set : Percents, reporter : BOOLEAN]
    BY DEF TInv, DaemonTyped, IsDaemon, Numbers
  <2>2. daemon.enabled => usable /\ daemon.set <= daemon.max
    BY DEF TInv, DaemonTyped
  <2>3. ASSUME NEW t \in Trays
        PROVE  /\ \A i \in DOMAIN inbox[t] : inbox[t][i] \in Stats
               /\ tray[t].pc \in Phases
               /\ {tray[t].auto, tray[t].auto_ac, tray[t].ac_usable} \subseteq BOOLEAN
               /\ tray[t].slider.value \in tray[t].slider.min .. tray[t].slider.max
    <3>1. inbox[t] \in Seq(Sent) /\ WindowTyped(tray[t])
      BY DEF TInv
    <3>2. \A i \in DOMAIN inbox[t] : inbox[t][i] \in Stats
      BY <3>1 DEF Sent
    <3>. QED
      BY <3>1, <3>2 DEF WindowTyped, IsSlider
  <2>. QED
    BY <2>1, <2>2, <2>3 DEF TrayTypeOK, TInv, Phases
<1>. QED
  BY <1>1, SliderInvariant, PTL

(***************************************************************************)
(* The slider of a tray that has read its messages stands where the        *)
(* daemon's brightness is, in the daemon's scale.                          *)
(***************************************************************************)
THEOREM SliderIsCurrent == Spec => []SliderCurrent
<1>1. RInv /\ TInv /\ CInv => SliderCurrent
  BY DEF CInv, ShowsAtLast, Shows, SliderCurrent, UpToDate
<1>. QED
  BY <1>1, SliderInvariant, PTL

-----------------------------------------------------------------------------
(* Fractions of the levels and percentages.                                *)
LEMMA Rounded ==
  ASSUME NEW x \in Int, NEW d \in Nat \ {0}, NEW q, q = DivRound(x, d)
  PROVE  q \in Int /\ d * q <= x + d \div 2 /\ x + d \div 2 < d * q + d
  BY SMT DEF DivRound

LEMMA Quotient ==
  ASSUME NEW d \in Nat \ {0}, NEW q \in Int, NEW x \in Int,
         d * q <= x, x < d * q + d
  PROVE  x \div d = q
<1>. DEFINE r == x \div d
<1>1. r \in Int /\ d * r <= x /\ x < d * r + d
  BY SMT
<1>2. ~(r + 1 <= q)
  <2>. SUFFICES ASSUME r + 1 <= q PROVE FALSE
    OBVIOUS
  <2>1. d * (r + 1) <= d * q /\ d * (r + 1) = d * r + d
    BY <1>1, SMT
  <2>. QED
    BY <1>1, <2>1
<1>3. ~(q + 1 <= r)
  <2>. SUFFICES ASSUME q + 1 <= r PROVE FALSE
    OBVIOUS
  <2>1. d * (q + 1) <= d * r /\ d * (q + 1) = d * q + d
    BY <1>1, SMT
  <2>. QED
    BY <1>1, <2>1
<1>. QED
  BY <1>1, <1>2, <1>3

(* The whole of a slider's range is the whole of its unit.                 *)
LEMMA WholeFraction ==
  ASSUME NEW d \in Nat \ {0}, NEW value \in Int
  PROVE  DivRound(d * value, d) = value /\ DivRound(value * d, d) = value
<1>1. d * value \in Int /\ value * d = d * value
  BY SMT
<1>2. d \div 2 \in Int /\ 0 <= d \div 2 /\ d \div 2 < d
  BY SMT
<1>. DEFINE x == d * value + d \div 2
<1>3. x \in Int /\ d * value <= x /\ x < d * value + d
  BY <1>1, <1>2, SMT
<1>4. x \div d = value
  <2>. HIDE DEF x
  <2>. QED
    BY <1>3, Quotient
<1>. QED
  BY <1>1, <1>4 DEF DivRound

(***************************************************************************)
(* The level of the percentage of a level is near that level.              *)
(***************************************************************************)
LEMMA LevelOfPercentage ==
  ASSUME NEW level \in 0..MaxLevel, NEW percent,
         percent = DivRound(level * 100, MaxLevel)
  PROVE  percent \in 0..100 /\ Near(ToLevel(percent), level)
<1>. DEFINE M == MaxLevel
            h == M \div 2
            x == level * 100
            y == M * percent
            b == DivRound(y, 100)
            c == DivRound(M, 100)
<1>1. M \in Nat \ {0}
  BY TrayAssumption
<1>2. h \in Int /\ 2 * h <= M /\ M < 2 * h + 2 /\ x \in Int
  BY <1>1, SMT
<1>3. percent \in Int /\ y <= x + h /\ x + h < y + M
  BY <1>1, <1>2, Rounded
<1>4. percent \in 0..100
  <2>1. percent + 1 <= 0 => y + M <= 0
    <3>1. M * (percent + 1) = M * percent + M
      BY <1>1, <1>3, SMT
    <3>2. percent + 1 <= 0 => M * (percent + 1) <= 0
      BY <1>1, <1>3, SMT
    <3>. QED
      BY <3>1, <3>2
  <2>2. percent >= 101 => y >= M * 101
    BY <1>1, <1>3, SMT
  <2>3. x >= 0 /\ x <= M * 100 /\ y \in Int
    BY <1>1, <1>3, SMT
  <2>. HIDE DEF x, y, h
  <2>. QED
    BY <1>1, <1>2, <1>3, <2>1, <2>2, <2>3, SMT
<1>5. y \in Int
  BY <1>1, <1>4, SMT
<1>6. b \in Int /\ 100 * b <= y + 50 /\ y + 50 < 100 * b + 100
  <2>. HIDE DEF y
  <2>. QED
    BY <1>5, SMT DEF DivRound
<1>7. c \in Int /\ 100 * c <= M + 50 /\ M + 50 < 100 * c + 100
  BY <1>1, SMT DEF DivRound
<1>8. b - level <= c /\ level - b <= c
  <2>1. x = level * 100
    OBVIOUS
  <2>. HIDE DEF b, c, y, h, x
  <2>. QED
    BY <1>1, <1>2, <1>3, <1>5, <1>6, <1>7, <2>1, SMT
<1>. QED
  BY <1>4, <1>8 DEF Near, ToLevel

(* A slider that cannot be moved to the end shows a level near the end.    *)
LEMMA LevelOfMinimum ==
  ASSUME NEW min \in 0..DivRound(MaxLevel, 100), NEW percent,
         percent = DivRound(min * 100, MaxLevel)
  PROVE  percent \in 0..100 /\ ToLevel(percent) \in 0..DivRound(MaxLevel, 100)
<1>. DEFINE M == MaxLevel
            h == M \div 2
            y == M * percent
            b == DivRound(y, 100)
            c == DivRound(M, 100)
<1>1. M \in Nat \ {0}
  BY TrayAssumption
<1>2. c \in Int /\ 100 * c <= M + 50 /\ M + 50 < 100 * c + 100
  BY <1>1, SMT DEF DivRound
<1>3. min \in 0..M
  <2>1. min \in 0..c
    OBVIOUS
  <2>. HIDE DEF c
  <2>. QED
    BY <1>1, <1>2, <2>1, SMT
<1>4. percent \in 0..100
  BY <1>3, LevelOfPercentage
<1>5. h \in Int /\ 2 * h <= M /\ M < 2 * h + 2
  BY <1>1, SMT
<1>6. y <= 100 * min + h
  <2>. DEFINE x == min * 100
  <2>1. x \in Int /\ x = 100 * min /\ percent = DivRound(x, M)
    BY <1>3
  <2>. HIDE DEF x
  <2>2. y <= x + h
    BY <1>1, <2>1, Rounded
  <2>. QED
    BY <2>1, <2>2
<1>7. y \in Int /\ y >= 0
  BY <1>1, <1>4, SMT
<1>8. b \in Int /\ 100 * b <= y + 50 /\ y + 50 < 100 * b + 100
  <2>. HIDE DEF y
  <2>. QED
    BY <1>7, SMT DEF DivRound
<1>9. y = 0 \/ y = M \/ y >= 2 * M
  <2>1. percent = 0 \/ percent = 1 \/ percent >= 2
    BY <1>4
  <2>2. percent >= 2 => M * percent >= M * 2
    BY <1>1, <1>4, SMT
  <2>. QED
    BY <1>1, <2>1, <2>2
<1>10. min <= c
  OBVIOUS
<1>. HIDE DEF b, c, y, h
<1>11. y <= M \/ M < 67
  BY <1>1, <1>2, <1>3, <1>5, <1>6, <1>7, <1>9, <1>10, SMT
<1>12. b \in 0..c
  <2>1. CASE y <= M
    BY <1>1, <1>2, <1>7, <1>8, <2>1, SMT
  <2>2. CASE M < 67
    BY <1>1, <1>2, <1>3, <1>5, <1>6, <1>7, <1>8, <1>10, <2>2, SMT
  <2>. QED
    BY <1>11, <2>1, <2>2
<1>. QED
  BY <1>4, <1>12 DEF ToLevel, b, c, y

-----------------------------------------------------------------------------
(* What the widgets of an up-to-date tray do.                              *)
LEMMA PercentOfSlider ==
  ASSUME TInv, CInv, NEW t \in Trays, Acts(t)
  PROVE  /\ ScaledValue(tray[t].slider) \in 0..100
         /\ Near(ToLevel(ScaledValue(tray[t].slider)), daemon.level)
<1>. DEFINE slider == tray[t].slider
            level == daemon.level
            percent == ScaledValue(slider)
            least == DivRound(MaxLevel, 100)
<1>1. /\ IsSlider(slider) /\ DaemonTyped(daemon) /\ Shows(slider, State(daemon))
  BY DEF TInv, CInv, Acts, UpToDate, ShowsAtLast, WindowTyped
<1>2. level \in 0..MaxLevel /\ MaxLevel \in Nat \ {0} /\ least \in Nat
  BY <1>1, LevelsInt, SMT DEF DaemonTyped, Numbers, DivRound
<1>3. CASE ~daemon.enabled
  <2>1. slider.max = MaxLevel /\ slider.value = Clamp(level, slider.min, MaxLevel)
    BY <1>1, <1>3 DEF Shows, State
  <2>2. slider.min \in 0..least
    BY <1>1, <2>1 DEF IsSlider
  <2>3. slider.value = level \/ (slider.value = slider.min /\ level < slider.min)
    <3>. HIDE DEF level, least
    <3>. QED
      BY <1>2, <2>1, <2>2 DEF Clamp
  <2>4. percent = DivRound(slider.value * 100, MaxLevel)
    BY <2>1 DEF ScaledValue
  <2>. HIDE DEF percent, slider, level
  <2>5. CASE slider.value = level
    BY <1>2, <2>4, <2>5, LevelOfPercentage DEF percent, slider, level
  <2>6. CASE slider.value = slider.min /\ level < slider.min
    <3>1. percent \in 0..100 /\ ToLevel(percent) \in 0..least
      BY <2>2, <2>4, <2>6, LevelOfMinimum
    <3>. HIDE DEF least
    <3>2. ToLevel(percent) - level <= least /\ level - ToLevel(percent) <= least
      BY <1>2, <2>2, <2>6, <3>1
    <3>. QED
      BY <3>1, <3>2 DEF Near, percent, slider, level, least
  <2>. QED
    BY <2>3, <2>5, <2>6
<1>4. CASE daemon.enabled
  <2>. DEFINE shown == DivRound(level * 100, MaxLevel)
  <2>1. shown \in 0..100 /\ Near(ToLevel(shown), level)
    BY <1>2, LevelOfPercentage
  <2>2. ToPercent(level) = shown
    <3>. HIDE DEF shown
    <3>1. ToPercent(level) = Clamp(shown, 0, 100)
      BY DEF ToPercent, shown
    <3>. QED
      BY <2>1, <3>1 DEF Clamp
  <2>. HIDE DEF shown
  <2>3. slider.max = 100 /\ slider.value = Clamp(shown, slider.min, 100)
    BY <1>1, <1>4, <2>2 DEF Shows, State
  <2>4. slider.min \in 0..1
    BY <1>1, <2>3 DEF IsSlider, DivRound
  <2>5. slider.value = shown \/ (slider.value = 1 /\ shown = 0)
    BY <2>1, <2>3, <2>4 DEF Clamp
  <2>6. percent = slider.value
    <3>1. slider.value \in Int /\ 100 \in Nat \ {0}
      BY <2>1, <2>5
    <3>2. percent = DivRound(slider.value * 100, 100)
      BY <2>3 DEF ScaledValue
    <3>. HIDE DEF percent, slider
    <3>. QED
      BY <3>1, <3>2, WholeFraction
  <2>7. CASE slider.value = shown
    BY <2>1, <2>6, <2>7
  <2>8. CASE slider.value = 1 /\ shown = 0
    <3>1. ToLevel(0) = 0 /\ ToLevel(1) = least
      BY <1>2 DEF ToLevel, DivRound
    <3>2. Near(0, level)
      BY <2>1, <2>8, <3>1
    <3>3. Near(least, level)
      <4>. HIDE DEF level
      <4>. QED
        BY <1>2, <3>2 DEF Near
    <3>. QED
      BY <2>6, <2>8, <3>1, <3>3
  <2>. QED
    BY <2>5, <2>7, <2>8
<1>. QED
  BY <1>1, <1>3, <1>4 DEF DaemonTyped

LEMMA AutoAdjNear ==
  ASSUME RInv, TInv, CInv, NEW t \in Trays, Acts(t),
         NEW window, WindowTyped(window), window.slider = tray[t].slider,
         AutoAdjChanged(t, window)
  PROVE  Near(Bright(daemon'), daemon.level)
<1>. DEFINE w == [window EXCEPT !.pc = "refetch", !.ac_usable = window.auto]
            percent == ScaledValue(tray[t].slider)
<1>1. PICK ok \in Oks :
        LET r == Autodim(window.auto, window.auto_ac, percent, ok)
        IN  Request(t, r, w) /\ Confirms(t, r) /\ Overrules(t, r)
  BY Zenon DEF AutoAdjChanged
<1>2. percent \in 0..100 /\ Near(ToLevel(percent), daemon.level)
  BY PercentOfSlider
<1>. HIDE DEF w, percent
<1>. DEFINE r == Autodim(window.auto, window.auto_ac, percent, ok)
<1>3. daemon' = r.d
  BY <1>1 DEF Request
<1>4. DaemonTyped(daemon)
  BY DEF TInv
<1>5. Near(daemon.level, daemon.level)
  <2>1. daemon.level \in Int /\ MaxLevel \in Nat \ {0}
    BY <1>4, LevelsInt DEF DaemonTyped, Numbers
  <2>. QED
    BY <2>1, SMT DEF Near, DivRound
<1>6. CASE ~window.auto
  <2>1. r = DisableAutodim(daemon)
    BY <1>6 DEF Autodim
  <2>. HIDE DEF r
  <2>2. r.d.enabled = FALSE /\ r.d.level = daemon.level
    BY <1>4, <2>1, DisableTyped
  <2>. QED
    BY <1>3, <1>5, <2>2 DEF Bright
<1>7. CASE window.auto
  <2>1. r = EnableAutodim(daemon, percent, window.auto_ac, ok)
    BY <1>7 DEF Autodim
  <2>2. Maximum(percent) = percent /\ percent \in Int
    BY <1>2 DEF Maximum, Clamp
  <2>. HIDE DEF r
  <2>3. \/ r.d.enabled = TRUE /\ r.d.max = percent
        \/ r.d.enabled = FALSE /\ r.d.level = daemon.level
    <3>1. window.auto_ac \in BOOLEAN
      BY DEF WindowTyped
    <3>2. Enables(daemon, r.d, percent)
      BY <1>4, <2>1, <2>2, <3>1, EnableTyped
    <3>. QED
      BY <2>2, <3>2 DEF Enables
  <2>4. Bright(r.d) = ToLevel(percent) \/ Bright(r.d) = daemon.level
    BY <2>3 DEF Bright
  <2>. QED
    BY <1>2, <1>3, <1>5, <2>4
<1>. QED
  BY <1>6, <1>7

LEMMA TogglesNear ==
  ASSUME RInv, TInv, CInv, NEW t \in Trays, Acts(t),
         ToggleAuto(t) \/ ToggleAutoAC(t)
  PROVE  Near(Bright(daemon'), daemon.level)
<1>1. WindowTyped(tray[t])
  BY DEF TInv
<1>2. ASSUME NEW b \in BOOLEAN
      PROVE  /\ WindowTyped([tray[t] EXCEPT !.auto = b])
             /\ WindowTyped([tray[t] EXCEPT !.auto_ac = b])
             /\ [tray[t] EXCEPT !.auto = b].slider = tray[t].slider
             /\ [tray[t] EXCEPT !.auto_ac = b].slider = tray[t].slider
  BY <1>1 DEF WindowTyped, IsWindow
<1>3. CASE ToggleAuto(t)
  <2>. DEFINE window == [tray[t] EXCEPT !.auto = ~tray[t].auto]
  <2>1. AutoAdjChanged(t, window)
    BY <1>3 DEF ToggleAuto
  <2>2. WindowTyped(window) /\ window.slider = tray[t].slider
    BY <1>2
  <2>. HIDE DEF window
  <2>. QED
    BY <2>1, <2>2, AutoAdjNear
<1>4. CASE ToggleAutoAC(t)
  <2>. DEFINE window == [tray[t] EXCEPT !.auto_ac = ~tray[t].auto_ac]
  <2>1. AutoAdjChanged(t, window)
    BY <1>4 DEF ToggleAutoAC
  <2>2. WindowTyped(window) /\ window.slider = tray[t].slider
    BY <1>2
  <2>. HIDE DEF window
  <2>. QED
    BY <2>1, <2>2, AutoAdjNear
<1>. QED
  BY <1>3, <1>4

(* Something is announced if the level was set.                            *)
LEMMA SetLevelSets ==
  ASSUME NEW d, IsDaemon(d), NEW value, NEW ok, NEW r, r = SetLevel(d, value, ok),
         r.told # <<>>
  PROVE  r.d.level = Clamp(value, 0, MaxLevel)
<1>. DEFINE level == Clamp(value, 0, MaxLevel)
            new   == [d EXCEPT !.level = level]
            told  == <<State(new)>>
<1>1. r = IF level = d.level THEN Result(d, Nothing, FALSE)
          ELSE IF ok THEN Result(new, told, FALSE) ELSE Result(d, Nothing, TRUE)
  BY DEF SetLevel
<1>2. r.d = new
  BY <1>1 DEF Result, Nothing
<1>3. new.level = level
  <2>. HIDE DEF level
  <2>. QED
    BY DEF IsDaemon
<1>. QED
  BY <1>2, <1>3

LEMMA MoveSliderSets ==
  ASSUME RInv, TInv, CInv, NEW t \in Trays, Acts(t),
         NEW value \in Positions(tray[t].slider), MoveSlider(t, value),
         tray[t].auto \/ t \notin stale'
  PROVE  Bright(daemon') = DivRound(MaxLevel * value, tray[t].slider.max)
<1>. DEFINE window == [tray[t] EXCEPT !.slider.value = value]
            slider == tray[t].slider
<1>1. PICK ok \in Oks :
        IF tray[t].auto
          THEN LET r == Autodim(TRUE, tray[t].auto_ac, value, ok)
               IN  Request(t, r, window) /\ Confirms(t, r) /\ Overrules(t, r)
          ELSE LET r == SetLevel(daemon, value, ok)
               IN  Request(t, r, window) /\ Confirms(t, r) /\ UNCHANGED overruled
  BY Zenon DEF MoveSlider
<1>. HIDE DEF window
<1>2. /\ WindowTyped(tray[t]) /\ DaemonTyped(daemon)
      /\ Shows(slider, State(daemon)) /\ inbox[t] = <<>>
  BY DEF TInv, CInv, Acts, UpToDate, ShowsAtLast
<1>3. daemon.enabled = tray[t].auto
  BY DEF RInv, Acts, UpToDate, BoxesInForce, Windows
<1>4. slider.min \in Int /\ 0 <= slider.min /\ value \in slider.min .. slider.max
      /\ slider.max \in Nat \ {0}
  <2>1. IsSlider(slider)
    BY <1>2 DEF WindowTyped
  <2>. HIDE DEF slider
  <2>2. value \in Positions(slider)
    BY DEF slider
  <2>. QED
    BY <2>1, <2>2 DEF IsSlider, Positions
<1>5. CASE tray[t].auto
  <2>. DEFINE r == Autodim(TRUE, tray[t].auto_ac, value, ok)
  <2>1. r = EnableAutodim(daemon, value, tray[t].auto_ac, ok)
    BY DEF Autodim
  <2>2. daemon' = r.d
    BY <1>1, <1>5 DEF Request
  <2>3. slider.max = 100
    BY <1>2, <1>3, <1>5 DEF Shows, State
  <2>4. value \in 0..100 /\ value \in Int /\ Maximum(value) = value
    BY <1>4, <2>3 DEF Maximum, Clamp
  <2>. HIDE DEF r
  <2>5. r.d.enabled = TRUE /\ r.d.max = value
    <3>1. tray[t].auto_ac \in BOOLEAN
      BY <1>2 DEF WindowTyped
    <3>2. Enables(daemon, r.d, value)
      BY <1>2, <2>1, <2>4, <3>1, EnableTyped
    <3>. QED
      BY <1>3, <1>5, <2>4, <3>2 DEF Enables
  <2>. QED
    BY <2>2, <2>3, <2>5 DEF Bright, ToLevel
<1>6. CASE ~tray[t].auto
  <2>. DEFINE r == SetLevel(daemon, value, ok)
  <2>1. Confirms(t, r) /\ daemon' = r.d
    BY <1>1, <1>6 DEF Request
  <2>2. slider.max = MaxLevel
    BY <1>2, <1>3, <1>6 DEF Shows, State
  <2>3. value \in Int /\ Clamp(value, 0, MaxLevel) = value
    BY <1>4, <2>2 DEF Clamp
  <2>4. IsDaemon(daemon)
    BY <1>2 DEF DaemonTyped
  <2>5. IsDaemon(r.d) /\ SameSwitches(daemon, r.d)
    BY <2>4, SetLevelKeeps
  <2>. HIDE DEF r
  <2>6. r.d.enabled = daemon.enabled
    BY <2>5 DEF SameSwitches
  <2>7. r.told # <<>>
    BY <1>2, <1>6, <2>1, <2>6 DEF Confirms, Nothing
  <2>8. r.d.level = value
    BY <2>3, <2>4, <2>7, SetLevelSets DEF r
  <2>9. Bright(daemon') = value
    BY <1>3, <1>6, <2>1, <2>6, <2>8 DEF Bright
  <2>. QED
    BY <2>2, <2>3, <2>9, LevelsInt, WholeFraction
<1>. QED
  BY <1>5, <1>6

(***************************************************************************)
(* The widgets of a tray that is up to date do what they show, on a device *)
(* of any number of levels: switching a box makes the level it shows the   *)
(* brightness of an active user, within a percent, dimmed or not; a move   *)
(* of the slider sets the fraction it is moved to.                         *)
(***************************************************************************)
THEOREM WidgetsActAsShown == Spec => ActsAsShown
<1>. DEFINE Step(t) ==
       Acts(t) =>
         /\ (ToggleAuto(t) \/ ToggleAutoAC(t)) =>
              Near(Bright(daemon'), daemon.level)
         /\ \A value \in Positions(tray[t].slider) :
              (MoveSlider(t, value) /\ (tray[t].auto \/ t \notin stale')) =>
                Bright(daemon') = DivRound(MaxLevel * value, tray[t].slider.max)
<1>1. RInv /\ TInv /\ CInv => \A t \in Trays : Step(t)
  BY TogglesNear, MoveSliderSets
<1>2. RInv /\ TInv /\ CInv /\ [Next]_vars => [\A t \in Trays : Step(t)]_vars
  BY <1>1
<1>. QED
  BY <1>2, SliderInvariant, PTL DEF Spec, ActsAsShown
=============================================================================
