----------------------------- MODULE Backlight -----------------------------
(***************************************************************************)
(* The backlight of pwrtray-backend: the generic layer (backend/           *)
(* backlight.c) on top of the drivers for a sysfs backlight class device   *)
(* (backlight_class.c) and for the N810's panel (backlight_omapfb.c).      *)
(*                                                                         *)
(* The drivers keep a copy of the brightness, the generic layer keeps what *)
(* it told the framebuffer and the X11 input blocker, and the clients keep *)
(* the last notification.  All operations run with the signals blocked, so *)
(* each is one step.  The operators named after the C functions are used   *)
(* by Autodim, too.                                                        *)
(***************************************************************************)
EXTENDS Integers

CONSTANTS
  Drivers,        (* among "class" and "omapfb"                             *)
  MaxBrightness,  (* max_brightness of the device; the minimum is 0         *)
  Framebuffer,    (* is a framebuffer device configured?                    *)
  WriteMayFail,   (* may writes to the device fail?                         *)
  Percents,       (* brightness percentages asked for                       *)
  ShutdownPercent,(* shutdown_percent of the configuration                  *)
  ClientLevels,   (* levels in requests PTREQ_BL_SETBRIGHTNESS              *)
  FirmwareLevels  (* levels the firmware sets behind the daemon's back, or  *)
                  (* leaves when it starts                                 *)

ASSUME BacklightAssumption ==
  /\ Drivers \subseteq {"class", "omapfb"}
  /\ MaxBrightness \in Nat \ {0}
  /\ Framebuffer \in BOOLEAN /\ WriteMayFail \in BOOLEAN
  /\ Percents \subseteq 0..100 /\ ShutdownPercent \in 0..100
  /\ ClientLevels \subseteq Int
  /\ FirmwareLevels \subseteq 0..MaxBrightness

VARIABLES
  running,     (* has the daemon not shut down?                             *)
  driver,      (* the driver backlight_probe() found                        *)
  hw,          (* the device: actual_brightness, backlight_level            *)
  brightness,  (* the driver's copy: brightness, current_level              *)
  locked,      (* omapfb: locked                                            *)
  fb_blanked,  (* struct backlight: fb_blanked                              *)
  blocked,     (* was the X11 input blocked and not unblocked since?        *)
  announced,   (* the brightness in the last PTNOTI_BL_CHANGED              *)
  disturbed    (* history: has a "write" failed, did a "client" set the     *)
               (* brightness, did the "firmware"?                           *)

blVars == <<running, driver, hw, brightness, locked, fb_blanked, blocked,
            announced, disturbed>>

-----------------------------------------------------------------------------
Clamp(x, lo, hi) == IF x < lo THEN lo ELSE IF x > hi THEN hi ELSE x

DivRound(x, d) == (x + d \div 2) \div d

(* backlight_set_percentage_no_notify(), backlight_get_percentage()        *)
ToLevel(percent) == DivRound(MaxBrightness * percent, 100)
ToPercent(level) == Clamp(DivRound(level * 100, MaxBrightness), 0, 100)

Levels == 0..MaxBrightness

(***************************************************************************)
(* set_brightness() of the two drivers.  The class driver changes its copy *)
(* after a successful write only, omapfb before it; ok is the result.      *)
(***************************************************************************)
ClassSetBrightness(level, ok) ==
  IF ok THEN hw' = (IF level = brightness THEN hw ELSE level) /\ brightness' = level
        ELSE UNCHANGED <<hw, brightness>>

OmapfbWrite(lock, level, ok) ==
  hw' = IF ~ok THEN hw ELSE IF lock THEN 0 ELSE level

(* Mutant of OmapfbSetBrightness: the lock is forgotten.                   *)
OmapfbSetBrightnessUnlocked(level, ok) ==
  /\ brightness' = level
  /\ IF level = brightness THEN UNCHANGED hw ELSE OmapfbWrite(FALSE, level, ok)

OmapfbSetBrightness(level, ok) ==
  /\ brightness' = level
  /\ IF level = brightness THEN UNCHANGED hw ELSE OmapfbWrite(locked, level, ok)

(* Mutant of Notifies: omapfb does not tell after a failed write, either.  *)
NotifiesSuccess(level, ok) == level # brightness /\ ok

Wrote(ok) == IF ok THEN disturbed ELSE disturbed \cup {"write"}

(* Do they call backlight_notify_state_change()?                           *)
Notifies(level, ok) == level # brightness /\ (ok \/ driver = "omapfb")

(* tell: does the caller notify the clients, too?                          *)
SetBrightness(value, ok, tell) ==
  LET level == Clamp(value, 0, MaxBrightness) IN
  /\ ok \/ (WriteMayFail /\ level # brightness)
  /\ IF driver = "class" THEN ClassSetBrightness(level, ok)
                         ELSE OmapfbSetBrightness(level, ok)
  /\ announced' = IF tell \/ Notifies(level, ok) THEN brightness' ELSE announced

(* Mutant of UpdateScreenBlanking: the lock is not looked at.              *)
BlankingByBrightness ==
  /\ fb_blanked' = IF Framebuffer THEN brightness' = 0 ELSE fb_blanked
  /\ blocked' = IF brightness' = 0 THEN blocked ELSE FALSE

(* update_screen_blanking(), framebuffer_blank(), with the new state.      *)
UpdateScreenBlanking ==
  LET dark == locked' \/ brightness' = 0 IN
  /\ fb_blanked' = IF Framebuffer THEN dark ELSE fb_blanked
  /\ blocked' = IF locked' THEN TRUE ELSE IF dark THEN blocked ELSE FALSE

(* backlight_set_percentage()                                              *)
SetPercentage(percent) ==
  \E ok \in BOOLEAN :
    /\ running
    /\ SetBrightness(ToLevel(percent), ok, ok)
    /\ disturbed' = Wrote(ok)
    /\ UNCHANGED <<running, driver, locked>>
    /\ IF ok THEN UpdateScreenBlanking ELSE UNCHANGED <<fb_blanked, blocked>>

(* backlight_screen_lock(), backlight_omapfb_screen_lock(); the class      *)
(* driver has no lock and returns an error.                                *)
ScreenLock(lock) ==
  \E ok \in BOOLEAN :
    /\ running
    /\ ok \/ (WriteMayFail /\ lock # locked)
    /\ disturbed' = Wrote(ok)
    /\ UNCHANGED <<running, driver, brightness>>
    /\ IF driver = "class"
         THEN UNCHANGED <<hw, locked, fb_blanked, blocked, announced>>
         ELSE /\ locked' = lock
              /\ IF lock = locked THEN UNCHANGED hw
                                  ELSE OmapfbWrite(lock, brightness, ok)
              /\ announced' = IF ok /\ lock # locked THEN brightness ELSE announced
              /\ IF ok THEN UpdateScreenBlanking
                       ELSE UNCHANGED <<fb_blanked, blocked>>

(* PTREQ_BL_SETBRIGHTNESS in received_message(): the driver's operation is *)
(* called directly, without a look at the blanking.                        *)
ClientSetBrightness(value) ==
  \E ok \in BOOLEAN :
    /\ running
    /\ SetBrightness(value, ok, FALSE)
    /\ disturbed' = Wrote(ok) \cup {"client"}
    /\ UNCHANGED <<running, driver, locked, fb_blanked, blocked>>

(* backlight_class_update(): if the device differs from the copy, the copy *)
(* is to be written again.                                                 *)
PollDevice ==
  /\ running
  /\ driver = "class"
  /\ hw # brightness /\ hw # 0
  /\ \E ok \in BOOLEAN :
       SetBrightness(brightness, ok, FALSE) /\ disturbed' = Wrote(ok)
  /\ UNCHANGED <<running, driver, locked, fb_blanked, blocked>>

(* Mutant of BacklightDestroy: the screen stays locked.                    *)
BacklightDestroyLocked ==
  /\ running
  /\ running' = FALSE
  /\ fb_blanked' = FALSE
  /\ blocked' = FALSE
  /\ brightness' = ToLevel(ShutdownPercent)
  /\ OmapfbWrite(locked, brightness', TRUE)
  /\ UNCHANGED <<driver, locked, announced, disturbed>>

(***************************************************************************)
(* backlight_destroy(), after shutdown_cleanup() has disconnected the      *)
(* clients and unblocked the X11 input: unblank, unlock, set               *)
(* shutdown_percent, free.                                                 *)
(***************************************************************************)
BacklightDestroy ==
  LET level    == ToLevel(ShutdownPercent)
      unlocked == IF locked THEN brightness ELSE hw
  IN
  /\ running
  /\ running' = FALSE
  /\ fb_blanked' = FALSE
  /\ blocked' = FALSE
  /\ locked' = FALSE
  /\ brightness' = level
  /\ \/ /\ hw' = IF level = brightness THEN unlocked ELSE level
        /\ UNCHANGED disturbed
     \/ /\ WriteMayFail
        /\ hw' \in {hw, unlocked}
        /\ disturbed' = disturbed \cup {"write"}
  /\ UNCHANGED <<driver, announced>>

(* The firmware changes the brightness.                                    *)
Firmware(level) ==
  /\ running
  /\ driver = "class"
  /\ hw' = level
  /\ disturbed' = disturbed \cup {"firmware"}
  /\ UNCHANGED <<running, driver, brightness, locked, fb_blanked, blocked, announced>>

(***************************************************************************)
(* backlight_probe(): the driver finds the device at a level that was left *)
(* there and announces it, and backlight_start() sets startup_percent.     *)
(* Nothing is locked, and fbblank_init() unblanks the screen.              *)
(***************************************************************************)
LeftLevels == FirmwareLevels \cup {ToLevel(ShutdownPercent)}

BacklightStart(level, percent, ok) ==
  LET target == ToLevel(percent) IN
  /\ ok \/ (WriteMayFail /\ target # level)
  /\ hw = IF ok THEN target ELSE level
  /\ brightness = IF ok \/ driver = "omapfb" THEN target ELSE level
  /\ disturbed = IF ok THEN {} ELSE {"write"}

BacklightInit ==
  /\ running = TRUE
  /\ driver \in Drivers
  /\ \E level \in LeftLevels, percent \in Percents, ok \in BOOLEAN :
       BacklightStart(level, percent, ok)
  /\ announced = brightness
  /\ locked = FALSE
  /\ fb_blanked = FALSE
  /\ blocked = FALSE

BacklightNext ==
  \/ \E percent \in Percents : SetPercentage(percent)
  \/ driver = "omapfb" /\ \E lock \in BOOLEAN : ScreenLock(lock)
  \/ \E value \in ClientLevels : ClientSetBrightness(value)
  \/ \E level \in FirmwareLevels : Firmware(level)
  \/ PollDevice
  \/ BacklightDestroy

(* The poll timer goes on (SleepTimer).                                    *)
BacklightSpec == BacklightInit /\ [][BacklightNext]_blVars /\ WF_blVars(PollDevice)

-----------------------------------------------------------------------------
BacklightTypeOK ==
  /\ running \in BOOLEAN
  /\ driver \in Drivers
  /\ hw \in Levels /\ brightness \in Levels /\ announced \in Levels
  /\ locked \in BOOLEAN /\ fb_blanked \in BOOLEAN /\ blocked \in BOOLEAN
  /\ disturbed \subseteq {"write", "client", "firmware"}

(***************************************************************************)
(* The clients never hold a stale brightness: also after a failed write    *)
(* the last notification is what the driver would answer now.              *)
(***************************************************************************)
AnnouncedCurrent == running => announced = brightness

(***************************************************************************)
(* Whatever was asked for while the screen was locked, unlocked it shows   *)
(* the brightness asked for last.  The class driver guarantees it although *)
(* writes fail; omapfb does not repeat a write that failed.                *)
(***************************************************************************)
DeviceFollows ==
  running /\ "firmware" \notin disturbed
    /\ (driver = "omapfb" => "write" \notin disturbed)
      => hw = IF locked THEN 0 ELSE brightness

(***************************************************************************)
(* A locked screen is dark, blanked and does not take X11 input, whatever  *)
(* brightness autodim or a client asks for meanwhile; and the screen is    *)
(* blanked only while it would be dark anyway, if no client sets the       *)
(* brightness of a blanked screen.                                         *)
(***************************************************************************)
ScreenMatchesLock ==
  "write" \notin disturbed =>
    /\ locked => hw = 0 /\ blocked /\ (Framebuffer => fb_blanked)
    /\ fb_blanked /\ "client" \notin disturbed => locked \/ brightness = 0

(***************************************************************************)
(* The daemon never leaves a blanked screen or a blocked X11 input behind; *)
(* whatever was locked or dimmed, at exit the device shows                 *)
(* shutdown_percent.                                                       *)
(***************************************************************************)
VisibleAtExit ==
  ~running =>
    /\ ~fb_blanked /\ ~blocked
    /\ disturbed \subseteq {"client"} => hw = ToLevel(ShutdownPercent)

(***************************************************************************)
(* "Amending backlight brightness": a brightness the firmware set is       *)
(* replaced by the daemon's.                                               *)
(***************************************************************************)
FirmwareAmended ==
  (running /\ hw # brightness /\ hw # 0)
    ~> (~running \/ hw = brightness \/ hw = 0)
=============================================================================
