---------------------------- MODULE MCSleepTimer ----------------------------
(* Two poll timers with different periods, as a machine with a battery and *)
(* a backlight class device has them, and the auto-dimmer's timer.         *)
EXTENDS SleepTimer, TLC

CONSTANTS battery, backlight, autodim

MCPollTimers == {battery, backlight}
MCPollInterval == battery :> 3 @@ backlight :> 2
MCDimDelays == {0, 1, 2}
=============================================================================
