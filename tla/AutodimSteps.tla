---------------------------- MODULE AutodimSteps ----------------------------
(***************************************************************************)
(* How the daemon gets from its configuration file (Conf) to the dimming   *)
(* steps (autodim_steps_get() in backend/autodim.c): parse the file, parse *)
(* the entries of autodim_steps and check them, put intermediate steps     *)
(* between them, and remove steps that change nothing.  One action is one  *)
(* iteration of a loop of the code.                                        *)
(*                                                                         *)
(* The code interpolates in single precision floating point, the model     *)
(* exactly: they can differ by one percent where a value lies half way.    *)
(* Running out of memory is left out.                                      *)
(***************************************************************************)
EXTENDS Conf, SequencesExt

CONSTANTS
  Step,       (* struct autodim_step                                        *)
  BadEntry,   (* an entry that is not of the form seconds/percent           *)
  Default     (* the entries without a configuration: 15/75 25/50 ...       *)

Entries == Step \cup {BadEntry}

ASSUME StepValues == Step \subseteq [second : Nat, percent : Nat]
(* The value of autodim_steps is a list, split at white space.             *)
ASSUME ConfigurationAssumption ==
  /\ Default \in Seq(Entries)
  /\ {"BACKLIGHT", "autodim_steps", "autodim_smooth"} \subseteq DOMAIN Hash
  /\ \A file \in Files : \A k \in DOMAIN file :
       file[k].kind = "item" =>
         (file[k].name = "autodim_steps" => file[k].value \in Seq(Entries))

VARIABLES
  config,    (* the entries of autodim_steps                                *)
  smooth,    (* autodim_smooth                                              *)
  steps,     (* struct autodim: steps[0 .. nr_steps - 1]                    *)
  old_steps, (* autodim_smoothen_steps(): old_steps                         *)
  i,         (* the index of the loop, counted from 1                       *)
  pc         (* "read", "rejected", "parse", "smoothen", "optimize", "done" *)
             (* or "error"                                                  *)

stepVars == <<config, smooth, steps, old_steps, i, pc>>
vars == <<confVars, stepVars>>

StepsInit ==
  /\ ConfInit
  /\ config = <<>>
  /\ smooth = FALSE
  /\ steps = <<>>
  /\ old_steps = <<>>
  /\ i = 1
  /\ pc = "read"

(* config_file_parse(): one line; a malformed file, without which the      *)
(* daemon does not start.                                                  *)
ReadLine ==
  /\ pc = "read"
  /\ ParseLine
  /\ UNCHANGED stepVars

Reject ==
  /\ pc = "read"
  /\ lineno <= Len(lines)
  /\ LineError
  /\ pc' = "rejected"
  /\ UNCHANGED <<confVars, config, smooth, steps, old_steps, i>>

(* autodim_steps_get() asks for the two items.                             *)
GetConfig ==
  LET value == ConfigGet("BACKLIGHT", "autodim_steps") IN
  /\ pc = "read"
  /\ lineno > Len(lines)
  /\ config' = IF value = Missing THEN Default ELSE value
  /\ smooth' = ConfigGetBool("BACKLIGHT", "autodim_smooth")
  /\ pc' = "parse"
  /\ UNCHANGED <<confVars, steps, old_steps, i>>

(* What the smoothening copies: the steps, or if there is none what lies   *)
(* behind the end of an empty array.                                       *)
CopiedSteps == IF steps = <<>> THEN {<<garbage>> : garbage \in Step} ELSE {steps}

(* Mutant of Refused: equal seconds are accepted.                          *)
RefusedFalling(k) ==
  IF config[k] = BadEntry THEN TRUE
  ELSE k > 1 /\ config[k - 1].second > config[k].second

(* An entry that cannot be parsed, or whose seconds do not grow.           *)
Refused(k) ==
  IF config[k] = BadEntry THEN TRUE
  ELSE k > 1 /\ config[k - 1].second >= config[k].second

(* autodim_steps_get(): one entry, or the end of the loop.                 *)
ParseEntry ==
  /\ pc = "parse"
  /\ i <= Len(config)
  /\ ~Refused(i)
  /\ steps' = Append(steps, config[i])
  /\ i' = i + 1
  /\ UNCHANGED <<confVars, config, smooth, old_steps, pc>>

ParseError ==
  /\ pc = "parse"
  /\ i <= Len(config)
  /\ Refused(i)
  /\ pc' = "error"
  /\ UNCHANGED <<confVars, config, smooth, steps, old_steps, i>>

Parsed ==
  /\ pc = "parse"
  /\ i > Len(config)
  /\ i' = 1
  /\ IF smooth
       THEN /\ old_steps' \in CopiedSteps
            /\ steps' = <<>>
            /\ pc' = "smoothen"
       ELSE /\ pc' = "optimize"
            /\ UNCHANGED <<steps, old_steps>>
  /\ UNCHANGED <<confVars, config, smooth>>

(***************************************************************************)
(* The intermediate steps of two neighbours: one for each second, on the   *)
(* straight line from cur to next.                                         *)
(***************************************************************************)
Interpolate(cur, next, k) ==
  LET secdiff == next.second - cur.second
      perdiff == cur.percent - next.percent
  IN  (2 * (cur.percent * secdiff - perdiff * k) + secdiff) \div (2 * secdiff)

Intermediate(cur, next) ==
  IF next.percent = cur.percent - 1 \/ cur.percent <= next.percent
    THEN <<>>
    ELSE [k \in 1..(next.second - cur.second - 1) |->
            [second  |-> cur.second + k,
             percent |-> Interpolate(cur, next, k)]]

(* autodim_smoothen_steps(): it ends at the last step or at a dark one.    *)
Smoothen ==
  LET cur  == old_steps[i]
      last == i = Len(old_steps) \/ cur.percent = 0
  IN
  /\ pc = "smoothen"
  /\ IF last THEN /\ steps' = Append(steps, cur)
                  /\ i' = 1
                  /\ pc' = "optimize"
             ELSE /\ steps' = Append(steps, cur)
                                \o Intermediate(cur, old_steps[i + 1])
                  /\ i' = i + 1
                  /\ UNCHANGED pc
  /\ UNCHANGED <<confVars, config, smooth, old_steps>>

(* autodim_optimize_steps(): "Remove duplicates"; after a removal the loop *)
(* goes on with the following pair.                                        *)
Optimize ==
  /\ pc = "optimize"
  /\ UNCHANGED <<confVars, config, smooth, old_steps>>
  /\ IF i < Len(steps)
       THEN /\ steps' = IF \/ steps[i].percent = steps[i + 1].percent
                           \/ steps[i].second >= steps[i + 1].second
                          THEN RemoveAt(steps, i + 1) ELSE steps
            /\ i' = i + 1
            /\ UNCHANGED pc
       ELSE pc' = "done" /\ UNCHANGED <<steps, i>>

Next ==
  \/ ReadLine \/ Reject \/ GetConfig
  \/ ParseEntry \/ ParseError \/ Parsed
  \/ Smoothen \/ Optimize

StepsSpec == StepsInit /\ [][Next]_vars /\ WF_vars(Next)

-----------------------------------------------------------------------------
(* The brightness a schedule asks for after t seconds; 100 before the      *)
(* first step.                                                             *)
BrightnessAt(s, t) ==
  LET past == {k \in DOMAIN s : s[k].second <= t}
  IN  IF past = {} THEN 100 ELSE s[CHOOSE k \in past : \A l \in past : l <= k].percent

(***************************************************************************)
(* The seconds of the steps grow strictly, so that autodim_timer_start()   *)
(* never computes a negative delay (Autodim assumes it).  There is a first *)
(* step, whose second it reads without looking at nr_steps, unless         *)
(* autodim_steps is empty in the configuration.                            *)
(***************************************************************************)
StepsGrow ==
  pc = "done" =>
    /\ steps \in Seq([second : Nat, percent : Nat])
    /\ config # <<>> => steps # <<>>
    /\ \A k \in 2..Len(steps) : steps[k - 1].second < steps[k].second

(***************************************************************************)
(* The daemon does not start with a malformed file.  Otherwise the entries *)
(* and the switch are those the file names first, wherever its sections    *)
(* and items fell in the hash tables.                                      *)
(***************************************************************************)
AsWritten ==
  /\ pc = "rejected" => Malformed(lines)
  /\ pc \notin {"read", "rejected"} =>
       /\ ~Malformed(lines)
       /\ \/ Says(lines, "BACKLIGHT", "autodim_steps", config)
          \/ /\ config = Default
             /\ \A k \in DOMAIN lines : lines[k].kind = "item" =>
                  ~Says(lines, "BACKLIGHT", "autodim_steps", lines[k].value)
       /\ smooth = Says(lines, "BACKLIGHT", "autodim_smooth", "yes")

(* No steps are computed of entries that are malformed or do not grow, and *)
(* no others are refused.                                                  *)
RefusesOnlyBad ==
  pc \in {"done", "error"} =>
    (pc = "done") = \A k \in DOMAIN config :
                     /\ config[k] # BadEntry
                     /\ k > 1 => config[k - 1].second < config[k].second

(***************************************************************************)
(* The schedule computed passes through every configured step, up to and   *)
(* including the first dark one: neither smoothening nor removing steps    *)
(* changes the brightness at a configured time.                            *)
(***************************************************************************)
PassesThrough ==
  pc = "done" =>
    \A k \in DOMAIN config :
      (\A l \in 1..(k - 1) : config[l].percent # 0) =>
        BrightnessAt(steps, config[k].second) = config[k].percent

(***************************************************************************)
(* Between two configured steps the brightness never rises above the       *)
(* earlier one nor falls below the later one of a falling pair.            *)
(***************************************************************************)
StaysBetween ==
  pc = "done" =>
    \A k \in 2..Len(config) : \A t \in config[k - 1].second..config[k].second :
      (config[k - 1].percent > config[k].percent
        /\ \A l \in 1..(k - 1) : config[l].percent # 0) =>
          BrightnessAt(steps, t) \in config[k].percent..config[k - 1].percent

(* From the lines of the file to the schedule.                             *)
FollowsConfiguration ==
  AsWritten /\ RefusesOnlyBad /\ PassesThrough /\ StaysBetween
=============================================================================
