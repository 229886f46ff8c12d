--------------------------- MODULE MCAutodimSteps ---------------------------
(* All configurations of up to three entries, with gaps of one to six      *)
(* seconds and drops of one to three percent (steeper and flatter than one *)
(* percent a second); and all files of up to four lines with two sections  *)
(* and items, of which each two share a bucket, some of them malformed.    *)
EXTENDS AutodimSteps

MCStep == [second : {0, 1, 3, 7}, percent : {0, 1, 2, 4}]
S(second, percent) == [second |-> second, percent |-> percent]

Configured ==
  {<<Header("BACKLIGHT"), Item("autodim_steps", c), Item("autodim_smooth", b)>> :
     c \in UNION {[1..n -> MCStep] : n \in 0..3}, b \in {"yes", "no"}}

MCLines ==
  {Blank, NoItem, Header("BACKLIGHT"), Header("BATTERY"),
   Item("autodim_steps", <<S(1, 4), S(3, 2)>>),
   Item("autodim_steps", <<S(1, 2), BadEntry>>),
   Item("autodim_smooth", "yes"), Item("autodim_smooth", "maybe")}

MCFiles == Configured \cup UNION {[1..n -> MCLines] : n \in 0..4}

MCHash ==
  [name \in {"BACKLIGHT", "BATTERY", "autodim_steps", "autodim_smooth"} |->
     IF name \in {"BACKLIGHT", "BATTERY"} THEN 14 ELSE 30]

MCDefault == <<S(0, 4), S(7, 1)>>
=============================================================================
