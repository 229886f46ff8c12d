------------------------ MODULE AutodimSteps_proofs ------------------------
(***************************************************************************)
(* For every configuration file the daemon does what the file says: it     *)
(* finds the items the file names first, refuses a malformed file and      *)
(* entries that do not grow, and computes steps that grow strictly, pass   *)
(* through the configured ones and stay between them.                      *)
(***************************************************************************)
EXTENDS AutodimSteps, ListLemmas

StepRecords == [second : Nat, percent : Nat]

Growing(s) ==
  \A k, l \in 1..Len(s) : k < l => s[k].second < s[l].second

(* All seconds of s are before t.                                          *)
Before(s, t) == \A k \in 1..Len(s) : s[k].second < t

(***************************************************************************)
(* The hash tables: an item of a section is a line of the file, and the    *)
(* numbers in section_hashtab are those of sections.                       *)
(***************************************************************************)
Buckets == {Hash[name] : name \in DOMAIN Hash}

FileItem(k) == [name |-> lines[k].name, value |-> lines[k].value]
FileItems == {FileItem(k) : k \in {l \in 1..Len(lines) : lines[l].kind = "item"}}
FileNames == {lines[k].name : k \in 1..Len(lines)}

Tables ==
  /\ lines \in Files
  /\ lineno \in Nat \ {0}
  /\ sections \in Seq([name : FileNames, item_hashtab : [Buckets -> Seq(FileItems)]])
  /\ section_hashtab \in [Buckets -> Seq(Nat \ {0})]
  /\ \A h \in Buckets : \A k \in 1..Len(section_hashtab[h]) :
       section_hashtab[h][k] <= Len(sections)

(***************************************************************************)
(* The loops.  While they parse, the steps are the entries parsed so far;  *)
(* while they smoothen, the steps end before the configured step that      *)
(* comes next.                                                             *)
(***************************************************************************)
Parsing ==
  /\ i <= Len(config) + 1 /\ Len(steps) = i - 1
  /\ \A k \in 1..(i - 1) : steps[k] = config[k]

Smoothing ==
  /\ old_steps \in Seq(StepRecords) /\ Growing(old_steps)
  /\ i <= Len(old_steps)
  /\ Before(steps, old_steps[i].second)

Loops ==
  /\ config \in Seq(Entries)
  /\ i \in Nat \ {0}
  /\ steps \in Seq(StepRecords) /\ Growing(steps)
  /\ pc \in {"read", "rejected", "parse", "smoothen", "optimize", "done", "error"}
  /\ pc = "read" => i = 1 /\ steps = <<>>
  /\ pc = "parse" => Parsing
  /\ pc = "smoothen" => Smoothing
  /\ pc \in {"optimize", "done"} => (config # <<>> => steps # <<>>)

SInv == Tables /\ Loops
-----------------------------------------------------------------------------
(* Sequences of steps that grow.                                           *)
LEMMA ConcatGrows ==
  ASSUME NEW s \in Seq(StepRecords), NEW t \in Seq(StepRecords), Growing(s), Growing(t),
         \A k \in 1..Len(s), l \in 1..Len(t) : s[k].second < t[l].second
  PROVE  s \o t \in Seq(StepRecords) /\ Growing(s \o t)
<1>. DEFINE c == s \o t
<1>1. /\ c \in Seq(StepRecords) /\ Len(c) = Len(s) + Len(t)
      /\ \A k \in 1..(Len(s) + Len(t)) :
           c[k] = IF k <= Len(s) THEN s[k] ELSE t[k - Len(s)]
  BY ConcatProperties
<1>2. Len(s) \in Nat /\ Len(t) \in Nat
  BY LenProperties
<1>. HIDE DEF c
<1>3. ASSUME NEW k \in 1..Len(c), NEW l \in 1..Len(c), k < l
      PROVE  c[k].second < c[l].second
  <2>1. CASE l <= Len(s)
    <3>1. k \in 1..Len(s) /\ l \in 1..Len(s) /\ c[k] = s[k] /\ c[l] = s[l]
      BY <1>1, <1>2, <1>3, <2>1
    <3>. QED
      BY <1>3, <3>1 DEF Growing
  <2>2. CASE k <= Len(s) /\ ~(l <= Len(s))
    <3>1. k \in 1..Len(s) /\ l - Len(s) \in 1..Len(t) /\ c[k] = s[k] /\ c[l] = t[l - Len(s)]
      BY <1>1, <1>2, <1>3, <2>2
    <3>. QED
      BY <3>1
  <2>3. CASE ~(k <= Len(s))
    <3>1. /\ k - Len(s) \in 1..Len(t) /\ l - Len(s) \in 1..Len(t)
          /\ k - Len(s) < l - Len(s)
          /\ c[k] = t[k - Len(s)] /\ c[l] = t[l - Len(s)]
      BY <1>1, <1>2, <1>3, <2>3
    <3>. QED
      BY <3>1 DEF Growing
  <2>. QED
    BY <1>2, <1>3, <2>1, <2>2, <2>3
<1>4. Growing(c)
  BY <1>3 DEF Growing
<1>. QED
  BY <1>1, <1>4 DEF c

LEMMA AppendGrows ==
  ASSUME NEW s \in Seq(StepRecords), NEW e \in StepRecords, Growing(s), Before(s, e.second)
  PROVE  /\ Append(s, e) \in Seq(StepRecords) /\ Growing(Append(s, e))
         /\ Append(s, e) # <<>>
         /\ \A t \in Nat : e.second < t => Before(Append(s, e), t)
<1>. DEFINE c == Append(s, e)
<1>1. /\ c \in Seq(StepRecords) /\ c # <<>> /\ Len(c) = Len(s) + 1
      /\ \A k \in 1..Len(s) : c[k] = s[k]
      /\ c[Len(s) + 1] = e
  BY AppendProperties
<1>2. Len(s) \in Nat /\ e.second \in Nat
  BY LenProperties DEF StepRecords
<1>. HIDE DEF c
<1>3. Growing(c)
  <2>. SUFFICES ASSUME NEW k \in 1..Len(c), NEW l \in 1..Len(c), k < l
                PROVE  c[k].second < c[l].second
    BY DEF Growing
  <2>1. k \in 1..Len(s) /\ c[k] = s[k]
    BY <1>1, <1>2
  <2>2. CASE l = Len(s) + 1
    BY <1>1, <2>1, <2>2 DEF Before
  <2>3. CASE l # Len(s) + 1
    <3>1. l \in 1..Len(s) /\ c[l] = s[l]
      BY <1>1, <1>2, <2>3
    <3>. QED
      BY <2>1, <3>1 DEF Growing
  <2>. QED
    BY <2>2, <2>3
<1>4. ASSUME NEW t \in Nat, e.second < t PROVE Before(c, t)
  <2>. SUFFICES ASSUME NEW k \in 1..Len(c) PROVE c[k].second < t
    BY DEF Before
  <2>1. CASE k = Len(s) + 1
    BY <1>1, <1>4, <2>1
  <2>2. CASE k # Len(s) + 1
    <3>1. k \in 1..Len(s) /\ c[k] = s[k]
      BY <1>1, <1>2, <2>2
    <3>2. s[k] \in StepRecords
      BY <3>1, ElementOfSeq
    <3>3. s[k].second \in Nat
      BY <3>2 DEF StepRecords
    <3>. QED
      BY <1>2, <1>4, <3>1, <3>3 DEF Before
  <2>. QED
    BY <2>1, <2>2
<1>. QED
  BY <1>1, <1>3, <1>4 DEF c

(* Removing a step leaves the others in order.                             *)
LEMMA RemoveGrows ==
  ASSUME NEW s \in Seq(StepRecords), Growing(s), NEW k \in 1..Len(s), Len(s) > 1
  PROVE  /\ RemoveAt(s, k) \in Seq(StepRecords) /\ Growing(RemoveAt(s, k))
         /\ RemoveAt(s, k) # <<>>
<1>. DEFINE r == RemoveAt(s, k)
<1>1. /\ r \in Seq(StepRecords) /\ Len(r) = Len(s) - 1
      /\ \A j \in 1..(Len(s) - 1) : r[j] = IF j < k THEN s[j] ELSE s[j + 1]
  BY RemoveAtElements
<1>2. Len(s) \in Nat
  BY LenProperties
<1>. HIDE DEF r
<1>3. Growing(r)
  <2>. SUFFICES ASSUME NEW j \in 1..Len(r), NEW l \in 1..Len(r), j < l
                PROVE  r[j].second < r[l].second
    BY DEF Growing
  <2>. DEFINE old(n) == IF n < k THEN n ELSE n + 1
  <2>1. /\ old(j) \in 1..Len(s) /\ old(l) \in 1..Len(s) /\ old(j) < old(l)
        /\ r[j] = s[old(j)] /\ r[l] = s[old(l)]
    BY <1>1, <1>2
  <2>. QED
    BY <2>1 DEF Growing
<1>4. r # <<>>
  BY <1>1, <1>2, EmptySeq
<1>. QED
  BY <1>1, <1>3, <1>4 DEF r

(***************************************************************************)
(* The intermediate steps of a falling pair lie between the two in time,   *)
(* and their percentage is not negative.                                   *)
(***************************************************************************)
LEMMA InterpolateNat ==
  ASSUME NEW cur \in StepRecords, NEW next \in StepRecords,
         next.percent < cur.percent,
         NEW k \in 1..(next.second - cur.second - 1)
  PROVE  Interpolate(cur, next, k) \in Nat
<1>. DEFINE d == next.second - cur.second
            p == cur.percent - next.percent
            n == 2 * (cur.percent * d - p * k) + d
<1>1. /\ cur.percent \in Nat /\ next.percent \in Nat
      /\ cur.second \in Nat /\ next.second \in Nat
  BY DEF StepRecords
<1>2. d \in Nat \ {0} /\ k \in Nat /\ k <= d /\ p \in Nat /\ p <= cur.percent
  BY <1>1
<1>3. Interpolate(cur, next, k) = n \div (2 * d)
  BY DEF Interpolate
<1>. HIDE DEF d, p
<1>4. p * k <= cur.percent * d /\ p * k \in Nat /\ cur.percent * d \in Nat
  <2>1. p * k <= cur.percent * k
    BY <1>1, <1>2, SMT
  <2>2. cur.percent * k <= cur.percent * d
    BY <1>1, <1>2, SMT
  <2>3. p * k \in Nat /\ cur.percent * k \in Nat /\ cur.percent * d \in Nat
    BY <1>1, <1>2, SMT
  <2>. QED
    BY <2>1, <2>2, <2>3
<1>5. n \in Nat /\ 2 * d \in Nat \ {0}
  BY <1>2, <1>4
<1>. HIDE DEF n
<1>6. n \div (2 * d) \in Nat
  <2>. DEFINE e == 2 * d
  <2>1. n \in Nat /\ e \in Nat \ {0}
    BY <1>5
  <2>. HIDE DEF e
  <2>2. n \div e \in Nat
    BY <2>1, SMT
  <2>. QED
    BY <2>2 DEF e
<1>. QED
  BY <1>3, <1>6

LEMMA IntermediateGrows ==
  ASSUME NEW cur \in StepRecords, NEW next \in StepRecords, cur.second < next.second
  PROVE  /\ Intermediate(cur, next) \in Seq(StepRecords)
         /\ Growing(Intermediate(cur, next))
         /\ \A k \in 1..Len(Intermediate(cur, next)) :
              /\ cur.second < Intermediate(cur, next)[k].second
              /\ Intermediate(cur, next)[k].second < next.second
<1>1. CASE Intermediate(cur, next) = <<>>
  BY <1>1 DEF Growing
<1>2. CASE Intermediate(cur, next) # <<>>
  <2>. DEFINE d == next.second - cur.second
              s == [k \in 1..(d - 1) |-> [second  |-> cur.second + k,
                                          percent |-> Interpolate(cur, next, k)]]
  <2>1. next.percent < cur.percent /\ Intermediate(cur, next) = s
    BY <1>2 DEF Intermediate, StepRecords
  <2>2. cur.second \in Nat /\ next.second \in Nat /\ d \in Nat \ {0} /\ d - 1 \in Nat
    BY DEF StepRecords
  <2>3. ASSUME NEW k \in 1..(d - 1)
        PROVE  s[k] \in StepRecords /\ s[k].second = cur.second + k
    <3>1. Interpolate(cur, next, k) \in Nat
      BY <2>1, InterpolateNat
    <3>. QED
      BY <2>2, <3>1 DEF StepRecords
  <2>4. s \in Seq(StepRecords) /\ Len(s) = d - 1
    <3>1. s \in [1..(d - 1) -> StepRecords]
      BY <2>3
    <3>. HIDE DEF s
    <3>. QED
      BY <2>2, <3>1
  <2>. HIDE DEF s
  <2>5. Growing(s)
    BY <2>2, <2>3, <2>4 DEF Growing
  <2>. QED
    BY <2>1, <2>2, <2>3, <2>4, <2>5
<1>. QED
  BY <1>1, <1>2

-----------------------------------------------------------------------------
(* The loops, one iteration each; they leave the tables alone.             *)
LEMMA TablesStay ==
  ASSUME Tables, UNCHANGED confVars
  PROVE  Tables'
  BY DEF Tables, confVars, FileNames, FileItems, FileItem

LEMMA EntryRecord ==
  ASSUME NEW e \in Entries, e # BadEntry
  PROVE  e \in StepRecords
  BY StepValues DEF Entries, StepRecords

LEMMA ParseEntryKeeps ==
  ASSUME Loops, ParseEntry
  PROVE  Loops'
<1>1. /\ pc = "parse" /\ i <= Len(config) /\ ~Refused(i)
      /\ steps' = Append(steps, config[i]) /\ i' = i + 1
      /\ UNCHANGED <<config, pc>>
  BY DEF ParseEntry
<1>2. /\ config \in Seq(Entries) /\ steps \in Seq(StepRecords) /\ Growing(steps)
      /\ i \in Nat \ {0} /\ Parsing
  BY <1>1 DEF Loops
<1>3. Len(config) \in Nat /\ Len(steps) \in Nat
  BY <1>2, LenProperties
<1>4. config[i] \in StepRecords
  <2>1. config[i] \in Entries
    BY <1>1, <1>2, <1>3, ElementOfSeq
  <2>. QED
    BY <1>1, <2>1, EntryRecord DEF Refused
<1>5. Before(steps, config[i].second)
  <2>. SUFFICES ASSUME NEW k \in 1..Len(steps) PROVE steps[k].second < config[i].second
    BY DEF Before
  <2>1. /\ i - 1 \in 1..Len(steps) /\ i > 1 /\ k \in 1..(i - 1)
        /\ steps[i - 1] = config[i - 1]
    BY <1>2, <1>3 DEF Parsing
  <2>2. steps[k] \in StepRecords /\ steps[i - 1] \in StepRecords
    BY <1>2, <2>1, ElementOfSeq
  <2>3. /\ steps[k].second \in Nat /\ steps[i - 1].second \in Nat
        /\ config[i].second \in Nat
    BY <1>4, <2>2 DEF StepRecords
  <2>4. steps[i - 1].second < config[i].second
    BY <1>1, <2>1, <2>3 DEF Refused
  <2>5. k = i - 1 \/ steps[k].second < steps[i - 1].second
    BY <1>2, <1>3, <2>1 DEF Growing
  <2>. QED
    BY <2>3, <2>4, <2>5
<1>6. /\ steps' \in Seq(StepRecords) /\ Growing(steps)'
  BY <1>1, <1>2, <1>4, <1>5, AppendGrows DEF Growing
<1>7. Parsing'
  <2>1. /\ Len(steps') = Len(steps) + 1
        /\ \A k \in 1..Len(steps) : steps'[k] = steps[k]
        /\ steps'[Len(steps) + 1] = config[i]
    BY <1>1, <1>2, <1>4, AppendProperties
  <2>. QED
    BY <1>1, <1>2, <1>3, <2>1 DEF Parsing
<1>. QED
  BY <1>1, <1>2, <1>6, <1>7 DEF Loops

LEMMA ParsedKeeps ==
  ASSUME Loops, Parsed
  PROVE  Loops'
<1>1. /\ pc = "parse" /\ i > Len(config) /\ i' = 1 /\ config' = config
      /\ \/ /\ old_steps' \in CopiedSteps /\ steps' = <<>> /\ pc' = "smoothen"
         \/ pc' = "optimize" /\ UNCHANGED <<steps, old_steps>>
  BY DEF Parsed
<1>2. /\ config \in Seq(Entries) /\ steps \in Seq(StepRecords) /\ Growing(steps)
      /\ i \in Nat \ {0} /\ Parsing
  BY <1>1 DEF Loops
<1>3. Len(config) \in Nat /\ Len(steps) = Len(config)
  BY <1>1, <1>2, LenProperties DEF Parsing
<1>4. CASE pc' = "optimize" /\ UNCHANGED <<steps, old_steps>>
  <2>1. config # <<>> => steps # <<>>
    BY <1>2, <1>3, EmptySeq
  <2>. QED
    BY <1>1, <1>2, <1>4, <2>1 DEF Loops, Growing
<1>5. CASE old_steps' \in CopiedSteps /\ steps' = <<>> /\ pc' = "smoothen"
  <2>1. old_steps' \in Seq(StepRecords) /\ Growing(old_steps)' /\ 1 <= Len(old_steps')
    <3>1. CASE steps = <<>>
      <4>1. PICK garbage \in Step : old_steps' = <<garbage>>
        BY <1>5, <3>1 DEF CopiedSteps
      <4>2. garbage \in StepRecords
        BY StepValues DEF StepRecords
      <4>. QED
        BY <4>1, <4>2 DEF Growing
    <3>2. CASE steps # <<>>
      <4>1. old_steps' = steps /\ Len(steps) \in Nat \ {0}
        BY <1>2, <1>5, <3>2, EmptySeq DEF CopiedSteps
      <4>. QED
        BY <1>2, <4>1 DEF Growing
    <3>. QED
      BY <3>1, <3>2
  <2>2. steps' \in Seq(StepRecords) /\ Growing(steps)' /\ Smoothing'
    BY <1>1, <1>5, <2>1 DEF Growing, Smoothing, Before
  <2>. QED
    BY <1>1, <1>2, <1>5, <2>2 DEF Loops
<1>. QED
  BY <1>1, <1>4, <1>5

LEMMA SmoothenKeeps ==
  ASSUME Loops, Smoothen
  PROVE  Loops'
<1>. DEFINE cur  == old_steps[i]
            next == old_steps[i + 1]
<1>1. /\ pc = "smoothen" /\ UNCHANGED <<config, old_steps>>
      /\ \/ steps' = Append(steps, cur) /\ i' = 1 /\ pc' = "optimize"
         \/ /\ i # Len(old_steps)
            /\ steps' = Append(steps, cur) \o Intermediate(cur, next)
            /\ i' = i + 1 /\ pc' = pc
  BY DEF Smoothen
<1>2. /\ config \in Seq(Entries) /\ steps \in Seq(StepRecords) /\ Growing(steps)
      /\ i \in Nat \ {0} /\ Smoothing
      /\ old_steps \in Seq(StepRecords) /\ Growing(old_steps) /\ i <= Len(old_steps)
      /\ Before(steps, cur.second)
  BY <1>1 DEF Loops, Smoothing
<1>3. Len(old_steps) \in Nat /\ cur \in StepRecords
  BY <1>2, LenProperties, ElementOfSeq
<1>4. /\ Append(steps, cur) \in Seq(StepRecords) /\ Growing(Append(steps, cur))
      /\ Append(steps, cur) # <<>>
      /\ \A t \in Nat : cur.second < t => Before(Append(steps, cur), t)
  BY <1>2, <1>3, AppendGrows
<1>5. CASE steps' = Append(steps, cur) /\ i' = 1 /\ pc' = "optimize"
  BY <1>1, <1>2, <1>4, <1>5 DEF Loops, Growing
<1>6. CASE /\ i # Len(old_steps)
           /\ steps' = Append(steps, cur) \o Intermediate(cur, next)
           /\ i' = i + 1 /\ pc' = pc
  <2>. DEFINE a == Append(steps, cur)
              m == Intermediate(cur, next)
  <2>1. i + 1 \in 1..Len(old_steps) /\ i \in 1..Len(old_steps) /\ next \in StepRecords
    BY <1>2, <1>3, <1>6, ElementOfSeq
  <2>2. cur.second < next.second /\ cur.second \in Nat /\ next.second \in Nat
    BY <1>2, <1>3, <2>1 DEF Growing, StepRecords
  <2>3. /\ m \in Seq(StepRecords) /\ Growing(m)
        /\ \A k \in 1..Len(m) : cur.second < m[k].second /\ m[k].second < next.second
    BY <1>3, <2>1, <2>2, IntermediateGrows
  <2>4. a \in Seq(StepRecords) /\ Growing(a) /\ Before(a, next.second)
    BY <1>4, <2>2
  <2>5. ASSUME NEW k \in 1..Len(a), NEW l \in 1..Len(m) PROVE a[k].second < m[l].second
    <3>1. m[l] \in StepRecords
      BY <2>3, ElementOfSeq
    <3>2. m[l].second \in Nat
      BY <3>1 DEF StepRecords
    <3>3. Before(a, m[l].second)
      BY <1>4, <2>3, <3>2
    <3>. QED
      BY <3>3 DEF Before
  <2>6. steps' = a \o m
    BY <1>6
  <2>. HIDE DEF a, m, cur, next
  <2>7. steps' \in Seq(StepRecords) /\ Growing(a \o m)
    BY <2>3, <2>4, <2>5, <2>6, ConcatGrows
  <2>8. /\ Len(a) \in Nat /\ Len(m) \in Nat /\ Len(steps') = Len(a) + Len(m)
        /\ \A k \in 1..(Len(a) + Len(m)) :
             steps'[k] = IF k <= Len(a) THEN a[k] ELSE m[k - Len(a)]
    BY <2>3, <2>4, <2>6, ConcatProperties, LenProperties
  <2>9. ASSUME NEW k \in 1..Len(steps') PROVE steps'[k].second < next.second
    <3>1. CASE k <= Len(a)
      BY <2>4, <2>8, <3>1 DEF Before
    <3>2. CASE ~(k <= Len(a))
      <4>1. k - Len(a) \in 1..Len(m) /\ steps'[k] = m[k - Len(a)]
        BY <2>8, <3>2
      <4>. QED
        BY <2>3, <4>1
    <3>. QED
      BY <3>1, <3>2
  <2>10. Growing(steps)'
    BY <2>6, <2>7 DEF Growing
  <2>11. old_steps'[i'].second = next.second /\ i' <= Len(old_steps')
    BY <1>1, <1>2, <1>3, <1>6, <2>1 DEF next
  <2>12. Smoothing'
    BY <1>1, <1>2, <2>9, <2>11 DEF Smoothing, Before, Growing
  <2>. QED
    BY <1>1, <1>2, <1>6, <2>7, <2>10, <2>12 DEF Loops
<1>. QED
  BY <1>1, <1>5, <1>6

LEMMA OptimizeKeeps ==
  ASSUME Loops, Optimize
  PROVE  Loops'
<1>1. /\ pc = "optimize" /\ UNCHANGED <<config, old_steps>>
      /\ \/ /\ i < Len(steps) /\ i' = i + 1 /\ pc' = pc
            /\ steps' = RemoveAt(steps, i + 1) \/ steps' = steps
         \/ pc' = "done" /\ UNCHANGED <<steps, i>>
  BY DEF Optimize
<1>2. /\ config \in Seq(Entries) /\ steps \in Seq(StepRecords) /\ Growing(steps)
      /\ i \in Nat \ {0} /\ (config # <<>> => steps # <<>>)
  BY <1>1 DEF Loops
<1>3. CASE UNCHANGED steps
  BY <1>1, <1>2, <1>3 DEF Loops, Growing
<1>4. CASE i < Len(steps) /\ steps' = RemoveAt(steps, i + 1)
  <2>1. i + 1 \in 1..Len(steps) /\ Len(steps) > 1
    BY <1>2, <1>4, LenProperties
  <2>2. /\ steps' \in Seq(StepRecords) /\ Growing(RemoveAt(steps, i + 1))
        /\ steps' # <<>>
    BY <1>2, <1>4, <2>1, RemoveGrows
  <2>3. Growing(steps)'
    BY <1>4, <2>2 DEF Growing
  <2>. QED
    BY <1>1, <1>2, <2>2, <2>3 DEF Loops
<1>. QED
  BY <1>1, <1>3, <1>4

-----------------------------------------------------------------------------
(* The parser: its tables hold lines of the file only.                     *)
SectionRecords == [name : FileNames, item_hashtab : [Buckets -> Seq(FileItems)]]

LEMMA EmptyTables ==
  /\ EmptyHashtab \in [Buckets -> Seq(FileItems)]
  /\ EmptyHashtab \in [Buckets -> Seq(Nat \ {0})]
  /\ \A h \in Buckets : EmptyHashtab[h] = <<>>
<1>1. EmptyHashtab = [h \in Buckets |-> <<>>]
  BY DEF EmptyHashtab, Buckets
<1>2. <<>> \in Seq(FileItems) /\ <<>> \in Seq(Nat \ {0})
  BY EmptySeq
<1>. QED
  BY <1>1, <1>2

LEMMA HashtabAddTypes ==
  ASSUME NEW S, NEW tab \in [Buckets -> Seq(S)], NEW name, NEW e \in S
  PROVE  /\ HashtabAdd(tab, name, e) \in [Buckets -> Seq(S)]
         /\ \A h \in Buckets : \A k \in 1..Len(HashtabAdd(tab, name, e)[h]) :
              \/ HashtabAdd(tab, name, e)[h][k] = e
              \/ /\ k \in 1..Len(tab[h])
                 /\ HashtabAdd(tab, name, e)[h][k] = tab[h][k]
<1>. DEFINE new == HashtabAdd(tab, name, e)
<1>1. \A h \in Buckets : new[h] = IF h = Hash[name] THEN Append(tab[h], e) ELSE tab[h]
  BY DEF HashtabAdd
<1>2. ASSUME NEW h \in Buckets
      PROVE  /\ new[h] \in Seq(S)
             /\ \A k \in 1..Len(new[h]) :
                  new[h][k] = e \/ (k \in 1..Len(tab[h]) /\ new[h][k] = tab[h][k])
  <2>1. CASE h = Hash[name]
    <3>. DEFINE c == tab[h]
    <3>1. c \in Seq(S) /\ Len(c) \in Nat
      BY LenProperties
    <3>. HIDE DEF c
    <3>2. /\ Append(c, e) \in Seq(S) /\ Len(Append(c, e)) = Len(c) + 1
          /\ \A k \in 1..Len(c) : Append(c, e)[k] = c[k]
          /\ Append(c, e)[Len(c) + 1] = e
      BY <3>1, AppendProperties
    <3>3. new[h] = Append(c, e)
      BY <1>1, <2>1 DEF c
    <3>4. ASSUME NEW k \in 1..(Len(c) + 1)
          PROVE  Append(c, e)[k] = e \/ (k \in 1..Len(c) /\ Append(c, e)[k] = c[k])
      BY <3>1, <3>2
    <3>. QED
      BY <3>2, <3>3, <3>4 DEF c
  <2>2. CASE h # Hash[name]
    BY <1>1, <2>2
  <2>. QED
    BY <2>1, <2>2
<1>3. new \in [Buckets -> Seq(S)]
  <2>1. new = [h \in Buckets |-> new[h]]
    BY DEF HashtabAdd
  <2>. HIDE DEF new
  <2>. QED
    BY <1>2, <2>1
<1>. QED
  BY <1>2, <1>3

(* The same for the numbers of sections.                                   *)
LEMMA HashtabAddNumbers ==
  ASSUME NEW tab \in [Buckets -> Seq(Nat \ {0})], NEW name, NEW e \in Nat \ {0}
  PROVE  /\ HashtabAdd(tab, name, e) \in [Buckets -> Seq(Nat \ {0})]
         /\ \A h \in Buckets : \A k \in 1..Len(HashtabAdd(tab, name, e)[h]) :
              \/ HashtabAdd(tab, name, e)[h][k] = e
              \/ /\ k \in 1..Len(tab[h])
                 /\ HashtabAdd(tab, name, e)[h][k] = tab[h][k]
<1>. DEFINE S == Nat \ {0}
<1>1. tab \in [Buckets -> Seq(S)] /\ e \in S
  OBVIOUS
<1>2. /\ HashtabAdd(tab, name, e) \in [Buckets -> Seq(S)]
      /\ \A h \in Buckets : \A k \in 1..Len(HashtabAdd(tab, name, e)[h]) :
           \/ HashtabAdd(tab, name, e)[h][k] = e
           \/ /\ k \in 1..Len(tab[h])
              /\ HashtabAdd(tab, name, e)[h][k] = tab[h][k]
  <2>. HIDE DEF S
  <2>1. HashtabAdd(tab, name, e) \in [Buckets -> Seq(S)]
    BY <1>1, HashtabAddTypes
  <2>2. ASSUME NEW h \in Buckets, NEW k \in 1..Len(HashtabAdd(tab, name, e)[h])
        PROVE  \/ HashtabAdd(tab, name, e)[h][k] = e
               \/ /\ k \in 1..Len(tab[h])
                  /\ HashtabAdd(tab, name, e)[h][k] = tab[h][k]
    BY <1>1, HashtabAddTypes
  <2>. QED
    BY <2>1, <2>2
<1>. QED
  BY <1>2

LEMMA ParseLineKeeps ==
  ASSUME Tables, ParseLine
  PROVE  Tables'
<1>1. /\ lineno <= Len(lines) /\ lineno' = lineno + 1 /\ lines' = lines
      /\ SkipLine \/ NewSection \/ NewItem
  BY DEF ParseLine
<1>2. /\ lines \in Files /\ lineno \in Nat \ {0} /\ Len(lines) \in Nat
      /\ lineno \in 1..Len(lines)
  BY <1>1, FilesAssumption DEF Tables
<1>3. /\ sections \in Seq(SectionRecords)
      /\ section_hashtab \in [Buckets -> Seq(Nat \ {0})]
      /\ Len(sections) \in Nat
  BY LenProperties DEF Tables, SectionRecords
<1>4. FileNames' = FileNames /\ FileItems' = FileItems
  BY <1>1 DEF FileNames, FileItems, FileItem
<1>. DEFINE InBounds == \A h \in Buckets : \A k \in 1..Len(section_hashtab[h]) :
                          section_hashtab[h][k] <= Len(sections)
<1>5. SUFFICES /\ sections' \in Seq(SectionRecords)
               /\ section_hashtab' \in [Buckets -> Seq(Nat \ {0})]
               /\ InBounds'
  BY <1>1, <1>2, <1>4, <1>5 DEF Tables, SectionRecords
<1>6. CASE SkipLine
  BY <1>3, <1>6 DEF SkipLine, Tables
<1>7. CASE NewSection
  <2>. DEFINE name == lines[lineno].name
              s == [name |-> name, item_hashtab |-> EmptyHashtab]
  <2>1. /\ sections' = Append(sections, s)
        /\ section_hashtab' = HashtabAdd(section_hashtab, name, Len(sections'))
    BY <1>7 DEF NewSection
  <2>2. s \in SectionRecords
    BY <1>2, EmptyTables DEF SectionRecords, FileNames
  <2>. HIDE DEF s
  <2>3. sections' \in Seq(SectionRecords) /\ Len(sections') = Len(sections) + 1
    BY <1>3, <2>1, <2>2, AppendProperties
  <2>4. Len(sections') \in Nat \ {0}
    BY <1>3, <2>3
  <2>. DEFINE n == Len(sections')
  <2>5. /\ section_hashtab' \in [Buckets -> Seq(Nat \ {0})]
        /\ \A h \in Buckets : \A k \in 1..Len(section_hashtab'[h]) :
             \/ section_hashtab'[h][k] = n
             \/ /\ k \in 1..Len(section_hashtab[h])
                /\ section_hashtab'[h][k] = section_hashtab[h][k]
    <3>1. n \in Nat \ {0} /\ section_hashtab' = HashtabAdd(section_hashtab, name, n)
      BY <2>1, <2>4
    <3>. HIDE DEF n, name
    <3>. QED
      BY <1>3, <3>1, HashtabAddNumbers
  <2>6. InBounds'
    <3>. SUFFICES ASSUME NEW h \in Buckets, NEW k \in 1..Len(section_hashtab'[h])
                  PROVE  section_hashtab'[h][k] <= n
      OBVIOUS
    <3>1. CASE section_hashtab'[h][k] = n
      BY <2>4, <3>1
    <3>2. CASE k \in 1..Len(section_hashtab[h])
               /\ section_hashtab'[h][k] = section_hashtab[h][k]
      <4>1. section_hashtab[h][k] <= Len(sections)
        BY <3>2 DEF Tables
      <4>2. section_hashtab[h][k] \in Nat \ {0}
        <5>1. section_hashtab[h] \in Seq(Nat \ {0})
          BY <1>3
        <5>. QED
          BY <3>2, <5>1, ElementOfSeq
      <4>. QED
        BY <1>3, <2>3, <3>2, <4>1, <4>2
    <3>. QED
      BY <2>5, <3>1, <3>2
  <2>. QED
    BY <2>3, <2>5, <2>6
<1>8. CASE NewItem
  <2>. DEFINE line == lines[lineno]
              e == [name |-> line.name, value |-> line.value]
              last == Len(sections)
  <2>1. /\ line.kind = "item" /\ sections # <<>> /\ section_hashtab' = section_hashtab
        /\ sections' = [sections EXCEPT ![last].item_hashtab =
                          HashtabAdd(sections[last].item_hashtab, line.name, e)]
    BY <1>8 DEF NewItem
  <2>2. e \in FileItems
    BY <1>2, <2>1 DEF FileItems, FileItem
  <2>3. last \in 1..Len(sections) /\ sections[last] \in SectionRecords
    BY <1>3, <2>1, EmptySeq, ElementOfSeq
  <2>. DEFINE tab == HashtabAdd(sections[last].item_hashtab, line.name, e)
              s == [sections[last] EXCEPT !.item_hashtab = tab]
  <2>4. s \in SectionRecords
    <3>1. sections[last].item_hashtab \in [Buckets -> Seq(FileItems)]
      BY <2>3 DEF SectionRecords
    <3>2. tab \in [Buckets -> Seq(FileItems)]
      <4>. HIDE DEF e, line, last
      <4>. QED
        BY <2>2, <3>1, HashtabAddTypes
    <3>. HIDE DEF tab, last
    <3>. QED
      BY <2>3, <3>2 DEF SectionRecords
  <2>5. sections' = [sections EXCEPT ![last] = s]
    <3>1. sections' = [sections EXCEPT ![last].item_hashtab = tab]
      BY <2>1
    <3>. HIDE DEF tab, last
    <3>. QED
      BY <3>1
  <2>6. sections' \in Seq(SectionRecords) /\ Len(sections') = Len(sections)
    <3>1. s \in SectionRecords
      BY <2>4
    <3>. HIDE DEF s, last
    <3>. QED
      BY <1>3, <2>3, <2>5, <3>1, ExceptSeq
  <2>7. InBounds'
    BY <2>1, <2>6 DEF Tables
  <2>. QED
    BY <1>3, <2>1, <2>6, <2>7
<1>. QED
  BY <1>1, <1>6, <1>7, <1>8

(* The value of autodim_steps is a list of entries.                        *)
LEMMA ConfigGetEntries ==
  ASSUME Tables
  PROVE  \/ ConfigGet("BACKLIGHT", "autodim_steps") = Missing
         \/ ConfigGet("BACKLIGHT", "autodim_steps") \in Seq(Entries)
<1>. DEFINE sb == Hash["BACKLIGHT"]
            ib == Hash["autodim_steps"]
<1>1. sb \in Buckets /\ ib \in Buckets
  BY ConfigurationAssumption DEF Buckets
<1>2. ASSUME NEW S, NEW chain \in Seq(S), NEW P, P \subseteq DOMAIN chain, P # {}
      PROVE  (CHOOSE k \in P : \A l \in P : k <= l) \in 1..Len(chain)
  <2>1. P \subseteq 1..Len(chain) /\ P \in SUBSET Nat
    BY <1>2, LenProperties
  <2>2. \E k \in P : \A l \in P : k <= l
    BY <1>2, <2>1, LeastElement
  <2>3. (CHOOSE k \in P : \A l \in P : k <= l) \in P
    BY <2>2
  <2>. QED
    BY <2>1, <2>3
<1>. DEFINE s == HashtabGet(section_hashtab, "BACKLIGHT", LAMBDA n : sections[n].name)
            items(n) == HashtabGet(sections[n].item_hashtab, "autodim_steps",
                                   LAMBDA e : e.name)
<1>3. ASSUME NEW n \in s PROVE n \in 1..Len(sections)
  <2>. DEFINE chain == section_hashtab[sb]
              found == {k \in DOMAIN chain : sections[chain[k]].name = "BACKLIGHT"}
  <2>1. s = IF found = {} THEN {}
            ELSE {chain[CHOOSE k \in found : \A l \in found : k <= l]}
    BY Zenon DEF HashtabGet
  <2>2. chain \in Seq(Nat \ {0})
    BY <1>1 DEF Tables
  <2>3. found \subseteq DOMAIN chain /\ found # {}
    BY <1>3, <2>1
  <2>. HIDE DEF found, chain
  <2>4. PICK k \in 1..Len(chain) : n = chain[k]
    BY <1>2, <1>3, <2>1, <2>2, <2>3
  <2>5. chain[k] \in Nat \ {0}
    BY <2>2, ElementOfSeq
  <2>6. chain[k] <= Len(sections) /\ Len(sections) \in Nat
    BY <1>1, LenProperties DEF Tables, chain
  <2>. QED
    BY <2>4, <2>5, <2>6
<1>4. ASSUME NEW n \in 1..Len(sections), NEW e \in items(n)
      PROVE  e.value \in Seq(Entries)
  <2>. DEFINE chain == sections[n].item_hashtab[ib]
              found == {k \in DOMAIN chain : chain[k].name = "autodim_steps"}
  <2>1. items(n) = IF found = {} THEN {}
                   ELSE {chain[CHOOSE k \in found : \A l \in found : k <= l]}
    BY Zenon DEF HashtabGet
  <2>2. chain \in Seq(FileItems)
    <3>1. sections \in Seq(SectionRecords)
      BY DEF Tables, SectionRecords
    <3>2. sections[n] \in SectionRecords
      BY <3>1, ElementOfSeq
    <3>. QED
      BY <1>1, <3>2 DEF SectionRecords
  <2>3. found # {}
    BY <1>4, <2>1
  <2>4. PICK k \in found : e = chain[k]
    <3>. DEFINE least == CHOOSE k \in found : \A l \in found : k <= l
    <3>1. found \in SUBSET Nat
      BY <2>2, LenProperties
    <3>. HIDE DEF found
    <3>2. least \in found
      BY <2>3, <3>1, LeastElement
    <3>3. e = chain[least]
      BY <1>4, <2>1, <2>3
    <3>. QED
      BY <3>2, <3>3
  <2>5. e \in FileItems /\ e.name = "autodim_steps"
    <3>1. k \in 1..Len(chain) /\ chain[k].name = "autodim_steps"
      BY <2>2, <2>4, LenProperties
    <3>. HIDE DEF chain
    <3>. QED
      BY <2>2, <2>4, <3>1, ElementOfSeq
  <2>6. PICK l \in 1..Len(lines) : lines[l].kind = "item" /\ e = FileItem(l)
    BY <2>5 DEF FileItems
  <2>7. e.name = lines[l].name /\ e.value = lines[l].value
    BY <2>6 DEF FileItem
  <2>8. lines \in Files /\ l \in DOMAIN lines
    BY FilesAssumption DEF Tables
  <2>. QED
    BY <2>5, <2>6, <2>7, <2>8, ConfigurationAssumption
<1>. DEFINE all == UNION {items(n) : n \in s}
<1>5. ConfigGet("BACKLIGHT", "autodim_steps") =
        IF all = {} THEN Missing ELSE (CHOOSE e \in all : TRUE).value
  BY Zenon DEF ConfigGet
<1>6. ASSUME NEW e \in all PROVE e.value \in Seq(Entries)
  <2>1. PICK n \in s : e \in items(n)
    BY <1>6
  <2>. HIDE DEF s, items
  <2>. QED
    BY <1>3, <1>4, <2>1
<1>. HIDE DEF all
<1>. QED
  BY <1>5, <1>6

-----------------------------------------------------------------------------
(* The steps of the specification.                                         *)
LEMMA GetConfigKeeps ==
  ASSUME SInv, GetConfig
  PROVE  SInv'
<1>. DEFINE value == ConfigGet("BACKLIGHT", "autodim_steps")
<1>1. /\ pc = "read" /\ pc' = "parse" /\ UNCHANGED <<steps, i>>
      /\ config' = IF value = Missing THEN Default ELSE value
      /\ Tables /\ Loops /\ Tables'
  BY TablesStay DEF GetConfig, SInv
<1>2. value = Missing \/ value \in Seq(Entries)
  BY <1>1, ConfigGetEntries
<1>. HIDE DEF value
<1>3. config' \in Seq(Entries)
  BY <1>1, <1>2, ConfigurationAssumption
<1>4. Len(config') \in Nat
  BY <1>3, LenProperties
<1>5. i = 1 /\ steps = <<>> /\ steps \in Seq(StepRecords) /\ Growing(steps)
  BY <1>1 DEF Loops
<1>6. Parsing' /\ Growing(steps)'
  BY <1>1, <1>4, <1>5 DEF Parsing, Growing
<1>. QED
  BY <1>1, <1>3, <1>5, <1>6 DEF SInv, Loops

LEMMA StepsInitial == StepsInit => SInv
<1>. SUFFICES ASSUME StepsInit PROVE SInv
  OBVIOUS
<1>1. Tables
  <2>1. /\ lines \in Files /\ lineno = 1 /\ sections = <<>>
        /\ section_hashtab = EmptyHashtab
    BY DEF StepsInit, ConfInit
  <2>2. sections \in Seq([name : FileNames, item_hashtab : [Buckets -> Seq(FileItems)]])
    BY <2>1, EmptySeq
  <2>. QED
    BY <2>1, <2>2, EmptyTables, EmptySeq DEF Tables
<1>2. Loops
  <2>1. /\ config = <<>> /\ steps = <<>> /\ i = 1 /\ pc = "read"
    BY DEF StepsInit
  <2>2. config \in Seq(Entries) /\ steps \in Seq(StepRecords)
    BY <2>1, EmptySeq
  <2>. QED
    BY <2>1, <2>2 DEF Loops, Growing
<1>. QED
  BY <1>1, <1>2 DEF SInv

LEMMA StepsNext == SInv /\ [Next]_vars => SInv'
<1>. SUFFICES ASSUME SInv, [Next]_vars PROVE SInv'
  OBVIOUS
<1>. USE DEF SInv
<1>1. CASE ReadLine
  <2>1. ParseLine /\ UNCHANGED stepVars
    BY <1>1 DEF ReadLine
  <2>2. Tables'
    BY <2>1, ParseLineKeeps
  <2>3. Loops'
    BY <2>1 DEF stepVars, Loops, Growing, Parsing, Smoothing, Before
  <2>. QED
    BY <2>2, <2>3
<1>2. CASE Reject
  <2>1. UNCHANGED <<confVars, config, steps, i>> /\ pc' = "rejected"
    BY <1>2 DEF Reject
  <2>. QED
    BY <2>1, TablesStay DEF Loops, Growing
<1>3. CASE GetConfig
  BY <1>3, GetConfigKeeps
<1>4. CASE ParseEntry
  BY <1>4, TablesStay, ParseEntryKeeps DEF ParseEntry
<1>5. CASE ParseError
  <2>1. UNCHANGED <<confVars, config, steps, i>> /\ pc' = "error"
    BY <1>5 DEF ParseError
  <2>. QED
    BY <2>1, TablesStay DEF Loops, Growing
<1>6. CASE Parsed
  BY <1>6, TablesStay, ParsedKeeps DEF Parsed
<1>7. CASE Smoothen
  BY <1>7, TablesStay, SmoothenKeeps DEF Smoothen
<1>8. CASE Optimize
  BY <1>8, TablesStay, OptimizeKeeps DEF Optimize
<1>9. CASE UNCHANGED vars
  <2>1. UNCHANGED confVars /\ UNCHANGED stepVars
    BY <1>9 DEF vars
  <2>2. Loops'
    BY <2>1 DEF stepVars, Loops, Growing, Parsing, Smoothing, Before
  <2>. QED
    BY <2>1, <2>2, TablesStay
<1>. QED
  BY <1>1, <1>2, <1>3, <1>4, <1>5, <1>6, <1>7, <1>8, <1>9 DEF Next

(***************************************************************************)
(* The invariant: the tables hold what the file says, and in every loop of *)
(* autodim_steps_get() the steps collected so far grow and end before the  *)
(* step that comes next.                                                   *)
(***************************************************************************)
THEOREM StepsInvariant == StepsSpec => []SInv
  BY StepsInitial, StepsNext, PTL DEF StepsSpec

(***************************************************************************)
(* The schedule that autodim_steps_get() returns grows strictly and, with  *)
(* entries in the configuration, is not empty.                             *)
(***************************************************************************)
THEOREM StepsAreGrowing == StepsSpec => []StepsGrow
<1>1. SInv => StepsGrow
  <2>. SUFFICES ASSUME Loops, pc = "done"
                PROVE  /\ steps \in Seq([second : Nat, percent : Nat])
                       /\ config # <<>> => steps # <<>>
                       /\ \A k \in 2..Len(steps) : steps[k - 1].second < steps[k].second
    BY DEF SInv, StepsGrow
  <2>1. /\ steps \in Seq(StepRecords) /\ Growing(steps)
        /\ config # <<>> => steps # <<>>
    BY DEF Loops
  <2>2. Len(steps) \in Nat
    BY <2>1, LenProperties
  <2>3. ASSUME NEW k \in 2..Len(steps) PROVE steps[k - 1].second < steps[k].second
    <3>1. k - 1 \in 1..Len(steps) /\ k \in 1..Len(steps) /\ k - 1 < k
      BY <2>2
    <3>. QED
      BY <2>1, <3>1 DEF Growing
  <2>. QED
    BY <2>1, <2>3 DEF StepRecords
<1>. QED
  BY <1>1, StepsInvariant, PTL
-----------------------------------------------------------------------------
(***************************************************************************)
(* What a schedule s shows: p is the percentage of the last step that is   *)
(* not after t.                                                            *)
(***************************************************************************)
Shows(s, t, p) ==
  \E k \in 1..Len(s) :
    /\ s[k].second <= t /\ s[k].percent = p
    /\ \A l \in 1..Len(s) : k < l => t < s[l].second

LEMMA ShowsBrightness ==
  ASSUME NEW s \in Seq(StepRecords), NEW t \in Nat, NEW p, Shows(s, t, p)
  PROVE  BrightnessAt(s, t) = p
<1>. DEFINE past == {k \in DOMAIN s : s[k].second <= t}
            last == CHOOSE k \in past : \A l \in past : l <= k
<1>1. BrightnessAt(s, t) = IF past = {} THEN 100 ELSE s[last].percent
  BY Zenon DEF BrightnessAt
<1>2. Len(s) \in Nat /\ DOMAIN s = 1..Len(s)
  BY LenProperties
<1>3. \A k \in 1..Len(s) : s[k].second \in Nat
  <2>. SUFFICES ASSUME NEW k \in 1..Len(s) PROVE s[k].second \in Nat
    OBVIOUS
  <2>1. s[k] \in StepRecords
    BY ElementOfSeq
  <2>. QED
    BY <2>1 DEF StepRecords
<1>4. PICK k \in 1..Len(s) : /\ s[k].second <= t /\ s[k].percent = p
                             /\ \A l \in 1..Len(s) : k < l => t < s[l].second
  BY DEF Shows
<1>5. k \in past /\ \A l \in past : l \in Nat /\ l <= k
  BY <1>2, <1>3, <1>4
<1>. HIDE DEF past
<1>6. last \in past /\ \A l \in past : l <= last
  BY <1>5
<1>. HIDE DEF last
<1>7. last = k
  BY <1>5, <1>6
<1>. QED
  BY <1>1, <1>4, <1>5, <1>7

(* Later steps hide nothing, and show themselves.                          *)
LEMMA ShowsConcat ==
  ASSUME NEW s \in Seq(StepRecords), NEW u \in Seq(StepRecords), NEW t \in Nat, NEW p,
         Shows(s, t, p), \A k \in 1..Len(u) : t < u[k].second
  PROVE  Shows(s \o u, t, p)
<1>. DEFINE c == s \o u
<1>1. /\ Len(s) \in Nat /\ Len(u) \in Nat /\ Len(c) = Len(s) + Len(u)
      /\ \A k \in 1..(Len(s) + Len(u)) :
           c[k] = IF k <= Len(s) THEN s[k] ELSE u[k - Len(s)]
  BY ConcatProperties, LenProperties
<1>. HIDE DEF c
<1>2. PICK k \in 1..Len(s) : /\ s[k].second <= t /\ s[k].percent = p
                             /\ \A l \in 1..Len(s) : k < l => t < s[l].second
  BY DEF Shows
<1>3. k \in 1..Len(c) /\ c[k] = s[k]
  BY <1>1
<1>4. ASSUME NEW l \in 1..Len(c), k < l PROVE t < c[l].second
  <2>1. CASE l <= Len(s)
    BY <1>1, <1>2, <1>4, <2>1
  <2>2. CASE ~(l <= Len(s))
    <3>1. l - Len(s) \in 1..Len(u) /\ c[l] = u[l - Len(s)]
      BY <1>1, <2>2
    <3>. QED
      BY <3>1
  <2>. QED
    BY <2>1, <2>2
<1>5. Shows(c, t, p)
  BY <1>2, <1>3, <1>4 DEF Shows
<1>. QED
  BY <1>5 DEF c

LEMMA ShowsLater ==
  ASSUME NEW s \in Seq(StepRecords), NEW u \in Seq(StepRecords), NEW t \in Nat, NEW p,
         Shows(u, t, p)
  PROVE  Shows(s \o u, t, p)
<1>. DEFINE c == s \o u
            n == Len(s)
<1>1. /\ n \in Nat /\ Len(u) \in Nat /\ Len(c) = n + Len(u)
      /\ \A k \in 1..(n + Len(u)) : c[k] = IF k <= n THEN s[k] ELSE u[k - n]
  BY ConcatProperties, LenProperties
<1>. HIDE DEF c, n
<1>2. PICK k \in 1..Len(u) : /\ u[k].second <= t /\ u[k].percent = p
                             /\ \A l \in 1..Len(u) : k < l => t < u[l].second
  BY DEF Shows
<1>3. k + n \in 1..Len(c) /\ c[k + n] = u[k]
  BY <1>1
<1>4. ASSUME NEW l \in 1..Len(c), k + n < l PROVE t < c[l].second
  <2>1. l - n \in 1..Len(u) /\ k < l - n /\ c[l] = u[l - n]
    BY <1>1, <1>4
  <2>. QED
    BY <1>2, <2>1
<1>5. Shows(c, t, p)
  BY <1>2, <1>3, <1>4 DEF Shows
<1>. QED
  BY <1>5 DEF c

LEMMA ShowsAppended ==
  ASSUME NEW s \in Seq(StepRecords), NEW e \in StepRecords, NEW t \in Nat, NEW p
  PROVE  /\ Shows(s, t, p) /\ t < e.second => Shows(Append(s, e), t, p)
         /\ e.second <= t => Shows(Append(s, e), t, e.percent)
<1>. DEFINE c == Append(s, e)
<1>1. /\ Len(s) \in Nat /\ Len(c) = Len(s) + 1
      /\ \A k \in 1..Len(s) : c[k] = s[k]
      /\ c[Len(s) + 1] = e
  BY AppendProperties, LenProperties
<1>. HIDE DEF c
<1>2. ASSUME Shows(s, t, p), t < e.second PROVE Shows(c, t, p)
  <2>1. PICK k \in 1..Len(s) : /\ s[k].second <= t /\ s[k].percent = p
                               /\ \A l \in 1..Len(s) : k < l => t < s[l].second
    BY <1>2 DEF Shows
  <2>2. k \in 1..Len(c) /\ c[k] = s[k]
    BY <1>1
  <2>3. ASSUME NEW l \in 1..Len(c), k < l PROVE t < c[l].second
    <3>1. l \in 1..Len(s) \/ l = Len(s) + 1
      BY <1>1
    <3>. QED
      BY <1>1, <1>2, <2>1, <2>3, <3>1
  <2>. QED
    BY <2>1, <2>2, <2>3 DEF Shows
<1>3. ASSUME e.second <= t PROVE Shows(c, t, e.percent)
  <2>1. Len(s) + 1 \in 1..Len(c) /\ \A l \in 1..Len(c) : ~(Len(s) + 1 < l)
    BY <1>1
  <2>. QED
    BY <1>1, <1>3, <2>1 DEF Shows
<1>. QED
  BY <1>2, <1>3 DEF c

(* Removing a step with the percentage of the one before changes nothing.  *)
LEMMA ShowsRemoved ==
  ASSUME NEW s \in Seq(StepRecords), Growing(s), NEW k \in 1..(Len(s) - 1),
         s[k].percent = s[k + 1].percent, NEW t \in Nat, NEW p, Shows(s, t, p)
  PROVE  Shows(RemoveAt(s, k + 1), t, p)
<1>. DEFINE r == RemoveAt(s, k + 1)
<1>1. Len(s) \in Nat /\ k + 1 \in 1..Len(s) /\ k \in 1..Len(s)
  BY LenProperties
<1>2. /\ Len(r) = Len(s) - 1
      /\ \A j \in 1..(Len(s) - 1) : r[j] = IF j < k + 1 THEN s[j] ELSE s[j + 1]
  BY <1>1, RemoveAtElements
<1>. HIDE DEF r
<1>3. PICK j \in 1..Len(s) : /\ s[j].second <= t /\ s[j].percent = p
                             /\ \A l \in 1..Len(s) : j < l => t < s[l].second
  BY DEF Shows
<1>4. \A l \in 1..Len(s) : s[l].second \in Nat
  <2>. SUFFICES ASSUME NEW l \in 1..Len(s) PROVE s[l].second \in Nat
    OBVIOUS
  <2>1. s[l] \in StepRecords
    BY ElementOfSeq
  <2>. QED
    BY <2>1 DEF StepRecords
<1>5. ASSUME j <= k PROVE Shows(r, t, p)
  <2>1. j \in 1..Len(r) /\ r[j] = s[j]
    BY <1>1, <1>2, <1>5
  <2>2. ASSUME NEW l \in 1..Len(r), j < l PROVE t < r[l].second
    <3>1. /\ l \in 1..Len(s) /\ l + 1 \in 1..Len(s) /\ j < l + 1
          /\ r[l] = s[l] \/ r[l] = s[l + 1]
      BY <1>1, <1>2, <2>2
    <3>. QED
      BY <1>3, <2>2, <3>1
  <2>. QED
    BY <1>3, <2>1, <2>2 DEF Shows
<1>6. ASSUME j = k + 1 PROVE Shows(r, t, p)
  <2>1. k \in 1..Len(r) /\ r[k] = s[k]
    BY <1>1, <1>2
  <2>2. s[k].second <= t /\ s[k].percent = p
    <3>1. s[k].second < s[k + 1].second
      BY <1>1 DEF Growing
    <3>. QED
      BY <1>1, <1>3, <1>4, <1>6, <3>1
  <2>3. ASSUME NEW l \in 1..Len(r), k < l PROVE t < r[l].second
    <3>1. l + 1 \in 1..Len(s) /\ j < l + 1 /\ r[l] = s[l + 1]
      BY <1>1, <1>2, <1>6, <2>3
    <3>. QED
      BY <1>3, <3>1
  <2>. QED
    BY <2>1, <2>2, <2>3 DEF Shows
<1>7. ASSUME k + 1 < j PROVE Shows(r, t, p)
  <2>1. j - 1 \in 1..Len(r) /\ r[j - 1] = s[j]
    BY <1>1, <1>2, <1>7
  <2>2. ASSUME NEW l \in 1..Len(r), j - 1 < l PROVE t < r[l].second
    <3>1. l + 1 \in 1..Len(s) /\ j < l + 1 /\ r[l] = s[l + 1]
      BY <1>1, <1>2, <1>7, <2>2
    <3>. QED
      BY <1>3, <3>1
  <2>. QED
    BY <1>3, <2>1, <2>2 DEF Shows
<1>8. Shows(r, t, p)
  BY <1>1, <1>5, <1>6, <1>7
<1>. QED
  BY <1>8 DEF r

(* The interpolation stays between the two percentages.                    *)
LEMMA InterpolateBetween ==
  ASSUME NEW cur \in StepRecords, NEW next \in StepRecords,
         next.percent < cur.percent,
         NEW k \in 1..(next.second - cur.second - 1)
  PROVE  Interpolate(cur, next, k) \in next.percent..cur.percent
<1>. DEFINE d == next.second - cur.second
            p == cur.percent - next.percent
            n == 2 * (cur.percent * d - p * k) + d
<1>1. /\ cur.percent \in Nat /\ next.percent \in Nat
      /\ cur.second \in Nat /\ next.second \in Nat
  BY DEF StepRecords
<1>2. /\ d \in Nat \ {0} /\ k \in Nat /\ k <= d /\ p \in Nat
      /\ next.percent = cur.percent - p
  BY <1>1
<1>3. Interpolate(cur, next, k) = n \div (2 * d)
  BY DEF Interpolate
<1>. HIDE DEF d, p
<1>4. /\ p * k \in Nat /\ p * k <= p * d /\ p * d \in Nat /\ cur.percent * d \in Nat
  BY <1>1, <1>2, SMT
<1>5. next.percent * d = cur.percent * d - p * d
  BY <1>1, <1>2, SMT
<1>6. /\ n \in Int /\ 2 * (next.percent * d) <= n
      /\ n < 2 * (cur.percent * d) + 2 * d
  BY <1>1, <1>2, <1>4, <1>5
<1>. HIDE DEF n
<1>. DEFINE e == 2 * d
<1>7. e \in Nat \ {0} /\ next.percent * e <= n /\ n < (cur.percent + 1) * e
  <2>1. next.percent * e = 2 * (next.percent * d)
    BY <1>1, <1>2, SMT
  <2>2. (cur.percent + 1) * e = 2 * (cur.percent * d) + 2 * d
    BY <1>1, <1>2, SMT
  <2>. QED
    BY <1>2, <1>6, <2>1, <2>2
<1>. HIDE DEF e
<1>8. n \div e \in Int /\ next.percent <= n \div e /\ n \div e <= cur.percent
  <2>. DEFINE q == n \div e
  <2>1. q \in Int /\ e * q <= n /\ n < e * q + e
    BY <1>6, <1>7, SMT
  <2>. HIDE DEF q
  <2>2. ASSUME q < next.percent PROVE FALSE
    <3>1. q + 1 <= next.percent
      BY <1>1, <2>1, <2>2
    <3>2. e * (q + 1) <= e * next.percent
      BY <1>1, <1>7, <2>1, <3>1, SMT
    <3>3. e * (q + 1) = e * q + e /\ e * next.percent = next.percent * e
      BY <1>1, <1>7, <2>1, SMT
    <3>. QED
      BY <1>1, <1>6, <1>7, <2>1, <3>2, <3>3, SMT
  <2>3. ASSUME cur.percent < q PROVE FALSE
    <3>1. cur.percent + 1 <= q
      BY <1>1, <2>1, <2>3
    <3>2. (cur.percent + 1) * e <= e * q
      BY <1>1, <1>7, <2>1, <3>1, SMT
    <3>. QED
      BY <1>1, <1>6, <1>7, <2>1, <3>2, SMT
  <2>. QED
    BY <1>1, <2>1, <2>2, <2>3 DEF q
<1>. QED
  BY <1>1, <1>3, <1>8 DEF e

-----------------------------------------------------------------------------
(***************************************************************************)
(* The loops and the configured steps c: the first n are well-formed and   *)
(* grow; none of the first n is dark; the schedule s shows the first n at  *)
(* their times, and stays between them.                                    *)
(***************************************************************************)
Accepted(c, n) ==
  /\ \A k \in 1..n : c[k] # BadEntry /\ c[k] \in StepRecords
  /\ \A k, l \in 1..n : k < l => c[k].second < c[l].second

Lit(c, n) == \A l \in 1..n : c[l].percent # 0

Through(s, c, n) ==
  \A k \in 1..n : Lit(c, k - 1) => Shows(s, c[k].second, c[k].percent)

Between(s, c, n) ==
  \A k \in 2..n :
    (Lit(c, k - 1) /\ c[k].percent < c[k - 1].percent) =>
      \A t \in c[k - 1].second..(c[k].second - 1) :
        \E p \in c[k].percent..c[k - 1].percent : Shows(s, t, p)

Schedule ==
  /\ pc \in {"parse", "error"} => i <= Len(config) + 1 /\ Accepted(config, i - 1)
  /\ pc = "error" => i <= Len(config) /\ Refused(i)
  /\ pc \in {"smoothen", "optimize", "done"} => Accepted(config, Len(config))
  /\ pc = "smoothen" /\ config # <<>> =>
       /\ old_steps = config
       /\ Lit(config, i - 1)
       /\ Through(steps, config, i - 1) /\ Between(steps, config, i)
  /\ pc \in {"optimize", "done"} =>
       Through(steps, config, Len(config)) /\ Between(steps, config, Len(config))

(* A step of the configuration has natural numbers.                        *)
LEMMA AcceptedNat ==
  ASSUME NEW c, NEW n \in Nat, Accepted(c, n), NEW k \in 1..n
  PROVE  c[k] \in StepRecords /\ c[k].second \in Nat /\ c[k].percent \in Nat
  BY DEF Accepted, StepRecords

(* What keeps everything a schedule shows keeps that it follows.           *)
LEMMA StillFollows ==
  ASSUME NEW c, NEW n \in Nat, NEW m \in Nat, m <= n, Accepted(c, n),
         NEW s, NEW r, NEW T,
         \A k \in 1..m : c[k].second \in T,
         \A k \in 2..n : \A t \in c[k - 1].second..(c[k].second - 1) : t \in T,
         \A t \in T, p \in Nat : Shows(s, t, p) => Shows(r, t, p)
  PROVE  /\ Through(s, c, m) => Through(r, c, m)
         /\ Between(s, c, n) => Between(r, c, n)
<1>1. ASSUME Through(s, c, m), NEW k \in 1..m, Lit(c, k - 1)
      PROVE  Shows(r, c[k].second, c[k].percent)
  <2>1. c[k].second \in T /\ c[k].percent \in Nat
    BY AcceptedNat
  <2>. QED
    BY <1>1, <2>1 DEF Through
<1>2. ASSUME Between(s, c, n), NEW k \in 2..n, Lit(c, k - 1),
             c[k].percent < c[k - 1].percent,
             NEW t \in c[k - 1].second..(c[k].second - 1)
      PROVE  \E p \in c[k].percent..c[k - 1].percent : Shows(r, t, p)
  <2>1. PICK p \in c[k].percent..c[k - 1].percent : Shows(s, t, p)
    BY <1>2 DEF Between
  <2>2. k \in 1..n /\ k - 1 \in 1..n
    OBVIOUS
  <2>3. c[k].percent \in Nat /\ c[k - 1].percent \in Nat
    BY <2>2, AcceptedNat
  <2>4. p \in Nat /\ t \in T
    BY <2>3
  <2>. QED
    BY <2>1, <2>4
<1>. QED
  BY <1>1, <1>2 DEF Through, Between

(* Without smoothening: the configured steps themselves.                   *)
LEMMA ConfiguredFollows ==
  ASSUME NEW c \in Seq(StepRecords), Accepted(c, Len(c))
  PROVE  Through(c, c, Len(c)) /\ Between(c, c, Len(c))
<1>1. Len(c) \in Nat
  BY LenProperties
<1>2. ASSUME NEW k \in 1..Len(c) PROVE Shows(c, c[k].second, c[k].percent)
  <2>1. c[k].second \in Nat
    BY <1>1, AcceptedNat
  <2>2. \A l \in 1..Len(c) : k < l => c[k].second < c[l].second
    BY DEF Accepted
  <2>. QED
    BY <2>1, <2>2 DEF Shows
<1>3. ASSUME NEW k \in 2..Len(c), c[k].percent < c[k - 1].percent,
             NEW t \in c[k - 1].second..(c[k].second - 1)
      PROVE  \E p \in c[k].percent..c[k - 1].percent : Shows(c, t, p)
  <2>1. k \in 1..Len(c) /\ k - 1 \in 1..Len(c)
    BY <1>1
  <2>2. /\ c[k].second \in Nat /\ c[k].percent \in Nat
        /\ c[k - 1].second \in Nat /\ c[k - 1].percent \in Nat
    BY <1>1, <2>1, AcceptedNat
  <2>3. ASSUME NEW l \in 1..Len(c), k - 1 < l PROVE t < c[l].second
    <3>1. c[l].second \in Nat
      BY <1>1, AcceptedNat
    <3>2. k = l \/ c[k].second < c[l].second
      <4>1. k = l \/ k < l
        BY <2>3
      <4>. QED
        BY <2>1, <4>1 DEF Accepted
    <3>. QED
      BY <2>2, <3>1, <3>2
  <2>4. c[k - 1].second <= t /\ c[k - 1].percent \in c[k].percent..c[k - 1].percent
    BY <1>3, <2>2
  <2>5. Shows(c, t, c[k - 1].percent)
    BY <2>1, <2>3, <2>4 DEF Shows
  <2>. QED
    BY <2>4, <2>5
<1>. QED
  BY <1>2, <1>3 DEF Through, Between

(* The step cur is appended.                                               *)
LEMMA AppendFollows ==
  ASSUME NEW c, NEW n \in Nat \ {0}, Accepted(c, n),
         NEW s \in Seq(StepRecords),
         Through(s, c, n - 1), Between(s, c, n)
  PROVE  Through(Append(s, c[n]), c, n) /\ Between(Append(s, c[n]), c, n)
<1>. DEFINE cur == c[n]
            r == Append(s, cur)
            T == {t \in Nat : t < cur.second}
<1>1. cur \in StepRecords /\ cur.second \in Nat /\ cur.percent \in Nat
  BY AcceptedNat
<1>2. \A t \in T, p \in Nat : Shows(s, t, p) => Shows(r, t, p)
  <2>. HIDE DEF cur
  <2>. QED
    BY <1>1, ShowsAppended
<1>3. \A k \in 1..(n - 1) : c[k].second \in T
  <2>. SUFFICES ASSUME NEW k \in 1..(n - 1) PROVE c[k].second \in T
    OBVIOUS
  <2>1. k \in 1..n /\ k < n /\ n \in 1..n
    OBVIOUS
  <2>2. c[k].second \in Nat /\ c[k].second < cur.second
    BY <2>1, AcceptedNat DEF Accepted
  <2>. QED
    BY <2>2
<1>4. \A k \in 2..n : \A t \in c[k - 1].second..(c[k].second - 1) : t \in T
  <2>. SUFFICES ASSUME NEW k \in 2..n, NEW t \in c[k - 1].second..(c[k].second - 1)
                PROVE  t \in T
    OBVIOUS
  <2>1. k \in 1..n /\ k - 1 \in 1..n /\ n \in 1..n
    OBVIOUS
  <2>2. /\ c[k].second \in Nat /\ c[k - 1].second \in Nat
        /\ k = n \/ c[k].second < cur.second
    <3>1. k = n \/ k < n
      BY <2>1
    <3>2. k < n => c[k].second < cur.second
      BY <2>1 DEF Accepted
    <3>. QED
      BY <2>1, <3>1, <3>2, AcceptedNat
  <2>. QED
    BY <1>1, <2>2
<1>5. Shows(r, cur.second, cur.percent)
  <2>. HIDE DEF cur
  <2>. QED
    BY <1>1, ShowsAppended
<1>. HIDE DEF r, T
<1>6. Through(r, c, n - 1) /\ Between(r, c, n)
  <2>1. Accepted(c, n - 1) /\ n - 1 \in Nat /\ n - 1 <= n
    BY DEF Accepted
  <2>. QED
    BY <1>2, <1>3, <1>4, <2>1, StillFollows
<1>7. Through(r, c, n)
  <2>. SUFFICES ASSUME NEW k \in 1..n, Lit(c, k - 1)
                PROVE  Shows(r, c[k].second, c[k].percent)
    BY DEF Through
  <2>1. k = n \/ k \in 1..(n - 1)
    OBVIOUS
  <2>. QED
    BY <1>5, <1>6, <2>1 DEF Through, cur
<1>. QED
  BY <1>6, <1>7 DEF r

(* The intermediate steps follow: they show nothing outside of the pair.   *)
LEMMA IntermediateShows ==
  ASSUME NEW cur \in StepRecords, NEW next \in StepRecords,
         cur.second < next.second, next.percent < cur.percent,
         NEW a \in Seq(StepRecords),
         \A t \in Nat : cur.second <= t => Shows(a, t, cur.percent),
         NEW t \in cur.second..(next.second - 1)
  PROVE  \E p \in next.percent..cur.percent :
           Shows(a \o Intermediate(cur, next), t, p)
<1>. DEFINE m == Intermediate(cur, next)
            d == next.second - cur.second
<1>1. /\ cur.second \in Nat /\ next.second \in Nat /\ t \in Nat /\ cur.second <= t
      /\ cur.percent \in Nat /\ next.percent \in Nat
      /\ cur.percent \in next.percent..cur.percent
  BY DEF StepRecords
<1>2. /\ m \in Seq(StepRecords)
      /\ \A k \in 1..Len(m) : cur.second < m[k].second
  BY IntermediateGrows
<1>3. CASE m = <<>>
  <2>1. Shows(a, t, cur.percent)
    BY <1>1
  <2>2. \A k \in 1..Len(m) : t < m[k].second
    BY <1>3
  <2>. HIDE DEF m
  <2>3. Shows(a \o m, t, cur.percent)
    BY <1>1, <1>2, <2>1, <2>2, ShowsConcat
  <2>. QED
    BY <1>1, <2>3 DEF m
<1>4. CASE m # <<>>
  <2>1. m = [k \in 1..(d - 1) |-> [second  |-> cur.second + k,
                                   percent |-> Interpolate(cur, next, k)]]
    BY <1>4 DEF Intermediate
  <2>2. d - 1 \in Nat /\ Len(m) = d - 1
    BY <1>1, <2>1
  <2>3. \A k \in 1..(d - 1) : /\ m[k].second = cur.second + k
                              /\ m[k].percent = Interpolate(cur, next, k)
    BY <2>1
  <2>4. CASE t = cur.second
    <3>1. Shows(a, t, cur.percent)
      BY <1>1
    <3>2. \A k \in 1..Len(m) : t < m[k].second
      BY <1>2, <2>4
    <3>. HIDE DEF m
    <3>3. Shows(a \o m, t, cur.percent)
      BY <1>1, <1>2, <3>1, <3>2, ShowsConcat
    <3>. QED
      BY <1>1, <3>3 DEF m
  <2>5. CASE t # cur.second
    <3>. DEFINE k == t - cur.second
    <3>1. k \in 1..(d - 1)
      BY <1>1, <2>5
    <3>2. Interpolate(cur, next, k) \in next.percent..cur.percent
      BY <3>1, InterpolateBetween
    <3>3. /\ m[k].second <= t /\ m[k].percent = Interpolate(cur, next, k)
          /\ \A l \in 1..Len(m) : k < l => t < m[l].second
      <4>. HIDE DEF m, d
      <4>. QED
        BY <1>1, <2>2, <2>3, <3>1
    <3>. HIDE DEF m, k, d
    <3>4. Shows(m, t, Interpolate(cur, next, k))
      BY <2>2, <3>1, <3>3 DEF Shows
    <3>5. Shows(a \o m, t, Interpolate(cur, next, k))
      BY <1>1, <1>2, <3>4, ShowsLater
    <3>. QED
      BY <3>2, <3>5 DEF m
  <2>. QED
    BY <2>4, <2>5
<1>. QED
  BY <1>3, <1>4

LEMMA SmoothenFollows ==
  ASSUME NEW c, NEW n \in Nat \ {0}, Accepted(c, n + 1),
         NEW s \in Seq(StepRecords),
         Through(s, c, n - 1), Between(s, c, n)
  PROVE  LET r == Append(s, c[n]) \o Intermediate(c[n], c[n + 1])
         IN  Through(r, c, n) /\ Between(r, c, n + 1)
<1>. DEFINE cur == c[n]
            next == c[n + 1]
            a == Append(s, cur)
            m == Intermediate(cur, next)
            r == a \o m
            T == {t \in Nat : t <= cur.second}
<1>1. /\ Accepted(c, n) /\ n \in 1..(n + 1) /\ n + 1 \in 1..(n + 1)
      /\ n < n + 1
  BY DEF Accepted
<1>2. /\ cur \in StepRecords /\ next \in StepRecords
      /\ cur.second \in Nat /\ next.second \in Nat
      /\ cur.percent \in Nat /\ next.percent \in Nat
  BY <1>1, AcceptedNat
<1>3. cur.second < next.second
  BY <1>1 DEF Accepted
<1>4. Through(a, c, n) /\ Between(a, c, n)
  BY <1>1, AppendFollows
<1>. HIDE DEF cur, next
<1>5. a \in Seq(StepRecords)
  BY <1>2, AppendProperties
<1>6. \A t \in Nat : cur.second <= t => Shows(a, t, cur.percent)
  BY <1>2, ShowsAppended
<1>7. /\ m \in Seq(StepRecords)
      /\ \A k \in 1..Len(m) : cur.second < m[k].second
  BY <1>2, <1>3, IntermediateGrows
<1>8. ASSUME NEW t \in T, NEW p \in Nat, Shows(a, t, p) PROVE Shows(r, t, p)
  <2>1. \A k \in 1..Len(m) : m[k].second \in Nat
    <3>. HIDE DEF m
    <3>. SUFFICES ASSUME NEW k \in 1..Len(m) PROVE m[k].second \in Nat
      OBVIOUS
    <3>1. m[k] \in StepRecords
      BY <1>7, ElementOfSeq
    <3>. QED
      BY <3>1 DEF StepRecords
  <2>. HIDE DEF a, m
  <2>2. \A k \in 1..Len(m) : t < m[k].second
    BY <1>2, <1>7, <2>1
  <2>. QED
    BY <1>5, <1>7, <1>8, <2>2, ShowsConcat
<1>9. \A k \in 1..n : c[k].second \in T
  <2>. SUFFICES ASSUME NEW k \in 1..n PROVE c[k].second \in T
    OBVIOUS
  <2>1. c[k].second \in Nat
    BY <1>1, AcceptedNat
  <2>2. k = n \/ (k < n /\ n \in 1..n)
    OBVIOUS
  <2>3. k < n /\ n \in 1..n => c[k].second < c[n].second
    BY <1>1 DEF Accepted
  <2>. QED
    BY <1>2, <2>1, <2>2, <2>3 DEF cur
<1>10. \A k \in 2..n : \A t \in c[k - 1].second..(c[k].second - 1) : t \in T
  <2>. SUFFICES ASSUME NEW k \in 2..n, NEW t \in c[k - 1].second..(c[k].second - 1)
                PROVE  t \in T
    OBVIOUS
  <2>1. k \in 1..n /\ k - 1 \in 1..n
    OBVIOUS
  <2>2. c[k].second \in T /\ c[k - 1].second \in T
    BY <1>9, <2>1
  <2>3. c[k].second \in Nat /\ c[k - 1].second \in Nat /\ c[k].second <= cur.second
    BY <2>2
  <2>. QED
    BY <1>2, <2>3
<1>11. Through(r, c, n) /\ Between(r, c, n)
  <2>. HIDE DEF a, r, T
  <2>1. \A t \in T, p \in Nat : Shows(a, t, p) => Shows(r, t, p)
    BY <1>8
  <2>2. n \in Nat /\ n <= n
    OBVIOUS
  <2>3. /\ Through(a, c, n) => Through(r, c, n)
        /\ Between(a, c, n) => Between(r, c, n)
    BY <1>1, <1>9, <1>10, <2>1, <2>2, StillFollows
  <2>. QED
    BY <1>4, <2>3
<1>12. ASSUME next.percent < cur.percent, NEW t \in cur.second..(next.second - 1)
       PROVE  \E p \in next.percent..cur.percent : Shows(r, t, p)
  <2>. HIDE DEF a
  <2>. QED
    BY <1>2, <1>3, <1>5, <1>6, <1>12, IntermediateShows
<1>13. Between(r, c, n + 1)
  <2>. HIDE DEF r
  <2>. SUFFICES ASSUME NEW k \in 2..(n + 1), Lit(c, k - 1),
                       c[k].percent < c[k - 1].percent,
                       NEW t \in c[k - 1].second..(c[k].second - 1)
                PROVE  \E p \in c[k].percent..c[k - 1].percent : Shows(r, t, p)
    BY DEF Between
  <2>1. CASE k = n + 1
    <3>1. c[k] = next /\ c[k - 1] = cur
      BY <2>1 DEF cur, next
    <3>. QED
      BY <1>12, <3>1
  <2>2. CASE k \in 2..n
    BY <1>11, <2>2 DEF Between
  <2>. QED
    BY <2>1, <2>2
<1>. QED
  BY <1>11, <1>13 DEF r, a, m, cur, next

-----------------------------------------------------------------------------
(* The loops keep it, one iteration each.                                  *)
LEMMA ParseEntrySchedule ==
  ASSUME Loops, Schedule, ParseEntry
  PROVE  Schedule'
<1>1. /\ pc = "parse" /\ pc' = "parse" /\ i <= Len(config) /\ ~Refused(i)
      /\ i' = i + 1 /\ config' = config
  BY DEF ParseEntry
<1>2. /\ config \in Seq(Entries) /\ i \in Nat \ {0} /\ Accepted(config, i - 1)
  BY <1>1 DEF Loops, Schedule
<1>3. Len(config) \in Nat
  BY <1>2, LenProperties
<1>4. config[i] \in StepRecords /\ config[i] # BadEntry
  <2>1. config[i] \in Entries
    BY <1>1, <1>2, <1>3, ElementOfSeq
  <2>. QED
    BY <1>1, <2>1, EntryRecord DEF Refused
<1>5. ASSUME NEW k \in 1..(i - 1) PROVE config[k].second < config[i].second
  <2>1. i - 1 \in 1..(i - 1) /\ i - 1 \in Nat /\ i > 1
    BY <1>2
  <2>2. /\ config[k].second \in Nat /\ config[i - 1].second \in Nat
        /\ config[i].second \in Nat
    BY <1>2, <1>4, <2>1, AcceptedNat DEF StepRecords
  <2>3. config[i - 1].second < config[i].second
    BY <1>1, <1>4, <2>1, <2>2 DEF Refused
  <2>4. k = i - 1 \/ config[k].second < config[i - 1].second
    <3>1. k = i - 1 \/ k < i - 1
      BY <1>2
    <3>. QED
      BY <1>2, <2>1, <3>1 DEF Accepted
  <2>. QED
    BY <2>2, <2>3, <2>4
<1>6. Accepted(config, i)
  <2>1. \A k \in 1..i : k = i \/ k \in 1..(i - 1)
    BY <1>2
  <2>2. \A k, l \in 1..i : k < l => k \in 1..(i - 1) /\ (l = i \/ l \in 1..(i - 1))
    BY <1>2
  <2>. QED
    BY <1>2, <1>4, <1>5, <2>1, <2>2 DEF Accepted
<1>7. i' - 1 = i /\ i' <= Len(config) + 1
  BY <1>1, <1>2, <1>3
<1>. QED
  BY <1>1, <1>6, <1>7 DEF Schedule

LEMMA ParsedSchedule ==
  ASSUME Loops, Schedule, Parsed
  PROVE  Schedule'
<1>1. /\ pc = "parse" /\ i > Len(config) /\ i' = 1 /\ config' = config
      /\ \/ /\ old_steps' \in CopiedSteps /\ steps' = <<>> /\ pc' = "smoothen"
         \/ pc' = "optimize" /\ UNCHANGED <<steps, old_steps>>
  BY DEF Parsed
<1>2. /\ config \in Seq(Entries) /\ steps \in Seq(StepRecords)
      /\ i \in Nat \ {0} /\ Parsing /\ i <= Len(config) + 1 /\ Accepted(config, i - 1)
  BY <1>1 DEF Loops, Schedule
<1>3. Len(config) \in Nat /\ i - 1 = Len(config) /\ Len(steps) = Len(config)
  BY <1>1, <1>2, LenProperties DEF Parsing
<1>4. Accepted(config, Len(config))
  BY <1>2, <1>3
<1>5. steps = config
  <2>1. \A k \in 1..Len(config) : steps[k] = config[k]
    BY <1>2, <1>3 DEF Parsing
  <2>. QED
    BY <1>2, <1>3, <2>1, SeqEqual
<1>6. CASE pc' = "optimize" /\ UNCHANGED <<steps, old_steps>>
  <2>1. Through(steps, config, Len(config)) /\ Between(steps, config, Len(config))
    BY <1>2, <1>4, <1>5, ConfiguredFollows
  <2>. QED
    BY <1>1, <1>4, <1>6, <2>1 DEF Schedule
<1>7. CASE old_steps' \in CopiedSteps /\ steps' = <<>> /\ pc' = "smoothen"
  <2>1. config # <<>> => old_steps' = config
    BY <1>5, <1>7 DEF CopiedSteps
  <2>2. \A s, c : Lit(c, 0) /\ Through(s, c, 0) /\ Between(s, c, 1)
    BY DEF Lit, Through, Between
  <2>3. i' - 1 = 0
    BY <1>1
  <2>. QED
    BY <1>1, <1>4, <1>7, <2>1, <2>2, <2>3 DEF Schedule
<1>. QED
  BY <1>1, <1>6, <1>7

LEMMA SmoothenSchedule ==
  ASSUME Loops, Schedule, Smoothen
  PROVE  Schedule'
<1>. DEFINE cur == old_steps[i]
            next == old_steps[i + 1]
            last == i = Len(old_steps) \/ cur.percent = 0
<1>1. /\ pc = "smoothen" /\ config' = config /\ old_steps' = old_steps
      /\ \/ last /\ steps' = Append(steps, cur) /\ i' = 1 /\ pc' = "optimize"
         \/ /\ ~last
            /\ steps' = Append(steps, cur) \o Intermediate(cur, next)
            /\ i' = i + 1 /\ pc' = "smoothen"
  BY DEF Smoothen
<1>2. /\ config \in Seq(Entries) /\ steps \in Seq(StepRecords)
      /\ i \in Nat \ {0} /\ i <= Len(old_steps) /\ Accepted(config, Len(config))
  BY <1>1 DEF Loops, Schedule, Smoothing
<1>3. Len(config) \in Nat
  BY <1>2, LenProperties
<1>4. CASE config = <<>>
  <2>1. Len(config) = 0
    BY <1>4
  <2>2. \A s, c : Through(s, c, 0) /\ Between(s, c, 0)
    BY DEF Through, Between
  <2>. HIDE DEF cur, next
  <2>. QED
    BY <1>1, <1>2, <1>4, <2>1, <2>2 DEF Schedule
<1>5. CASE config # <<>>
  <2>1. /\ old_steps = config /\ Lit(config, i - 1)
        /\ Through(steps, config, i - 1) /\ Between(steps, config, i)
    BY <1>1, <1>5 DEF Schedule
  <2>2. i \in 1..Len(config)
    BY <1>2, <1>3, <2>1
  <2>3. ASSUME last, steps' = Append(steps, cur), pc' = "optimize"
        PROVE  Schedule'
    <3>1. Accepted(config, i)
      BY <1>2, <1>3, <2>2 DEF Accepted
    <3>2. Through(steps', config, i) /\ Between(steps', config, i)
      BY <1>2, <2>1, <2>3, <3>1, AppendFollows
    <3>3. \A k \in 1..Len(config) : Lit(config, k - 1) => k <= i
      <4>. SUFFICES ASSUME NEW k \in 1..Len(config), i < k, Lit(config, k - 1)
                    PROVE  FALSE
        BY <1>2
      <4>1. i \in 1..(k - 1) /\ i # Len(config)
        BY <1>2, <1>3
      <4>2. config[i].percent = 0
        BY <2>1, <2>3, <4>1
      <4>. QED
        BY <4>1, <4>2 DEF Lit
    <3>4. Through(steps', config, Len(config))
      <4>. SUFFICES ASSUME NEW k \in 1..Len(config), Lit(config, k - 1)
                    PROVE  Shows(steps', config[k].second, config[k].percent)
        BY DEF Through
      <4>1. k \in 1..i
        BY <1>2, <3>3
      <4>. QED
        BY <3>2, <4>1 DEF Through
    <3>5. Between(steps', config, Len(config))
      <4>1. ASSUME NEW k \in 2..Len(config), Lit(config, k - 1) PROVE k \in 2..i
        <5>1. k \in 1..Len(config)
          OBVIOUS
        <5>. QED
          BY <1>2, <3>3, <4>1, <5>1
      <4>. QED
        BY <3>2, <4>1 DEF Between
    <3>. HIDE DEF last
    <3>. QED
      BY <1>1, <1>2, <2>3, <3>4, <3>5 DEF Schedule
  <2>4. ASSUME ~last, steps' = Append(steps, cur) \o Intermediate(cur, next),
               i' = i + 1, pc' = "smoothen"
        PROVE  Schedule'
    <3>1. i + 1 \in 1..Len(config) /\ i' - 1 = i
      BY <1>2, <1>3, <2>1, <2>2, <2>4
    <3>2. Accepted(config, i + 1)
      BY <1>2, <1>3, <3>1 DEF Accepted
    <3>3. Through(steps', config, i) /\ Between(steps', config, i + 1)
      BY <1>2, <2>1, <2>4, <3>2, SmoothenFollows
    <3>4. Lit(config, i)
      <4>1. \A k \in 1..i : k = i \/ k \in 1..(i - 1)
        BY <1>2
      <4>2. config[i].percent # 0
        BY <2>1, <2>4
      <4>. QED
        BY <2>1, <4>1, <4>2 DEF Lit
    <3>. HIDE DEF last, cur, next
    <3>. QED
      BY <1>1, <1>2, <2>1, <2>4, <3>1, <3>3, <3>4 DEF Schedule
  <2>. HIDE DEF last, cur, next
  <2>. QED
    BY <1>1, <2>3, <2>4
<1>. QED
  BY <1>4, <1>5

LEMMA OptimizeSchedule ==
  ASSUME Loops, Schedule, Optimize
  PROVE  Schedule'
<1>1. /\ pc = "optimize" /\ config' = config
      /\ pc' \in {"optimize", "done"}
      /\ \/ /\ i < Len(steps) /\ steps' = RemoveAt(steps, i + 1)
            /\ \/ steps[i].percent = steps[i + 1].percent
               \/ steps[i].second >= steps[i + 1].second
         \/ steps' = steps
  BY DEF Optimize
<1>2. /\ config \in Seq(Entries) /\ steps \in Seq(StepRecords) /\ Growing(steps)
      /\ i \in Nat \ {0} /\ Accepted(config, Len(config))
      /\ Through(steps, config, Len(config)) /\ Between(steps, config, Len(config))
  BY <1>1 DEF Loops, Schedule
<1>3. Len(config) \in Nat /\ Len(steps) \in Nat
  BY <1>2, LenProperties
<1>4. \A t \in Nat, p \in Nat : Shows(steps, t, p) => Shows(steps', t, p)
  <2>1. CASE steps' = steps
    BY <2>1
  <2>2. CASE /\ i < Len(steps) /\ steps' = RemoveAt(steps, i + 1)
             /\ \/ steps[i].percent = steps[i + 1].percent
                \/ steps[i].second >= steps[i + 1].second
    <3>1. i \in 1..(Len(steps) - 1) /\ i \in 1..Len(steps) /\ i + 1 \in 1..Len(steps)
          /\ i < i + 1
      BY <1>2, <1>3, <2>2
    <3>2. steps[i] \in StepRecords /\ steps[i + 1] \in StepRecords
      BY <1>2, <3>1, ElementOfSeq
    <3>3. steps[i].second \in Nat /\ steps[i + 1].second \in Nat
      BY <3>2 DEF StepRecords
    <3>4. steps[i].second < steps[i + 1].second
      BY <1>2, <3>1 DEF Growing
    <3>5. steps[i].percent = steps[i + 1].percent
      BY <2>2, <3>3, <3>4
    <3>. QED
      BY <1>2, <2>2, <3>1, <3>5, ShowsRemoved
  <2>. QED
    BY <1>1, <2>1, <2>2
<1>5. \A k \in 1..Len(config) : config[k].second \in Nat
  BY <1>2, <1>3, AcceptedNat
<1>6. \A k \in 2..Len(config) : \A t \in config[k - 1].second..(config[k].second - 1) :
        t \in Nat
  <2>. SUFFICES ASSUME NEW k \in 2..Len(config),
                       NEW t \in config[k - 1].second..(config[k].second - 1)
                PROVE  t \in Nat
    OBVIOUS
  <2>1. k \in 1..Len(config) /\ k - 1 \in 1..Len(config)
    BY <1>3
  <2>2. config[k].second \in Nat /\ config[k - 1].second \in Nat
    BY <1>5, <2>1
  <2>. QED
    BY <2>2
<1>7. /\ Through(steps, config, Len(config)) => Through(steps', config, Len(config))
      /\ Between(steps, config, Len(config)) => Between(steps', config, Len(config))
  <2>. DEFINE n == Len(config)
              r == steps'
  <2>1. n \in Nat /\ n <= n
    BY <1>3
  <2>. HIDE DEF n, r
  <2>. QED
    BY <1>2, <1>4, <1>5, <1>6, <2>1, StillFollows DEF n, r
<1>. QED
  BY <1>1, <1>2, <1>7 DEF Schedule

LEMMA RestSchedule ==
  ASSUME SInv, Schedule,
         ReadLine \/ Reject \/ GetConfig \/ ParseError \/ UNCHANGED vars
  PROVE  Schedule'
<1>1. CASE ReadLine
  BY <1>1 DEF ReadLine, stepVars, Schedule
<1>2. CASE Reject
  BY <1>2 DEF Reject, Schedule
<1>3. CASE GetConfig
  <2>1. pc = "read" /\ pc' = "parse" /\ i' = i
    BY <1>3 DEF GetConfig
  <2>2. i' = 1 /\ config' \in Seq(Entries)
    <3>1. SInv'
      BY <1>3, GetConfigKeeps
    <3>. QED
      BY <2>1, <3>1 DEF SInv, Loops
  <2>3. Len(config') \in Nat
    BY <2>2, LenProperties
  <2>4. i' - 1 = 0 /\ i' <= Len(config') + 1
    BY <2>2, <2>3
  <2>5. Accepted(config', 0)
    BY DEF Accepted
  <2>. QED
    BY <2>1, <2>2, <2>4, <2>5 DEF Schedule
<1>4. CASE ParseError
  <2>1. /\ pc = "parse" /\ pc' = "error" /\ i <= Len(config) /\ Refused(i)
        /\ config' = config /\ i' = i
    BY <1>4 DEF ParseError
  <2>2. i <= Len(config) + 1 /\ Accepted(config, i - 1)
    BY <2>1 DEF Schedule
  <2>3. Refused(i)'
    BY <2>1 DEF Refused
  <2>. QED
    BY <2>1, <2>2, <2>3 DEF Schedule
<1>5. CASE UNCHANGED vars
  BY <1>5 DEF vars, stepVars, Schedule, Refused
<1>. QED
  BY <1>1, <1>2, <1>3, <1>4, <1>5

(* What the schedule says at the end.                                      *)
LEMMA ScheduleRefuses ==
  ASSUME Loops, Schedule
  PROVE  RefusesOnlyBad
<1>. DEFINE Good(k) == /\ config[k] # BadEntry
                       /\ k > 1 => config[k - 1].second < config[k].second
<1>1. config \in Seq(Entries) /\ i \in Nat \ {0} /\ Len(config) \in Nat
      /\ DOMAIN config = 1..Len(config)
  BY LenProperties DEF Loops
<1>2. ASSUME pc = "done", NEW k \in DOMAIN config PROVE Good(k)
  <2>1. Accepted(config, Len(config))
    BY <1>2 DEF Schedule
  <2>2. k \in 1..Len(config) /\ config[k] # BadEntry
    BY <1>1, <2>1 DEF Accepted
  <2>3. k > 1 => k - 1 \in 1..Len(config) /\ k - 1 < k
    BY <2>2
  <2>. QED
    BY <2>1, <2>2, <2>3 DEF Accepted
<1>3. ASSUME pc = "error" PROVE ~ \A k \in DOMAIN config : Good(k)
  <2>1. i \in DOMAIN config /\ Refused(i) /\ Accepted(config, i - 1)
    BY <1>1, <1>3 DEF Schedule
  <2>. SUFFICES ASSUME Good(i) PROVE FALSE
    BY <2>1
  <2>2. i > 1 /\ config[i - 1].second >= config[i].second
    BY <2>1 DEF Refused
  <2>3. config[i - 1].second \in Nat
    <3>1. i - 1 \in Nat /\ i - 1 \in 1..(i - 1)
      BY <1>1, <2>2
    <3>. QED
      BY <2>1, <3>1, AcceptedNat
  <2>4. config[i].second \in Nat
    <3>1. config[i] \in Entries
      BY <1>1, <2>1, ElementOfSeq
    <3>2. config[i] \in StepRecords
      BY <3>1, EntryRecord
    <3>. QED
      BY <3>2 DEF StepRecords
  <2>. QED
    BY <2>2, <2>3, <2>4
<1>. HIDE DEF Good
<1>4. pc \in {"done", "error"} => (pc = "done") = \A k \in DOMAIN config : Good(k)
  BY <1>2, <1>3
<1>. QED
  BY <1>4 DEF Good, RefusesOnlyBad

LEMMA SchedulePasses ==
  ASSUME Loops, Schedule
  PROVE  PassesThrough /\ StaysBetween
<1>1. SUFFICES ASSUME pc = "done" PROVE PassesThrough /\ StaysBetween
  BY DEF PassesThrough, StaysBetween
<1>2. /\ config \in Seq(Entries) /\ Len(config) \in Nat
      /\ DOMAIN config = 1..Len(config)
      /\ steps \in Seq(StepRecords)
      /\ Accepted(config, Len(config))
      /\ Through(steps, config, Len(config)) /\ Between(steps, config, Len(config))
  BY <1>1, LenProperties DEF Loops, Schedule
<1>3. ASSUME NEW k \in 1..Len(config), Lit(config, k - 1)
      PROVE  BrightnessAt(steps, config[k].second) = config[k].percent
  <2>1. config[k].second \in Nat
    BY <1>2, AcceptedNat
  <2>2. Shows(steps, config[k].second, config[k].percent)
    BY <1>2, <1>3 DEF Through
  <2>. QED
    BY <1>2, <2>1, <2>2, ShowsBrightness
<1>4. ASSUME NEW k \in 2..Len(config), Lit(config, k - 1),
             config[k - 1].percent > config[k].percent,
             NEW t \in config[k - 1].second..config[k].second
      PROVE  BrightnessAt(steps, t) \in config[k].percent..config[k - 1].percent
  <2>1. k \in 1..Len(config) /\ k - 1 \in 1..Len(config)
    BY <1>2
  <2>2. /\ config[k].second \in Nat /\ config[k].percent \in Nat
        /\ config[k - 1].second \in Nat /\ config[k - 1].percent \in Nat
    BY <1>2, <2>1, AcceptedNat
  <2>3. CASE t = config[k].second
    <3>1. BrightnessAt(steps, t) = config[k].percent
      BY <1>3, <1>4, <2>1, <2>3
    <3>. QED
      BY <1>4, <2>2, <3>1
  <2>4. CASE t # config[k].second
    <3>1. t \in config[k - 1].second..(config[k].second - 1) /\ t \in Nat
      BY <2>2, <2>4
    <3>2. config[k].percent < config[k - 1].percent
      BY <1>4, <2>2
    <3>3. PICK p \in config[k].percent..config[k - 1].percent : Shows(steps, t, p)
      BY <1>2, <1>4, <3>1, <3>2 DEF Between
    <3>4. BrightnessAt(steps, t) = p
      BY <1>2, <3>1, <3>3, ShowsBrightness
    <3>. QED
      BY <3>4
  <2>. QED
    BY <2>3, <2>4
<1>5. PassesThrough
  BY <1>2, <1>3 DEF PassesThrough, Lit
<1>6. StaysBetween
  BY <1>4 DEF StaysBetween, Lit
<1>. QED
  BY <1>5, <1>6

-----------------------------------------------------------------------------
(***************************************************************************)
(* The tables and the first m lines of the file f.  An item of the section *)
(* with the header h; the first one with its name; and what a chain c of   *)
(* items holds of the name x.                                              *)
(***************************************************************************)
InSection(f, h, k) == h < k /\ \A l \in (h + 1)..k : ~IsHeader(f, l)

IsItem(f, x, k) == f[k].kind = "item" /\ f[k].name = x

ItemOf(f, h, x, k) == InSection(f, h, k) /\ IsItem(f, x, k)

FirstItem(f, h, x, k) ==
  ItemOf(f, h, x, k) /\ \A l \in (h + 1)..(k - 1) : ~IsItem(f, x, l)

(* The first element of the chain named x has the value v.                 *)
Leads(c, x, v) ==
  \E j \in 1..Len(c) :
    /\ c[j].name = x /\ c[j].value = v
    /\ \A l \in 1..(j - 1) : c[l].name # x

Chain(f, m, c, h, x) ==
  /\ \A k \in 1..m : FirstItem(f, h, x, k) => Leads(c, x, f[k].value)
  /\ \A j \in 1..Len(c) : c[j].name = x => \E k \in 1..m : ItemOf(f, h, x, k)

Holds(f, m, tab, h) == \A x \in DOMAIN Hash : Chain(f, m, tab[Hash[x]], h, x)

(* The first number in the chain of a section of s named x is n.           *)
NumberLeads(s, c, x, n) ==
  \E j \in 1..Len(c) :
    /\ c[j] = n /\ s[n].name = x
    /\ \A l \in 1..(j - 1) : s[c[l]].name # x

FirstHeader(f, x, h) ==
  /\ IsHeader(f, h) /\ f[h].name = x
  /\ \A l \in 1..(h - 1) : IsHeader(f, l) => f[l].name # x

(***************************************************************************)
(* Section n of the table is the one of the header h: the lines after the  *)
(* last header are those of the last section.                              *)
(***************************************************************************)
SectionOf(f, m, s, tab, h, n) ==
  /\ s[n].name = f[h].name
  /\ n = Len(s) <=> \A l \in (h + 1)..m : ~IsHeader(f, l)
  /\ Holds(f, m, s[n].item_hashtab, h)
  /\ \A x \in DOMAIN Hash : FirstHeader(f, x, h) => NumberLeads(s, tab[Hash[x]], x, n)

WellFormed(f, m) ==
  \A k \in 1..m :
    /\ f[k] # NoItem
    /\ f[k].kind = "item" => \E l \in 1..k : IsHeader(f, l)

Recorded(f, m, s, tab) ==
  /\ WellFormed(f, m)
  /\ \A n \in 1..Len(s) : \E h \in 1..m : IsHeader(f, h) /\ f[h].name = s[n].name
  /\ \A h \in 1..m : IsHeader(f, h) => \E n \in 1..Len(s) : SectionOf(f, m, s, tab, h, n)

Written ==
  /\ lineno <= Len(lines) + 1
  /\ Recorded(lines, lineno - 1, sections, section_hashtab)

(* A line that is no item of the section named x leaves the chain right.   *)
LEMMA ChainSkip ==
  ASSUME NEW f, NEW m \in Nat, NEW c, NEW h, NEW x,
         Chain(f, m, c, h, x), ~ItemOf(f, h, x, m + 1)
  PROVE  Chain(f, m + 1, c, h, x)
<1>1. \A k \in 1..(m + 1) : k = m + 1 \/ k \in 1..m
  OBVIOUS
<1>2. \A k \in 1..m : k \in 1..(m + 1)
  OBVIOUS
<1>3. ~FirstItem(f, h, x, m + 1)
  BY DEF FirstItem
<1>. QED
  BY <1>1, <1>2, <1>3 DEF Chain

LEMMA ChainAdd ==
  ASSUME NEW f, NEW m \in Nat, NEW h \in Nat, NEW x, NEW S, NEW c \in Seq(S),
         NEW e \in S, e.name = f[m + 1].name, e.value = f[m + 1].value,
         ItemOf(f, h, e.name, m + 1), Chain(f, m, c, h, x)
  PROVE  Chain(f, m + 1, Append(c, e), h, x)
<1>. DEFINE r == Append(c, e)
<1>1. /\ Len(c) \in Nat /\ Len(r) = Len(c) + 1
      /\ \A j \in 1..Len(c) : r[j] = c[j]
      /\ r[Len(c) + 1] = e
  BY AppendProperties, LenProperties
<1>. HIDE DEF r
<1>2. \A k \in 1..(m + 1) : k = m + 1 \/ k \in 1..m
  OBVIOUS
<1>3. ASSUME NEW v, Leads(c, x, v) PROVE Leads(r, x, v)
  <2>1. PICK j \in 1..Len(c) : /\ c[j].name = x /\ c[j].value = v
                               /\ \A l \in 1..(j - 1) : c[l].name # x
    BY <1>3 DEF Leads
  <2>2. j \in 1..Len(r) /\ r[j] = c[j] /\ \A l \in 1..(j - 1) : r[l] = c[l]
    BY <1>1
  <2>. QED
    BY <2>1, <2>2 DEF Leads
<1>4. ASSUME FirstItem(f, h, x, m + 1) PROVE Leads(r, x, f[m + 1].value)
  <2>1. \A l \in 1..Len(c) : c[l].name # x
    <3>. SUFFICES ASSUME NEW l \in 1..Len(c), c[l].name = x PROVE FALSE
      OBVIOUS
    <3>1. PICK k \in 1..m : ItemOf(f, h, x, k)
      BY DEF Chain
    <3>2. k \in (h + 1)..(m + 1 - 1) /\ IsItem(f, x, k)
      BY <3>1 DEF ItemOf, InSection
    <3>. QED
      BY <1>4, <3>2 DEF FirstItem
  <2>2. f[m + 1].name = x
    BY <1>4 DEF FirstItem, ItemOf, IsItem
  <2>3. Len(c) + 1 \in 1..Len(r) /\ \A l \in 1..(Len(c) + 1 - 1) : r[l].name # x
    BY <1>1, <2>1
  <2>. QED
    BY <1>1, <2>2, <2>3 DEF Leads
<1>5. ASSUME NEW j \in 1..Len(r), r[j].name = x
      PROVE  \E k \in 1..(m + 1) : ItemOf(f, h, x, k)
  <2>1. CASE j \in 1..Len(c)
    <3>1. PICK k \in 1..m : ItemOf(f, h, x, k)
      BY <1>1, <1>5, <2>1 DEF Chain
    <3>. QED
      BY <3>1
  <2>2. CASE j = Len(c) + 1
    BY <1>1, <1>5, <2>2
  <2>. QED
    BY <1>1, <2>1, <2>2
<1>6. Chain(f, m + 1, r, h, x)
  BY <1>2, <1>3, <1>4, <1>5 DEF Chain
<1>. QED
  BY <1>6 DEF r

(* The items of a section: a line that is none of it, or one.              *)
LEMMA HoldsSkip ==
  ASSUME NEW f, NEW m \in Nat, NEW tab, NEW h, Holds(f, m, tab, h),
         f[m + 1].kind # "item" \/ ~InSection(f, h, m + 1)
  PROVE  Holds(f, m + 1, tab, h)
<1>1. \A x \in DOMAIN Hash : ~ItemOf(f, h, x, m + 1)
  BY DEF ItemOf, IsItem
<1>. QED
  BY <1>1, ChainSkip DEF Holds

LEMMA HoldsAdd ==
  ASSUME NEW f, NEW m \in Nat, NEW h \in Nat, NEW S,
         NEW tab \in [Buckets -> Seq(S)], Holds(f, m, tab, h),
         NEW e \in S, e.name = f[m + 1].name, e.value = f[m + 1].value,
         f[m + 1].kind = "item", InSection(f, h, m + 1)
  PROVE  Holds(f, m + 1, HashtabAdd(tab, e.name, e), h)
<1>. DEFINE new == HashtabAdd(tab, e.name, e)
<1>1. \A b \in Buckets :
        new[b] = IF b = Hash[e.name] THEN Append(tab[b], e) ELSE tab[b]
  BY DEF HashtabAdd
<1>. HIDE DEF new
<1>2. ItemOf(f, h, e.name, m + 1)
  BY DEF ItemOf, IsItem
<1>3. ASSUME NEW x \in DOMAIN Hash PROVE Chain(f, m + 1, new[Hash[x]], h, x)
  <2>1. Hash[x] \in Buckets /\ tab[Hash[x]] \in Seq(S) /\ Chain(f, m, tab[Hash[x]], h, x)
    BY DEF Buckets, Holds
  <2>2. CASE Hash[x] = Hash[e.name]
    <3>1. new[Hash[x]] = Append(tab[Hash[x]], e)
      BY <1>1, <2>1, <2>2
    <3>2. Chain(f, m + 1, Append(tab[Hash[x]], e), h, x)
      BY <1>2, <2>1, ChainAdd
    <3>. QED
      BY <3>1, <3>2
  <2>3. CASE Hash[x] # Hash[e.name]
    <3>1. new[Hash[x]] = tab[Hash[x]]
      BY <1>1, <2>1, <2>3
    <3>2. ~ItemOf(f, h, x, m + 1)
      BY <2>3 DEF ItemOf, IsItem
    <3>. QED
      BY <2>1, <3>1, <3>2, ChainSkip
  <2>. QED
    BY <2>2, <2>3
<1>4. Holds(f, m + 1, new, h)
  BY <1>3 DEF Holds
<1>. QED
  BY <1>4 DEF new

(* A section before its first item.                                        *)
LEMMA HoldsEmpty ==
  ASSUME NEW f, NEW m \in Nat
  PROVE  Holds(f, m + 1, EmptyHashtab, m + 1)
<1>. SUFFICES ASSUME NEW x \in DOMAIN Hash
              PROVE  Chain(f, m + 1, EmptyHashtab[Hash[x]], m + 1, x)
  BY DEF Holds
<1>1. Hash[x] \in Buckets
  BY DEF Buckets
<1>2. EmptyHashtab[Hash[x]] = <<>> /\ Len(<<>>) = 0
  BY <1>1, EmptyTables
<1>3. \A k \in 1..(m + 1) : ~FirstItem(f, m + 1, x, k)
  BY DEF FirstItem, ItemOf, InSection
<1>. QED
  BY <1>2, <1>3 DEF Chain

(* The numbers of sections: the names of the old sections stay.            *)
LEMMA NumberKept ==
  ASSUME NEW s, NEW r, Len(s) \in Nat,
         \A n \in 1..Len(s) : r[n].name = s[n].name,
         NEW c, Len(c) \in Nat, \A j \in 1..Len(c) : c[j] \in 1..Len(s),
         NEW x, NEW n \in 1..Len(s), NumberLeads(s, c, x, n)
  PROVE  NumberLeads(r, c, x, n)
<1>1. PICK j \in 1..Len(c) : /\ c[j] = n /\ s[n].name = x
                             /\ \A l \in 1..(j - 1) : s[c[l]].name # x
  BY DEF NumberLeads
<1>2. ASSUME NEW l \in 1..(j - 1) PROVE r[c[l]].name # x
  <2>1. l \in 1..Len(c)
    OBVIOUS
  <2>. QED
    BY <1>1, <2>1
<1>. QED
  BY <1>1, <1>2 DEF NumberLeads

LEMMA NumberAppended ==
  ASSUME NEW s, NEW S, NEW c \in Seq(S), NEW x, NEW n \in S
  PROVE  /\ \A q : NumberLeads(s, c, x, q) => NumberLeads(s, Append(c, n), x, q)
         /\ (s[n].name = x /\ \A j \in 1..Len(c) : s[c[j]].name # x)
              => NumberLeads(s, Append(c, n), x, n)
<1>. DEFINE r == Append(c, n)
<1>1. /\ Len(c) \in Nat /\ Len(r) = Len(c) + 1
      /\ \A j \in 1..Len(c) : r[j] = c[j]
      /\ r[Len(c) + 1] = n
  BY AppendProperties, LenProperties
<1>. HIDE DEF r
<1>2. ASSUME NEW q, NumberLeads(s, c, x, q) PROVE NumberLeads(s, r, x, q)
  <2>1. PICK j \in 1..Len(c) : /\ c[j] = q /\ s[q].name = x
                               /\ \A l \in 1..(j - 1) : s[c[l]].name # x
    BY <1>2 DEF NumberLeads
  <2>2. j \in 1..Len(r) /\ r[j] = c[j] /\ \A l \in 1..(j - 1) : r[l] = c[l]
    BY <1>1
  <2>. QED
    BY <2>1, <2>2 DEF NumberLeads
<1>3. ASSUME s[n].name = x, \A j \in 1..Len(c) : s[c[j]].name # x
      PROVE  NumberLeads(s, r, x, n)
  <2>1. /\ Len(c) + 1 \in 1..Len(r)
        /\ \A l \in 1..(Len(c) + 1 - 1) : s[r[l]].name # x
    BY <1>1, <1>3
  <2>. QED
    BY <1>1, <1>3, <2>1 DEF NumberLeads
<1>. QED
  BY <1>2, <1>3 DEF r

(***************************************************************************)
(* One more line: none that counts, a header, an item.                     *)
(***************************************************************************)
LEMMA RecordedSkip ==
  ASSUME NEW f, NEW m \in Nat, NEW s, NEW tab, Recorded(f, m, s, tab),
         f[m + 1] # NoItem, f[m + 1].kind \notin {"section", "item"}
  PROVE  Recorded(f, m + 1, s, tab)
<1>1. \A k \in 1..(m + 1) : k = m + 1 \/ k \in 1..m
  OBVIOUS
<1>2. \A k \in 1..m : k \in 1..(m + 1)
  OBVIOUS
<1>3. WellFormed(f, m + 1)
  BY <1>1 DEF WellFormed, Recorded
<1>4. \A n \in 1..Len(s) :
        \E h \in 1..(m + 1) : IsHeader(f, h) /\ f[h].name = s[n].name
  BY <1>2 DEF Recorded
<1>5. ASSUME NEW h \in 1..(m + 1), IsHeader(f, h)
      PROVE  \E n \in 1..Len(s) : SectionOf(f, m + 1, s, tab, h, n)
  <2>1. h \in 1..m
    BY <1>1, <1>5 DEF IsHeader
  <2>2. PICK n \in 1..Len(s) : SectionOf(f, m, s, tab, h, n)
    BY <1>5, <2>1 DEF Recorded
  <2>3. Holds(f, m + 1, s[n].item_hashtab, h)
    BY <2>2, HoldsSkip DEF SectionOf
  <2>4. (\A l \in (h + 1)..m : ~IsHeader(f, l)) = (\A l \in (h + 1)..(m + 1) : ~IsHeader(f, l))
    <3>1. /\ \A l \in (h + 1)..m : l \in (h + 1)..(m + 1)
          /\ \A l \in (h + 1)..(m + 1) : l = m + 1 \/ l \in (h + 1)..m
      BY <2>1
    <3>. QED
      BY <3>1 DEF IsHeader
  <2>5. SectionOf(f, m + 1, s, tab, h, n)
    BY <2>2, <2>3, <2>4 DEF SectionOf
  <2>. QED
    BY <2>5
<1>. QED
  BY <1>3, <1>4, <1>5 DEF Recorded

LEMMA RecordedSection ==
  ASSUME NEW f, NEW m \in Nat, NEW R, NEW s \in Seq(R), NEW rec \in R,
         NEW tab \in [Buckets -> Seq(Nat \ {0})],
         \A b \in Buckets : \A j \in 1..Len(tab[b]) : tab[b][j] <= Len(s),
         Recorded(f, m, s, tab),
         IsHeader(f, m + 1), f[m + 1] # NoItem,
         rec.name = f[m + 1].name, rec.item_hashtab = EmptyHashtab
  PROVE  Recorded(f, m + 1, Append(s, rec), HashtabAdd(tab, rec.name, Len(s) + 1))
<1>. DEFINE r == Append(s, rec)
            N == Len(s) + 1
            new == HashtabAdd(tab, rec.name, N)
<1>1. /\ Len(s) \in Nat /\ Len(r) = N /\ N \in Nat \ {0}
      /\ \A n \in 1..Len(s) : r[n] = s[n]
      /\ r[N] = rec
  BY AppendProperties, LenProperties
<1>2. \A b \in Buckets :
        new[b] = IF b = Hash[rec.name] THEN Append(tab[b], N) ELSE tab[b]
  BY DEF HashtabAdd
<1>. HIDE DEF r, new
<1>3. \A k \in 1..(m + 1) : k = m + 1 \/ k \in 1..m
  OBVIOUS
<1>4. \A k \in 1..m : k \in 1..(m + 1)
  OBVIOUS
<1>5. m + 1 \in 1..(m + 1)
  OBVIOUS
<1>6. WellFormed(f, m + 1)
  BY <1>3 DEF WellFormed, Recorded, IsHeader
<1>7. ASSUME NEW n \in 1..Len(r)
      PROVE  \E h \in 1..(m + 1) : IsHeader(f, h) /\ f[h].name = r[n].name
  <2>1. CASE n = N
    BY <1>1, <1>5, <2>1
  <2>2. CASE n # N
    <3>1. n \in 1..Len(s) /\ r[n] = s[n]
      BY <1>1, <2>2
    <3>2. PICK h \in 1..m : IsHeader(f, h) /\ f[h].name = s[n].name
      BY <3>1 DEF Recorded
    <3>. QED
      BY <1>4, <3>1, <3>2
  <2>. QED
    BY <2>1, <2>2
<1>8. ASSUME NEW x \in DOMAIN Hash
      PROVE  LET c == tab[Hash[x]]
             IN  /\ c \in Seq(Nat \ {0}) /\ Len(c) \in Nat
                 /\ \A j \in 1..Len(c) : c[j] \in 1..Len(s)
                 /\ new[Hash[x]] = Append(c, N) \/ new[Hash[x]] = c
                 /\ x = rec.name => new[Hash[x]] = Append(c, N)
  <2>. DEFINE c == tab[Hash[x]]
  <2>1. Hash[x] \in Buckets
    BY DEF Buckets
  <2>2. c \in Seq(Nat \ {0}) /\ Len(c) \in Nat
    BY <2>1, LenProperties
  <2>3. ASSUME NEW j \in 1..Len(c) PROVE c[j] \in 1..Len(s)
    <3>1. c[j] <= Len(s)
      BY <2>1
    <3>2. c[j] \in Nat \ {0}
      BY <2>2, ElementOfSeq
    <3>. QED
      BY <1>1, <3>1, <3>2
  <2>. QED
    BY <1>2, <2>1, <2>2, <2>3
<1>9. ASSUME NEW h \in 1..m, IsHeader(f, h)
      PROVE  \E n \in 1..Len(r) : SectionOf(f, m + 1, r, new, h, n)
  <2>1. PICK n \in 1..Len(s) : SectionOf(f, m, s, tab, h, n)
    BY <1>9 DEF Recorded
  <2>2. n \in 1..Len(r) /\ r[n] = s[n] /\ n # Len(r)
    BY <1>1
  <2>3. Holds(f, m + 1, r[n].item_hashtab, h)
    BY <2>1, <2>2, HoldsSkip DEF SectionOf, IsHeader
  <2>4. m + 1 \in (h + 1)..(m + 1)
    OBVIOUS
  <2>5. ASSUME NEW x \in DOMAIN Hash, FirstHeader(f, x, h)
        PROVE  NumberLeads(r, new[Hash[x]], x, n)
    <3>. DEFINE c == tab[Hash[x]]
    <3>1. /\ c \in Seq(Nat \ {0}) /\ Len(c) \in Nat
          /\ \A j \in 1..Len(c) : c[j] \in 1..Len(s)
          /\ new[Hash[x]] = Append(c, N) \/ new[Hash[x]] = c
      BY <1>8
    <3>2. NumberLeads(s, c, x, n)
      BY <2>1, <2>5 DEF SectionOf
    <3>. HIDE DEF c
    <3>3. \A q \in 1..Len(s) : r[q].name = s[q].name
      BY <1>1
    <3>4. NumberLeads(r, c, x, n)
      BY <1>1, <3>1, <3>2, <3>3, NumberKept
    <3>5. NumberLeads(r, Append(c, N), x, n)
      <4>. HIDE DEF N
      <4>. QED
        BY <1>1, <3>1, <3>4, NumberAppended
    <3>. QED
      BY <3>1, <3>4, <3>5
  <2>6. SectionOf(f, m + 1, r, new, h, n)
    BY <2>1, <2>2, <2>3, <2>4, <2>5 DEF SectionOf
  <2>. QED
    BY <2>2, <2>6
<1>10. SectionOf(f, m + 1, r, new, m + 1, N)
  <2>1. Holds(f, m + 1, r[N].item_hashtab, m + 1)
    BY <1>1, HoldsEmpty
  <2>2. ASSUME NEW x \in DOMAIN Hash, FirstHeader(f, x, m + 1)
        PROVE  NumberLeads(r, new[Hash[x]], x, N)
    <3>. DEFINE c == tab[Hash[x]]
    <3>1. x = rec.name
      BY <2>2 DEF FirstHeader
    <3>2. /\ c \in Seq(Nat \ {0})
          /\ \A j \in 1..Len(c) : c[j] \in 1..Len(s)
          /\ new[Hash[x]] = Append(c, N)
      BY <1>8, <3>1
    <3>3. ASSUME NEW j \in 1..Len(c) PROVE r[c[j]].name # x
      <4>1. c[j] \in 1..Len(s) /\ r[c[j]] = s[c[j]]
        BY <1>1, <3>2
      <4>2. PICK l \in 1..m : IsHeader(f, l) /\ f[l].name = s[c[j]].name
        BY <4>1 DEF Recorded
      <4>3. f[l].name # x
        BY <2>2, <4>2 DEF FirstHeader
      <4>. QED
        BY <4>1, <4>2, <4>3
    <3>4. r[N].name = x
      BY <1>1, <3>1
    <3>. HIDE DEF c, N
    <3>5. NumberLeads(r, Append(c, N), x, N)
      BY <1>1, <3>2, <3>3, <3>4, NumberAppended
    <3>. QED
      BY <3>2, <3>5
  <2>3. \A l \in (m + 1 + 1)..(m + 1) : ~IsHeader(f, l)
    OBVIOUS
  <2>. QED
    BY <1>1, <2>1, <2>2, <2>3 DEF SectionOf
<1>11. ASSUME NEW h \in 1..(m + 1), IsHeader(f, h)
       PROVE  \E n \in 1..Len(r) : SectionOf(f, m + 1, r, new, h, n)
  <2>1. CASE h = m + 1
    <3>1. N \in 1..Len(r)
      BY <1>1
    <3>. QED
      BY <1>10, <2>1, <3>1
  <2>2. CASE h \in 1..m
    BY <1>9, <1>11, <2>2
  <2>. QED
    BY <1>3, <2>1, <2>2
<1>12. Recorded(f, m + 1, r, new)
  BY <1>6, <1>7, <1>11 DEF Recorded
<1>. QED
  BY <1>12 DEF r, new

LEMMA RecordedItem ==
  ASSUME NEW f, NEW m \in Nat, NEW s, NEW tab, Recorded(f, m, s, tab),
         NEW r, Len(r) = Len(s), NEW N \in 1..Len(s), N = Len(s),
         \A n \in 1..Len(s) : r[n].name = s[n].name,
         \A n \in 1..Len(s) : n # N => r[n] = s[n],
         NEW S, s[N].item_hashtab \in [Buckets -> Seq(S)],
         NEW e \in S, e.name = f[m + 1].name, e.value = f[m + 1].value,
         r[N].item_hashtab = HashtabAdd(s[N].item_hashtab, e.name, e),
         \A b \in Buckets : Len(tab[b]) \in Nat
           /\ \A j \in 1..Len(tab[b]) : tab[b][j] \in 1..Len(s),
         f[m + 1] # NoItem, f[m + 1].kind = "item"
  PROVE  Recorded(f, m + 1, r, tab)
<1>1. \A k \in 1..(m + 1) : k = m + 1 \/ k \in 1..m
  OBVIOUS
<1>2. \A k \in 1..m : k \in 1..(m + 1)
  OBVIOUS
<1>3. WellFormed(f, m + 1)
  <2>1. \E l \in 1..(m + 1) : IsHeader(f, l)
    BY <1>2 DEF Recorded
  <2>. QED
    BY <1>1, <2>1 DEF WellFormed, Recorded
<1>4. \A n \in 1..Len(r) :
        \E h \in 1..(m + 1) : IsHeader(f, h) /\ f[h].name = r[n].name
  <2>. SUFFICES ASSUME NEW n \in 1..Len(s)
                PROVE  \E h \in 1..(m + 1) : IsHeader(f, h) /\ f[h].name = r[n].name
    OBVIOUS
  <2>1. PICK h \in 1..m : IsHeader(f, h) /\ f[h].name = s[n].name
    BY DEF Recorded
  <2>2. r[n].name = s[n].name
    OBVIOUS
  <2>. QED
    BY <1>2, <2>1, <2>2
<1>5. ASSUME NEW h \in 1..(m + 1), IsHeader(f, h)
      PROVE  \E n \in 1..Len(r) : SectionOf(f, m + 1, r, tab, h, n)
  <2>1. h \in 1..m
    BY <1>1, <1>5 DEF IsHeader
  <2>2. PICK n \in 1..Len(s) : SectionOf(f, m, s, tab, h, n)
    BY <1>5, <2>1 DEF Recorded
  <2>3. (\A l \in (h + 1)..m : ~IsHeader(f, l)) = (\A l \in (h + 1)..(m + 1) : ~IsHeader(f, l))
    <3>1. /\ \A l \in (h + 1)..m : l \in (h + 1)..(m + 1)
          /\ \A l \in (h + 1)..(m + 1) : l = m + 1 \/ l \in (h + 1)..m
      BY <2>1
    <3>. QED
      BY <3>1 DEF IsHeader
  <2>4. Holds(f, m + 1, r[n].item_hashtab, h)
    <3>1. CASE n = N
      <4>1. InSection(f, h, m + 1)
        <5>1. h < m + 1 /\ \A l \in (h + 1)..(m + 1) : ~IsHeader(f, l)
          BY <2>1, <2>2, <2>3, <3>1 DEF SectionOf
        <5>. QED
          BY <5>1 DEF InSection
      <4>2. Holds(f, m, s[N].item_hashtab, h) /\ h \in Nat
        BY <2>2, <3>1 DEF SectionOf
      <4>. DEFINE t == s[N].item_hashtab
      <4>3. t \in [Buckets -> Seq(S)] /\ Holds(f, m, t, h)
        BY <4>2
      <4>. HIDE DEF t
      <4>4. Holds(f, m + 1, HashtabAdd(t, e.name, e), h)
        BY <4>1, <4>2, <4>3, HoldsAdd
      <4>. QED
        BY <3>1, <4>4 DEF t
    <3>2. CASE n # N
      <4>1. ~InSection(f, h, m + 1)
        BY <2>2, <2>3, <3>2 DEF SectionOf, InSection
      <4>. QED
        BY <2>2, <3>2, <4>1, HoldsSkip DEF SectionOf
    <3>. QED
      BY <3>1, <3>2
  <2>5. ASSUME NEW x \in DOMAIN Hash, FirstHeader(f, x, h)
        PROVE  NumberLeads(r, tab[Hash[x]], x, n)
    <3>. DEFINE c == tab[Hash[x]]
    <3>1. Hash[x] \in Buckets
      BY DEF Buckets
    <3>2. Len(c) \in Nat /\ \A j \in 1..Len(c) : c[j] \in 1..Len(s)
      BY <3>1
    <3>3. NumberLeads(s, c, x, n)
      BY <2>2, <2>5 DEF SectionOf
    <3>4. Len(s) \in Nat
      OBVIOUS
    <3>. HIDE DEF c
    <3>5. NumberLeads(r, c, x, n)
      BY <3>2, <3>3, <3>4, NumberKept
    <3>. QED
      BY <3>5 DEF c
  <2>6. SectionOf(f, m + 1, r, tab, h, n)
    BY <2>2, <2>3, <2>4, <2>5 DEF SectionOf
  <2>. QED
    BY <2>6
<1>. QED
  BY <1>3, <1>4, <1>5 DEF Recorded

(* What config_file_parse() does with the next line.                       *)
LEMMA ParseLineWritten ==
  ASSUME Tables, Written, ParseLine
  PROVE  Written'
<1>. DEFINE m == lineno - 1
            line == lines[lineno]
<1>1. /\ lineno <= Len(lines) /\ lineno' = lineno + 1 /\ lines' = lines
      /\ SkipLine \/ NewSection \/ NewItem
  BY DEF ParseLine
<1>2. /\ lines \in Files /\ Len(lines) \in Nat /\ DOMAIN lines = 1..Len(lines)
      /\ lineno \in Nat \ {0} /\ lineno \in DOMAIN lines
  BY <1>1, FilesAssumption DEF Tables
<1>3. /\ m \in Nat /\ lineno = m + 1 /\ lineno' - 1 = m + 1
      /\ lineno' <= Len(lines') + 1
  BY <1>1, <1>2
<1>4. Recorded(lines, m, sections, section_hashtab)
  BY DEF Written
<1>5. Kinds(lines[m + 1])
  BY <1>2, <1>3, LinesAssumption
<1>6. /\ sections \in Seq(SectionRecords)
      /\ section_hashtab \in [Buckets -> Seq(Nat \ {0})]
      /\ Len(sections) \in Nat
      /\ \A b \in Buckets : \A j \in 1..Len(section_hashtab[b]) :
           section_hashtab[b][j] <= Len(sections)
  BY LenProperties DEF Tables, SectionRecords
<1>. HIDE DEF m
<1>7. SUFFICES Recorded(lines, m + 1, sections', section_hashtab')
  BY <1>1, <1>3 DEF Written
<1>8. CASE SkipLine
  <2>1. /\ lines[m + 1] = Blank
        /\ sections' = sections /\ section_hashtab' = section_hashtab
    BY <1>3, <1>8 DEF SkipLine
  <2>2. lines[m + 1] # NoItem /\ lines[m + 1].kind \notin {"section", "item"}
    <3>1. Blank.kind = "blank" /\ NoItem.kind = "other"
      BY DEF Blank, NoItem
    <3>. QED
      BY <2>1, <3>1
  <2>3. Recorded(lines, m + 1, sections, section_hashtab)
    BY <1>3, <1>4, <2>2, RecordedSkip
  <2>. QED
    BY <2>1, <2>3
<1>9. CASE NewSection
  <2>. DEFINE rec == [name |-> lines[m + 1].name, item_hashtab |-> EmptyHashtab]
  <2>1. /\ lines[m + 1].kind = "section"
        /\ sections' = Append(sections, rec)
        /\ section_hashtab' =
             HashtabAdd(section_hashtab, lines[m + 1].name, Len(sections'))
    BY <1>3, <1>9 DEF NewSection
  <2>2. /\ rec \in SectionRecords /\ rec.name = lines[m + 1].name
        /\ rec.item_hashtab = EmptyHashtab
    BY <1>2, <1>3, EmptyTables DEF SectionRecords, FileNames
  <2>. HIDE DEF rec
  <2>3. Len(sections') = Len(sections) + 1
    BY <1>6, <2>1, <2>2, AppendProperties
  <2>4. lines[m + 1] # NoItem /\ IsHeader(lines, m + 1)
    <3>1. NoItem.kind = "other"
      BY DEF NoItem
    <3>. QED
      BY <2>1, <3>1 DEF IsHeader
  <2>5. Recorded(lines, m + 1, Append(sections, rec),
                 HashtabAdd(section_hashtab, rec.name, Len(sections) + 1))
    BY <1>3, <1>4, <1>6, <2>2, <2>4, RecordedSection
  <2>. QED
    BY <2>1, <2>2, <2>3, <2>5
<1>10. CASE NewItem
  <2>. DEFINE e == [name |-> lines[m + 1].name, value |-> lines[m + 1].value]
              N == Len(sections)
              t == sections[N].item_hashtab
              new == HashtabAdd(t, lines[m + 1].name, e)
  <2>1. /\ lines[m + 1].kind = "item" /\ sections # <<>>
        /\ section_hashtab' = section_hashtab
        /\ sections' = [sections EXCEPT ![N].item_hashtab = new]
    BY <1>3, <1>10 DEF NewItem
  <2>2. e \in FileItems /\ e.name = lines[m + 1].name /\ e.value = lines[m + 1].value
    BY <1>2, <1>3, <2>1 DEF FileItems, FileItem
  <2>3. N \in 1..Len(sections) /\ sections[N] \in SectionRecords
    BY <1>6, <2>1, EmptySeq, ElementOfSeq
  <2>4. t \in [Buckets -> Seq(FileItems)]
    BY <2>3 DEF SectionRecords
  <2>5. new = HashtabAdd(t, e.name, e)
    BY <2>2
  <2>6. lines[m + 1] # NoItem
    <3>1. NoItem.kind = "other"
      BY DEF NoItem
    <3>. QED
      BY <2>1, <3>1
  <2>. HIDE DEF e, new
  <2>7. /\ Len(sections') = Len(sections)
        /\ \A n \in 1..Len(sections) : sections'[n].name = sections[n].name
        /\ \A n \in 1..Len(sections) : n # N => sections'[n] = sections[n]
        /\ sections'[N].item_hashtab = new
    <3>. DEFINE rec == [sections[N] EXCEPT !.item_hashtab = new]
    <3>1. rec.name = sections[N].name /\ rec.item_hashtab = new
      BY <2>3 DEF SectionRecords
    <3>2. sections' = [sections EXCEPT ![N] = rec]
      BY <2>1
    <3>. HIDE DEF rec
    <3>3. /\ DOMAIN sections = 1..Len(sections)
          /\ DOMAIN sections' = 1..Len(sections)
      BY <1>6, <3>2, LenProperties
    <3>4. Len(sections') = Len(sections)
      <4>1. sections = [n \in 1..Len(sections) |-> sections[n]]
        BY <1>6, LenProperties
      <4>2. sections' = [n \in 1..Len(sections) |-> sections'[n]]
        BY <3>2, <3>3
      <4>. QED
        BY <1>6, <4>2
    <3>5. sections'[N] = rec /\ \A n \in 1..Len(sections) : n # N => sections'[n] = sections[n]
      BY <2>3, <3>2, <3>3
    <3>. QED
      BY <3>1, <3>4, <3>5
  <2>8. \A b \in Buckets :
          /\ Len(section_hashtab[b]) \in Nat
          /\ \A j \in 1..Len(section_hashtab[b]) :
               section_hashtab[b][j] \in 1..Len(sections)
    <3>. SUFFICES ASSUME NEW b \in Buckets
                  PROVE  /\ Len(section_hashtab[b]) \in Nat
                         /\ \A j \in 1..Len(section_hashtab[b]) :
                              section_hashtab[b][j] \in 1..Len(sections)
      OBVIOUS
    <3>1. section_hashtab[b] \in Seq(Nat \ {0}) /\ Len(section_hashtab[b]) \in Nat
      BY <1>6, LenProperties
    <3>2. ASSUME NEW j \in 1..Len(section_hashtab[b])
          PROVE  section_hashtab[b][j] \in 1..Len(sections)
      <4>1. section_hashtab[b][j] <= Len(sections)
        BY <1>6
      <4>2. section_hashtab[b][j] \in Nat \ {0}
        BY <3>1, ElementOfSeq
      <4>. QED
        BY <1>6, <4>1, <4>2
    <3>. QED
      BY <3>1, <3>2
  <2>. DEFINE r == sections'
              S == FileItems
  <2>9. Recorded(lines, m + 1, r, section_hashtab)
    <3>1. e \in S /\ t \in [Buckets -> Seq(S)] /\ N = Len(sections)
      BY <2>2, <2>4
    <3>2. /\ Len(r) = Len(sections)
          /\ \A n \in 1..Len(sections) : r[n].name = sections[n].name
          /\ \A n \in 1..Len(sections) : n # N => r[n] = sections[n]
          /\ r[N].item_hashtab = HashtabAdd(sections[N].item_hashtab, e.name, e)
      BY <2>5, <2>7
    <3>. HIDE DEF r, S, N
    <3>. QED
      BY <1>3, <1>4, <2>1, <2>2, <2>3, <2>6, <2>8, <3>1, <3>2, RecordedItem
  <2>. QED
    BY <2>1, <2>9
<1>. QED
  BY <1>1, <1>8, <1>9, <1>10

-----------------------------------------------------------------------------
(***************************************************************************)
(* What config_get() finds in the tables of a file that has been read.     *)
(***************************************************************************)
LookUpSection(x) ==
  LET chain == section_hashtab[Hash[x]]
      found == {k \in DOMAIN chain : sections[chain[k]].name = x}
  IN  IF found = {} THEN {}
      ELSE {chain[CHOOSE k \in found : \A l \in found : k <= l]}

LookUpItem(tab, x) ==
  LET chain == tab[Hash[x]]
      found == {k \in DOMAIN chain : chain[k].name = x}
  IN  IF found = {} THEN {}
      ELSE {chain[CHOOSE k \in found : \A l \in found : k <= l]}

LEMMA ConfigGetLooksUp ==
  ASSUME NEW x, NEW y
  PROVE  LET all == UNION {LookUpItem(sections[n].item_hashtab, y) :
                             n \in LookUpSection(x)}
         IN  ConfigGet(x, y) = IF all = {} THEN Missing
                               ELSE (CHOOSE e \in all : TRUE).value
  BY Zenon DEF ConfigGet, HashtabGet, LookUpSection, LookUpItem

LEMMA FirstOfFound ==
  ASSUME NEW n \in Nat, NEW P, P \subseteq 1..n, NEW j \in P,
         \A l \in 1..(j - 1) : l \notin P
  PROVE  (CHOOSE k \in P : \A l \in P : k <= l) = j
<1>. DEFINE least == CHOOSE k \in P : \A l \in P : k <= l
<1>1. \A l \in P : j <= l
  OBVIOUS
<1>2. least \in P /\ \A l \in P : least <= l
  BY <1>1
<1>. HIDE DEF least
<1>3. least = j
  BY <1>1, <1>2
<1>. QED
  BY <1>3 DEF least

LEMMA LookUpSectionFirst ==
  ASSUME Tables, NEW x \in DOMAIN Hash
  PROVE  /\ \A n : NumberLeads(sections, section_hashtab[Hash[x]], x, n)
                     => LookUpSection(x) = {n}
         /\ LookUpSection(x) # {} => \E n \in 1..Len(sections) : sections[n].name = x
<1>. DEFINE chain == section_hashtab[Hash[x]]
            found == {k \in DOMAIN chain : sections[chain[k]].name = x}
            first == CHOOSE k \in found : \A l \in found : k <= l
<1>1. LookUpSection(x) = IF found = {} THEN {} ELSE {chain[first]}
  BY DEF LookUpSection
<1>2. Hash[x] \in Buckets
  BY DEF Buckets
<1>3. /\ chain \in Seq(Nat \ {0}) /\ DOMAIN chain = 1..Len(chain) /\ Len(chain) \in Nat
      /\ \A k \in 1..Len(chain) : chain[k] <= Len(sections)
      /\ Len(sections) \in Nat
  BY <1>2, LenProperties DEF Tables
<1>4. ASSUME NEW n, NumberLeads(sections, chain, x, n) PROVE LookUpSection(x) = {n}
  <2>1. PICK j \in 1..Len(chain) : /\ chain[j] = n /\ sections[n].name = x
                                   /\ \A l \in 1..(j - 1) : sections[chain[l]].name # x
    BY <1>4 DEF NumberLeads
  <2>2. j \in found /\ found \subseteq 1..Len(chain) /\ \A l \in 1..(j - 1) : l \notin found
    BY <1>3, <2>1
  <2>. HIDE DEF found, chain
  <2>3. first = j
    BY <1>3, <2>2, FirstOfFound
  <2>. QED
    BY <1>1, <2>1, <2>2, <2>3
<1>5. ASSUME LookUpSection(x) # {} PROVE \E n \in 1..Len(sections) : sections[n].name = x
  <2>1. PICK k \in 1..Len(chain) : sections[chain[k]].name = x
    BY <1>1, <1>3, <1>5
  <2>. HIDE DEF chain
  <2>2. chain[k] \in Nat \ {0}
    BY <1>3, ElementOfSeq
  <2>3. chain[k] \in 1..Len(sections)
    BY <1>3, <2>2
  <2>. QED
    BY <2>1, <2>3
<1>. HIDE DEF chain
<1>6. /\ \A n : NumberLeads(sections, chain, x, n) => LookUpSection(x) = {n}
      /\ LookUpSection(x) # {} => \E n \in 1..Len(sections) : sections[n].name = x
  BY <1>4, <1>5
<1>. QED
  BY <1>6 DEF chain

Finds(tab, x, v) == \E e : LookUpItem(tab, x) = {e} /\ e.value = v

LEMMA LookUpItemFirst ==
  ASSUME NEW S, NEW tab \in [Buckets -> Seq(S)], NEW x \in DOMAIN Hash
  PROVE  /\ \A v : Leads(tab[Hash[x]], x, v) => Finds(tab, x, v)
         /\ LookUpItem(tab, x) # {}
              => \E j \in 1..Len(tab[Hash[x]]) : tab[Hash[x]][j].name = x
<1>. DEFINE chain == tab[Hash[x]]
            found == {k \in DOMAIN chain : chain[k].name = x}
            first == CHOOSE k \in found : \A l \in found : k <= l
<1>1. LookUpItem(tab, x) = IF found = {} THEN {} ELSE {chain[first]}
  BY DEF LookUpItem
<1>2. Hash[x] \in Buckets
  BY DEF Buckets
<1>3. DOMAIN chain = 1..Len(chain) /\ Len(chain) \in Nat
  BY <1>2, LenProperties
<1>4. ASSUME NEW v, Leads(chain, x, v)
      PROVE  Finds(tab, x, v)
  <2>1. PICK j \in 1..Len(chain) : /\ chain[j].name = x /\ chain[j].value = v
                                   /\ \A l \in 1..(j - 1) : chain[l].name # x
    BY <1>4 DEF Leads
  <2>2. j \in found /\ found \subseteq 1..Len(chain) /\ \A l \in 1..(j - 1) : l \notin found
    BY <1>3, <2>1
  <2>. HIDE DEF found, chain
  <2>3. first = j
    BY <1>3, <2>2, FirstOfFound
  <2>4. LookUpItem(tab, x) = {chain[j]}
    BY <1>1, <2>2, <2>3
  <2>. QED
    BY <2>1, <2>4 DEF Finds
<1>5. ASSUME LookUpItem(tab, x) # {} PROVE \E j \in 1..Len(chain) : chain[j].name = x
  BY <1>1, <1>3, <1>5
<1>. HIDE DEF chain
<1>6. /\ \A v : Leads(chain, x, v) => Finds(tab, x, v)
      /\ LookUpItem(tab, x) # {} => \E j \in 1..Len(chain) : chain[j].name = x
  BY <1>4, <1>5
<1>. QED
  BY <1>6 DEF chain

(* The first section of a name: its number is found, and its items.        *)
LEMMA ConfigGetSection ==
  ASSUME Tables, Written, NEW x \in DOMAIN Hash, NEW y \in DOMAIN Hash,
         NEW h \in 1..(lineno - 1), FirstHeader(lines, x, h)
  PROVE  \E tab \in [Buckets -> Seq(FileItems)] :
           /\ Holds(lines, lineno - 1, tab, h)
           /\ ConfigGet(x, y) = IF LookUpItem(tab, y) = {} THEN Missing
                                ELSE (CHOOSE e \in LookUpItem(tab, y) : TRUE).value
<1>1. IsHeader(lines, h)
  BY DEF FirstHeader
<1>2. PICK n \in 1..Len(sections) :
        SectionOf(lines, lineno - 1, sections, section_hashtab, h, n)
  BY <1>1 DEF Written, Recorded
<1>3. NumberLeads(sections, section_hashtab[Hash[x]], x, n)
  BY <1>2 DEF SectionOf
<1>4. LookUpSection(x) = {n}
  BY <1>3, LookUpSectionFirst
<1>. DEFINE tab == sections[n].item_hashtab
<1>5. tab \in [Buckets -> Seq(FileItems)]
  <2>1. sections \in Seq(SectionRecords)
    BY DEF Tables, SectionRecords
  <2>2. sections[n] \in SectionRecords
    BY <2>1, ElementOfSeq
  <2>. QED
    BY <2>2 DEF SectionRecords
<1>. DEFINE i0 == UNION {LookUpItem(sections[q].item_hashtab, y) : q \in LookUpSection(x)}
<1>6. i0 = LookUpItem(tab, y)
  BY <1>4
<1>7. ConfigGet(x, y) = IF i0 = {} THEN Missing ELSE (CHOOSE e \in i0 : TRUE).value
  BY ConfigGetLooksUp
<1>. HIDE DEF i0
<1>8. Holds(lines, lineno - 1, tab, h)
  BY <1>2 DEF SectionOf
<1>. HIDE DEF tab
<1>. QED
  BY <1>5, <1>6, <1>7, <1>8

(* Lines are headers or items by their kind.                               *)
LEMMA KindOfLine ==
  ASSUME Tables, NEW k \in 1..Len(lines)
  PROVE  /\ \A x : lines[k] = Header(x) <=> IsHeader(lines, k) /\ lines[k].name = x
         /\ \A x, v : lines[k] = Item(x, v) <=> IsItem(lines, x, k) /\ lines[k].value = v
<1>1. k \in DOMAIN lines /\ lines \in Files
  BY FilesAssumption DEF Tables
<1>2. Kinds(lines[k])
  BY <1>1, LinesAssumption
<1>. DEFINE line == lines[k]
<1>3. /\ \A x : Header(x).kind = "section" /\ Header(x).name = x
      /\ \A x, v : /\ Item(x, v).kind = "item" /\ Item(x, v).name = x
                   /\ Item(x, v).value = v
      /\ Blank.kind = "blank" /\ NoItem.kind = "other"
  BY DEF Header, Item, Blank, NoItem
<1>4. /\ line.kind = "section" => line = Header(line.name)
      /\ line.kind = "item" => line = Item(line.name, line.value)
  BY <1>2, <1>3 DEF Kinds
<1>. HIDE DEF line
<1>5. /\ \A x : line = Header(x) <=> line.kind = "section" /\ line.name = x
      /\ \A x, v : line = Item(x, v) <=> (line.kind = "item" /\ line.name = x)
                                          /\ line.value = v
  BY <1>3, <1>4
<1>. QED
  BY <1>5 DEF line, IsHeader, IsItem

LEMMA ConfigGetSays ==
  ASSUME Tables, Written, lineno > Len(lines),
         NEW x \in DOMAIN Hash, NEW y \in DOMAIN Hash
  PROVE  /\ \A v : Says(lines, x, y, v) => ConfigGet(x, y) = v
         /\ ConfigGet(x, y) # Missing => Says(lines, x, y, ConfigGet(x, y))
<1>1. /\ lines \in Files /\ Len(lines) \in Nat /\ DOMAIN lines = 1..Len(lines)
      /\ lineno - 1 = Len(lines)
  BY FilesAssumption DEF Tables, Written
<1>2. ASSUME NEW h \in 1..Len(lines), FirstHeader(lines, x, h),
             NEW k \in 1..Len(lines), FirstItem(lines, h, y, k)
      PROVE  ConfigGet(x, y) = lines[k].value /\ Says(lines, x, y, lines[k].value)
  <2>. DEFINE v == lines[k].value
  <2>1. PICK tab \in [Buckets -> Seq(FileItems)] :
          /\ Holds(lines, lineno - 1, tab, h)
          /\ ConfigGet(x, y) = IF LookUpItem(tab, y) = {} THEN Missing
                               ELSE (CHOOSE e \in LookUpItem(tab, y) : TRUE).value
    BY <1>1, <1>2, ConfigGetSection
  <2>2. Leads(tab[Hash[y]], y, v)
    BY <1>1, <1>2, <2>1 DEF Holds, Chain
  <2>. HIDE DEF v
  <2>3. PICK e : LookUpItem(tab, y) = {e} /\ e.value = v
    <3>1. Finds(tab, y, v)
      BY <2>2, LookUpItemFirst
    <3>. QED
      BY <3>1 DEF Finds
  <2>4. (CHOOSE d \in {e} : TRUE) = e
    OBVIOUS
  <2>5. ConfigGet(x, y) = v
    BY <2>1, <2>3, <2>4
  <2>6. lines[h] = Header(x)
    BY <1>1, <1>2, KindOfLine DEF FirstHeader
  <2>7. \A l \in 1..(h - 1) : lines[l] # Header(x)
    <3>. SUFFICES ASSUME NEW l \in 1..(h - 1), lines[l] = Header(x) PROVE FALSE
      OBVIOUS
    <3>1. l \in 1..Len(lines)
      BY <1>1
    <3>2. IsHeader(lines, l) /\ lines[l].name = x
      BY <3>1, KindOfLine
    <3>. QED
      BY <1>2, <3>2 DEF FirstHeader
  <2>8. h < k /\ \A l \in (h + 1)..k : ~IsHeader(lines, l)
    BY <1>2 DEF FirstItem, ItemOf, InSection
  <2>9. lines[k] = Item(y, v)
    BY <1>2, KindOfLine DEF FirstItem, ItemOf, v
  <2>10. \A l \in (h + 1)..(k - 1) : lines[l].kind = "item" => lines[l].name # y
    BY <1>2 DEF FirstItem, IsItem
  <2>11. Says(lines, x, y, v)
    BY <1>1, <2>6, <2>7, <2>8, <2>9, <2>10 DEF Says
  <2>. QED
    BY <2>5, <2>11 DEF v
<1>3. ASSUME NEW v, Says(lines, x, y, v) PROVE ConfigGet(x, y) = v
  <2>1. PICK h \in 1..Len(lines), k \in 1..Len(lines) :
          /\ lines[h] = Header(x)
          /\ \A l \in 1..(h - 1) : lines[l] # Header(x)
          /\ h < k /\ \A l \in (h + 1)..k : ~IsHeader(lines, l)
          /\ lines[k] = Item(y, v)
          /\ \A l \in (h + 1)..(k - 1) :
               lines[l].kind = "item" => lines[l].name # y
    BY <1>1, <1>3 DEF Says
  <2>2. FirstHeader(lines, x, h)
    <3>1. \A l \in 1..(h - 1) : IsHeader(lines, l) => lines[l].name # x
      <4>. SUFFICES ASSUME NEW l \in 1..(h - 1), IsHeader(lines, l), lines[l].name = x
                    PROVE  FALSE
        OBVIOUS
      <4>1. l \in 1..Len(lines)
        BY <1>1
      <4>2. lines[l] = Header(x)
        BY <4>1, KindOfLine
      <4>. QED
        BY <2>1, <4>2
    <3>2. IsHeader(lines, h) /\ lines[h].name = x
      BY <2>1, KindOfLine
    <3>. QED
      BY <3>1, <3>2 DEF FirstHeader
  <2>3. IsItem(lines, y, k) /\ lines[k].value = v
    BY <2>1, KindOfLine
  <2>4. FirstItem(lines, h, y, k)
    BY <2>1, <2>3 DEF FirstItem, ItemOf, InSection, IsItem
  <2>. QED
    BY <1>2, <2>2, <2>3, <2>4
<1>4. ASSUME ConfigGet(x, y) # Missing PROVE Says(lines, x, y, ConfigGet(x, y))
  <2>1. LookUpSection(x) # {}
    <3>. SUFFICES ASSUME LookUpSection(x) = {} PROVE FALSE
      OBVIOUS
    <3>. DEFINE i0 == UNION {LookUpItem(sections[q].item_hashtab, y) : q \in LookUpSection(x)}
    <3>1. i0 = {}
      OBVIOUS
    <3>2. ConfigGet(x, y) = IF i0 = {} THEN Missing ELSE (CHOOSE e \in i0 : TRUE).value
      BY ConfigGetLooksUp
    <3>. QED
      BY <1>4, <3>1, <3>2
  <2>2. PICK n \in 1..Len(sections) : sections[n].name = x
    BY <2>1, LookUpSectionFirst
  <2>. DEFINE H == {l \in 1..Len(lines) : IsHeader(lines, l) /\ lines[l].name = x}
  <2>3. H # {} /\ H \in SUBSET Nat
    <3>1. PICK l \in 1..(lineno - 1) : IsHeader(lines, l) /\ lines[l].name = sections[n].name
      BY DEF Written, Recorded
    <3>2. l \in H
      BY <1>1, <2>2, <3>1
    <3>3. H \subseteq 1..Len(lines)
      OBVIOUS
    <3>. HIDE DEF H
    <3>. QED
      BY <1>1, <3>2, <3>3
  <2>4. PICK h \in H : \A l \in H : h <= l
    <3>. HIDE DEF H
    <3>. QED
      BY <2>3, LeastElement
  <2>5. h \in 1..Len(lines) /\ FirstHeader(lines, x, h)
    <3>1. \A l \in 1..(h - 1) : IsHeader(lines, l) => lines[l].name # x
      <4>. SUFFICES ASSUME NEW l \in 1..(h - 1), IsHeader(lines, l), lines[l].name = x
                    PROVE  FALSE
        OBVIOUS
      <4>1. l \in H
        BY <1>1
      <4>. QED
        BY <2>4, <4>1
    <3>. QED
      BY <3>1 DEF FirstHeader
  <2>6. PICK tab \in [Buckets -> Seq(FileItems)] :
          /\ Holds(lines, lineno - 1, tab, h)
          /\ ConfigGet(x, y) = IF LookUpItem(tab, y) = {} THEN Missing
                               ELSE (CHOOSE e \in LookUpItem(tab, y) : TRUE).value
    BY <1>1, <2>5, ConfigGetSection
  <2>7. LookUpItem(tab, y) # {}
    BY <1>4, <2>6
  <2>8. PICK j \in 1..Len(tab[Hash[y]]) : tab[Hash[y]][j].name = y
    BY <2>7, LookUpItemFirst
  <2>. DEFINE K == {l \in 1..Len(lines) : ItemOf(lines, h, y, l)}
  <2>9. K # {} /\ K \in SUBSET Nat
    BY <1>1, <2>6, <2>8 DEF Holds, Chain
  <2>10. PICK k \in K : \A l \in K : k <= l
    <3>. HIDE DEF K
    <3>. QED
      BY <2>9, LeastElement
  <2>11. FirstItem(lines, h, y, k)
    <3>. SUFFICES ASSUME NEW l \in (h + 1)..(k - 1), IsItem(lines, y, l) PROVE FALSE
      BY DEF FirstItem
    <3>1. InSection(lines, h, l) /\ l \in 1..Len(lines)
      BY <1>1, <2>5 DEF ItemOf, InSection
    <3>2. l \in K
      BY <3>1 DEF ItemOf
    <3>. QED
      BY <2>10, <3>2
  <2>12. k \in 1..Len(lines)
    OBVIOUS
  <2>. HIDE DEF K, H
  <2>. QED
    BY <1>2, <2>5, <2>11, <2>12
<1>. QED
  BY <1>3, <1>4

-----------------------------------------------------------------------------
(***************************************************************************)
(* The invariant of FollowsConfiguration, action by action.                *)
(***************************************************************************)
FInv == SInv /\ Written /\ AsWritten /\ Schedule

LEMMA GetConfigWritten ==
  ASSUME SInv, Written, GetConfig
  PROVE  AsWritten'
<1>. DEFINE value == ConfigGet("BACKLIGHT", "autodim_steps")
            yes == ConfigGet("BACKLIGHT", "autodim_smooth")
            SaysSteps(v) == Says(lines, "BACKLIGHT", "autodim_steps", v)
            SaysSmooth(v) == Says(lines, "BACKLIGHT", "autodim_smooth", v)
<1>1. /\ lineno > Len(lines) /\ pc' = "parse" /\ lines' = lines
      /\ config' = IF value = Missing THEN Default ELSE value
      /\ smooth' = (yes = "yes")
  BY DEF GetConfig, confVars, ConfigGetBool
<1>2. /\ Tables /\ lines \in Files /\ Len(lines) \in Nat /\ DOMAIN lines = 1..Len(lines)
      /\ lineno - 1 = Len(lines)
  <2>1. Tables /\ lines \in Files /\ lineno \in Nat \ {0}
    BY DEF SInv, Tables
  <2>2. lineno <= Len(lines) + 1
    BY DEF Written
  <2>3. Len(lines) \in Nat /\ DOMAIN lines = 1..Len(lines)
    BY <2>1, FilesAssumption
  <2>. QED
    BY <1>1, <2>1, <2>2, <2>3
<1>3. /\ "BACKLIGHT" \in DOMAIN Hash /\ "autodim_steps" \in DOMAIN Hash
      /\ "autodim_smooth" \in DOMAIN Hash
  BY ConfigurationAssumption
<1>4. /\ \A v : SaysSteps(v) => value = v
      /\ value # Missing => SaysSteps(value)
  BY <1>1, <1>2, <1>3, ConfigGetSays
<1>5. /\ \A v : SaysSmooth(v) => yes = v
      /\ yes # Missing => SaysSmooth(yes)
  BY <1>1, <1>2, <1>3, ConfigGetSays
<1>6. ~Malformed(lines)
  BY <1>2 DEF Written, Recorded, WellFormed, Malformed
<1>. HIDE DEF value, yes, SaysSteps, SaysSmooth
<1>7. SaysSteps(config')
        \/ /\ config' = Default
           /\ \A k \in DOMAIN lines : lines[k].kind = "item" => ~SaysSteps(lines[k].value)
  <2>1. CASE value = Missing
    <3>1. ASSUME NEW k \in DOMAIN lines, lines[k].kind = "item"
          PROVE  ~SaysSteps(lines[k].value)
      BY <1>2, <1>4, <2>1, <3>1, MissingAssumption
    <3>. QED
      BY <1>1, <2>1, <3>1
  <2>2. CASE value # Missing
    BY <1>1, <1>4, <2>2
  <2>. QED
    BY <2>1, <2>2
<1>8. (yes = "yes") = SaysSmooth("yes")
  <2>1. SaysSmooth("yes") \in BOOLEAN
    BY DEF SaysSmooth, Says
  <2>2. (yes = "yes") <=> SaysSmooth("yes")
    BY <1>5, MissingAssumption
  <2>. QED
    BY <2>1, <2>2
<1>9. smooth' = SaysSmooth("yes")
  BY <1>1, <1>8
<1>. QED
  BY <1>1, <1>6, <1>7, <1>9 DEF AsWritten, SaysSteps, SaysSmooth

LEMMA RejectWritten ==
  ASSUME SInv, Written, Reject
  PROVE  AsWritten'
<1>1. lineno <= Len(lines) /\ LineError /\ pc' = "rejected" /\ lines' = lines
  BY DEF Reject, confVars
<1>2. /\ lines \in Files /\ DOMAIN lines = 1..Len(lines) /\ lineno \in Nat \ {0}
      /\ Len(lines) \in Nat /\ lineno \in DOMAIN lines
  BY <1>1, FilesAssumption DEF SInv, Tables
<1>3. Malformed(lines)
  <2>1. CASE lines[lineno] = NoItem
    BY <1>2, <2>1 DEF Malformed
  <2>2. CASE lines[lineno].kind = "item" /\ sections = <<>>
    <3>1. \A l \in 1..(lineno - 1) : ~IsHeader(lines, l)
      <4>1. Len(sections) = 0
        BY <2>2
      <4>. QED
        BY <4>1 DEF Written, Recorded
    <3>2. ~IsHeader(lines, lineno)
      BY <2>2 DEF IsHeader
    <3>3. \A l \in 1..lineno : l = lineno \/ l \in 1..(lineno - 1)
      BY <1>2
    <3>. QED
      BY <1>2, <2>2, <3>1, <3>2, <3>3 DEF Malformed
  <2>. QED
    BY <1>1, <2>1, <2>2 DEF LineError
<1>. QED
  BY <1>1, <1>3 DEF AsWritten

LEMMA FollowsInitial == StepsInit => FInv
<1>. SUFFICES ASSUME StepsInit PROVE FInv
  OBVIOUS
<1>1. SInv
  BY StepsInitial
<1>2. /\ lineno = 1 /\ sections = <<>> /\ pc = "read" /\ lines \in Files
  BY DEF StepsInit, ConfInit
<1>3. Len(lines) \in Nat
  BY <1>2, FilesAssumption
<1>4. Recorded(lines, 0, sections, section_hashtab)
  BY <1>2 DEF Recorded, WellFormed
<1>5. lineno - 1 = 0 /\ lineno <= Len(lines) + 1
  BY <1>2, <1>3
<1>6. Written
  BY <1>4, <1>5 DEF Written
<1>7. AsWritten /\ Schedule
  BY <1>2 DEF AsWritten, Schedule
<1>. QED
  BY <1>1, <1>6, <1>7 DEF FInv

LEMMA FollowsNext == FInv /\ [Next]_vars => FInv'
<1>. SUFFICES ASSUME FInv, [Next]_vars PROVE FInv'
  OBVIOUS
<1>1. SInv /\ Written /\ AsWritten /\ Schedule /\ Tables /\ Loops
  BY DEF FInv, SInv
<1>2. SInv'
  BY <1>1, StepsNext
<1>3. Schedule'
  BY <1>1, RestSchedule, ParseEntrySchedule, ParsedSchedule, SmoothenSchedule,
     OptimizeSchedule DEF Next
<1>4. Written'
  <2>1. CASE ReadLine
    BY <1>1, <2>1, ParseLineWritten DEF ReadLine
  <2>2. CASE UNCHANGED confVars
    BY <1>1, <2>2 DEF Written, confVars
  <2>3. UNCHANGED confVars \/ ReadLine
    BY DEF Next, vars, Reject, GetConfig, ParseEntry, ParseError, Parsed, Smoothen, Optimize
  <2>. QED
    BY <2>1, <2>2, <2>3
<1>5. AsWritten'
  <2>1. CASE ReadLine
    <3>1. pc = "read" /\ pc' = "read"
      BY <2>1 DEF ReadLine, stepVars
    <3>. QED
      BY <3>1 DEF AsWritten
  <2>2. CASE Reject
    BY <1>1, <2>2, RejectWritten
  <2>3. CASE GetConfig
    BY <1>1, <2>3, GetConfigWritten
  <2>4. CASE UNCHANGED vars
    BY <1>1, <2>4 DEF AsWritten, vars, confVars, stepVars
  <2>5. CASE ParseEntry \/ ParseError \/ Parsed \/ Smoothen \/ Optimize
    <3>1. /\ lines' = lines /\ config' = config /\ smooth' = smooth
          /\ pc \notin {"read", "rejected"} /\ pc' \notin {"read", "rejected"}
      BY <2>5 DEF ParseEntry, ParseError, Parsed, Smoothen, Optimize, confVars
    <3>. QED
      BY <1>1, <3>1 DEF AsWritten
  <2>. QED
    BY <2>1, <2>2, <2>3, <2>4, <2>5 DEF Next
<1>. QED
  BY <1>2, <1>3, <1>4, <1>5 DEF FInv

(***************************************************************************)
(* From the lines of any file to the schedule: the daemon refuses the      *)
(* malformed ones, takes the items the file names first, refuses entries   *)
(* that do not grow and no others, and computes a schedule that passes     *)
(* through the configured steps and stays between them.                    *)
(***************************************************************************)
THEOREM ConfigurationIsFollowed == StepsSpec => []FollowsConfiguration
<1>1. FInv => FollowsConfiguration
  BY SchedulePasses, ScheduleRefuses DEF FInv, SInv, FollowsConfiguration
<1>. QED
  BY <1>1, FollowsInitial, FollowsNext, PTL DEF StepsSpec
=============================================================================
