-------------------------- MODULE Clients_proofs --------------------------
(***************************************************************************)
(* For any number of trays, any size of the sockets and any number of      *)
(* errors: a tray that has read its messages shows what the daemon holds.  *)
(*                                                                         *)
(* The tray is followed from its first request on.  What it shows, changed *)
(* by the messages that are on their way, is what the daemon holds; but    *)
(* while the request to move the slider is on its way, the slider is       *)
(* already where the daemon will be.                                       *)
(***************************************************************************)
EXTENDS Clients, SequenceTheorems, TLAPS

(* Replies among messages: none, or one.                                   *)
NoReply(msgs) == \A i \in DOMAIN msgs : ~msgs[i].reply

OneReply(msgs, id) ==
  \E r \in DOMAIN msgs :
    /\ msgs[r].reply /\ msgs[r].id = id
    /\ \A j \in DOMAIN msgs : j # r => ~msgs[j].reply

(* The messages about ids: none, or v is the value of the last.            *)
None(msgs, ids) == \A i \in DOMAIN msgs : msgs[i].id \notin ids

Settled(msgs, ids, v) ==
  \E i \in DOMAIN msgs :
    /\ msgs[i].id \in ids /\ msgs[i].value = v
    /\ \A j \in DOMAIN msgs : j > i => msgs[j].id \notin ids

(* What shows x shows v after the messages.                                *)
Latest(msgs, ids, x, v) == Settled(msgs, ids, v) \/ (None(msgs, ids) /\ v = x)

(* ... after those the tray has kept, and then those in its socket.        *)
Follows(w, box, k, x, v) ==
  \E y \in {0, 1} : /\ Latest(w.deferred, AskedBy(k), x, y)
                    /\ Latest(box, AskedBy(k), y, v)

FollowsBattery(w, box, v) ==
  \/ Follows(w, box, "bat", w.shown["bat"], v)
  \/ w.missed /\ None(w.deferred, AskedBy("bat")) /\ None(box, AskedBy("bat"))

(* The requests of a tray that stays, and when notifications are on.       *)
Asking == {"ping", "want_notify", "xevrep", "bl", "bat", "bl_again", "set"}
Subscribed == {"xevrep", "bl", "bat", "bl_again", "ready", "set"}

(* A tray w, its request, its socket and the daemon's values.              *)
Protocol(w, req, box) ==
  /\ w.phase \in {"off", "connected", "ready"} =>
       req = NoRequest /\ NoReply(box) /\ w.deferred = <<>>
  /\ w.phase \in Asking =>
       \/ req.id = w.phase /\ NoReply(box)
       \/ req = NoRequest /\ OneReply(box, w.phase)

Told(w, req, told) ==
  w.phase \in Subscribed \/ (w.phase = "want_notify" /\ req = NoRequest) => told

Tracks(w, req, box, val) ==
  /\ w.phase = "bat" /\ req = NoRequest => Settled(box, AskedBy("bat"), val["bat"])
  /\ w.phase = "bl_again" => Follows(w, box, "bat", w.shown["bat"], val["bat"])
  /\ w.phase = "bl_again" /\ req = NoRequest => Settled(box, AskedBy("bl"), val["bl"])
  /\ w.phase = "ready" => Follows(w, box, "bl", w.shown["bl"], val["bl"])
  /\ w.phase = "set" /\ req = NoRequest =>
       Follows(w, box, "bl", w.shown["bl"], val["bl"])
  /\ w.phase = "set" /\ req # NoRequest =>
       /\ req.value = w.shown["bl"]
       /\ Follows(w, box, "bl", 1 - w.shown["bl"], val["bl"])
  /\ w.phase \in {"ready", "set"} => FollowsBattery(w, box, val["bat"])

TrayInv(w, req, box, told, val) ==
  Protocol(w, req, box) /\ Told(w, req, told) /\ Tracks(w, req, box, val)

(***************************************************************************)
(* Every tray is followed, as long as the daemon runs and nothing is lost. *)
(***************************************************************************)
Running == daemon \in {"starting", "up"} /\ ~lost

Informed(t) == notify[t] /\ t \in ClientList

CInv ==
  Running =>
    \A t \in Trays :
      TrayInv(tray[t], request[t], inbox[t], Informed(t), value)

(* A tray that has not connected is in no list.                            *)
Fresh(t) == t \notin ToSet(backlog) /\ t \notin ToSet(clients) /\ t \notin ToSet(ahead)

TInv == TypeOK /\ \A t \in Trays : tray[t].phase = "off" => Fresh(t)

-----------------------------------------------------------------------------
(* Messages that come and go.                                              *)
LEMMA Ids ==
  DOMAIN NextPhase = Asking \cup {"bye"} /\ Notifications \subseteq Messages
  BY DEF NextPhase, Asking, Messages

LEMMA Reading ==
  ASSUME NEW m \in Messages
  PROVE  /\ m.reply \in BOOLEAN /\ m.value \in {0, 1}
         /\ ~m.reply <=> m \in Notifications
         /\ \A k \in Kinds : m \in Notifications => (m.id \in AskedBy(k) <=> m.id = k)
  BY DEF Messages, Notifications, Replies, AskedBy, Kinds

LEMMA Appended ==
  ASSUME NEW S, NEW s \in Seq(S), NEW m \in S
  PROVE  /\ Append(s, m) \in Seq(S) /\ Len(s) \in Nat
         /\ Len(Append(s, m)) = Len(s) + 1
         /\ DOMAIN s = 1..Len(s) /\ DOMAIN Append(s, m) = 1..(Len(s) + 1)
         /\ \A i \in 1..Len(s) : Append(s, m)[i] = s[i] /\ s[i] \in S
         /\ Append(s, m)[Len(s) + 1] = m
  OBVIOUS

LEMMA HeadAndTail ==
  ASSUME NEW S, NEW s \in Seq(S), s # <<>>
  PROVE  /\ Head(s) \in S /\ Tail(s) \in Seq(S) /\ Len(s) \in Nat \ {0}
         /\ Len(Tail(s)) = Len(s) - 1 /\ Head(s) = s[1]
         /\ DOMAIN s = 1..Len(s) /\ DOMAIN Tail(s) = 1..(Len(s) - 1)
         /\ \A i \in 1..(Len(s) - 1) : i + 1 \in 1..Len(s) /\ Tail(s)[i] = s[i + 1]
         /\ 1 \in 1..Len(s)
         /\ \A i \in 1..Len(s) : s[i] \in S
  OBVIOUS

LEMMA AppendReplies ==
  ASSUME NEW s \in Seq(Messages), NEW m \in Messages
  PROVE  /\ NoReply(s) /\ ~m.reply => NoReply(Append(s, m))
         /\ NoReply(s) /\ m.reply => OneReply(Append(s, m), m.id)
         /\ \A id : OneReply(s, id) /\ ~m.reply => OneReply(Append(s, m), id)
<1>. DEFINE n == Len(s)
            u == Append(s, m)
<1>1. /\ n \in Nat /\ DOMAIN s = 1..n /\ DOMAIN u = 1..(n + 1)
      /\ \A i \in 1..n : u[i] = s[i]
      /\ u[n + 1] = m
  BY Appended
<1>. HIDE DEF n, u
<1>2. NoReply(s) /\ ~m.reply => NoReply(u)
  BY <1>1 DEF NoReply
<1>3. NoReply(s) /\ m.reply => OneReply(u, m.id)
  BY <1>1 DEF NoReply, OneReply
<1>4. ASSUME NEW id, OneReply(s, id), ~m.reply PROVE OneReply(u, id)
  BY <1>1, <1>4 DEF OneReply
<1>. QED
  BY <1>2, <1>3, <1>4 DEF u

LEMMA AppendSettled ==
  ASSUME NEW s \in Seq(Messages), NEW m \in Messages, NEW ids
  PROVE  /\ m.id \in ids => Settled(Append(s, m), ids, m.value)
         /\ m.id \notin ids /\ None(s, ids) => None(Append(s, m), ids)
         /\ \A v : m.id \notin ids /\ Settled(s, ids, v) =>
                     Settled(Append(s, m), ids, v)
<1>. DEFINE n == Len(s)
            u == Append(s, m)
<1>1. /\ n \in Nat /\ DOMAIN s = 1..n /\ DOMAIN u = 1..(n + 1)
      /\ \A i \in 1..n : u[i] = s[i]
      /\ u[n + 1] = m
  BY Appended
<1>. HIDE DEF n, u
<1>2. m.id \in ids => Settled(u, ids, m.value)
  BY <1>1 DEF Settled
<1>3. m.id \notin ids /\ None(s, ids) => None(u, ids)
  BY <1>1 DEF None
<1>4. ASSUME NEW v, m.id \notin ids, Settled(s, ids, v) PROVE Settled(u, ids, v)
  BY <1>1, <1>4 DEF Settled
<1>. QED
  BY <1>2, <1>3, <1>4 DEF u

LEMMA TailReplies ==
  ASSUME NEW s \in Seq(Messages), s # <<>>
  PROVE  /\ NoReply(s) => ~Head(s).reply /\ NoReply(Tail(s))
         /\ \A id : OneReply(s, id) /\ ~Head(s).reply => OneReply(Tail(s), id)
         /\ \A id : OneReply(s, id) /\ Head(s).reply =>
                      Head(s).id = id /\ NoReply(Tail(s))
<1>. DEFINE n == Len(s)
            u == Tail(s)
<1>1. /\ n \in Nat \ {0} /\ DOMAIN s = 1..n /\ DOMAIN u = 1..(n - 1)
      /\ \A i \in 1..(n - 1) : i + 1 \in 1..n /\ u[i] = s[i + 1]
      /\ Head(s) = s[1] /\ 1 \in 1..n
  BY HeadAndTail
<1>. HIDE DEF n, u
<1>2. NoReply(s) => ~Head(s).reply /\ NoReply(u)
  BY <1>1 DEF NoReply
<1>3. ASSUME NEW id, OneReply(s, id), ~Head(s).reply PROVE OneReply(u, id)
  <2>1. PICK r \in 1..n : /\ s[r].reply /\ s[r].id = id
                          /\ \A j \in 1..n : j # r => ~s[j].reply
    BY <1>1, <1>3 DEF OneReply
  <2>2. r - 1 \in 1..(n - 1) /\ u[r - 1] = s[r]
    BY <1>1, <1>3, <2>1
  <2>3. \A j \in 1..(n - 1) : j # r - 1 => ~u[j].reply
    BY <1>1, <2>1
  <2>. QED
    BY <1>1, <2>1, <2>2, <2>3 DEF OneReply
<1>4. ASSUME NEW id, OneReply(s, id), Head(s).reply
      PROVE  Head(s).id = id /\ NoReply(u)
  <2>1. PICK r \in 1..n : /\ s[r].reply /\ s[r].id = id
                          /\ \A j \in 1..n : j # r => ~s[j].reply
    BY <1>1, <1>4 DEF OneReply
  <2>2. r = 1
    BY <1>1, <1>4, <2>1
  <2>3. \A i \in 1..(n - 1) : i + 1 # 1
    BY <1>1
  <2>. QED
    BY <1>1, <2>1, <2>2, <2>3 DEF NoReply
<1>. QED
  BY <1>2, <1>3, <1>4 DEF u

LEMMA TailSettled ==
  ASSUME NEW s \in Seq(Messages), s # <<>>, NEW ids
  PROVE  /\ None(s, ids) => Head(s).id \notin ids /\ None(Tail(s), ids)
         /\ \A v : Settled(s, ids, v) /\ Head(s).id \notin ids => Settled(Tail(s), ids, v)
         /\ \A v : Settled(s, ids, v) /\ Head(s).id \in ids =>
                     Latest(Tail(s), ids, Head(s).value, v)
         /\ \A v : Settled(s, ids, v) /\ ~None(Tail(s), ids) => Settled(Tail(s), ids, v)
<1>. DEFINE n == Len(s)
            u == Tail(s)
<1>1. /\ n \in Nat \ {0} /\ DOMAIN s = 1..n /\ DOMAIN u = 1..(n - 1)
      /\ \A i \in 1..(n - 1) : i + 1 \in 1..n /\ u[i] = s[i + 1]
      /\ Head(s) = s[1] /\ 1 \in 1..n
  BY HeadAndTail
<1>. HIDE DEF n, u
<1>2. None(s, ids) => Head(s).id \notin ids /\ None(u, ids)
  BY <1>1 DEF None
<1>3. ASSUME NEW v, Settled(s, ids, v)
      PROVE  Settled(u, ids, v) \/ (/\ Head(s).id \in ids /\ v = Head(s).value
                                    /\ None(u, ids))
  <2>1. PICK i \in 1..n : /\ s[i].id \in ids /\ s[i].value = v
                          /\ \A j \in 1..n : j > i => s[j].id \notin ids
    BY <1>1, <1>3 DEF Settled
  <2>2. CASE i = 1
    BY <1>1, <2>1, <2>2 DEF None
  <2>3. CASE i > 1
    <3>1. i - 1 \in 1..(n - 1) /\ u[i - 1] = s[i]
      BY <1>1, <2>1, <2>3
    <3>2. \A j \in 1..(n - 1) : j > i - 1 => u[j].id \notin ids
      BY <1>1, <2>1
    <3>. QED
      BY <1>1, <2>1, <3>1, <3>2 DEF Settled
  <2>. QED
    BY <2>1, <2>2, <2>3
<1>. QED
  BY <1>2, <1>3 DEF u, Latest

LEMMA Empty == ASSUME NEW ids PROVE  None(<<>>, ids) /\ NoReply(<<>>)
  BY DEF None, NoReply

-----------------------------------------------------------------------------
(* What a tray will show, when messages come and go.                       *)
Phases == DOMAIN NextPhase \cup {"off", "connected", "ready", "gone"}

IsTray(w) ==
  w \in [phase : Phases, deferred : Seq(Notifications),
         errcount : 0..(MaxErrors - 1), shown : Values, missed : BOOLEAN]

LEMMA Deferred ==
  ASSUME NEW w, IsTray(w)
  PROVE  w.deferred \in Seq(Notifications) /\ w.deferred \in Seq(Messages)
<1>1. w.deferred \in Seq(Notifications)
  BY DEF IsTray
<1>. QED
  BY <1>1, Ids

LEMMA FollowsAppend ==
  ASSUME NEW w, NEW box \in Seq(Messages), NEW m \in Messages,
         NEW k, NEW x, NEW v, Follows(w, box, k, x, v)
  PROVE  Follows(w, Append(box, m), k, x, IF m.id \in AskedBy(k) THEN m.value ELSE v)
<1>. DEFINE ids == AskedBy(k)
<1>1. PICK y \in {0, 1} : Latest(w.deferred, ids, x, y) /\ Latest(box, ids, y, v)
  BY DEF Follows
<1>. HIDE DEF ids
<1>2. Latest(Append(box, m), ids, y, IF m.id \in ids THEN m.value ELSE v)
  BY <1>1, AppendSettled DEF Latest
<1>. QED
  BY <1>1, <1>2 DEF Follows, ids

LEMMA FollowsDefer ==
  ASSUME NEW w, IsTray(w), NEW u, NEW box \in Seq(Messages), box # <<>>,
         Head(box) \in Notifications,
         u.deferred = Append(w.deferred, Head(box)),
         NEW k, NEW x, NEW v, Follows(w, box, k, x, v)
  PROVE  Follows(u, Tail(box), k, x, v)
<1>. DEFINE ids == AskedBy(k)
            m == Head(box)
<1>1. PICK y \in {0, 1} : Latest(w.deferred, ids, x, y) /\ Latest(box, ids, y, v)
  BY DEF Follows
<1>2. m \in Messages /\ m.value \in {0, 1}
  BY Ids, Reading
<1>3. w.deferred \in Seq(Messages)
  BY Deferred
<1>. HIDE DEF ids, m
<1>4. CASE m.id \in ids
  <2>1. Settled(Append(w.deferred, m), ids, m.value)
    BY <1>2, <1>3, <1>4, AppendSettled
  <2>2. ~None(box, ids)
    BY <1>4, TailSettled DEF m
  <2>3. Latest(Tail(box), ids, m.value, v)
    BY <1>1, <1>4, <2>2, TailSettled DEF Latest, m
  <2>. QED
    BY <1>2, <2>1, <2>3 DEF Follows, Latest, ids, m
<1>5. CASE m.id \notin ids
  <2>1. Latest(Append(w.deferred, m), ids, x, y)
    BY <1>1, <1>2, <1>3, <1>5, AppendSettled DEF Latest
  <2>2. Latest(Tail(box), ids, y, v)
    BY <1>1, <1>5, TailSettled DEF Latest, m
  <2>. QED
    BY <2>1, <2>2 DEF Follows, ids, m
<1>. QED
  BY <1>4, <1>5

(* Nothing is kept.                                                        *)
LEMMA FollowsAlone ==
  ASSUME NEW w, w.deferred = <<>>, NEW box, NEW k, NEW x \in {0, 1}, NEW v
  PROVE  Follows(w, box, k, x, v) <=> Latest(box, AskedBy(k), x, v)
<1>1. \A y : Latest(<<>>, AskedBy(k), x, y) <=> y = x
  BY Empty DEF Latest, Settled
<1>. QED
  BY <1>1 DEF Follows

LEMMA LatestRead ==
  ASSUME NEW box \in Seq(Messages), box # <<>>, NEW ids, NEW x, NEW v,
         Latest(box, ids, x, v)
  PROVE  Latest(Tail(box), ids, IF Head(box).id \in ids THEN Head(box).value ELSE x, v)
  BY TailSettled DEF Latest

(* What was kept is shown.                                                 *)
LEMMA ShownAll ==
  ASSUME NEW w, IsTray(w)
  PROVE  ShowAll(w.shown, w.deferred) \in Values
<1>1. ASSUME NEW k \in Kinds PROVE ShowAll(w.shown, w.deferred)[k] \in {0, 1}
  <2>1. w.shown[k] \in {0, 1}
    BY DEF IsTray, Values
  <2>2. \A i \in DOMAIN w.deferred : w.deferred[i].value \in {0, 1}
    <3>1. w.deferred \in Seq(Notifications)
      BY Deferred
    <3>2. \A i \in DOMAIN w.deferred : w.deferred[i] \in Notifications
      BY <3>1
    <3>. QED
      BY <3>2, Ids, Reading
  <2>. QED
    BY <2>1, <2>2 DEF ShowAll
<1>2. ShowAll(w.shown, w.deferred) = [k \in Kinds |-> ShowAll(w.shown, w.deferred)[k]]
  BY DEF ShowAll
<1>. QED
  BY <1>1, <1>2 DEF Values

LEMMA FollowsShown ==
  ASSUME NEW w, IsTray(w), NEW box, NEW k \in Kinds, NEW v,
         Follows(w, box, k, w.shown[k], v)
  PROVE  Latest(box, AskedBy(k), ShowAll(w.shown, w.deferred)[k], v)
<1>. DEFINE ms == w.deferred
            ids == AskedBy(k)
            x == w.shown[k]
<1>1. PICK y \in {0, 1} : Latest(ms, ids, x, y) /\ Latest(box, ids, y, v)
  BY DEF Follows
<1>2. ms \in Seq(Notifications) /\ DOMAIN ms = 1..Len(ms) /\ Len(ms) \in Nat
  BY Deferred
<1>3. \A i \in DOMAIN ms : ms[i].id \in ids <=> ms[i].id = k
  BY <1>2, Ids, Reading
<1>4. ShowAll(w.shown, ms)[k] =
        IF \E i \in DOMAIN ms : IsLast(ms, k, i)
          THEN ms[CHOOSE i \in DOMAIN ms : IsLast(ms, k, i)].value ELSE x
  BY DEF ShowAll
<1>. HIDE DEF ms, ids, x
<1>5. ShowAll(w.shown, ms)[k] = y
  <2>1. CASE Settled(ms, ids, y)
    <3>1. PICK i \in DOMAIN ms : ms[i].value = y /\ IsLast(ms, k, i)
      BY <1>3, <2>1 DEF Settled, IsLast
    <3>2. ASSUME NEW j \in DOMAIN ms, IsLast(ms, k, j) PROVE j = i
      BY <1>2, <3>1, <3>2 DEF IsLast
    <3>. QED
      BY <1>4, <3>1, <3>2
  <2>2. CASE None(ms, ids) /\ y = x
    BY <1>3, <1>4, <2>2 DEF None, IsLast
  <2>. QED
    BY <1>1, <2>1, <2>2 DEF Latest
<1>. QED
  BY <1>1, <1>5 DEF ms, ids

(* A slider that was moved to where the messages lead anyway.              *)
LEMMA FollowsMoved ==
  ASSUME NEW w, NEW box, NEW m \in {0, 1}, Follows(w, box, "bl", 1 - m, m)
  PROVE  Follows(w, box, "bl", m, m)
<1>1. PICK y \in {0, 1} : /\ Latest(w.deferred, AskedBy("bl"), 1 - m, y)
                          /\ Latest(box, AskedBy("bl"), y, m)
  BY DEF Follows
<1>2. 1 - m # m
  OBVIOUS
<1>3. CASE Settled(w.deferred, AskedBy("bl"), y)
  BY <1>1, <1>3 DEF Follows, Latest
<1>4. CASE None(w.deferred, AskedBy("bl")) /\ y = 1 - m
  <2>1. Settled(box, AskedBy("bl"), m)
    BY <1>1, <1>2, <1>4 DEF Latest
  <2>. QED
    BY <1>4, <2>1 DEF Follows, Latest
<1>. QED
  BY <1>1, <1>3, <1>4 DEF Latest

-----------------------------------------------------------------------------
(* A tray, its request and its socket: what the daemon does to them.       *)
IsRequest(req) == req \in Requests \cup {NoRequest}

LEMMA AskedByKinds ==
  /\ AskedBy("bl") = {"bl", "bl_again"} /\ AskedBy("bat") = {"bat"}
  /\ \A k \in Kinds : k \in AskedBy(k)
  /\ \A j, k \in Kinds : j # k => j \notin AskedBy(k)
  BY DEF AskedBy, Kinds

LEMMA Untold ==
  ASSUME NEW w, NEW req, NEW box, NEW val, TrayInv(w, req, box, FALSE, val),
         NEW u, NEW told \in BOOLEAN
  PROVE  TrayInv(w, req, box, told, u)
  BY DEF TrayInv, Told, Tracks, Subscribed

(* A notification of a change.                                             *)
LEMMA Changed ==
  ASSUME NEW w, IsTray(w), NEW req, NEW box \in Seq(Messages),
         NEW told \in BOOLEAN, NEW val \in Values, TrayInv(w, req, box, told, val),
         NEW id \in Kinds, NEW v \in {0, 1}, NEW new, new = [val EXCEPT ![id] = v]
  PROVE  TrayInv(w, req, Append(box, Notification(id, v)), told, new)
<1>. DEFINE m == Notification(id, v)
            b == Append(box, m)
<1>1. m \in Messages /\ m.id = id /\ m.value = v /\ ~m.reply
  BY DEF Messages, Notifications, Notification
<1>2. b = Append(box, m)
  OBVIOUS
<1>3. \A k \in Kinds : new[k] = IF k = id THEN v ELSE val[k]
  BY DEF Values
<1>. HIDE DEF m, b
<1>4. Protocol(w, req, b)
  BY <1>1, <1>2, AppendReplies DEF TrayInv, Protocol
<1>5. ASSUME NEW k \in Kinds, NEW x, Follows(w, box, k, x, val[k])
      PROVE  Follows(w, b, k, x, new[k])
  <2>1. Follows(w, b, k, x, IF m.id \in AskedBy(k) THEN m.value ELSE val[k])
    BY <1>1, <1>2, <1>5, FollowsAppend
  <2>. QED
    BY <1>1, <1>3, <2>1, AskedByKinds
<1>6. ASSUME NEW k \in Kinds, Settled(box, AskedBy(k), val[k])
      PROVE  Settled(b, AskedBy(k), new[k])
  BY <1>1, <1>2, <1>3, <1>6, AppendSettled, AskedByKinds
<1>7. FollowsBattery(w, box, val["bat"]) => FollowsBattery(w, b, new["bat"])
  <2>1. "bat" \in Kinds
    BY DEF Kinds
  <2>2. CASE w.missed /\ None(w.deferred, AskedBy("bat")) /\ None(box, AskedBy("bat"))
    <3>1. CASE id = "bat"
      <4>1. Settled(b, AskedBy("bat"), new["bat"])
        BY <1>1, <1>2, <1>3, <3>1, AppendSettled, AskedByKinds
      <4>2. w.shown["bat"] \in {0, 1}
        BY <2>1 DEF IsTray, Values
      <4>3. Follows(w, b, "bat", w.shown["bat"], new["bat"])
        BY <2>2, <4>1, <4>2 DEF Follows, Latest
      <4>. QED
        BY <4>3 DEF FollowsBattery
    <3>2. CASE id # "bat"
      <4>1. None(b, AskedBy("bat"))
        BY <1>1, <1>2, <2>1, <2>2, <3>2, AppendSettled, AskedByKinds
      <4>. QED
        BY <2>2, <4>1 DEF FollowsBattery
    <3>. QED
      BY <3>1, <3>2
  <2>3. CASE Follows(w, box, "bat", w.shown["bat"], val["bat"])
    BY <1>5, <2>1, <2>3 DEF FollowsBattery
  <2>. QED
    BY <2>2, <2>3 DEF FollowsBattery
<1>8. Tracks(w, req, b, new)
  <2>1. "bl" \in Kinds /\ "bat" \in Kinds
    BY DEF Kinds
  <2>. QED
    BY <1>5, <1>6, <1>7, <2>1 DEF TrayInv, Tracks
<1>9. Told(w, req, told)
  BY DEF TrayInv
<1>. QED
  BY <1>2, <1>4, <1>8, <1>9 DEF TrayInv, m

(* The reply to a request; a slider that was moved is where the daemon is. *)
LEMMA Replied ==
  ASSUME NEW w, IsTray(w), NEW req, IsRequest(req), req # NoRequest,
         NEW box \in Seq(Messages), NEW told \in BOOLEAN, NEW val \in Values,
         TrayInv(w, req, box, told, val),
         NEW now \in BOOLEAN, told \/ req.id = "want_notify" => now,
         w.phase = "set" => val["bl"] = w.shown["bl"],
         NEW v \in {0, 1}, NEW m \in Messages, m.reply, m.id = req.id, m.value = v,
         req.id \in {"bl", "bl_again"} => v = val["bl"],
         req.id = "bat" => v = val["bat"]
  PROVE  TrayInv(w, NoRequest, Append(box, m), now, val)
<1>. DEFINE b == Append(box, m)
<1>1. b = Append(box, m) /\ "bl" \in Kinds /\ "bat" \in Kinds
  BY DEF Kinds
<1>. HIDE DEF b
<1>2. w.phase \notin {"off", "connected", "ready"}
      /\ (w.phase \in Asking => req.id = w.phase /\ NoReply(box))
  BY DEF TrayInv, Protocol
<1>3. w.phase \in Asking => OneReply(b, w.phase)
  BY <1>1, <1>2, AppendReplies
<1>4. Protocol(w, NoRequest, b)
  BY <1>2, <1>3 DEF Protocol
<1>5. Told(w, NoRequest, now)
  BY <1>2 DEF TrayInv, Told, Subscribed, Asking
<1>6. ASSUME NEW k \in Kinds, m.id \notin AskedBy(k), NEW x, NEW y, Follows(w, box, k, x, y)
      PROVE  Follows(w, b, k, x, y)
  BY <1>1, <1>6, FollowsAppend, Zenon
<1>7. w.phase = "bat" => Settled(b, AskedBy("bat"), val["bat"])
  BY <1>1, <1>2, AppendSettled, AskedByKinds DEF Asking
<1>8. w.phase = "bl_again" =>
        /\ Follows(w, b, "bat", w.shown["bat"], val["bat"])
        /\ Settled(b, AskedBy("bl"), val["bl"])
  <2>. SUFFICES ASSUME w.phase = "bl_again"
                PROVE  /\ Follows(w, b, "bat", w.shown["bat"], val["bat"])
                       /\ Settled(b, AskedBy("bl"), val["bl"])
    OBVIOUS
  <2>1. m.id = "bl_again"
    BY <1>2 DEF Asking
  <2>2. Follows(w, box, "bat", w.shown["bat"], val["bat"])
    BY DEF TrayInv, Tracks
  <2>3. Follows(w, b, "bat", w.shown["bat"], val["bat"])
    BY <1>1, <1>6, <2>1, <2>2, AskedByKinds
  <2>. QED
    BY <1>1, <2>1, <2>3, AppendSettled, AskedByKinds
<1>9. w.phase = "set" =>
        /\ Follows(w, b, "bl", w.shown["bl"], val["bl"])
        /\ FollowsBattery(w, b, val["bat"])
  <2>. SUFFICES ASSUME w.phase = "set"
                PROVE  /\ Follows(w, b, "bl", w.shown["bl"], val["bl"])
                       /\ FollowsBattery(w, b, val["bat"])
    OBVIOUS
  <2>1. m.id = "set"
    BY <1>2 DEF Asking
  <2>2. Follows(w, box, "bl", 1 - w.shown["bl"], val["bl"])
        /\ FollowsBattery(w, box, val["bat"])
    BY DEF TrayInv, Tracks
  <2>3. w.shown["bl"] \in {0, 1}
    BY <1>1 DEF IsTray, Values
  <2>4. Follows(w, box, "bl", w.shown["bl"], val["bl"])
    BY <2>2, <2>3, FollowsMoved
  <2>5. Follows(w, b, "bl", w.shown["bl"], val["bl"])
    BY <1>1, <1>6, <2>1, <2>4, AskedByKinds
  <2>6. FollowsBattery(w, b, val["bat"])
    BY <1>1, <1>6, <2>1, <2>2, AppendSettled, AskedByKinds DEF FollowsBattery
  <2>. QED
    BY <2>5, <2>6
<1>10. Tracks(w, NoRequest, b, val)
  BY <1>2, <1>7, <1>8, <1>9 DEF Tracks
<1>. QED
  BY <1>1, <1>4, <1>5, <1>10 DEF TrayInv

-----------------------------------------------------------------------------
(* ... and what the tray does.                                             *)
LEMMA Left ==
  ASSUME NEW w, w.phase \in {"bye", "gone"}, NEW req, NEW box, NEW told \in BOOLEAN,
         NEW val
  PROVE  TrayInv(w, req, box, told, val)
  BY DEF TrayInv, Protocol, Told, Tracks, Asking, Subscribed

LEMMA DeferTracks ==
  ASSUME NEW w, IsTray(w), NEW req, NEW box \in Seq(Messages), box # <<>>,
         NEW told \in BOOLEAN, NEW val, TrayInv(w, req, box, told, val),
         Head(box) \in Notifications, w.phase \in Asking,
         NEW u, u.phase = w.phase, u.shown = w.shown, u.missed = w.missed,
         u.deferred = Append(w.deferred, Head(box))
  PROVE  TrayInv(u, req, Tail(box), told, val)
<1>. DEFINE b == Tail(box)
            h == Head(box)
<1>1. h \in Messages /\ ~h.reply /\ w.deferred \in Seq(Messages)
  BY Ids, Reading, Deferred
<1>2. \/ req.id = w.phase /\ NoReply(box)
      \/ req = NoRequest /\ OneReply(box, w.phase)
  BY DEF TrayInv, Protocol
<1>3. req.id # w.phase => OneReply(b, w.phase)
  BY <1>1, <1>2, TailReplies
<1>4. Protocol(u, req, b)
  BY <1>1, <1>2, TailReplies DEF Protocol, Asking
<1>5. Told(u, req, told)
  BY DEF TrayInv, Told
<1>6. ASSUME NEW ids, w.phase \in ids, NEW v, Settled(box, ids, v), req = NoRequest
      PROVE  Settled(b, ids, v)
  <2>1. req.id # w.phase
    BY <1>6 DEF NoRequest, Asking
  <2>2. ~None(b, ids)
    BY <1>3, <1>6, <2>1 DEF OneReply, None
  <2>. QED
    BY <1>6, <2>2, TailSettled
<1>7. ASSUME NEW k, NEW x, NEW v, Follows(w, box, k, x, v) PROVE Follows(u, b, k, x, v)
  BY <1>7, FollowsDefer
<1>8. FollowsBattery(w, box, val["bat"]) => FollowsBattery(u, b, val["bat"])
  <2>1. CASE w.missed /\ None(w.deferred, AskedBy("bat")) /\ None(box, AskedBy("bat"))
    <3>1. h.id \notin AskedBy("bat") /\ None(b, AskedBy("bat"))
      BY <2>1, TailSettled
    <3>2. None(u.deferred, AskedBy("bat"))
      BY <1>1, <2>1, <3>1, AppendSettled
    <3>. QED
      BY <2>1, <3>1, <3>2 DEF FollowsBattery
  <2>2. CASE Follows(w, box, "bat", w.shown["bat"], val["bat"])
    BY <1>7, <2>2 DEF FollowsBattery
  <2>. QED
    BY <2>1, <2>2 DEF FollowsBattery
<1>. HIDE DEF b
<1>9. Tracks(u, req, b, val)
  BY <1>6, <1>7, <1>8, AskedByKinds DEF TrayInv, Tracks
<1>. QED
  BY <1>4, <1>5, <1>9 DEF TrayInv, b

(* The reply is what is read.                                              *)
LEMMA ReplyRead ==
  ASSUME NEW w, NEW req, NEW box \in Seq(Messages), box # <<>>,
         NEW told, NEW val, TrayInv(w, req, box, told, val),
         w.phase \in Asking, Head(box).reply
  PROVE  /\ req = NoRequest /\ Head(box).id = w.phase /\ NoReply(Tail(box))
         /\ Head(box) \in Messages /\ Head(box).value \in {0, 1}
<1>1. Head(box) \in Messages
  OBVIOUS
<1>. QED
  BY <1>1, TailReplies, Reading DEF TrayInv, Protocol

LEMMA ReplyTypes ==
  ASSUME NEW w, IsTray(w), NEW m \in Messages
  PROVE  ShowDeferred(w) \in Values /\ ShowReply(ShowDeferred(w), m) \in Values
<1>1. ShowDeferred(w) \in Values
  BY ShownAll DEF ShowDeferred, IsTray
<1>. QED
  BY <1>1, Reading DEF ShowReply, Values

(* What the tray keeps is shown after the move of a slider ...             *)
LEMMA SetReplied ==
  ASSUME NEW w, IsTray(w), NEW box \in Seq(Messages), box # <<>>,
         NEW told, NEW val, TrayInv(w, NoRequest, box, told, val),
         w.phase = "set", Head(box).id = "set",
         NEW u, u.deferred = <<>>,
         u.shown = ShowReply(ShowDeferred(w), Head(box)), u.shown \in Values,
         u.missed = IF None(w.deferred, AskedBy("bat")) THEN w.missed ELSE FALSE
  PROVE  /\ Follows(u, Tail(box), "bl", u.shown["bl"], val["bl"])
         /\ FollowsBattery(u, Tail(box), val["bat"])
<1>. DEFINE b == Tail(box)
<1>1. \A k \in Kinds : u.shown[k] = ShowAll(w.shown, w.deferred)[k] /\ u.shown[k] \in {0, 1}
  BY DEF ShowReply, ShowDeferred, AskedBy, Kinds, Values
<1>2. ASSUME NEW k \in Kinds, NEW v, Follows(w, box, k, w.shown[k], v)
      PROVE  Follows(u, b, k, u.shown[k], v)
  <2>1. Latest(box, AskedBy(k), u.shown[k], v)
    BY <1>1, <1>2, FollowsShown
  <2>2. Head(box).id \notin AskedBy(k)
    BY DEF AskedBy
  <2>3. Latest(b, AskedBy(k), u.shown[k], v)
    BY <2>1, <2>2, LatestRead, Zenon
  <2>. QED
    BY <1>1, <2>3, FollowsAlone
<1>3. Follows(u, b, "bl", u.shown["bl"], val["bl"])
  <2>1. Follows(w, box, "bl", w.shown["bl"], val["bl"])
    BY DEF TrayInv, Tracks
  <2>. QED
    BY <1>2, <2>1 DEF Kinds
<1>4. FollowsBattery(u, b, val["bat"])
  <2>1. FollowsBattery(w, box, val["bat"])
    BY DEF TrayInv, Tracks
  <2>2. CASE Follows(w, box, "bat", w.shown["bat"], val["bat"])
    BY <1>2, <2>2 DEF Kinds, FollowsBattery
  <2>3. CASE w.missed /\ None(w.deferred, AskedBy("bat")) /\ None(box, AskedBy("bat"))
    BY <2>3, TailSettled, Empty DEF FollowsBattery
  <2>. QED
    BY <2>1, <2>2, <2>3 DEF FollowsBattery
<1>. QED
  BY <1>3, <1>4

(* ... and is lost while the window is built.                              *)
LEMMA WindowReplied ==
  ASSUME NEW w, IsTray(w), NEW box \in Seq(Messages), box # <<>>,
         NEW told, NEW val, TrayInv(w, NoRequest, box, told, val),
         w.phase = "bl_again", Head(box).id = "bl_again", Head(box).value \in {0, 1},
         NEW u, u.deferred = <<>>,
         u.shown = ShowReply(ShowDeferred(w), Head(box)), u.shown \in Values,
         None(w.deferred, AskedBy("bat")) => u.missed = w.missed,
         ~None(w.deferred, AskedBy("bat")) => u.missed
  PROVE  /\ Follows(u, Tail(box), "bl", u.shown["bl"], val["bl"])
         /\ FollowsBattery(u, Tail(box), val["bat"])
<1>. DEFINE b == Tail(box)
            ids == AskedBy("bat")
<1>1. /\ u.shown["bl"] = Head(box).value /\ u.shown["bat"] = w.shown["bat"]
      /\ u.shown["bl"] \in {0, 1} /\ u.shown["bat"] \in {0, 1}
  BY DEF ShowReply, ShowDeferred, AskedBy, Kinds, Values
<1>2. Follows(u, b, "bl", u.shown["bl"], val["bl"])
  <2>1. Settled(box, AskedBy("bl"), val["bl"])
    BY DEF TrayInv, Tracks
  <2>2. Latest(b, AskedBy("bl"), u.shown["bl"], val["bl"])
    BY <1>1, <2>1, TailSettled, AskedByKinds
  <2>. QED
    BY <1>1, <2>2, FollowsAlone
<1>3. FollowsBattery(u, b, val["bat"])
  <2>1. PICK y \in {0, 1} : /\ Latest(w.deferred, ids, w.shown["bat"], y)
                            /\ Latest(box, ids, y, val["bat"])
    BY DEF TrayInv, Tracks, Follows
  <2>2. Head(box).id \notin ids
    BY AskedByKinds
  <2>3. Latest(b, ids, y, val["bat"])
    BY <2>1, <2>2, LatestRead, Zenon
  <2>. HIDE DEF ids
  <2>4. CASE Settled(b, ids, val["bat"])
    <3>1. Latest(b, ids, u.shown["bat"], val["bat"])
      BY <2>4 DEF Latest
    <3>. QED
      BY <1>1, <3>1, FollowsAlone DEF FollowsBattery, ids
  <2>5. CASE None(b, ids) /\ ~None(w.deferred, ids)
    BY <2>5, Empty DEF FollowsBattery, ids
  <2>6. CASE None(b, ids) /\ val["bat"] = y /\ None(w.deferred, ids)
    <3>1. y = w.shown["bat"]
      BY <2>1, <2>6 DEF Latest, Settled, None
    <3>2. Latest(b, ids, u.shown["bat"], val["bat"])
      BY <1>1, <2>6, <3>1 DEF Latest
    <3>. QED
      BY <1>1, <3>2, FollowsAlone DEF FollowsBattery, ids
  <2>. QED
    BY <2>3, <2>4, <2>5, <2>6 DEF Latest
<1>. QED
  BY <1>2, <1>3

LEMMA GotReplyTracks ==
  ASSUME NEW w, IsTray(w), NEW req, NEW box \in Seq(Messages), box # <<>>,
         NEW told \in BOOLEAN, NEW val \in Values, TrayInv(w, req, box, told, val),
         w.phase \in Asking, Head(box).reply,
         NEW u, u.phase = NextPhase[w.phase], u.deferred = <<>>,
         u.shown = ShowReply(ShowDeferred(w), Head(box)),
         u.missed = IF None(w.deferred, AskedBy("bat")) THEN w.missed
                    ELSE w.phase = "bl_again",
         NEW new, new = IF u.phase = "ready" THEN req ELSE Request(u.phase, 0)
  PROVE  TrayInv(u, new, Tail(box), told, val)
<1>. DEFINE b == Tail(box)
<1>1. /\ req = NoRequest /\ Head(box).id = w.phase /\ NoReply(b)
      /\ Head(box) \in Messages /\ Head(box).value \in {0, 1}
  BY ReplyRead
<1>2. u.shown \in Values
  BY <1>1, ReplyTypes
<1>3. /\ w.phase = "ping" => u.phase = "want_notify"
      /\ w.phase = "want_notify" => u.phase = "xevrep"
      /\ w.phase = "xevrep" => u.phase = "bl"
      /\ w.phase = "bl" => u.phase = "bat"
      /\ w.phase = "bat" => u.phase = "bl_again"
      /\ w.phase \in {"bl_again", "set"} => u.phase = "ready"
  BY DEF NextPhase
<1>4. u.phase # "ready" => new.id = u.phase /\ new # NoRequest
  <2>1. u.phase # "ready" => new.id = u.phase
    BY DEF Request
  <2>2. NoRequest.id = "none" /\ u.phase # "none"
    BY <1>3 DEF NoRequest, Asking
  <2>. QED
    BY <2>1, <2>2
<1>. HIDE DEF b
<1>5. Protocol(u, new, b)
  BY <1>1, <1>3, <1>4 DEF Protocol, Asking
<1>6. Told(u, new, told)
  <2>1. w.phase \in Subscribed \/ w.phase = "want_notify" => told
    BY <1>1 DEF TrayInv, Told
  <2>. QED
    BY <1>3, <1>4, <2>1 DEF Told, Subscribed, Asking
<1>7. Tracks(u, new, b, val)
  <2>1. CASE w.phase \in {"ping", "want_notify", "xevrep", "bl"}
    BY <1>3, <1>4, <2>1 DEF Tracks
  <2>2. CASE w.phase = "bat"
    <3>1. Settled(box, AskedBy("bat"), val["bat"])
      BY <1>1, <2>2 DEF TrayInv, Tracks
    <3>2. u.shown["bat"] = Head(box).value
      BY <1>1, <2>2 DEF ShowReply, AskedBy, Kinds
    <3>3. Latest(b, AskedBy("bat"), u.shown["bat"], val["bat"])
      BY <1>1, <2>2, <3>1, <3>2, TailSettled, AskedByKinds DEF b
    <3>4. Follows(u, b, "bat", u.shown["bat"], val["bat"])
      BY <1>1, <3>2, <3>3, FollowsAlone
    <3>. QED
      BY <1>3, <1>4, <2>2, <3>4 DEF Tracks
  <2>3. CASE w.phase = "bl_again"
    <3>1. /\ None(w.deferred, AskedBy("bat")) => u.missed = w.missed
          /\ ~None(w.deferred, AskedBy("bat")) => u.missed
      BY <2>3
    <3>2. /\ Follows(u, b, "bl", u.shown["bl"], val["bl"])
          /\ FollowsBattery(u, b, val["bat"])
      BY <1>1, <1>2, <2>3, <3>1, WindowReplied DEF b
    <3>. QED
      BY <1>3, <2>3, <3>2 DEF Tracks
  <2>4. CASE w.phase = "set"
    <3>1. /\ Follows(u, b, "bl", u.shown["bl"], val["bl"])
          /\ FollowsBattery(u, b, val["bat"])
      BY <1>1, <1>2, <2>4, SetReplied DEF b
    <3>. QED
      BY <1>3, <2>4, <3>1 DEF Tracks
  <2>. QED
    BY <2>1, <2>2, <2>3, <2>4 DEF Asking
<1>. QED
  BY <1>5, <1>6, <1>7 DEF TrayInv, b

LEMMA NotificationTracks ==
  ASSUME NEW w, IsTray(w), w.phase = "ready", NEW req,
         NEW box \in Seq(Messages), box # <<>>,
         NEW told \in BOOLEAN, NEW val \in Values, TrayInv(w, req, box, told, val),
         NEW u, u.phase = w.phase, u.deferred = w.deferred,
         u.shown = Show(w.shown, Head(box)),
         u.missed = (w.missed /\ Head(box).id # "bat")
  PROVE  TrayInv(u, req, Tail(box), told, val)
<1>. DEFINE b == Tail(box)
            h == Head(box)
<1>1. /\ w.deferred = <<>> /\ req = NoRequest /\ NoReply(b)
      /\ h \in Messages /\ ~h.reply
  BY TailReplies DEF TrayInv, Protocol
<1>2. h \in Notifications /\ h.value \in {0, 1}
      /\ \A k \in Kinds : h.id \in AskedBy(k) <=> h.id = k
  BY <1>1, Reading
<1>. HIDE DEF b, h
<1>3. ASSUME NEW k \in Kinds, NEW v, Follows(w, box, k, w.shown[k], v)
      PROVE  Follows(u, b, k, u.shown[k], v)
  <2>1. w.shown[k] \in {0, 1}
    BY DEF IsTray, Values
  <2>2. Latest(box, AskedBy(k), w.shown[k], v)
    BY <1>1, <1>3, <2>1, FollowsAlone
  <2>3. u.shown[k] = IF h.id \in AskedBy(k) THEN h.value ELSE w.shown[k]
    BY <1>2 DEF Show, h
  <2>4. Latest(b, AskedBy(k), u.shown[k], v)
    BY <2>2, <2>3, LatestRead DEF b, h
  <2>5. u.shown[k] \in {0, 1}
    BY <1>2, <2>1, <2>3
  <2>. QED
    BY <1>1, <2>4, <2>5, FollowsAlone
<1>4. Protocol(u, req, b) /\ Told(u, req, told)
  BY <1>1 DEF TrayInv, Protocol, Told, Asking
<1>5. FollowsBattery(u, b, val["bat"])
  <2>1. FollowsBattery(w, box, val["bat"])
    BY DEF TrayInv, Tracks
  <2>2. CASE Follows(w, box, "bat", w.shown["bat"], val["bat"])
    BY <1>3, <2>2 DEF Kinds, FollowsBattery
  <2>3. CASE w.missed /\ None(w.deferred, AskedBy("bat")) /\ None(box, AskedBy("bat"))
    <3>1. h.id \notin AskedBy("bat") /\ None(b, AskedBy("bat"))
      BY <2>3, TailSettled DEF b, h
    <3>2. u.missed
      BY <2>3, <3>1, AskedByKinds DEF h
    <3>. QED
      BY <2>3, <3>1, <3>2 DEF FollowsBattery
  <2>. QED
    BY <2>1, <2>2, <2>3 DEF FollowsBattery
<1>6. Tracks(u, req, b, val)
  <2>1. Follows(w, box, "bl", w.shown["bl"], val["bl"])
    BY DEF TrayInv, Tracks
  <2>2. Follows(u, b, "bl", u.shown["bl"], val["bl"])
    BY <1>3, <2>1 DEF Kinds
  <2>. QED
    BY <1>5, <2>2 DEF Tracks
<1>. QED
  BY <1>4, <1>6 DEF TrayInv, b

LEMMA MoveTracks ==
  ASSUME NEW w, IsTray(w), w.phase = "ready", NEW req, NEW box, NEW told \in BOOLEAN,
         NEW val, TrayInv(w, req, box, told, val),
         NEW u, u.phase = "set", u.deferred = w.deferred, u.missed = w.missed,
         u.shown["bl"] = 1 - w.shown["bl"], u.shown["bat"] = w.shown["bat"]
  PROVE  TrayInv(u, Request("set", u.shown["bl"]), box, told, val)
<1>. DEFINE new == Request("set", u.shown["bl"])
<1>1. new.id = "set" /\ new.value = u.shown["bl"] /\ new # NoRequest
  BY DEF Request, NoRequest
<1>2. w.shown["bl"] \in {0, 1}
  BY DEF IsTray, Values, Kinds
<1>3. 1 - u.shown["bl"] = w.shown["bl"]
  BY <1>2
<1>. HIDE DEF new
<1>4. /\ Follows(u, box, "bl", 1 - u.shown["bl"], val["bl"])
      /\ FollowsBattery(u, box, val["bat"])
  BY <1>3 DEF TrayInv, Tracks, Follows, FollowsBattery
<1>5. Protocol(u, new, box) /\ Told(u, new, told)
  BY <1>1 DEF TrayInv, Protocol, Told, Asking, Subscribed
<1>6. Tracks(u, new, box, val)
  BY <1>1, <1>4 DEF Tracks
<1>. QED
  BY <1>5, <1>6 DEF TrayInv, new

-----------------------------------------------------------------------------
(* The lists of the daemon.                                                *)
IsList(s) == s \in Seq(Trays) /\ IsInjective(s)

Lists(b, c, a) ==
  /\ IsList(b) /\ IsList(c) /\ IsList(a)
  /\ Apart(b, c) /\ Apart(b, a) /\ Apart(c, a)

LEMMA ListHead ==
  ASSUME NEW s, IsList(s), s # <<>>
  PROVE  /\ IsList(Tail(s)) /\ Head(s) \in Trays
         /\ Head(s) \in ToSet(s) /\ Head(s) \notin ToSet(Tail(s))
         /\ ToSet(s) = {Head(s)} \cup ToSet(Tail(s))
<1>. DEFINE n == Len(s)
            u == Tail(s)
<1>1. /\ n \in Nat \ {0} /\ DOMAIN s = 1..n /\ DOMAIN u = 1..(n - 1)
      /\ \A i \in 1..(n - 1) : i + 1 \in 1..n /\ u[i] = s[i + 1]
      /\ Head(s) = s[1] /\ 1 \in 1..n /\ Head(s) \in Trays /\ u \in Seq(Trays)
  BY HeadAndTail DEF IsList
<1>2. \A i, j \in 1..n : s[i] = s[j] => i = j
  BY <1>1 DEF IsList, IsInjective
<1>. HIDE DEF n, u
<1>3. IsInjective(u)
  <2>1. ASSUME NEW i \in 1..(n - 1), NEW j \in 1..(n - 1), u[i] = u[j] PROVE i = j
    <3>1. i + 1 = j + 1
      BY <1>1, <1>2, <2>1
    <3>. QED
      BY <1>1, <3>1
  <2>. QED
    BY <1>1, <2>1 DEF IsInjective
<1>4. Head(s) \notin ToSet(u)
  <2>1. ASSUME NEW i \in 1..(n - 1) PROVE u[i] # s[1]
    <3>1. i + 1 # 1
      BY <1>1
    <3>. QED
      BY <1>1, <1>2, <3>1
  <2>. QED
    BY <1>1, <2>1 DEF ToSet
<1>5. ToSet(s) = {Head(s)} \cup ToSet(u)
  <2>1. ASSUME NEW i \in 1..n PROVE s[i] = Head(s) \/ s[i] \in ToSet(u)
    <3>1. i = 1 \/ (i - 1 \in 1..(n - 1) /\ i = (i - 1) + 1)
      BY <1>1
    <3>. QED
      BY <1>1, <3>1 DEF ToSet
  <2>2. ToSet(u) \subseteq ToSet(s)
    BY <1>1 DEF ToSet
  <2>. QED
    BY <1>1, <2>1, <2>2 DEF ToSet
<1>6. Head(s) \in ToSet(s)
  BY <1>5
<1>. QED
  BY <1>1, <1>3, <1>4, <1>5, <1>6 DEF IsList, u

LEMMA ListAppend ==
  ASSUME NEW s, IsList(s), NEW t \in Trays, t \notin ToSet(s)
  PROVE  IsList(Append(s, t)) /\ ToSet(Append(s, t)) = ToSet(s) \cup {t}
<1>. DEFINE n == Len(s)
            u == Append(s, t)
<1>1. /\ n \in Nat /\ DOMAIN s = 1..n /\ DOMAIN u = 1..(n + 1)
      /\ \A i \in 1..n : u[i] = s[i]
      /\ u[n + 1] = t /\ u \in Seq(Trays)
  BY Appended DEF IsList
<1>2. \A i, j \in 1..n : s[i] = s[j] => i = j
  BY <1>1 DEF IsList, IsInjective
<1>3. \A i \in 1..n : s[i] # t
  BY <1>1 DEF ToSet
<1>. HIDE DEF n, u
<1>4. \A i \in 1..(n + 1) : i \in 1..n \/ i = n + 1
  BY <1>1
<1>5. IsInjective(u)
  BY <1>1, <1>2, <1>3, <1>4 DEF IsInjective
<1>6. ToSet(u) = ToSet(s) \cup {t}
  <2>1. n + 1 \in 1..(n + 1) /\ \A i \in 1..n : i \in 1..(n + 1)
    BY <1>1
  <2>. QED
    BY <1>1, <1>4, <2>1 DEF ToSet
<1>. QED
  BY <1>1, <1>5, <1>6 DEF IsList, u

LEMMA ListEmpty == IsList(<<>>) /\ ToSet(<<>>) = {}
<1>1. DOMAIN <<>> = {}
  OBVIOUS
<1>. QED
  BY <1>1 DEF IsList, IsInjective, ToSet

(* recv_clients() moves the first tray ahead of it behind it, or drops it. *)
LEMMA ListsMove ==
  ASSUME NEW b, NEW c, NEW a, Lists(b, c, a), a # <<>>
  PROVE  /\ Lists(b, Append(c, Head(a)), Tail(a)) /\ Lists(b, c, Tail(a))
         /\ Head(a) \in Trays /\ Head(a) \in ToSet(a)
         /\ ToSet(Append(c, Head(a))) = ToSet(c) \cup {Head(a)}
         /\ ToSet(a) = {Head(a)} \cup ToSet(Tail(a))
<1>1. IsList(b) /\ IsList(c) /\ IsList(a)
  BY DEF Lists
<1>2. /\ IsList(Tail(a)) /\ Head(a) \in Trays
      /\ Head(a) \in ToSet(a) /\ Head(a) \notin ToSet(Tail(a))
      /\ ToSet(a) = {Head(a)} \cup ToSet(Tail(a))
  BY <1>1, ListHead
<1>3. Head(a) \notin ToSet(c) /\ Head(a) \notin ToSet(b)
  BY <1>2 DEF Lists, Apart
<1>4. IsList(Append(c, Head(a))) /\ ToSet(Append(c, Head(a))) = ToSet(c) \cup {Head(a)}
  BY <1>1, <1>2, <1>3, ListAppend
<1>. QED
  BY <1>1, <1>2, <1>3, <1>4 DEF Lists, Apart

(* signal_async_io() accepts the first connection of the backlog.          *)
LEMMA ListsAccept ==
  ASSUME NEW b, NEW c, Lists(b, c, <<>>), NEW d, NEW a,
         IF b = <<>> THEN d = <<>> /\ a = c \o <<>>
                     ELSE d = Tail(b) /\ a = c \o <<Head(b)>>
  PROVE  /\ Lists(d, <<>>, a)
         /\ ToSet(d) \subseteq ToSet(b)
         /\ ToSet(c) \subseteq ToSet(a) /\ ToSet(a) \subseteq ToSet(c) \cup ToSet(b)
<1>1. IsList(b) /\ IsList(c) /\ IsList(<<>>) /\ ToSet(<<>>) = {}
  BY ListEmpty DEF Lists
<1>2. CASE b = <<>>
  <2>1. a = c
    BY <1>1, <1>2 DEF IsList
  <2>. QED
    BY <1>1, <1>2, <2>1 DEF Lists, Apart
<1>3. CASE b # <<>>
  <2>1. /\ IsList(d) /\ Head(b) \in Trays /\ d = Tail(b)
        /\ Head(b) \in ToSet(b) /\ Head(b) \notin ToSet(d)
        /\ ToSet(b) = {Head(b)} \cup ToSet(d)
    <3>1. /\ IsList(Tail(b)) /\ Head(b) \in Trays
          /\ Head(b) \in ToSet(b) /\ Head(b) \notin ToSet(Tail(b))
          /\ ToSet(b) = {Head(b)} \cup ToSet(Tail(b))
      BY <1>1, <1>3, ListHead
    <3>2. d = Tail(b)
      BY <1>3
    <3>. QED
      BY <3>1, <3>2
  <2>2. a = Append(c, Head(b))
    BY <1>1, <1>3, <2>1 DEF IsList
  <2>3. IsList(a) /\ ToSet(a) = ToSet(c) \cup {Head(b)}
    <3>1. Head(b) \notin ToSet(c)
      BY <2>1 DEF Lists, Apart
    <3>. QED
      BY <1>1, <2>1, <2>2, <3>1, ListAppend
  <2>. QED
    BY <1>1, <2>1, <2>3 DEF Lists, Apart
<1>. QED
  BY <1>2, <1>3

(* connect()                                                               *)
LEMMA ListsConnect ==
  ASSUME NEW b, NEW c, NEW a, Lists(b, c, a), NEW t \in Trays,
         t \notin ToSet(b), t \notin ToSet(c), t \notin ToSet(a)
  PROVE  Lists(Append(b, t), c, a) /\ ToSet(Append(b, t)) = ToSet(b) \cup {t}
  BY ListAppend DEF Lists, Apart

-----------------------------------------------------------------------------
(* The parts of the types.                                                 *)
IsBox(b) == b \in Seq(Messages) /\ Len(b) <= Cap

IsServer(s) ==
  /\ s \in [notify : [Trays -> BOOLEAN], value : Values,
            inbox : [Trays -> Seq(Messages)], lost : BOOLEAN]
  /\ \A t \in Trays : IsBox(s.inbox[t])

States ==
  /\ daemon \in {"starting", "up", "closing", "down"} /\ sigio \in BOOLEAN
  /\ changes \in 0..MaxChanges /\ moves \in 0..MaxMoves /\ disturbed \in BOOLEAN

IsTrays(trays) ==
  /\ trays = [t \in Trays |-> trays[t]]
  /\ \A t \in Trays : IsTray(trays[t])

AreRequests(requests) ==
  /\ requests = [t \in Trays |-> requests[t]]
  /\ \A t \in Trays : IsRequest(requests[t])

LEMMA Parts ==
  TypeOK <=> /\ States /\ Lists(backlog, clients, ahead) /\ IsServer(Server)
             /\ IsTrays(tray) /\ AreRequests(request)
<1>1. IsServer(Server) <=>
        /\ notify \in [Trays -> BOOLEAN] /\ value \in Values
        /\ inbox \in [Trays -> Seq(Messages)] /\ lost \in BOOLEAN
        /\ \A t \in Trays : Len(inbox[t]) <= Cap
  BY DEF IsServer, Server, IsBox
<1>2. IsTrays(tray) <=>
        tray \in [Trays -> [phase : Phases, deferred : Seq(Notifications),
                            errcount : 0..(MaxErrors - 1), shown : Values,
                            missed : BOOLEAN]]
  BY DEF IsTrays, IsTray
<1>3. AreRequests(request) <=>
        request \in [Trays -> Requests \cup {NoRequest}]
  BY DEF AreRequests, IsRequest
<1>4. Lists(backlog, clients, ahead) <=>
        /\ \A s \in {backlog, clients, ahead} : s \in Seq(Trays) /\ IsInjective(s)
        /\ Apart(backlog, clients) /\ Apart(backlog, ahead) /\ Apart(clients, ahead)
  BY DEF Lists, IsList
<1>5. history \in BOOLEAN \X BOOLEAN <=> lost \in BOOLEAN /\ disturbed \in BOOLEAN
  BY DEF history
<1>. QED
  BY <1>1, <1>2, <1>3, <1>4, <1>5 DEF TypeOK, States, Phases

LEMMA PartsNext ==
  TypeOK' <=> /\ States' /\ Lists(backlog', clients', ahead') /\ IsServer(Server')
              /\ IsTrays(tray') /\ AreRequests(request')
<1>1. IsServer(Server') <=>
        /\ notify' \in [Trays -> BOOLEAN] /\ value' \in Values
        /\ inbox' \in [Trays -> Seq(Messages)] /\ lost' \in BOOLEAN
        /\ \A t \in Trays : Len(inbox'[t]) <= Cap
  BY DEF IsServer, Server, IsBox
<1>2. IsTrays(tray') <=>
        tray' \in [Trays -> [phase : Phases, deferred : Seq(Notifications),
                            errcount : 0..(MaxErrors - 1), shown : Values,
                            missed : BOOLEAN]]
  BY DEF IsTrays, IsTray
<1>3. AreRequests(request') <=>
        request' \in [Trays -> Requests \cup {NoRequest}]
  BY DEF AreRequests, IsRequest
<1>4. Lists(backlog', clients', ahead') <=>
        /\ \A s \in {backlog', clients', ahead'} : s \in Seq(Trays) /\ IsInjective(s)
        /\ Apart(backlog', clients') /\ Apart(backlog', ahead') /\ Apart(clients', ahead')
  BY DEF Lists, IsList
<1>5. history' \in BOOLEAN \X BOOLEAN <=> lost' \in BOOLEAN /\ disturbed' \in BOOLEAN
  BY DEF history
<1>. QED
  BY <1>1, <1>2, <1>3, <1>4, <1>5 DEF TypeOK, States, Phases

(* What the daemon sends.                                                  *)
Delivered(s, to, msg, r) ==
  /\ IsServer(r) /\ r.notify = s.notify /\ r.value = s.value
  /\ s.lost => r.lost
  /\ \A t \in Trays : /\ t \notin to \/ Gone(t) => r.inbox[t] = s.inbox[t]
                      /\ t \in to /\ ~Gone(t) /\ ~r.lost =>
                           r.inbox[t] = Append(s.inbox[t], msg)

LEMMA Sent ==
  ASSUME NEW s, IsServer(s), NEW to, NEW msg \in Messages,
         NEW r, r = SendMessage(s, to, msg)
  PROVE  Delivered(s, to, msg, r)
<1>. DEFINE there == {t \in to : ~Gone(t)}
            full == {t \in there : Len(s.inbox[t]) = Cap}
            box(t) == IF t \in there \ full THEN Append(s.inbox[t], msg) ELSE s.inbox[t]
<1>1. /\ r.notify = s.notify /\ r.value = s.value
      /\ r.inbox = [t \in Trays |-> box(t)]
      /\ r.lost = (s.lost \/ full # {})
      /\ r = [notify |-> r.notify, value |-> r.value, inbox |-> r.inbox, lost |-> r.lost]
  BY DEF SendMessage, IsServer
<1>2. /\ s.notify \in [Trays -> BOOLEAN] /\ s.value \in Values
      /\ s.lost \in BOOLEAN
      /\ \A t \in Trays : IsBox(s.inbox[t])
  BY DEF IsServer
<1>3. ASSUME NEW t \in Trays PROVE IsBox(box(t))
  <2>1. s.inbox[t] \in Seq(Messages) /\ Len(s.inbox[t]) <= Cap
    BY <1>2 DEF IsBox
  <2>2. /\ Append(s.inbox[t], msg) \in Seq(Messages) /\ Len(s.inbox[t]) \in Nat
        /\ Len(Append(s.inbox[t], msg)) = Len(s.inbox[t]) + 1
    BY <2>1, Appended
  <2>3. t \in there \ full => Len(s.inbox[t]) # Cap
    OBVIOUS
  <2>. QED
    BY <2>1, <2>2, <2>3, ClientsAssumption DEF IsBox
<1>4. IsServer(r)
  <2>1. \A t \in Trays : box(t) \in Seq(Messages)
    BY <1>3 DEF IsBox
  <2>2. r.lost \in BOOLEAN
    BY <1>1, <1>2
  <2>. HIDE DEF box, full, there
  <2>3. r.inbox \in [Trays -> Seq(Messages)] /\ \A t \in Trays : IsBox(r.inbox[t])
    BY <1>1, <1>3, <2>1
  <2>. QED
    BY <1>1, <1>2, <2>2, <2>3 DEF IsServer
<1>5. ASSUME NEW t \in Trays
      PROVE  /\ t \notin to \/ Gone(t) => r.inbox[t] = s.inbox[t]
             /\ t \in to /\ ~Gone(t) /\ ~r.lost => r.inbox[t] = Append(s.inbox[t], msg)
  <2>1. r.inbox[t] = box(t)
    BY <1>1
  <2>2. ~r.lost => t \notin full
    BY <1>1, Zenon
  <2>. QED
    BY <2>1, <2>2
<1>6. s.lost => r.lost
  BY <1>1
<1>. QED
  BY <1>1, <1>4, <1>5, <1>6 DEF Delivered

(* A change of the brightness or the battery state, and its notifications. *)
Tells(s, t) == s.notify[t] /\ t \in ClientList

ValueChange(s, id, v, r) ==
  /\ IsServer(r) /\ r.notify = s.notify
  /\ s.lost => r.lost
  /\ r.value = [s.value EXCEPT ![id] = v]
  /\ \A t \in Trays : \/ r.value = s.value /\ r.inbox[t] = s.inbox[t]
                      \/ ~Tells(s, t) /\ r.inbox[t] = s.inbox[t]
                      \/ Gone(t) \/ r.lost
                      \/ r.inbox[t] = Append(s.inbox[t], Notification(id, v))

LEMMA ValueSet ==
  ASSUME NEW s, IsServer(s), NEW id \in Kinds, NEW v \in {0, 1},
         NEW r, r = SetValue(s, id, v)
  PROVE  ValueChange(s, id, v, r)
<1>1. /\ s.notify \in [Trays -> BOOLEAN] /\ s.value \in Values
      /\ \A t \in Trays : IsBox(s.inbox[t])
  BY DEF IsServer
<1>2. CASE v = s.value[id]
  <2>1. r = s
    BY <1>2 DEF SetValue
  <2>2. [s.value EXCEPT ![id] = v] = s.value
    BY <1>1, <1>2 DEF Values
  <2>. QED
    BY <2>1, <2>2 DEF ValueChange
<1>3. CASE v # s.value[id]
  <2>. DEFINE new == [s EXCEPT !.value = [s.value EXCEPT ![id] = v]]
              to == {t \in ClientList : new.notify[t]}
              msg == Notification(id, v)
  <2>1. r = SendMessage(new, to, msg)
    BY <1>3 DEF SetValue, NotifyClients
  <2>2. [s.value EXCEPT ![id] = v] \in Values
    BY <1>1 DEF Values
  <2>3. /\ IsServer(new) /\ new.notify = s.notify /\ new.inbox = s.inbox
        /\ new.lost = s.lost /\ new.value = [s.value EXCEPT ![id] = v]
    BY <1>1, <2>2 DEF IsServer
  <2>4. msg \in Messages
    BY DEF Messages, Notifications, Notification
  <2>5. \A t : t \in to <=> Tells(s, t)
    BY <2>3 DEF Tells
  <2>. HIDE DEF new, to, msg
  <2>6. Delivered(new, to, msg, r)
    BY <2>1, <2>3, <2>4, Sent
  <2>. QED
    BY <2>3, <2>5, <2>6 DEF msg, ValueChange, Delivered
<1>. QED
  BY <1>2, <1>3

(* A tray after that.                                                      *)
LEMMA ValueSetTracks ==
  ASSUME NEW s, IsServer(s), NEW id \in Kinds, NEW v \in {0, 1},
         NEW r, ValueChange(s, id, v, r), ~r.lost,
         NEW t \in Trays, IsTray(tray[t]), NEW req,
         TrayInv(tray[t], req, s.inbox[t], Tells(s, t), s.value)
  PROVE  TrayInv(tray[t], req, r.inbox[t], Tells(r, t), r.value)
<1>1. /\ r.notify = s.notify
      /\ r.value = [s.value EXCEPT ![id] = v]
      /\ \/ r.value = s.value /\ r.inbox[t] = s.inbox[t]
         \/ ~Tells(s, t) /\ r.inbox[t] = s.inbox[t]
         \/ Gone(t)
         \/ r.inbox[t] = Append(s.inbox[t], Notification(id, v))
  BY DEF ValueChange
<1>2. Tells(r, t) = Tells(s, t)
  BY <1>1 DEF Tells
<1>3. Tells(s, t) \in BOOLEAN /\ s.value \in Values /\ s.inbox[t] \in Seq(Messages)
  BY DEF IsServer, IsBox, Tells
<1>. DEFINE told == Tells(s, t)
            box == s.inbox[t]
            val == s.value
            w == tray[t]
            new == r.value
<1>0. /\ TrayInv(w, req, box, told, val) /\ IsTray(w)
      /\ told \in BOOLEAN /\ val \in Values /\ box \in Seq(Messages)
      /\ new = [val EXCEPT ![id] = v]
  BY <1>1, <1>3
<1>. HIDE DEF told, box, val, w, new
<1>4. CASE r.value = s.value /\ r.inbox[t] = s.inbox[t]
  BY <1>2, <1>4
<1>5. CASE ~Tells(s, t) /\ r.inbox[t] = s.inbox[t]
  <2>2. Tells(s, t) = FALSE
    BY <1>3, <1>5
  <2>3. TrayInv(w, req, box, FALSE, val)
    BY <2>2 DEF w, box, val
  <2>4. TrayInv(w, req, box, told, new)
    BY <1>3, <2>3, Untold DEF told
  <2>. QED
    BY <1>2, <1>5, <2>4 DEF told, w, box, new
<1>6. CASE Gone(t)
  BY <1>2, <1>3, <1>6, Left DEF Gone
<1>7. CASE r.inbox[t] = Append(s.inbox[t], Notification(id, v))
  <2>1. TrayInv(w, req, Append(box, Notification(id, v)), told, new)
    BY <1>0, Changed
  <2>. QED
    BY <1>2, <1>7, <2>1 DEF told, w, box, new
<1>. QED
  BY <1>1, <1>4, <1>5, <1>6, <1>7

-----------------------------------------------------------------------------
(* The daemon receives a request.                                          *)
LEMMA RequestTypes ==
  ASSUME NEW req, IsRequest(req), req # NoRequest
  PROVE  req.id \in DOMAIN NextPhase /\ req.value \in {0, 1}
  BY DEF IsRequest, Requests

ActChange(s, c, msg, r) ==
  /\ IsServer(r)
  /\ s.lost => r.lost
  /\ msg.id = "set" => ValueChange(s, "bl", msg.value, r)
  /\ msg.id # "set" => /\ r.value = s.value /\ r.inbox = s.inbox
                       /\ \A t \in Trays : t # c => Tells(r, t) = Tells(s, t)
  /\ msg.id = "want_notify" => r.notify[c]
  /\ Tells(s, c) => Tells(r, c)

LEMMA Acted ==
  ASSUME NEW s, IsServer(s), NEW c \in Trays, NEW msg, IsRequest(msg), msg # NoRequest,
         NEW r, r = Act(s, c, msg)
  PROVE  ActChange(s, c, msg, r)
<1>1. CASE msg.id = "set"
  <2>1. r = SetValue(s, "bl", msg.value) /\ "bl" \in Kinds
    BY <1>1 DEF Act, Kinds
  <2>2. ValueChange(s, "bl", msg.value, r)
    BY <2>1, RequestTypes, ValueSet
  <2>. QED
    BY <1>1, <2>2 DEF ValueChange, ActChange, Tells
<1>2. CASE msg.id = "want_notify"
  <2>1. r = [s EXCEPT !.notify = [s.notify EXCEPT ![c] = TRUE]]
    BY <1>2 DEF Act
  <2>2. s.notify \in [Trays -> BOOLEAN]
    BY DEF IsServer
  <2>3. /\ r.notify = [s.notify EXCEPT ![c] = TRUE] /\ r.value = s.value
        /\ r.inbox = s.inbox /\ r.lost = s.lost
        /\ r = [notify |-> r.notify, value |-> s.value, inbox |-> s.inbox,
                lost |-> s.lost]
    BY <2>1 DEF IsServer
  <2>4. r.notify \in [Trays -> BOOLEAN] /\ r.notify[c]
        /\ \A t \in Trays : t # c => r.notify[t] = s.notify[t]
    BY <2>2, <2>3
  <2>5. IsServer(r)
    BY <2>3, <2>4 DEF IsServer
  <2>. QED
    BY <1>2, <2>3, <2>4, <2>5 DEF ActChange, Tells
<1>3. CASE msg.id \notin {"set", "want_notify"}
  BY <1>3 DEF Act, ActChange
<1>. QED
  BY <1>1, <1>2, <1>3

Answer(a, c, msg, v, m, r) ==
  /\ IsServer(r) /\ r.notify = a.notify /\ r.value = a.value
  /\ a.lost => r.lost
  /\ \A t \in Trays : /\ t # c \/ Gone(t) => r.inbox[t] = a.inbox[t]
                      /\ t = c /\ ~Gone(t) /\ ~r.lost =>
                           r.inbox[t] = Append(a.inbox[t], m)
  /\ m \in Messages /\ m.reply /\ m.id = msg.id /\ m.value = v /\ v \in {0, 1}
  /\ msg.id \in {"bl", "bl_again"} => v = a.value["bl"]
  /\ msg.id = "bat" => v = a.value["bat"]

LEMMA Received ==
  ASSUME NEW s, IsServer(s), NEW c \in Trays, NEW msg, IsRequest(msg), msg # NoRequest
  PROVE  \E a, v, m : /\ ActChange(s, c, msg, a)
                      /\ Answer(a, c, msg, v, m, ReceivedMessage(s, c, msg))
<1>. DEFINE a == Act(s, c, msg)
            v == StateFor(a, msg.id)
            m == Reply(msg.id, v)
            r == ReceivedMessage(s, c, msg)
<1>0. ActChange(s, c, msg, a)
  BY Acted
<1>. HIDE DEF a
<1>1. IsServer(a)
  BY <1>0 DEF ActChange
<1>2. a.value["bl"] \in {0, 1} /\ a.value["bat"] \in {0, 1}
  BY <1>1 DEF IsServer, Values, Kinds
<1>3. /\ v \in {0, 1}
      /\ msg.id \in {"bl", "bl_again"} => v = a.value["bl"]
      /\ msg.id = "bat" => v = a.value["bat"]
  BY <1>2 DEF StateFor
<1>4. msg.id \in DOMAIN NextPhase
  BY RequestTypes
<1>. HIDE DEF v
<1>5. m \in Messages
  BY <1>3, <1>4 DEF Reply, Messages, Replies
<1>. HIDE DEF m
<1>. DEFINE to == {c}
<1>6. r = SendMessage(a, to, m)
  BY DEF ReceivedMessage, v, m, a
<1>7. \A t : t \in to <=> t = c
  OBVIOUS
<1>. HIDE DEF to, r
<1>8. Delivered(a, to, m, r)
  BY <1>1, <1>5, <1>6, Sent
<1>9. m.reply /\ m.id = msg.id /\ m.value = v
  BY DEF Reply, m
<1>10. Answer(a, c, msg, v, m, r)
  BY <1>3, <1>5, <1>7, <1>8, <1>9 DEF Answer, Delivered
<1>. QED
  BY <1>0, <1>10 DEF r

LEMMA ActedTracks ==
  ASSUME NEW s, IsServer(s), NEW c \in Trays, NEW msg, IsRequest(msg), msg # NoRequest,
         NEW r, ActChange(s, c, msg, r), ~r.lost,
         NEW t \in Trays, IsTray(tray[t]), NEW req,
         TrayInv(tray[t], req, s.inbox[t], Tells(s, t), s.value),
         t = c => req = msg
  PROVE  /\ t # c => TrayInv(tray[t], req, r.inbox[t], Tells(r, t), r.value)
         /\ t = c => TrayInv(tray[t], req, r.inbox[t], Tells(s, t), r.value)
         /\ t = c /\ tray[t].phase = "set" => r.value["bl"] = tray[t].shown["bl"]
<1>1. /\ msg.id = "set" => ValueChange(s, "bl", msg.value, r)
      /\ msg.id # "set" => /\ r.value = s.value /\ r.inbox = s.inbox
                           /\ t # c => Tells(r, t) = Tells(s, t)
  BY DEF ActChange
<1>2. CASE msg.id = "set"
  <2>1. "bl" \in Kinds /\ msg.value \in {0, 1} /\ ValueChange(s, "bl", msg.value, r)
    BY <1>1, <1>2, RequestTypes DEF Kinds
  <2>2. TrayInv(tray[t], req, r.inbox[t], Tells(r, t), r.value)
    BY <2>1, ValueSetTracks
  <2>3. Tells(r, t) = Tells(s, t) /\ r.value["bl"] = msg.value
    BY <2>1 DEF ValueChange, Tells, IsServer, Values
  <2>4. t = c /\ tray[t].phase = "set" => msg.value = tray[t].shown["bl"]
    BY DEF TrayInv, Tracks
  <2>. QED
    BY <2>2, <2>3, <2>4
<1>3. CASE msg.id # "set"
  <2>1. t = c => tray[t].phase # "set"
    BY <1>3 DEF TrayInv, Protocol, Asking
  <2>. QED
    BY <1>1, <1>3, <2>1
<1>. QED
  BY <1>2, <1>3

-----------------------------------------------------------------------------
(* The steps of the daemon.                                                *)
IInv == TInv /\ CInv

LEMMA ServerNow ==
  /\ Server.notify = notify /\ Server.value = value
  /\ Server.inbox = inbox /\ Server.lost = lost
  /\ \A t : Tells(Server, t) = Informed(t)
  BY DEF Server, Tells, Informed

LEMMA ServerUnchanged ==
  UNCHANGED <<notify, value, inbox, lost>> => Server' = Server
  BY DEF Server

LEMMA Became ==
  ASSUME NEW new, IsServer(new), Becomes(new)
  PROVE  /\ Server' = new
         /\ notify' = new.notify /\ value' = new.value
         /\ inbox' = new.inbox /\ lost' = new.lost
<1>1. /\ notify' = new.notify /\ value' = new.value
      /\ inbox' = new.inbox /\ lost' = new.lost
  BY DEF Becomes
<1>2. new = [notify |-> new.notify, value |-> new.value,
             inbox |-> new.inbox, lost |-> new.lost]
  BY DEF IsServer
<1>. QED
  BY <1>1, <1>2 DEF Server

(* Trays that are in none of the lists stay so.                            *)
LEMMA StillFresh ==
  ASSUME TInv, UNCHANGED tray,
         \A t : Fresh(t) => Fresh(t)'
  PROVE  \A t \in Trays : tray'[t].phase = "off" => Fresh(t)'
  BY DEF TInv

LEMMA ListenKeeps ==
  ASSUME IInv, Listen
  PROVE  IInv'
<1>1. /\ daemon = "starting" /\ daemon' = "up"
      /\ UNCHANGED <<sigio, backlog, clients, ahead, notify, value, request, inbox,
                     tray, changes, moves, lost, disturbed>>
  BY DEF Listen, counts, history
<1>2. TInv'
  <2>1. States'
    BY <1>1, Parts DEF IInv, TInv, States
  <2>2. Server' = Server
    BY <1>1, ServerUnchanged
  <2>3. \A t : Fresh(t) => Fresh(t)'
    BY <1>1 DEF Fresh
  <2>4. TypeOK'
    BY <1>1, <2>1, <2>2, Parts, PartsNext DEF IInv, TInv
  <2>. QED
    BY <1>1, <2>3, <2>4, StillFresh DEF IInv, TInv
<1>3. CInv'
  <2>1. Running' = Running /\ \A t : Informed(t)' = Informed(t)
    BY <1>1 DEF Running, Informed, ClientList
  <2>. QED
    BY <1>1, <2>1 DEF IInv, CInv
<1>. QED
  BY <1>2, <1>3 DEF IInv

(* Whoever has been told goes on being told.                               *)
LEMMA StillTold ==
  ASSUME NEW w, NEW req, NEW box, NEW told \in BOOLEAN, NEW val,
         TrayInv(w, req, box, told, val), NEW now \in BOOLEAN, told => now
  PROVE  TrayInv(w, req, box, now, val)
  BY DEF TrayInv, Told

LEMMA AcceptKeeps ==
  ASSUME IInv, SignalAsyncIO
  PROVE  IInv'
<1>1. /\ sigio' = FALSE /\ ahead = <<>>
      /\ UNCHANGED <<daemon, notify, value, request, inbox, tray, changes, moves,
                     lost, disturbed>>
  BY DEF SignalAsyncIO, counts, history
<1>2. /\ Lists(backlog', clients', ahead')
      /\ clients' = <<>>
      /\ ToSet(backlog') \subseteq ToSet(backlog)
      /\ ToSet(clients) \subseteq ToSet(ahead')
      /\ ToSet(ahead') \subseteq ToSet(clients) \cup ToSet(backlog)
  <2>1. Lists(backlog, clients, <<>>)
    BY <1>1, Parts DEF IInv, TInv
  <2>. DEFINE d == backlog'
              a == ahead'
  <2>2. IF backlog = <<>> THEN d = <<>> /\ a = clients \o <<>>
                          ELSE d = Tail(backlog) /\ a = clients \o <<Head(backlog)>>
    BY DEF SignalAsyncIO, AcceptClient
  <2>. HIDE DEF d, a
  <2>3. /\ Lists(d, <<>>, a)
        /\ ToSet(d) \subseteq ToSet(backlog)
        /\ ToSet(clients) \subseteq ToSet(a) /\ ToSet(a) \subseteq ToSet(clients) \cup ToSet(backlog)
    BY <2>1, <2>2, ListsAccept
  <2>. QED
    BY <2>3 DEF d, a, SignalAsyncIO
<1>3. TInv'
  <2>1. States'
    BY <1>1, Parts DEF IInv, TInv, States
  <2>2. Server' = Server
    BY <1>1, ServerUnchanged
  <2>3. \A t : Fresh(t) => Fresh(t)'
    BY <1>2, ListEmpty DEF Fresh
  <2>4. TypeOK'
    BY <1>1, <1>2, <2>1, <2>2, Parts, PartsNext DEF IInv, TInv
  <2>. QED
    BY <1>1, <2>3, <2>4, StillFresh DEF IInv, TInv
<1>4. CInv'
  <2>1. Running' = Running
    BY <1>1 DEF Running
  <2>2. ASSUME Running, NEW t \in Trays
        PROVE  TrayInv(tray[t], request[t], inbox[t], Informed(t)', value)
    <3>1. TrayInv(tray[t], request[t], inbox[t], Informed(t), value)
      BY <2>2 DEF IInv, CInv
    <3>2. Informed(t) => Informed(t)'
      BY <1>1, <1>2, ListEmpty DEF Informed, ClientList
    <3>3. Informed(t) \in BOOLEAN /\ Informed(t)' \in BOOLEAN
      BY <1>1, Parts, ServerNow DEF IInv, TInv, Informed, IsServer, Server
    <3>. DEFINE told == Informed(t)
                now == Informed(t)'
    <3>. HIDE DEF told, now
    <3>4. TrayInv(tray[t], request[t], inbox[t], now, value)
      BY <3>1, <3>2, <3>3, StillTold DEF told, now
    <3>. QED
      BY <3>4 DEF now
  <2>. QED
    BY <1>1, <2>1, <2>2 DEF CInv
<1>. QED
  BY <1>3, <1>4 DEF IInv

LEMMA ChangeKeeps ==
  ASSUME IInv, NEW id \in Kinds, Change(id)
  PROVE  IInv'
<1>. DEFINE v == 1 - value[id]
            r == SetValue(Server, id, v)
<1>1. /\ changes' = changes + 1 /\ changes < MaxChanges
      /\ Becomes(r)
      /\ UNCHANGED <<daemon, sigio, backlog, clients, ahead, request, tray, moves,
                     disturbed>>
  BY DEF Change
<1>2. /\ States /\ Lists(backlog, clients, ahead) /\ IsServer(Server)
      /\ IsTrays(tray) /\ AreRequests(request)
  BY Parts DEF IInv, TInv
<1>3. v \in {0, 1}
  BY <1>2, ServerNow DEF IsServer, Values
<1>4. IsServer(r) /\ ValueChange(Server, id, v, r)
  <2>. HIDE DEF v
  <2>1. ValueChange(Server, id, v, r)
    BY <1>2, <1>3, ValueSet
  <2>. QED
    BY <2>1 DEF ValueChange
<1>. HIDE DEF v, r
<1>5. /\ Server' = r
      /\ notify' = r.notify /\ value' = r.value /\ inbox' = r.inbox /\ lost' = r.lost
  BY <1>1, <1>4, Became
<1>6. TInv'
  <2>1. States'
    BY <1>1, <1>2, ClientsAssumption DEF States
  <2>2. \A t : Fresh(t) => Fresh(t)'
    BY <1>1 DEF Fresh
  <2>3. TypeOK'
    BY <1>1, <1>2, <1>4, <1>5, <2>1, PartsNext
  <2>. QED
    BY <1>1, <2>2, <2>3, StillFresh DEF IInv, TInv
<1>7. CInv'
  <2>. SUFFICES ASSUME Running', NEW t \in Trays
                PROVE  TrayInv(tray[t], request[t], r.inbox[t], Informed(t)', r.value)
    BY <1>1, <1>5 DEF CInv
  <2>1. Running /\ ~r.lost
    BY <1>1, <1>4, <1>5, ServerNow DEF Running, ValueChange
  <2>2. TrayInv(tray[t], request[t], Server.inbox[t], Tells(Server, t), Server.value)
    BY <2>1, ServerNow DEF IInv, CInv
  <2>. DEFINE s == Server
  <2>3. IsServer(s) /\ ValueChange(s, id, v, r) /\ IsTray(tray[t])
    BY <1>2, <1>4 DEF IsTrays
  <2>4. TrayInv(tray[t], request[t], s.inbox[t], Tells(s, t), s.value)
    BY <2>2
  <2>. HIDE DEF s
  <2>5. TrayInv(tray[t], request[t], r.inbox[t], Tells(r, t), r.value)
    BY <1>3, <2>1, <2>3, <2>4, ValueSetTracks
  <2>6. Tells(r, t) = Informed(t)'
    BY <1>1, <1>5 DEF Tells, Informed, ClientList
  <2>. QED
    BY <2>5, <2>6
<1>. QED
  BY <1>6, <1>7 DEF IInv

LEMMA HeadMoves ==
  ASSUME Lists(backlog, clients, ahead), ahead # <<>>
  PROVE  /\ Lists(backlog, Append(clients, Head(ahead)), Tail(ahead))
         /\ Lists(backlog, clients, Tail(ahead))
         /\ Head(ahead) \in Trays /\ Head(ahead) \in ToSet(ahead)
         /\ ToSet(Append(clients, Head(ahead))) = ToSet(clients) \cup {Head(ahead)}
         /\ ToSet(ahead) = {Head(ahead)} \cup ToSet(Tail(ahead))
<1>. DEFINE b == backlog
            c == clients
            a == ahead
<1>1. Lists(b, c, a) /\ a # <<>>
  OBVIOUS
<1>. HIDE DEF a, b, c
<1>2. /\ Lists(b, Append(c, Head(a)), Tail(a)) /\ Lists(b, c, Tail(a))
      /\ Head(a) \in Trays /\ Head(a) \in ToSet(a)
      /\ ToSet(Append(c, Head(a))) = ToSet(c) \cup {Head(a)}
      /\ ToSet(a) = {Head(a)} \cup ToSet(Tail(a))
  BY <1>1, ListsMove
<1>. QED
  BY <1>2 DEF a, b, c

LEMMA RecvMessageKeeps ==
  ASSUME IInv, ahead # <<>>, ahead' = Tail(ahead), RecvMessage(Head(ahead)),
         UNCHANGED <<daemon, sigio, backlog, tray, counts, disturbed>>
  PROVE  IInv'
<1>. DEFINE c == Head(ahead)
            msg == request[c]
            r == ReceivedMessage(Server, c, msg)
<1>1. /\ msg # NoRequest /\ request' = [request EXCEPT ![c] = NoRequest]
      /\ clients' = Append(clients, c) /\ Becomes(r)
      /\ UNCHANGED <<changes, moves>>
  BY DEF RecvMessage, counts
<1>2. /\ States /\ Lists(backlog, clients, ahead) /\ IsServer(Server)
      /\ IsTrays(tray) /\ AreRequests(request)
  BY Parts DEF IInv, TInv
<1>3. /\ Lists(backlog', clients', ahead') /\ c \in Trays /\ c \in ToSet(ahead)
      /\ ToSet(clients') = ToSet(clients) \cup {c}
      /\ ToSet(ahead) = {c} \cup ToSet(ahead')
  <2>1. /\ Lists(backlog, Append(clients, Head(ahead)), Tail(ahead))
        /\ Head(ahead) \in Trays /\ Head(ahead) \in ToSet(ahead)
        /\ ToSet(Append(clients, Head(ahead))) = ToSet(clients) \cup {Head(ahead)}
        /\ ToSet(ahead) = {Head(ahead)} \cup ToSet(Tail(ahead))
    BY <1>2, HeadMoves
  <2>2. backlog' = backlog
    OBVIOUS
  <2>. QED
    BY <1>1, <2>1, <2>2
<1>4. IsRequest(msg) /\ AreRequests(request')
  <2>1. IsRequest(NoRequest)
    BY DEF IsRequest
  <2>2. \A t \in Trays : IsRequest(request[t])
    BY <1>2 DEF AreRequests
  <2>3. request' = [t \in Trays |-> IF t = c THEN NoRequest ELSE request[t]]
    BY <1>1, <1>2 DEF AreRequests
  <2>. QED
    BY <1>3, <2>1, <2>2, <2>3 DEF AreRequests
<1>. DEFINE s == Server
<1>5. r = ReceivedMessage(s, c, msg) /\ IsServer(s)
  BY <1>2
<1>. HIDE DEF c, r, s, msg
<1>6. PICK a, v, m : ActChange(s, c, msg, a) /\ Answer(a, c, msg, v, m, r)
  BY <1>1, <1>3, <1>4, <1>5, Received
<1>7. /\ IsServer(r) /\ r.notify = a.notify /\ r.value = a.value
      /\ a.lost => r.lost
      /\ \A t \in Trays :
           /\ t # c \/ Gone(t) => r.inbox[t] = a.inbox[t]
           /\ t = c /\ ~Gone(t) /\ ~r.lost => r.inbox[t] = Append(a.inbox[t], m)
      /\ m \in Messages /\ v \in {0, 1} /\ m.reply /\ m.id = msg.id /\ m.value = v
      /\ msg.id \in {"bl", "bl_again"} => v = a.value["bl"]
      /\ msg.id = "bat" => v = a.value["bat"]
  BY <1>6 DEF Answer
<1>8. /\ IsServer(a)
      /\ s.lost => a.lost
      /\ msg.id = "want_notify" => a.notify[c]
      /\ Tells(s, c) => Tells(a, c)
  BY <1>6 DEF ActChange
<1>9. /\ Server' = r
      /\ notify' = r.notify /\ value' = r.value /\ inbox' = r.inbox /\ lost' = r.lost
  BY <1>1, <1>7, Became
<1>10. TInv'
  <2>1. States'
    BY <1>1, <1>2 DEF States
  <2>2. \A t : Fresh(t) => Fresh(t)'
    BY <1>3 DEF Fresh
  <2>3. TypeOK'
    BY <1>2, <1>3, <1>4, <1>7, <1>9, <2>1, PartsNext
  <2>. QED
    BY <2>2, <2>3, StillFresh DEF IInv, TInv
<1>11. CInv'
  <2>. SUFFICES ASSUME Running', NEW t \in Trays
                PROVE  TrayInv(tray[t], request'[t], r.inbox[t], Informed(t)', r.value)
    BY <1>9 DEF CInv
  <2>1. Running /\ ~r.lost /\ ~a.lost
    <3>1. ~r.lost /\ ~a.lost
      BY <1>7, <1>9 DEF Running
    <3>2. s.lost = lost
      BY ServerNow DEF s
    <3>3. daemon \in {"starting", "up"}
      BY DEF Running
    <3>. QED
      BY <1>8, <3>1, <3>2, <3>3 DEF Running
  <2>2. IsTray(tray[t])
    BY <1>2 DEF IsTrays
  <2>3. TrayInv(tray[t], request[t], s.inbox[t], Tells(s, t), s.value)
    BY <2>1, ServerNow DEF IInv, CInv, s
  <2>4. Tells(r, t) = Informed(t)' /\ Tells(r, t) = Tells(a, t)
    BY <1>3, <1>7, <1>9 DEF Tells, Informed, ClientList
  <2>. DEFINE req == request[t]
  <2>5. t = c => req = msg
    BY DEF msg
  <2>6. request'[t] = IF t = c THEN NoRequest ELSE req
    BY <1>1, <1>2 DEF AreRequests
  <2>7. TrayInv(tray[t], req, s.inbox[t], Tells(s, t), s.value)
    BY <2>3
  <2>. HIDE DEF req
  <2>12. /\ IsServer(s) /\ c \in Trays /\ IsRequest(msg) /\ msg # NoRequest
         /\ ActChange(s, c, msg, a) /\ ~a.lost
    BY <1>1, <1>3, <1>4, <1>5, <1>6, <2>1
  <2>8. /\ t # c => TrayInv(tray[t], req, a.inbox[t], Tells(a, t), a.value)
        /\ t = c => TrayInv(tray[t], req, a.inbox[t], Tells(s, t), a.value)
        /\ t = c /\ tray[t].phase = "set" => a.value["bl"] = tray[t].shown["bl"]
    BY <2>2, <2>5, <2>7, <2>12, ActedTracks
  <2>9. CASE t # c
    BY <1>7, <2>4, <2>6, <2>8, <2>9
  <2>10. CASE t = c /\ Gone(t)
    <3>1. Informed(t)' \in BOOLEAN
      BY <1>7, <1>9 DEF Informed, IsServer
    <3>. DEFINE now == Informed(t)'
    <3>. HIDE DEF now
    <3>2. TrayInv(tray[t], request'[t], r.inbox[t], now, r.value)
      BY <2>10, <3>1, Left DEF Gone, now
    <3>. QED
      BY <3>2 DEF now
  <2>11. CASE t = c /\ ~Gone(t)
    <3>. DEFINE told == Tells(s, t)
                now == Tells(r, t)
                box == a.inbox[t]
                val == a.value
                w == tray[t]
    <3>1. /\ told \in BOOLEAN /\ now \in BOOLEAN
          /\ box \in Seq(Messages) /\ val \in Values
      <4>1. told \in BOOLEAN
        BY <1>5 DEF IsServer, Tells
      <4>2. now \in BOOLEAN
        BY <1>7 DEF IsServer, Tells
      <4>3. box \in Seq(Messages) /\ val \in Values
        BY <1>8 DEF IsServer
      <4>. QED
        BY <4>1, <4>2, <4>3
    <3>2. told \/ msg.id = "want_notify" => now
      <4>1. c \in ClientList
        BY <1>3 DEF ClientList
      <4>. QED
        BY <1>8, <2>4, <2>11, <4>1 DEF Tells
    <3>3. /\ TrayInv(w, msg, box, told, val) /\ IsTray(w)
          /\ w.phase = "set" => val["bl"] = w.shown["bl"]
          /\ msg.id \in {"bl", "bl_again"} => v = val["bl"]
          /\ msg.id = "bat" => v = val["bat"]
      BY <1>7, <2>2, <2>5, <2>8, <2>11
    <3>4. r.inbox[t] = Append(box, m) /\ r.value = val
      BY <1>7, <2>1, <2>11
    <3>. HIDE DEF told, now, box, val, w
    <3>5. TrayInv(w, NoRequest, Append(box, m), now, val)
      BY <1>1, <1>4, <1>7, <3>1, <3>2, <3>3, Replied
    <3>. QED
      BY <2>4, <2>6, <2>11, <3>4, <3>5 DEF now, w
  <2>. QED
    BY <2>9, <2>10, <2>11
<1>. QED
  BY <1>10, <1>11 DEF IInv

(* Nobody misses the daemon's interest in a tray that has gone.            *)
LEMMA GoneTracks ==
  ASSUME NEW t, Gone(t), NEW req, NEW box, NEW told \in BOOLEAN, NEW val
  PROVE  TrayInv(tray[t], req, box, told, val)
  BY Left DEF Gone

(* What happens to a tray that has gone disturbs no other.                 *)
LEMMA OnlyGone ==
  ASSUME IInv, TInv', UNCHANGED <<daemon, value, request, tray, lost>>,
         NEW c \in Trays, Gone(c),
         \A t \in Trays \ {c} : inbox'[t] = inbox[t] /\ (Informed(t) <=> Informed(t)')
  PROVE  CInv'
<1>1. Running' = Running
  BY DEF Running
<1>2. ASSUME Running, NEW t \in Trays
      PROVE  TrayInv(tray[t], request[t], inbox'[t], Informed(t)', value)
  <2>. DEFINE now == Informed(t)'
              box == inbox'[t]
  <2>1. now \in BOOLEAN
    BY DEF Informed, TInv, TypeOK
  <2>2. CASE t # c
    <3>1. TrayInv(tray[t], request[t], inbox[t], Informed(t), value)
      BY <1>2 DEF IInv, CInv
    <3>2. inbox'[t] = inbox[t] /\ (Informed(t) <=> Informed(t)')
      BY <2>2
    <3>3. Informed(t) = Informed(t)'
      BY <3>2 DEF Informed
    <3>. QED
      BY <3>1, <3>2, <3>3
  <2>3. CASE t = c
    <3>. HIDE DEF now, box
    <3>1. TrayInv(tray[t], request[t], box, now, value)
      BY <2>1, <2>3, GoneTracks
    <3>. QED
      BY <3>1 DEF now, box
  <2>. QED
    BY <2>2, <2>3
<1>. QED
  BY <1>1, <1>2 DEF CInv

LEMMA RecvNothingKeeps ==
  ASSUME IInv, ahead # <<>>, ahead' = Tail(ahead), RecvNothing(Head(ahead)),
         UNCHANGED <<daemon, sigio, backlog, tray, counts, disturbed>>
  PROVE  IInv'
<1>. DEFINE c == Head(ahead)
<1>1. /\ clients' = Append(clients, c)
      /\ inbox' = [inbox EXCEPT ![c] = IF Gone(c) THEN <<>> ELSE @]
      /\ UNCHANGED <<notify, value, request, lost, changes, moves>>
  BY DEF RecvNothing, counts
<1>2. /\ States /\ Lists(backlog, clients, ahead) /\ IsServer(Server)
      /\ IsTrays(tray) /\ AreRequests(request)
  BY Parts DEF IInv, TInv
<1>3. /\ Lists(backlog', clients', ahead') /\ c \in Trays /\ c \in ToSet(ahead)
      /\ ToSet(clients') = ToSet(clients) \cup {c}
      /\ ToSet(ahead) = {c} \cup ToSet(ahead')
  <2>1. /\ Lists(backlog, Append(clients, Head(ahead)), Tail(ahead))
        /\ Head(ahead) \in Trays /\ Head(ahead) \in ToSet(ahead)
        /\ ToSet(Append(clients, Head(ahead))) = ToSet(clients) \cup {Head(ahead)}
        /\ ToSet(ahead) = {Head(ahead)} \cup ToSet(Tail(ahead))
    BY <1>2, HeadMoves
  <2>. QED
    BY <1>1, <2>1
<1>. HIDE DEF c
<1>4. /\ inbox \in [Trays -> Seq(Messages)] /\ \A t \in Trays : IsBox(inbox[t])
      /\ notify \in [Trays -> BOOLEAN] /\ value \in Values /\ lost \in BOOLEAN
  BY <1>2, ServerNow DEF IsServer, Server
<1>5. IsBox(<<>>)
  BY ClientsAssumption DEF IsBox
<1>6. inbox' = [t \in Trays |-> IF t = c /\ Gone(c) THEN <<>> ELSE inbox[t]]
  BY <1>1, <1>4
<1>7. IsServer(Server')
  <2>1. inbox' \in [Trays -> Seq(Messages)] /\ \A t \in Trays : IsBox(inbox'[t])
    BY <1>4, <1>5, <1>6 DEF IsBox
  <2>. QED
    BY <1>1, <1>4, <2>1 DEF IsServer, Server
<1>8. TInv'
  <2>1. States'
    BY <1>1, <1>2 DEF States
  <2>2. \A t : Fresh(t) => Fresh(t)'
    BY <1>3 DEF Fresh
  <2>3. TypeOK'
    BY <1>1, <1>2, <1>3, <1>7, <2>1, PartsNext
  <2>. QED
    BY <2>2, <2>3, StillFresh DEF IInv, TInv
<1>9. CInv'
  <2>1. \A t \in Trays : Informed(t) <=> Informed(t)'
    BY <1>1, <1>3 DEF Informed, ClientList
  <2>2. CASE Gone(c)
    <3>1. \A t \in Trays \ {c} : inbox'[t] = inbox[t]
      BY <1>6
    <3>. QED
      BY <1>1, <1>3, <1>8, <2>1, <2>2, <3>1, OnlyGone
  <2>3. CASE ~Gone(c)
    <3>1. \A t \in Trays : inbox'[t] = inbox[t]
      BY <1>6, <2>3
    <3>2. Running' = Running
      BY <1>1 DEF Running
    <3>3. \A t \in Trays : Informed(t)' = Informed(t)
      BY <2>1 DEF Informed
    <3>. QED
      BY <1>1, <3>1, <3>2, <3>3 DEF IInv, CInv
  <2>. QED
    BY <2>2, <2>3
<1>. QED
  BY <1>8, <1>9 DEF IInv

LEMMA RemoveClientKeeps ==
  ASSUME IInv, ahead # <<>>, ahead' = Tail(ahead), RemoveClient(Head(ahead)),
         UNCHANGED <<daemon, sigio, backlog, tray, counts, disturbed>>
  PROVE  IInv'
<1>. DEFINE c == Head(ahead)
<1>1. /\ Gone(c) /\ notify' = [notify EXCEPT ![c] = FALSE]
      /\ UNCHANGED <<clients, value, request, inbox, lost, changes, moves>>
  BY DEF RemoveClient, counts
<1>2. /\ States /\ Lists(backlog, clients, ahead) /\ IsServer(Server)
      /\ IsTrays(tray) /\ AreRequests(request)
  BY Parts DEF IInv, TInv
<1>3. /\ Lists(backlog', clients', ahead') /\ c \in Trays
      /\ ToSet(ahead) = {c} \cup ToSet(ahead')
  <2>1. /\ Lists(backlog, clients, Tail(ahead)) /\ Head(ahead) \in Trays
        /\ ToSet(ahead) = {Head(ahead)} \cup ToSet(Tail(ahead))
    BY <1>2, HeadMoves
  <2>. QED
    BY <1>1, <2>1
<1>. HIDE DEF c
<1>4. notify \in [Trays -> BOOLEAN]
  BY <1>2, ServerNow DEF IsServer
<1>5. notify' \in [Trays -> BOOLEAN] /\ \A t \in Trays : t # c => notify'[t] = notify[t]
  BY <1>1, <1>4
<1>6. IsServer(Server')
  BY <1>1, <1>2, <1>5 DEF IsServer, Server
<1>7. TInv'
  <2>1. States'
    BY <1>1, <1>2 DEF States
  <2>2. \A t : Fresh(t) => Fresh(t)'
    BY <1>1, <1>3 DEF Fresh
  <2>3. TypeOK'
    BY <1>1, <1>2, <1>3, <1>6, <2>1, PartsNext
  <2>. QED
    BY <2>2, <2>3, StillFresh DEF IInv, TInv
<1>8. CInv'
  <2>1. \A t \in Trays \ {c} : inbox'[t] = inbox[t] /\ (Informed(t) <=> Informed(t)')
    BY <1>1, <1>3, <1>5 DEF Informed, ClientList
  <2>. QED
    BY <1>1, <1>3, <1>7, <2>1, OnlyGone
<1>. QED
  BY <1>7, <1>8 DEF IInv

LEMMA RecvClientKeeps ==
  ASSUME IInv, RecvClient
  PROVE  IInv'
<1>1. /\ ahead # <<>> /\ ahead' = Tail(ahead)
      /\ UNCHANGED <<daemon, sigio, backlog, tray, counts, disturbed>>
      /\ \/ RecvMessage(Head(ahead)) \/ RecvNothing(Head(ahead))
         \/ RemoveClient(Head(ahead))
  BY DEF RecvClient
<1>. QED
  BY <1>1, RecvMessageKeeps, RecvNothingKeeps, RemoveClientKeeps

(* The end of the daemon.                                                  *)
LEMMA Forgotten ==
  ASSUME IInv, Forget, UNCHANGED <<tray, counts, disturbed>>,
         daemon' \in {"closing", "down"}, backlog' \in {backlog, <<>>},
         NEW box, inbox' = box, box \in [Trays -> Seq(Messages)],
         \A t \in Trays : IsBox(box[t]), lost' \in BOOLEAN
  PROVE  IInv'
<1>1. /\ clients' = <<>> /\ ahead' = <<>> /\ sigio' = FALSE
      /\ notify' = [t \in Trays |-> FALSE]
      /\ value' = [k \in Kinds |-> 0]
      /\ request' = [t \in Trays |-> NoRequest]
      /\ UNCHANGED <<changes, moves>>
  BY DEF Forget, counts
<1>2. /\ States /\ Lists(backlog, clients, ahead) /\ IsServer(Server)
      /\ IsTrays(tray) /\ AreRequests(request)
  BY Parts DEF IInv, TInv
<1>3. Lists(backlog', clients', ahead') /\ ToSet(backlog') \subseteq ToSet(backlog)
  <2>1. IsList(<<>>) /\ ToSet(<<>>) = {} /\ IsList(backlog)
    BY <1>2, ListEmpty DEF Lists
  <2>. QED
    BY <1>1, <2>1 DEF Lists, Apart
<1>4. IsServer(Server')
  <2>1. notify' \in [Trays -> BOOLEAN] /\ value' \in Values
    BY <1>1 DEF Values
  <2>. QED
    BY <2>1 DEF IsServer, Server
<1>5. TInv'
  <2>1. States'
    BY <1>1, <1>2 DEF States
  <2>2. \A t : Fresh(t) => Fresh(t)'
    BY <1>1, <1>3, ListEmpty DEF Fresh
  <2>3. AreRequests(request')
    BY <1>1 DEF AreRequests, IsRequest
  <2>4. TypeOK'
    BY <1>2, <1>3, <1>4, <2>1, <2>3, PartsNext
  <2>. QED
    BY <2>2, <2>4, StillFresh DEF IInv, TInv
<1>6. CInv'
  BY DEF CInv, Running
<1>. QED
  BY <1>5, <1>6 DEF IInv

LEMMA EndKeeps ==
  ASSUME IInv, Terminate \/ Exit
  PROVE  IInv'
<1>1. IsServer(Server)
  BY Parts DEF IInv, TInv
<1>2. CASE Terminate
  <2>. DEFINE msg == Notification("down", 0)
              to == {t \in ClientList : Server.notify[t]}
              r == NotifyClients(Server, msg)
  <2>1. /\ Forget /\ daemon' = "closing" /\ inbox' = r.inbox /\ lost' = r.lost
        /\ UNCHANGED <<backlog, tray, counts, disturbed>>
    BY <1>2 DEF Terminate
  <2>2. msg \in Messages
    BY DEF Messages, Notifications, Notification
  <2>3. r = SendMessage(Server, to, msg)
    BY DEF NotifyClients
  <2>. HIDE DEF msg, to, r
  <2>4. IsServer(r)
    <3>1. Delivered(Server, to, msg, r)
      BY <1>1, <2>2, <2>3, Sent
    <3>. QED
      BY <3>1 DEF Delivered
  <2>5. /\ r.inbox \in [Trays -> Seq(Messages)] /\ r.lost \in BOOLEAN
        /\ \A t \in Trays : IsBox(r.inbox[t])
    BY <2>4 DEF IsServer
  <2>. QED
    BY <2>1, <2>5, Forgotten
<1>3. CASE Exit
  <2>1. /\ Forget /\ daemon' = "down" /\ backlog' = <<>>
        /\ UNCHANGED <<inbox, tray, counts, lost, disturbed>>
    BY <1>3 DEF Exit, history
  <2>2. /\ inbox \in [Trays -> Seq(Messages)] /\ lost \in BOOLEAN
        /\ \A t \in Trays : IsBox(inbox[t])
    BY <1>1, ServerNow DEF IsServer
  <2>. QED
    BY <2>1, <2>2, Forgotten
<1>. QED
  BY <1>2, <1>3

-----------------------------------------------------------------------------
(* A step of one tray.                                                     *)
TrayStep(t, w, req, box) ==
  /\ tray' = [tray EXCEPT ![t] = w]
  /\ request' = [request EXCEPT ![t] = req]
  /\ inbox' = [inbox EXCEPT ![t] = box]
  /\ UNCHANGED <<daemon, clients, ahead, notify, value, lost>>

LEMMA OneTray ==
  ASSUME IInv, States', NEW t \in Trays, NEW w, NEW req, NEW box,
         TrayStep(t, w, req, box),
         IsTray(w), w.phase # "off", IsRequest(req), IsBox(box),
         Lists(backlog', clients, ahead), ToSet(backlog') \subseteq ToSet(backlog) \cup {t},
         Running => TrayInv(w, req, box, Informed(t), value)
  PROVE  IInv'
<1>1. /\ tray' = [tray EXCEPT ![t] = w]
      /\ request' = [request EXCEPT ![t] = req]
      /\ inbox' = [inbox EXCEPT ![t] = box]
      /\ UNCHANGED <<daemon, clients, ahead, notify, value, lost>>
  BY DEF TrayStep
<1>2. /\ States /\ Lists(backlog, clients, ahead) /\ IsServer(Server)
      /\ IsTrays(tray) /\ AreRequests(request)
  BY Parts DEF IInv, TInv
<1>3. /\ inbox \in [Trays -> Seq(Messages)] /\ \A u \in Trays : IsBox(inbox[u])
      /\ notify \in [Trays -> BOOLEAN] /\ value \in Values /\ lost \in BOOLEAN
  BY <1>2, ServerNow DEF IsServer, Server
<1>4. /\ tray' = [u \in Trays |-> IF u = t THEN w ELSE tray[u]]
      /\ request' = [u \in Trays |-> IF u = t THEN req ELSE request[u]]
      /\ inbox' = [u \in Trays |-> IF u = t THEN box ELSE inbox[u]]
  <2>1. tray' = [u \in Trays |-> IF u = t THEN w ELSE tray[u]]
    BY <1>1, <1>2 DEF IsTrays
  <2>2. request' = [u \in Trays |-> IF u = t THEN req ELSE request[u]]
    BY <1>1, <1>2 DEF AreRequests
  <2>3. inbox' = [u \in Trays |-> IF u = t THEN box ELSE inbox[u]]
    BY <1>1, <1>3
  <2>. QED
    BY <2>1, <2>2, <2>3
<1>5. TInv'
  <2>1. IsServer(Server')
    <3>1. inbox' \in [Trays -> Seq(Messages)] /\ \A u \in Trays : IsBox(inbox'[u])
      BY <1>3, <1>4 DEF IsBox
    <3>. QED
      BY <1>1, <1>3, <3>1 DEF IsServer, Server
  <2>2. IsTrays(tray')
    BY <1>2, <1>4 DEF IsTrays
  <2>3. AreRequests(request')
    BY <1>2, <1>4 DEF AreRequests
  <2>4. TypeOK'
    BY <1>1, <2>1, <2>2, <2>3, PartsNext
  <2>5. ASSUME NEW u \in Trays, tray'[u].phase = "off" PROVE Fresh(u)'
    <3>1. u # t /\ tray[u].phase = "off"
      BY <1>4, <2>5
    <3>2. Fresh(u)
      BY <3>1 DEF IInv, TInv
    <3>. QED
      BY <1>1, <3>1, <3>2 DEF Fresh
  <2>. QED
    BY <2>4, <2>5 DEF TInv
<1>6. CInv'
  <2>1. Running' = Running /\ \A u : Informed(u)' = Informed(u)
    BY <1>1 DEF Running, Informed, ClientList
  <2>2. ASSUME Running, NEW u \in Trays
        PROVE  TrayInv(tray'[u], request'[u], inbox'[u], Informed(u), value)
    <3>1. CASE u = t
      BY <1>4, <2>2, <3>1
    <3>2. CASE u # t
      BY <1>4, <2>2, <3>2 DEF IInv, CInv
    <3>. QED
      BY <3>1, <3>2
  <2>. QED
    BY <1>1, <2>1, <2>2 DEF CInv
<1>. QED
  BY <1>5, <1>6 DEF IInv

(* What is known of a tray before its step.                                *)
LEMMA TrayNow ==
  ASSUME IInv, NEW t \in Trays
  PROVE  /\ States /\ Lists(backlog, clients, ahead)
         /\ IsTray(tray[t]) /\ tray[t].phase \in Phases
         /\ IsRequest(request[t]) /\ IsBox(inbox[t]) /\ inbox[t] \in Seq(Messages)
         /\ value \in Values /\ Informed(t) \in BOOLEAN
         /\ request = [request EXCEPT ![t] = request[t]]
         /\ inbox = [inbox EXCEPT ![t] = inbox[t]]
         /\ Running => TrayInv(tray[t], request[t], inbox[t], Informed(t), value)
<1>1. /\ States /\ Lists(backlog, clients, ahead) /\ IsServer(Server)
      /\ IsTrays(tray) /\ AreRequests(request)
  BY Parts DEF IInv, TInv
<1>2. /\ inbox \in [Trays -> Seq(Messages)] /\ \A u \in Trays : IsBox(inbox[u])
      /\ notify \in [Trays -> BOOLEAN] /\ value \in Values
  BY <1>1, ServerNow DEF IsServer, Server
<1>3. IsTray(tray[t])
  BY <1>1 DEF IsTrays
<1>4. tray[t].phase \in Phases
  BY <1>3 DEF IsTray
<1>5. IsRequest(request[t]) /\ request = [request EXCEPT ![t] = request[t]]
  BY <1>1 DEF AreRequests
<1>6. Informed(t) \in BOOLEAN
  BY DEF Informed
<1>7. Running => TrayInv(tray[t], request[t], inbox[t], Informed(t), value)
  BY DEF IInv, CInv
<1>8. inbox = [inbox EXCEPT ![t] = inbox[t]]
  BY <1>2
<1>. QED
  BY <1>1, <1>2, <1>3, <1>4, <1>5, <1>6, <1>7, <1>8

LEMMA Boxes ==
  ASSUME NEW box, IsBox(box), box # <<>>
  PROVE  IsBox(Tail(box)) /\ Head(box) \in Messages
  BY HeadAndTail, ClientsAssumption DEF IsBox

LEMMA GoneTypes ==
  IsTray(GoneTray) /\ GoneTray.phase = "gone"
<1>1. [k \in Kinds |-> 0] \in Values
  BY DEF Values
<1>2. <<>> \in Seq(Notifications) /\ 0 \in 0..(MaxErrors - 1) /\ "off" \in Phases
  BY ClientsAssumption DEF Phases
<1>3. IsTray(NewTray)
  BY <1>1, <1>2 DEF NewTray, IsTray
<1>4. "gone" \in Phases
  BY DEF Phases
<1>. QED
  BY <1>3, <1>4 DEF GoneTray, IsTray

(* A tray that goes.                                                       *)
LEMMA Goes ==
  ASSUME IInv, States', NEW t \in Trays, tray' = [tray EXCEPT ![t] = GoneTray],
         NEW box, IsBox(box), inbox' = [inbox EXCEPT ![t] = box],
         UNCHANGED <<daemonVars, request, lost>>
  PROVE  IInv'
<1>1. /\ Lists(backlog, clients, ahead) /\ IsRequest(request[t])
      /\ Informed(t) \in BOOLEAN /\ value \in Values
      /\ request = [request EXCEPT ![t] = request[t]]
  BY TrayNow
<1>2. /\ UNCHANGED <<daemon, backlog, clients, ahead, notify, value, lost>>
      /\ UNCHANGED request
  BY DEF daemonVars
<1>3. TrayStep(t, GoneTray, request[t], box)
  BY <1>1, <1>2 DEF TrayStep
<1>. DEFINE told == Informed(t)
<1>4. TrayInv(GoneTray, request[t], box, told, value)
  <2>1. told \in BOOLEAN
    BY <1>1
  <2>. HIDE DEF told
  <2>. QED
    BY <2>1, GoneTypes, Left
<1>. QED
  BY <1>1, <1>2, <1>3, <1>4, GoneTypes, OneTray

(* A tray that sends.                                                      *)
LEMMA Sends ==
  ASSUME IInv, NEW t \in Trays, NEW new, IsTray(new), NEW p \in Phases, p # "off",
         NEW req, IsRequest(req), Send(t, new, p, req), NEW box, IsBox(box),
         inbox' = [inbox EXCEPT ![t] = box],
         UNCHANGED <<daemonVars, history, changes>>, moves' \in 0..MaxMoves,
         NEW u, u = [new EXCEPT !.phase = p],
         Running => TrayInv(u, req, box, Informed(t), value)
  PROVE  IInv'
<1>1. /\ States /\ Lists(backlog, clients, ahead) /\ IsRequest(request[t])
      /\ request = [request EXCEPT ![t] = request[t]]
  BY TrayNow
<1>2. UNCHANGED <<daemon, backlog, clients, ahead, notify, value, lost, disturbed, changes>>
  BY DEF daemonVars, history
<1>3. sigio' \in BOOLEAN
  <2>1. sigio \in BOOLEAN
    BY <1>1 DEF States
  <2>. QED
    BY <2>1 DEF Send, Announce
<1>4. States'
  BY <1>1, <1>2, <1>3 DEF States
<1>5. CASE daemon = "down"
  <2>1. tray' = [tray EXCEPT ![t] = GoneTray] /\ UNCHANGED request
    BY <1>5 DEF Send
  <2>. QED
    BY <1>2, <1>4, <2>1, Goes
<1>6. CASE daemon # "down"
  <2>. DEFINE r == IF daemon = "closing" THEN request[t] ELSE req
  <2>1. tray' = [tray EXCEPT ![t] = u] /\ request' = [request EXCEPT ![t] = r]
    BY <1>6 DEF Send
  <2>2. IsRequest(r)
    BY <1>1
  <2>3. Running => r = req
    BY DEF Running
  <2>4. IsTray(u) /\ u.phase = p
    BY DEF IsTray
  <2>. HIDE DEF r
  <2>5. TrayStep(t, u, r, box)
    BY <1>2, <2>1 DEF TrayStep
  <2>6. Running => TrayInv(u, r, box, Informed(t), value)
    BY <2>3
  <2>7. Lists(backlog', clients, ahead) /\ ToSet(backlog') \subseteq ToSet(backlog) \cup {t}
    BY <1>1, <1>2
  <2>. QED
    BY <1>4, <2>2, <2>4, <2>5, <2>6, <2>7, OneTray
<1>. QED
  BY <1>5, <1>6

LEMMA DestroyKeeps ==
  ASSUME IInv, NEW t \in Trays, Destroy(t), NEW box, IsBox(box),
         inbox' = [inbox EXCEPT ![t] = box],
         UNCHANGED <<daemonVars, history, counts>>
  PROVE  IInv'
<1>. DEFINE req == Request("xevrep", 0)
            u == [tray[t] EXCEPT !.phase = "bye"]
            told == Informed(t)
            val == value
            p == "bye"
            new == tray[t]
<1>1. /\ States /\ IsTray(new) /\ told \in BOOLEAN /\ val \in Values
  BY TrayNow
<1>2. IsRequest(req)
  BY DEF IsRequest, Requests, Request, NextPhase
<1>3. u.phase = "bye"
  BY <1>1 DEF IsTray
<1>4. Send(t, new, p, req)
  BY DEF Destroy
<1>5. p \in Phases /\ p # "off"
  BY DEF Phases, NextPhase
<1>6. UNCHANGED changes /\ moves' \in 0..MaxMoves
  BY <1>1 DEF counts, States
<1>7. u = [new EXCEPT !.phase = p]
  OBVIOUS
<1>. HIDE DEF req, u, told, val, new, p
<1>8. TrayInv(u, req, box, told, val)
  BY <1>1, <1>3, Left
<1>9. Running => TrayInv(u, req, box, Informed(t), value)
  BY <1>8 DEF told, val
<1>. QED
  BY <1>1, <1>2, <1>4, <1>5, <1>6, <1>7, <1>9, Sends

(* connectToBackend()                                                      *)
LEMMA ConnectKeeps ==
  ASSUME IInv, NEW t \in Trays, Connect(t)
  PROVE  IInv'
<1>1. /\ tray[t].phase = "off"
      /\ UNCHANGED <<daemon, clients, ahead, notify, value, request, inbox, changes,
                     moves, lost, disturbed>>
  BY DEF Connect, counts, history
<1>2. /\ States /\ Lists(backlog, clients, ahead)
      /\ IsTray(tray[t]) /\ IsRequest(request[t]) /\ IsBox(inbox[t])
      /\ request = [request EXCEPT ![t] = request[t]]
      /\ inbox = [inbox EXCEPT ![t] = inbox[t]]
      /\ Running => TrayInv(tray[t], request[t], inbox[t], Informed(t), value)
  BY TrayNow
<1>3. States'
  BY <1>1, <1>2 DEF States, Connect
<1>4. CASE daemon \in {"up", "closing"}
  <2>. DEFINE u == [tray[t] EXCEPT !.phase = "connected"]
  <2>1. tray' = [tray EXCEPT ![t] = u] /\ backlog' = Append(backlog, t)
    BY <1>4 DEF Connect
  <2>2. IsTray(u) /\ u.phase = "connected" /\ u.deferred = tray[t].deferred
    BY <1>2 DEF IsTray, Phases
  <2>3. Lists(backlog', clients, ahead) /\ ToSet(backlog') = ToSet(backlog) \cup {t}
    <3>1. t \notin ToSet(backlog) /\ t \notin ToSet(clients) /\ t \notin ToSet(ahead)
      BY <1>1 DEF IInv, TInv, Fresh
    <3>2. /\ Lists(Append(backlog, t), clients, ahead)
          /\ ToSet(Append(backlog, t)) = ToSet(backlog) \cup {t}
      BY <1>2, <3>1, ListsConnect
    <3>. QED
      BY <2>1, <3>2
  <2>. HIDE DEF u
  <2>4. TrayStep(t, u, request[t], inbox[t])
    BY <1>1, <1>2, <2>1 DEF TrayStep
  <2>5. Running => TrayInv(u, request[t], inbox[t], Informed(t), value)
    BY <1>1, <1>2, <2>2 DEF TrayInv, Protocol, Told, Tracks, Asking, Subscribed
  <2>6. u.phase # "off"
    BY <2>2
  <2>. QED
    BY <1>2, <1>3, <2>2, <2>3, <2>4, <2>5, <2>6, OneTray
<1>5. CASE daemon \notin {"up", "closing"}
  <2>1. tray' = [tray EXCEPT ![t] = GoneTray] /\ UNCHANGED backlog
    BY <1>5 DEF Connect
  <2>2. UNCHANGED <<daemonVars, request, lost>>
    BY <1>1, <2>1 DEF daemonVars
  <2>3. inbox' = [inbox EXCEPT ![t] = inbox[t]]
    BY <1>1, <1>2
  <2>. QED
    BY <1>2, <1>3, <2>1, <2>2, <2>3, Goes
<1>. QED
  BY <1>4, <1>5

LEMMA PingKeeps ==
  ASSUME IInv, NEW t \in Trays, Ping(t)
  PROVE  IInv'
<1>. DEFINE req == Request("ping", 0)
            u == [tray[t] EXCEPT !.phase = "ping"]
            box == inbox[t]
            p == "ping"
            new == tray[t]
<1>1. /\ new.phase = "connected" /\ Send(t, new, p, req)
      /\ UNCHANGED <<daemonVars, inbox, counts, history>>
  BY DEF Ping
<1>2. /\ States /\ IsTray(new) /\ IsBox(box)
      /\ inbox = [inbox EXCEPT ![t] = box]
      /\ Running => TrayInv(new, request[t], box, Informed(t), value)
  BY TrayNow
<1>3. IsRequest(req) /\ req.id = "ping"
  BY DEF IsRequest, Requests, Request, NextPhase
<1>4. u.phase = "ping"
  BY <1>2 DEF IsTray
<1>5. p \in Phases /\ p # "off" /\ u = [new EXCEPT !.phase = p]
  BY DEF Phases, NextPhase
<1>6. UNCHANGED changes /\ moves' \in 0..MaxMoves /\ UNCHANGED inbox
  BY <1>1, <1>2 DEF counts, States
<1>. HIDE DEF req, u, new, box, p
<1>7. Running => TrayInv(u, req, box, Informed(t), value)
  BY <1>1, <1>2, <1>3, <1>4 DEF TrayInv, Protocol, Told, Tracks, Asking, Subscribed
<1>8. inbox' = [inbox EXCEPT ![t] = box] /\ UNCHANGED <<daemonVars, history, changes>>
  BY <1>1, <1>2, <1>6
<1>. QED
  BY <1>1, <1>2, <1>3, <1>5, <1>6, <1>7, <1>8, Sends

(* sendMessageSyncReply()                                                  *)
LEMMA DeferKeeps ==
  ASSUME IInv, NEW t \in Trays, Defer(t)
  PROVE  IInv'
<1>. DEFINE w == tray[t]
            box == inbox[t]
            m == Head(box)
            u == [w EXCEPT !.deferred = Append(w.deferred, m)]
            req == request[t]
            told == Informed(t)
            val == value
<1>1. /\ w.phase \in DOMAIN NextPhase /\ box # <<>> /\ ~m.reply
      /\ tray' = [tray EXCEPT ![t] = u]
      /\ inbox' = [inbox EXCEPT ![t] = Tail(box)]
      /\ UNCHANGED <<daemon, sigio, backlog, clients, ahead, notify, value, request,
                     changes, moves, lost, disturbed>>
  <2>1. /\ tray' = [tray EXCEPT ![t].deferred = Append(@, Head(inbox[t]))]
        /\ inbox' = [inbox EXCEPT ![t] = Tail(@)]
    BY DEF Defer
  <2>. QED
    BY <2>1 DEF Defer, Waiting, daemonVars, counts, history
<1>2. /\ States /\ Lists(backlog, clients, ahead)
      /\ IsTray(w) /\ IsRequest(req) /\ IsBox(box) /\ box \in Seq(Messages)
      /\ request = [request EXCEPT ![t] = req]
      /\ told \in BOOLEAN
      /\ Running => TrayInv(w, req, box, told, val)
  BY TrayNow
<1>3. States'
  BY <1>1, <1>2 DEF States
<1>4. IsBox(Tail(box)) /\ m \in Messages
  BY <1>1, <1>2, Boxes
<1>5. m \in Notifications
  BY <1>1, <1>4, Reading
<1>6. /\ IsTray(u) /\ u.phase = w.phase /\ u.shown = w.shown /\ u.missed = w.missed
      /\ u.deferred = Append(w.deferred, m)
  <2>1. w.deferred \in Seq(Notifications)
    BY <1>2, Deferred
  <2>2. Append(w.deferred, m) \in Seq(Notifications)
    BY <1>5, <2>1
  <2>. HIDE DEF w
  <2>. QED
    BY <1>2, <2>2 DEF IsTray
<1>. HIDE DEF w, box, u, req, told, val
<1>7. w.phase # "off"
  BY <1>1, Ids DEF Asking
<1>8. TrayStep(t, u, req, Tail(box))
  BY <1>1, <1>2 DEF TrayStep
<1>9. Running => TrayInv(u, req, Tail(box), told, val)
  <2>1. CASE w.phase \in Asking
    <3>1. Running => TrayInv(w, req, box, told, val)
      BY <1>2
    <3>. QED
      BY <1>1, <1>2, <1>5, <1>6, <2>1, <3>1, DeferTracks
  <2>2. CASE w.phase = "bye"
    BY <1>2, <1>6, <2>2, Left
  <2>. QED
    BY <1>1, <2>1, <2>2, Ids
<1>10. Running => TrayInv(u, req, Tail(box), Informed(t), value)
  BY <1>9 DEF told, val
<1>. QED
  BY <1>1, <1>2, <1>3, <1>4, <1>6, <1>7, <1>8, <1>10, OneTray

LEMMA GotReplyKeeps ==
  ASSUME IInv, NEW t \in Trays, GotReply(t)
  PROVE  IInv'
<1>. DEFINE w == tray[t]
            box == inbox[t]
            m == Head(box)
            p == NextPhase[w.phase]
            bat == \E i \in DOMAIN w.deferred : w.deferred[i].id = "bat"
            u == [w EXCEPT !.phase = p, !.deferred = <<>>,
                           !.shown = ShowReply(ShowDeferred(w), m),
                           !.missed = IF bat THEN w.phase = "bl_again" ELSE @]
            req == request[t]
            new == IF u.phase = "ready" THEN req ELSE Request(u.phase, 0)
            told == Informed(t)
            val == value
<1>1. /\ w.phase \in DOMAIN NextPhase /\ box # <<>> /\ m.reply
      /\ inbox' = [inbox EXCEPT ![t] = Tail(box)]
      /\ UNCHANGED <<daemonVars, counts, history>>
      /\ \/ p = "ready" /\ tray' = [tray EXCEPT ![t] = u] /\ UNCHANGED <<request, sigio>>
         \/ p = "gone" /\ tray' = [tray EXCEPT ![t] = GoneTray] /\ Announce(t)
            /\ UNCHANGED request
         \/ p \notin {"ready", "gone"} /\ Send(t, u, p, Request(p, 0))
  <2>1. /\ w.phase \in DOMAIN NextPhase /\ box # <<>> /\ m.reply
        /\ UNCHANGED <<daemonVars, counts, history>>
    BY DEF GotReply, Waiting
  <2>2. inbox' = [inbox EXCEPT ![t] = Tail(box)]
    BY DEF GotReply
  <2>3. CASE p = "ready"
    <3>1. tray' = [tray EXCEPT ![t] = u] /\ UNCHANGED <<request, sigio>>
      BY <2>3 DEF GotReply
    <3>. QED
      BY <2>1, <2>2, <2>3, <3>1
  <2>4. CASE p = "gone"
    <3>1. tray' = [tray EXCEPT ![t] = GoneTray] /\ Announce(t) /\ UNCHANGED request
      BY <2>4 DEF GotReply
    <3>. QED
      BY <2>1, <2>2, <2>4, <3>1
  <2>5. CASE p \notin {"ready", "gone"}
    <3>1. Send(t, u, p, Request(p, 0))
      BY <2>5 DEF GotReply
    <3>. QED
      BY <2>1, <2>2, <2>5, <3>1
  <2>. QED
    BY <2>3, <2>4, <2>5
<1>2. /\ States /\ Lists(backlog, clients, ahead)
      /\ IsTray(w) /\ IsRequest(req) /\ IsBox(box) /\ box \in Seq(Messages)
      /\ request = [request EXCEPT ![t] = req]
      /\ told \in BOOLEAN /\ val \in Values
      /\ Running => TrayInv(w, req, box, told, val)
  BY TrayNow
<1>3. UNCHANGED changes /\ moves' \in 0..MaxMoves /\ UNCHANGED moves
  BY <1>1, <1>2 DEF counts, States
<1>4. IsBox(Tail(box)) /\ m \in Messages
  BY <1>1, <1>2, Boxes
<1>5. /\ IsTray(u) /\ u.phase = p /\ u.deferred = <<>>
      /\ u.shown = ShowReply(ShowDeferred(w), m)
      /\ u.missed = IF None(w.deferred, AskedBy("bat")) THEN w.missed
                    ELSE w.phase = "bl_again"
      /\ p \in Phases /\ p # "off"
  <2>1. ShowReply(ShowDeferred(w), m) \in Values
    BY <1>2, <1>4, ReplyTypes
  <2>2. p \in Phases /\ p # "off"
    BY <1>1 DEF NextPhase, Phases
  <2>3. bat <=> ~None(w.deferred, AskedBy("bat"))
    BY AskedByKinds DEF None
  <2>. DEFINE shown == ShowReply(ShowDeferred(w), m)
              missed == IF bat THEN w.phase = "bl_again" ELSE w.missed
  <2>4. missed \in BOOLEAN
    BY <1>2 DEF IsTray
  <2>5. missed = IF None(w.deferred, AskedBy("bat")) THEN w.missed
                 ELSE w.phase = "bl_again"
    BY <2>3
  <2>6. u = [w EXCEPT !.phase = p, !.deferred = <<>>, !.shown = shown, !.missed = missed]
    OBVIOUS
  <2>7. <<>> \in Seq(Notifications)
    OBVIOUS
  <2>. HIDE DEF shown, missed, p, w, u
  <2>8. IsTray(u) /\ u.phase = p /\ u.deferred = <<>> /\ u.shown = shown
        /\ u.missed = missed
    BY <1>2, <2>1, <2>2, <2>4, <2>6, <2>7 DEF IsTray, shown
  <2>. QED
    BY <2>2, <2>5, <2>8 DEF shown
<1>6. w.phase # "bye" => p # "gone" /\ w.phase \in Asking
  BY <1>1, Ids DEF NextPhase, Asking
<1>7. w.phase = "bye" => p = "gone"
  BY DEF NextPhase
<1>8. p \notin {"ready", "gone"} => p \in DOMAIN NextPhase
  BY <1>1 DEF NextPhase
<1>9. /\ UNCHANGED <<daemonVars, history, changes, lost, disturbed>>
  BY <1>1, <1>3 DEF history
<1>10. new = IF u.phase = "ready" THEN req ELSE Request(u.phase, 0)
  OBVIOUS
<1>11. p = NextPhase[w.phase] /\ m = Head(box)
  OBVIOUS
<1>. HIDE DEF w, box, m, p, u, req, new, told, val
<1>12. w.phase # "bye" => (Running => TrayInv(u, new, Tail(box), told, val))
  <2>. SUFFICES ASSUME w.phase # "bye", Running
                PROVE  TrayInv(u, new, Tail(box), told, val)
    OBVIOUS
  <2>1. TrayInv(w, req, box, told, val) /\ w.phase \in Asking
    BY <1>2, <1>6
  <2>. QED
    BY <1>1, <1>2, <1>5, <1>10, <1>11, <2>1, GotReplyTracks
<1>13. w.phase # "bye" => (Running => TrayInv(u, new, Tail(box), Informed(t), value))
  BY <1>12 DEF told, val
<1>14. CASE p = "ready"
  <2>1. tray' = [tray EXCEPT ![t] = u] /\ UNCHANGED <<request, sigio>>
    BY <1>1, <1>14
  <2>2. new = req /\ w.phase # "bye"
    BY <1>5, <1>7, <1>10, <1>14
  <2>3. States'
    BY <1>2, <1>3, <1>9, <2>1 DEF States, daemonVars
  <2>4. TrayStep(t, u, req, Tail(box))
    BY <1>1, <1>2, <1>9, <2>1 DEF TrayStep, daemonVars
  <2>5. Lists(backlog', clients, ahead) /\ ToSet(backlog') \subseteq ToSet(backlog) \cup {t}
    BY <1>2, <1>9 DEF daemonVars
  <2>6. u.phase # "off"
    BY <1>5
  <2>7. Running => TrayInv(u, req, Tail(box), Informed(t), value)
    BY <1>13, <2>2
  <2>. QED
    BY <1>2, <1>4, <1>5, <2>3, <2>4, <2>5, <2>6, <2>7, OneTray
<1>15. CASE p = "gone"
  <2>1. tray' = [tray EXCEPT ![t] = GoneTray] /\ Announce(t) /\ UNCHANGED request
    BY <1>1, <1>15
  <2>2. States'
    BY <1>2, <1>3, <1>9, <2>1 DEF States, Announce, daemonVars
  <2>3. UNCHANGED <<daemonVars, request, lost>>
    BY <1>9, <2>1
  <2>. QED
    BY <1>1, <1>4, <2>1, <2>2, <2>3, Goes
<1>16. CASE p \notin {"ready", "gone"}
  <2>1. Send(t, u, p, new) /\ new = Request(p, 0) /\ w.phase # "bye"
    BY <1>1, <1>5, <1>7, <1>10, <1>16
  <2>2. IsRequest(new)
    BY <1>8, <1>16, <2>1 DEF Request, Requests, IsRequest
  <2>3. u = [u EXCEPT !.phase = p]
    BY <1>5 DEF IsTray
  <2>4. Running => TrayInv(u, new, Tail(box), Informed(t), value)
    BY <1>13, <2>1
  <2>5. UNCHANGED <<daemonVars, history, changes>>
    BY <1>9
  <2>. QED
    BY <1>1, <1>3, <1>4, <1>5, <2>1, <2>2, <2>3, <2>4, <2>5, Sends
<1>. QED
  BY <1>14, <1>15, <1>16

(* The end of the connection is met by trays the daemon has left.          *)
LEMMA EndMet ==
  ASSUME IInv, NEW t \in Trays, daemon = "down", NEW w, IsTray(w), w.phase # "off",
         tray' = [tray EXCEPT ![t] = w],
         UNCHANGED <<daemonVars, sigio, request, inbox, counts, history>>
  PROVE  IInv'
<1>1. /\ States /\ Lists(backlog, clients, ahead)
      /\ IsRequest(request[t]) /\ IsBox(inbox[t])
      /\ request = [request EXCEPT ![t] = request[t]]
      /\ inbox = [inbox EXCEPT ![t] = inbox[t]]
  BY TrayNow
<1>2. UNCHANGED <<daemon, backlog, clients, ahead, notify, value, sigio, request, inbox,
                  changes, moves, lost, disturbed>>
  BY DEF daemonVars, counts, history
<1>3. States'
  BY <1>1, <1>2 DEF States
<1>4. TrayStep(t, w, request[t], inbox[t])
  BY <1>1, <1>2 DEF TrayStep
<1>5. ~Running
  BY DEF Running
<1>6. Lists(backlog', clients, ahead) /\ ToSet(backlog') \subseteq ToSet(backlog) \cup {t}
  BY <1>1, <1>2
<1>. QED
  BY <1>1, <1>3, <1>4, <1>5, <1>6, OneTray

LEMMA WaitFailsKeeps ==
  ASSUME IInv, NEW t \in Trays, WaitFails(t)
  PROVE  IInv'
<1>. DEFINE r == tray[t]
            ready == [r EXCEPT !.phase = "ready", !.deferred = <<>>]
            w == IF r.phase \in {"bl_again", "set"} THEN ready ELSE GoneTray
<1>1. /\ daemon = "down" /\ tray' = [tray EXCEPT ![t] = w]
      /\ UNCHANGED <<daemonVars, sigio, request, inbox, counts, history>>
  BY DEF WaitFails
<1>2. IsTray(r)
  BY TrayNow
<1>3. IsTray(ready) /\ ready.phase = "ready"
  <2>1. <<>> \in Seq(Notifications) /\ "ready" \in Phases
    BY DEF Phases
  <2>. HIDE DEF r
  <2>. QED
    BY <1>2, <2>1 DEF IsTray
<1>4. IsTray(w) /\ w.phase # "off"
  BY <1>3, GoneTypes
<1>. HIDE DEF w
<1>. QED
  BY <1>1, <1>4, EndMet

LEMMA ReadErrorKeeps ==
  ASSUME IInv, NEW t \in Trays, ReadError(t)
  PROVE  IInv'
<1>. DEFINE r == tray[t]
            counted == [r EXCEPT !.errcount = r.errcount + 1]
            w == IF r.errcount + 1 = MaxErrors THEN GoneTray ELSE counted
<1>1. /\ daemon = "down" /\ r.phase = "ready" /\ tray' = [tray EXCEPT ![t] = w]
      /\ UNCHANGED <<daemonVars, sigio, request, inbox, counts, history>>
  BY DEF ReadError, EndReported
<1>2. IsTray(r)
  BY TrayNow
<1>3. r.errcount \in 0..(MaxErrors - 1)
  BY <1>2 DEF IsTray
<1>4. ASSUME r.errcount + 1 # MaxErrors PROVE IsTray(counted) /\ counted.phase = "ready"
  <2>1. r.errcount + 1 \in 0..(MaxErrors - 1)
    BY <1>3, <1>4, ClientsAssumption
  <2>. QED
    BY <1>1, <1>2, <2>1 DEF IsTray
<1>5. IsTray(w) /\ w.phase # "off"
  BY <1>4, GoneTypes
<1>. HIDE DEF w
<1>. QED
  BY <1>1, <1>5, EndMet

LEMMA ReadNotificationKeeps ==
  ASSUME IInv, NEW t \in Trays, ReadNotification(t)
  PROVE  IInv'
<1>. DEFINE w == tray[t]
            box == inbox[t]
            m == Head(box)
            u == [w EXCEPT !.errcount = 0, !.shown = Show(w.shown, m),
                           !.missed = w.missed /\ m.id # "bat"]
            req == request[t]
            told == Informed(t)
            val == value
            rest == Tail(box)
<1>1. /\ w.phase = "ready" /\ box # <<>>
      /\ inbox' = [inbox EXCEPT ![t] = rest]
      /\ UNCHANGED <<daemonVars, counts, history>>
      /\ IF m.id = "down" THEN Destroy(t)
         ELSE /\ tray' = [tray EXCEPT ![t] = u] /\ UNCHANGED <<request, sigio>>
  <2>1. inbox' = [inbox EXCEPT ![t] = rest]
    BY DEF ReadNotification
  <2>2. m.id # "down" => tray' = [tray EXCEPT ![t] = u] /\ UNCHANGED <<request, sigio>>
    BY DEF ReadNotification
  <2>3. m.id = "down" => Destroy(t)
    BY DEF ReadNotification
  <2>4. w.phase = "ready" /\ box # <<>> /\ UNCHANGED <<daemonVars, counts, history>>
    BY DEF ReadNotification
  <2>. QED
    BY <2>1, <2>2, <2>3, <2>4
<1>2. /\ States /\ Lists(backlog, clients, ahead)
      /\ IsTray(w) /\ IsRequest(req) /\ IsBox(box) /\ box \in Seq(Messages)
      /\ request = [request EXCEPT ![t] = req]
      /\ told \in BOOLEAN /\ val \in Values
      /\ Running => TrayInv(w, req, box, told, val)
  BY TrayNow
<1>3. IsBox(rest) /\ m \in Messages
  BY <1>1, <1>2, Boxes
<1>4. /\ IsTray(u) /\ u.phase = w.phase /\ u.deferred = w.deferred
      /\ u.shown = Show(w.shown, m)
      /\ u.missed = (w.missed /\ m.id # "bat")
  <2>1. w.shown \in Values /\ m.value \in {0, 1}
    BY <1>2, <1>3, Reading DEF IsTray
  <2>2. Show(w.shown, m) \in Values
    BY <2>1 DEF Show, Values
  <2>3. 0 \in 0..(MaxErrors - 1)
    BY ClientsAssumption
  <2>. DEFINE shown == Show(w.shown, m)
              missed == (w.missed /\ m.id # "bat")
  <2>4. missed \in BOOLEAN /\ missed = (w.missed /\ m.id # "bat")
    OBVIOUS
  <2>5. u = [w EXCEPT !.errcount = 0, !.shown = shown, !.missed = missed]
    OBVIOUS
  <2>. HIDE DEF shown, missed, w, u
  <2>6. IsTray(u) /\ u.phase = w.phase /\ u.deferred = w.deferred
        /\ u.shown = shown /\ u.missed = missed
    BY <1>2, <2>2, <2>3, <2>4, <2>5 DEF IsTray, shown
  <2>. QED
    BY <2>4, <2>6 DEF shown
<1>. HIDE DEF w, u, req, told, val
<1>5. CASE m.id = "down"
  <2>. HIDE DEF rest
  <2>. QED
    BY <1>1, <1>3, <1>5, DestroyKeeps
<1>6. CASE m.id # "down"
  <2>1. tray' = [tray EXCEPT ![t] = u] /\ UNCHANGED <<request, sigio>>
    BY <1>1, <1>6
  <2>2. UNCHANGED <<daemon, backlog, clients, ahead, notify, value, changes, moves, lost,
                    disturbed>>
    BY <1>1 DEF daemonVars, counts, history
  <2>3. States'
    BY <1>2, <2>1, <2>2 DEF States
  <2>4. TrayStep(t, u, req, rest)
    BY <1>1, <1>2, <2>1, <2>2 DEF TrayStep
  <2>5. Running => TrayInv(u, req, rest, told, val)
    <3>. SUFFICES ASSUME Running PROVE TrayInv(u, req, rest, told, val)
      OBVIOUS
    <3>1. TrayInv(w, req, box, told, val)
      BY <1>2
    <3>. HIDE DEF box
    <3>. QED
      BY <1>1, <1>2, <1>4, <3>1, NotificationTracks
  <2>6. Running => TrayInv(u, req, rest, Informed(t), value)
    BY <2>5 DEF told, val
  <2>7. Lists(backlog', clients, ahead) /\ ToSet(backlog') \subseteq ToSet(backlog) \cup {t}
    BY <1>2, <2>2
  <2>8. u.phase # "off"
    BY <1>1, <1>4
  <2>. HIDE DEF rest
  <2>. QED
    BY <1>2, <1>3, <1>4, <2>3, <2>4, <2>6, <2>7, <2>8, OneTray
<1>. QED
  BY <1>5, <1>6

(* The user.                                                               *)
LEMMA MoveSliderKeeps ==
  ASSUME IInv, NEW t \in Trays, MoveSlider(t)
  PROVE  IInv'
<1>. DEFINE w == tray[t]
            box == inbox[t]
            shown == [w.shown EXCEPT !["bl"] = 1 - w.shown["bl"]]
            new == [w EXCEPT !.shown = shown]
            req == Request("set", new.shown["bl"])
            p == "set"
            u == [new EXCEPT !.phase = p]
            told == Informed(t)
            val == value
<1>1. /\ w.phase = "ready" /\ moves < MaxMoves /\ moves' = moves + 1
      /\ Send(t, new, p, req)
      /\ UNCHANGED <<daemonVars, inbox, changes, history>>
  BY DEF MoveSlider
<1>2. /\ States /\ IsTray(w) /\ IsBox(box) /\ told \in BOOLEAN
      /\ inbox = [inbox EXCEPT ![t] = box]
      /\ Running => TrayInv(w, request[t], box, told, val)
  BY TrayNow
<1>3. moves' \in 0..MaxMoves
  BY <1>1, <1>2, ClientsAssumption DEF States
<1>4. /\ shown \in Values /\ shown["bl"] = 1 - w.shown["bl"]
      /\ shown["bat"] = w.shown["bat"] /\ shown["bl"] \in {0, 1}
  <2>1. w.shown \in Values
    BY <1>2 DEF IsTray
  <2>2. w.shown["bl"] \in {0, 1} /\ w.shown["bat"] \in {0, 1}
        /\ "bl" \in DOMAIN w.shown
    BY <2>1 DEF Values, Kinds
  <2>. QED
    BY <2>1, <2>2 DEF Values, Kinds
<1>. HIDE DEF shown
<1>5. /\ IsTray(new) /\ new.shown = shown /\ new.phase = w.phase
      /\ new.deferred = w.deferred /\ new.missed = w.missed
  <2>. HIDE DEF w
  <2>. QED
    BY <1>2, <1>4 DEF IsTray
<1>. HIDE DEF new
<1>6. /\ u.phase = "set" /\ u.shown = shown /\ u.deferred = w.deferred
      /\ u.missed = w.missed
  BY <1>5 DEF IsTray
<1>7. IsRequest(req)
  BY <1>4, <1>5 DEF IsRequest, Requests, Request, NextPhase
<1>8. p \in Phases /\ p # "off" /\ u = [new EXCEPT !.phase = p]
  BY DEF Phases, NextPhase
<1>9. req = Request("set", u.shown["bl"])
  BY <1>5, <1>6
<1>. HIDE DEF w, u, req, told, val, p
<1>10. Running => TrayInv(u, req, box, told, val)
  <2>. SUFFICES ASSUME Running PROVE TrayInv(u, req, box, told, val)
    OBVIOUS
  <2>1. TrayInv(w, request[t], box, told, val)
    BY <1>2
  <2>2. /\ u.shown["bl"] = 1 - w.shown["bl"] /\ u.shown["bat"] = w.shown["bat"]
    BY <1>4, <1>6
  <2>. QED
    BY <1>1, <1>2, <1>6, <1>9, <2>1, <2>2, MoveTracks
<1>11. Running => TrayInv(u, req, box, Informed(t), value)
  BY <1>10 DEF told, val
<1>12. inbox' = [inbox EXCEPT ![t] = box] /\ UNCHANGED <<daemonVars, history, changes>>
  BY <1>1, <1>2
<1>. HIDE DEF box
<1>. QED
  BY <1>1, <1>2, <1>3, <1>5, <1>7, <1>8, <1>11, <1>12, Sends

LEMMA QuitKeeps ==
  ASSUME IInv, NEW t \in Trays, Quit(t)
  PROVE  IInv'
<1>. DEFINE box == inbox[t]
<1>1. Destroy(t) /\ UNCHANGED <<daemonVars, inbox, counts, history>>
  BY DEF Quit
<1>2. IsBox(box) /\ inbox' = [inbox EXCEPT ![t] = box]
  BY <1>1, TrayNow
<1>. HIDE DEF box
<1>. QED
  BY <1>1, <1>2, DestroyKeeps

LEMMA KilledKeeps ==
  ASSUME IInv, NEW t \in Trays, Killed(t)
  PROVE  IInv'
<1>. DEFINE box == inbox[t]
<1>1. /\ tray' = [tray EXCEPT ![t] = GoneTray] /\ Announce(t)
      /\ disturbed' = (disturbed \/ t \in ToSet(backlog))
      /\ UNCHANGED <<daemonVars, request, inbox, counts, lost>>
  BY DEF Killed
<1>2. States /\ IsBox(box) /\ inbox = [inbox EXCEPT ![t] = box]
  BY TrayNow
<1>3. States'
  <2>1. UNCHANGED <<daemon, changes, moves>>
    BY <1>1 DEF daemonVars, counts
  <2>2. sigio' \in BOOLEAN /\ disturbed' \in BOOLEAN
    BY <1>1 DEF Announce
  <2>. QED
    BY <1>2, <2>1, <2>2 DEF States
<1>4. inbox' = [inbox EXCEPT ![t] = box]
  BY <1>1, <1>2
<1>. HIDE DEF box
<1>. QED
  BY <1>1, <1>2, <1>3, <1>4, Goes

-----------------------------------------------------------------------------
LEMMA InitInvariant == Init => IInv
<1>. SUFFICES ASSUME Init PROVE IInv
  OBVIOUS
<1>1. /\ daemon = "starting" /\ sigio = FALSE
      /\ backlog = <<>> /\ clients = <<>> /\ ahead = <<>>
      /\ notify = [t \in Trays |-> FALSE] /\ value = [k \in Kinds |-> 0]
      /\ request = [t \in Trays |-> NoRequest] /\ inbox = [t \in Trays |-> <<>>]
      /\ tray = [t \in Trays |-> NewTray]
      /\ changes = 0 /\ moves = 0 /\ lost = FALSE /\ disturbed = FALSE
  BY DEF Init
<1>2. IsTray(NewTray) /\ NewTray.phase = "off" /\ NewTray.deferred = <<>>
  <2>1. [k \in Kinds |-> 0] \in Values
    BY DEF Values
  <2>2. <<>> \in Seq(Notifications) /\ 0 \in 0..(MaxErrors - 1) /\ "off" \in Phases
    BY ClientsAssumption DEF Phases
  <2>. QED
    BY <2>1, <2>2 DEF NewTray, IsTray
<1>3. TInv
  <2>1. States
    <3>1. 0 \in 0..MaxChanges /\ 0 \in 0..MaxMoves
      BY ClientsAssumption
    <3>. QED
      BY <1>1, <3>1 DEF States
  <2>2. Lists(backlog, clients, ahead)
    BY <1>1, ListEmpty DEF Lists, Apart
  <2>3. IsServer(Server)
    <3>1. IsBox(<<>>) /\ value \in Values
      BY <1>1, ClientsAssumption DEF IsBox, Values
    <3>2. notify \in [Trays -> BOOLEAN] /\ inbox \in [Trays -> Seq(Messages)]
          /\ \A t \in Trays : inbox[t] = <<>>
      BY <1>1
    <3>. QED
      BY <1>1, <3>1, <3>2 DEF IsServer, Server
  <2>4. IsTrays(tray)
    BY <1>1, <1>2 DEF IsTrays
  <2>5. AreRequests(request)
    BY <1>1 DEF AreRequests, IsRequest
  <2>6. \A t \in Trays : Fresh(t)
    BY <1>1, ListEmpty DEF Fresh
  <2>. QED
    BY <2>1, <2>2, <2>3, <2>4, <2>5, <2>6, Parts DEF TInv
<1>4. CInv
  <2>. SUFFICES ASSUME NEW t \in Trays
                PROVE  TrayInv(tray[t], request[t], inbox[t], Informed(t), value)
    BY DEF CInv
  <2>1. tray[t] = NewTray /\ request[t] = NoRequest /\ inbox[t] = <<>>
    BY <1>1
  <2>. QED
    BY <1>2, <2>1, Empty DEF TrayInv, Protocol, Told, Tracks, Asking, Subscribed
<1>. QED
  BY <1>3, <1>4 DEF IInv

LEMMA NextInvariant == IInv /\ [Next]_vars => IInv'
<1>. SUFFICES ASSUME IInv, [Next]_vars PROVE IInv'
  OBVIOUS
<1>1. CASE Listen
  BY <1>1, ListenKeeps
<1>2. CASE SignalAsyncIO
  BY <1>2, AcceptKeeps
<1>3. CASE RecvClient
  BY <1>3, RecvClientKeeps
<1>4. ASSUME NEW id \in Kinds, Change(id) PROVE IInv'
  BY <1>4, ChangeKeeps
<1>5. CASE Terminate \/ Exit
  BY <1>5, EndKeeps
<1>6. ASSUME NEW t \in Trays, Tray(t) PROVE IInv'
  <2>1. CASE Ping(t)
    BY <2>1, PingKeeps
  <2>2. CASE Defer(t)
    BY <2>2, DeferKeeps
  <2>3. CASE GotReply(t)
    BY <2>3, GotReplyKeeps
  <2>4. CASE WaitFails(t)
    BY <2>4, WaitFailsKeeps
  <2>5. CASE ReadNotification(t)
    BY <2>5, ReadNotificationKeeps
  <2>6. CASE ReadError(t)
    BY <2>6, ReadErrorKeeps
  <2>. QED
    BY <1>6, <2>1, <2>2, <2>3, <2>4, <2>5, <2>6 DEF Tray
<1>7. ASSUME NEW t \in Trays, User(t) PROVE IInv'
  <2>1. CASE Connect(t)
    BY <2>1, ConnectKeeps
  <2>2. CASE MoveSlider(t)
    BY <2>2, MoveSliderKeeps
  <2>3. CASE Quit(t)
    BY <2>3, QuitKeeps
  <2>4. CASE Killed(t)
    BY <2>4, KilledKeeps
  <2>. QED
    BY <1>7, <2>1, <2>2, <2>3, <2>4 DEF User
<1>8. CASE UNCHANGED vars
  <2>1. UNCHANGED <<daemon, sigio, backlog, clients, ahead, notify, value, request, inbox,
                    tray, changes, moves, lost, disturbed>>
    BY <1>8 DEF vars, daemonVars, counts, history
  <2>2. TInv'
    <3>1. Server' = Server /\ States'
      BY <2>1, Parts DEF Server, States, IInv, TInv
    <3>2. TypeOK'
      BY <2>1, <3>1, Parts, PartsNext DEF IInv, TInv
    <3>3. \A t : Fresh(t) => Fresh(t)'
      BY <2>1 DEF Fresh
    <3>. QED
      BY <2>1, <3>2, <3>3, StillFresh DEF IInv, TInv
  <2>3. CInv'
    <3>1. Running' = Running /\ \A t : Informed(t)' = Informed(t)
      BY <2>1 DEF Running, Informed, ClientList
    <3>. QED
      BY <2>1, <3>1 DEF IInv, CInv
  <2>. QED
    BY <2>2, <2>3 DEF IInv
<1>. QED
  BY <1>1, <1>2, <1>3, <1>4, <1>5, <1>6, <1>7, <1>8 DEF Next, Daemon

(***************************************************************************)
(* Every connection is in one list of the daemon at most and in none       *)
(* before the tray connects, and every socket, request and tray is of its  *)
(* type: the types and bounds of the state.                                *)
(***************************************************************************)
THEOREM ClientsTypes == Spec => []TypeOK
<1>1. Spec => []IInv
  BY InitInvariant, NextInvariant, PTL DEF Spec
<1>2. IInv => TypeOK
  BY DEF IInv, TInv
<1>. QED
  BY <1>1, <1>2, PTL

(***************************************************************************)
(* Whatever requests, replies and notifications cross, a ready tray that   *)
(* has read its messages shows the brightness and the battery state of the *)
(* daemon; except a battery state whose notification came too early.       *)
(***************************************************************************)
THEOREM TraysShowTheState == Spec => []ShownCurrent
<1>1. Spec => []IInv
  BY InitInvariant, NextInvariant, PTL DEF Spec
<1>2. IInv => ShownCurrent
  <2>. SUFFICES ASSUME IInv, NEW t \in Trays, daemon = "up", tray[t].phase = "ready",
                       inbox[t] = <<>>, ~lost
                PROVE  /\ tray[t].shown["bl"] = value["bl"]
                       /\ tray[t].missed \/ tray[t].shown["bat"] = value["bat"]
    BY DEF ShownCurrent
  <2>. DEFINE w == tray[t]
              box == inbox[t]
  <2>1. TrayInv(w, request[t], box, Informed(t), value) /\ IsTray(w)
    BY TrayNow DEF Running
  <2>2. w.deferred = <<>> /\ box = <<>>
    BY <2>1 DEF TrayInv, Protocol
  <2>3. \A k \in Kinds : w.shown[k] \in {0, 1}
    BY <2>1 DEF IsTray, Values
  <2>. HIDE DEF w, box
  <2>4. ASSUME NEW k \in Kinds, NEW v, Follows(w, box, k, w.shown[k], v)
        PROVE  v = w.shown[k]
    <3>1. Latest(box, AskedBy(k), w.shown[k], v)
      BY <2>2, <2>3, <2>4, FollowsAlone
    <3>2. ~Settled(box, AskedBy(k), v)
      BY <2>2 DEF Settled
    <3>. QED
      BY <3>1, <3>2 DEF Latest
  <2>5. Follows(w, box, "bl", w.shown["bl"], value["bl"])
    BY <2>1 DEF TrayInv, Tracks, w
  <2>6. FollowsBattery(w, box, value["bat"])
    BY <2>1 DEF TrayInv, Tracks, w
  <2>7. w.shown["bl"] = value["bl"]
    BY <2>4, <2>5 DEF Kinds
  <2>8. w.missed \/ w.shown["bat"] = value["bat"]
    BY <2>4, <2>6 DEF Kinds, FollowsBattery
  <2>. QED
    BY <2>7, <2>8 DEF w
<1>. QED
  BY <1>1, <1>2, PTL
=============================================================================
