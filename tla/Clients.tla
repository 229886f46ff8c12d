------------------------------ MODULE Clients ------------------------------
(***************************************************************************)
(* The connections between pwrtray-backend and the trays: the server side  *)
(* in backend/main.c, the client library in tray/backend.cpp, and the      *)
(* order in which a tray fetches and shows the state (tray/main.cpp).      *)
(*                                                                         *)
(* The daemon hears of its sockets by SIGIO, which is one bit: connections *)
(* and messages that come together are announced together.  A connection   *)
(* that has not been accepted announces nothing more.  The sockets do not  *)
(* block: a message that does not fit is lost.                             *)
(*                                                                         *)
(* A tray sends a request and reads until its reply comes; notifications   *)
(* that come before it are kept and processed after it.  Requests succeed  *)
(* here (a failed one makes the tray print a message and go on), and the   *)
(* values are two of which only the difference counts.                     *)
(***************************************************************************)
EXTENDS Integers, Sequences, SequencesExt

CONSTANTS
  Trays,       (* the trays that may be started                             *)
  Watched,     (* those the liveness property speaks of: all are alike      *)
  Cap,         (* how many messages fit in a socket                         *)
  MaxErrors,   (* checkErrorCount(): 25                                     *)
  MaxChanges,  (* bound: changes of battery and backlight by themselves     *)
  MaxMoves     (* bound: moves of sliders                                   *)

ASSUME ClientsAssumption ==
  /\ Watched \subseteq Trays
  /\ Cap \in Nat \ {0} /\ MaxErrors \in Nat \ {0}
  /\ MaxChanges \in Nat /\ MaxMoves \in Nat

VARIABLES
  daemon,    (* "starting", "up", "closing" or "down"                       *)
  sigio,     (* SIGIO is pending                                            *)
  backlog,   (* connections not accepted yet                                *)
  clients,   (* client_list: those behind recv_clients(), all if it does    *)
             (* not run ...                                                 *)
  ahead,     (* ... and those it will come to                               *)
  notify,    (* struct client: notifications_enabled                        *)
  value,     (* brightness and battery state                                *)
  request,   (* what a tray sent and the daemon has not received            *)
  inbox,     (* what the daemon sent and the tray has not received          *)
  tray,      (* the processes of the trays                                  *)
  changes,   (* counts changes, for the bound                               *)
  moves,     (* counts moves of sliders, for the bound                      *)
  lost,      (* history: a message did not fit                              *)
  disturbed  (* history: a connection ended before it was accepted          *)

daemonVars == <<daemon, backlog, clients, ahead, notify, value>>
history == <<lost, disturbed>>
counts == <<changes, moves>>
vars == <<daemonVars, sigio, request, inbox, tray, counts, history>>

(* What notifications are about.                                           *)
Kinds == {"bl", "bat"}

NoRequest == [id |-> "none", value |-> 0]
Request(id, v) == [id |-> id, value |-> v]
Reply(id, v) == [id |-> id, reply |-> TRUE, value |-> v]
Notification(id, v) == [id |-> id, reply |-> FALSE, value |-> v]

(* The requests and what follows their replies: connectToBackend(), the    *)
(* constructor of TrayWindow, and the ready tray; ~Backend() is the last.  *)
NextPhase ==
  [ping |-> "want_notify", want_notify |-> "xevrep", xevrep |-> "bl",
   bl |-> "bat", bat |-> "bl_again", bl_again |-> "ready", set |-> "ready",
   bye |-> "gone"]

Waiting(t) == tray[t].phase \in DOMAIN NextPhase

(* A tray: the request it waits for, sendMessageSyncReply()'s msgs,        *)
(* errcount, slider and battery bar; missed is history: a battery          *)
(* notification found no receiver.                                         *)
NewTray ==
  [phase |-> "off", deferred |-> <<>>, errcount |-> 0,
   shown |-> [k \in Kinds |-> 0], missed |-> FALSE]

GoneTray == [NewTray EXCEPT !.phase = "gone"]
Gone(t) == tray[t].phase = "gone"

Init ==
  /\ daemon = "starting" /\ sigio = FALSE
  /\ backlog = <<>> /\ clients = <<>> /\ ahead = <<>>
  /\ notify = [t \in Trays |-> FALSE]
  /\ value = [k \in Kinds |-> 0]
  /\ request = [t \in Trays |-> NoRequest]
  /\ inbox = [t \in Trays |-> <<>>]
  /\ tray = [t \in Trays |-> NewTray]
  /\ changes = 0 /\ moves = 0
  /\ lost = FALSE /\ disturbed = FALSE

-----------------------------------------------------------------------------
ClientList == ToSet(clients) \cup ToSet(ahead)

(* The daemon's operations change a record of these variables.             *)
Server == [notify |-> notify, value |-> value, inbox |-> inbox, lost |-> lost]

Becomes(new) ==
  \E s \in {new} :
    /\ notify' = s.notify /\ value' = s.value
    /\ inbox' = s.inbox /\ lost' = s.lost

(* send_message(): to a closed connection, nothing but SIGPIPE happens.    *)
SendMessage(s, to, msg) ==
  LET there == {t \in to : ~Gone(t)}
      full  == {t \in there : Len(s.inbox[t]) = Cap}
  IN  [s EXCEPT !.inbox = [t \in Trays |-> IF t \in there \ full
                                           THEN Append(s.inbox[t], msg)
                                           ELSE s.inbox[t]],
                !.lost = s.lost \/ full # {}]

(* notify_clients()                                                        *)
NotifyClients(s, msg) == SendMessage(s, {t \in ClientList : s.notify[t]}, msg)

SetValue(s, id, v) ==
  IF v = s.value[id] THEN s
  ELSE NotifyClients([s EXCEPT !.value = [s.value EXCEPT ![id] = v]],
                     Notification(id, v))

(* received_message(): act, then reply.                                    *)
Act(s, c, msg) ==
  CASE msg.id = "want_notify" -> [s EXCEPT !.notify = [s.notify EXCEPT ![c] = TRUE]]
    [] msg.id = "set"         -> SetValue(s, "bl", msg.value)
    [] OTHER                  -> s

StateFor(s, id) ==
  CASE id \in {"bl", "bl_again"} -> s.value["bl"]
    [] id = "bat"                -> s.value["bat"]
    [] OTHER                     -> 0

ReceivedMessage(s, c, msg) ==
  LET acted == Act(s, c, msg)
  IN  SendMessage(acted, {c}, Reply(msg.id, StateFor(acted, msg.id)))

(* accept_client(): the first connection of the backlog, if there is one.  *)
AcceptClient == IF backlog = <<>> THEN <<>> ELSE <<Head(backlog)>>

(* Mutant of SignalAsyncIO: messages are received before the connection is *)
(* accepted.                                                               *)
RecvThenAccept ==
  /\ daemon = "up"
  /\ sigio /\ ahead = <<>>
  /\ sigio' = FALSE
  /\ backlog' = IF backlog = <<>> THEN <<>> ELSE Tail(backlog)
  /\ clients' = AcceptClient /\ ahead' = clients
  /\ UNCHANGED <<daemon, notify, value, request, inbox, tray, counts, history>>

(* SIGIO, signal_async_io(): accept one connection; all clients are ahead  *)
(* of recv_clients().                                                      *)
SignalAsyncIO ==
  /\ daemon = "up"
  /\ sigio /\ ahead = <<>>
  /\ sigio' = FALSE
  /\ backlog' = IF backlog = <<>> THEN <<>> ELSE Tail(backlog)
  /\ clients' = <<>> /\ ahead' = clients \o AcceptClient
  /\ UNCHANGED <<daemon, notify, value, request, inbox, tray, counts, history>>

(* recv_clients(), for one client: one message ...                         *)
RecvMessage(c) ==
  /\ request[c] # NoRequest
  /\ request' = [request EXCEPT ![c] = NoRequest]
  /\ clients' = Append(clients, c)
  /\ Becomes(ReceivedMessage(Server, c, request[c]))

(* ... or none; a tray that leaves messages unread resets the connection:  *)
(* recv() fails once.                                                      *)
RecvNothing(c) ==
  /\ request[c] = NoRequest
  /\ Gone(c) => inbox[c] # <<>>
  /\ clients' = Append(clients, c)
  /\ inbox' = [inbox EXCEPT ![c] = IF Gone(c) THEN <<>> ELSE @]
  /\ UNCHANGED <<notify, value, request, lost>>

(* ... or the end: remove_client().                                        *)
RemoveClient(c) ==
  /\ request[c] = NoRequest /\ Gone(c) /\ inbox[c] = <<>>
  /\ notify' = [notify EXCEPT ![c] = FALSE]
  /\ UNCHANGED <<clients, value, request, inbox, lost>>

(* The trays run meanwhile; timers and signals wait.                       *)
RecvClient ==
  /\ ahead # <<>>
  /\ ahead' = Tail(ahead)
  /\ \E c \in {Head(ahead)} : RecvMessage(c) \/ RecvNothing(c) \/ RemoveClient(c)
  /\ UNCHANGED <<daemon, sigio, backlog, tray, counts, disturbed>>

(* battery_notify_state_change(), backlight_notify_state_change(): called  *)
(* by timers and handlers.                                                 *)
Change(id) ==
  /\ daemon = "up" /\ ahead = <<>>
  /\ changes < MaxChanges
  /\ changes' = changes + 1
  /\ Becomes(SetValue(Server, id, 1 - value[id]))
  /\ UNCHANGED <<daemon, sigio, backlog, clients, ahead, request, tray, moves,
                 disturbed>>

(* create_socket(), and setup_signal_handlers(0), in one step: the SIGIO of *)
(* a connection made between them is ignored, and that tray waits for the  *)
(* next.                                                                   *)
Listen ==
  /\ daemon = "starting"
  /\ daemon' = "up"
  /\ UNCHANGED <<sigio, backlog, clients, ahead, notify, value, request, inbox,
                 tray, counts, history>>

(* shutdown_cleanup(): force_disconnect_clients(), and battery and         *)
(* backlight are destroyed.  SIGIO is blocked: nothing is received.        *)
Forget ==
  /\ clients' = <<>> /\ ahead' = <<>> /\ sigio' = FALSE
  /\ notify' = [t \in Trays |-> FALSE]
  /\ value' = [k \in Kinds |-> 0]
  /\ request' = [t \in Trays |-> NoRequest]

Terminate ==
  LET s == NotifyClients(Server, Notification("down", 0)) IN
  /\ daemon = "up" /\ ahead = <<>>
  /\ daemon' = "closing"
  /\ Forget
  /\ inbox' = s.inbox /\ lost' = s.lost
  /\ UNCHANGED <<backlog, tray, counts, disturbed>>

(* The daemon exits, after shutdown_cleanup() or killed; the kernel closes *)
(* its sockets and drops what they have not delivered.                     *)
Exit ==
  /\ daemon # "down"
  /\ daemon' = "down"
  /\ Forget
  /\ backlog' = <<>>
  /\ UNCHANGED <<inbox, tray, counts, history>>

-----------------------------------------------------------------------------
(* The kernel announces what happens on an accepted connection.            *)
Announce(t) == sigio' = (sigio \/ (daemon = "up" /\ t \in ClientList))

(* sendMessage(); sending to a daemon that is gone kills with SIGPIPE.     *)
Send(t, new, p, req) ==
  IF daemon = "down"
    THEN tray' = [tray EXCEPT ![t] = GoneTray] /\ UNCHANGED <<request, sigio>>
    ELSE /\ tray' = [tray EXCEPT ![t] = [new EXCEPT !.phase = p]]
         /\ request' = [request EXCEPT ![t] = IF daemon = "closing" THEN @ ELSE req]
         /\ Announce(t)

(* ~Backend(): switch the event reporter off, and wait for the reply.      *)
Destroy(t) == Send(t, tray[t], "bye", Request("xevrep", 0))

(* connectToBackend(): connect(), which fails if nobody listens ...        *)
Connect(t) ==
  /\ tray[t].phase = "off"
  /\ IF daemon \in {"up", "closing"}
       THEN /\ tray' = [tray EXCEPT ![t].phase = "connected"]
            /\ backlog' = Append(backlog, t)
            /\ sigio' = (sigio \/ daemon = "up")
       ELSE /\ tray' = [tray EXCEPT ![t] = GoneTray]
            /\ UNCHANGED <<backlog, sigio>>
  /\ UNCHANGED <<daemon, clients, ahead, notify, value, request, inbox, counts,
                 history>>

(* ... and the first request.                                              *)
Ping(t) ==
  /\ tray[t].phase = "connected"
  /\ Send(t, tray[t], "ping", Request("ping", 0))
  /\ UNCHANGED <<daemonVars, inbox, counts, history>>

(* recvMessage() in sendMessageSyncReply(): not the reply.                 *)
Defer(t) ==
  /\ Waiting(t)
  /\ inbox[t] # <<>> /\ ~Head(inbox[t]).reply
  /\ tray' = [tray EXCEPT ![t].deferred = Append(@, Head(inbox[t]))]
  /\ inbox' = [inbox EXCEPT ![t] = Tail(@)]
  /\ UNCHANGED <<daemonVars, sigio, request, counts, history>>

(* processReceivedMessage(); the slots are connected once the window has   *)
(* been built.                                                             *)
Show(widgets, msg) ==
  [k \in Kinds |-> IF msg.id = k THEN msg.value ELSE widgets[k]]

(* Mutant of ShowDeferred: what came before the reply is dropped.          *)
DropDeferred(r) == r.shown

(* Messages in their order: the last of a kind stays.                      *)
IsLast(msgs, k, i) ==
  msgs[i].id = k /\ \A j \in DOMAIN msgs : j > i => msgs[j].id # k

ShowAll(widgets, msgs) ==
  [k \in Kinds |->
     IF \E i \in DOMAIN msgs : IsLast(msgs, k, i)
       THEN msgs[CHOOSE i \in DOMAIN msgs : IsLast(msgs, k, i)].value
       ELSE widgets[k]]

ShowDeferred(r) ==
  IF r.phase \in {"set", "bye"} THEN ShowAll(r.shown, r.deferred) ELSE r.shown

(* The state that was asked for.                                           *)
AskedBy(k) == IF k = "bl" THEN {"bl", "bl_again"} ELSE {"bat"}

ShowReply(widgets, msg) ==
  [k \in Kinds |-> IF msg.id \in AskedBy(k) THEN msg.value ELSE widgets[k]]

(* The reply: process what was kept, show the state that was asked for,    *)
(* and go on with the next request.                                        *)
GotReply(t) ==
  LET r    == tray[t]
      next == NextPhase[r.phase]
      bat  == \E i \in DOMAIN r.deferred : r.deferred[i].id = "bat"
      new  == [r EXCEPT !.phase = next, !.deferred = <<>>,
                        !.shown = ShowReply(ShowDeferred(r), Head(inbox[t])),
                        !.missed = IF bat THEN r.phase = "bl_again" ELSE @]
  IN
  /\ Waiting(t)
  /\ inbox[t] # <<>> /\ Head(inbox[t]).reply
  /\ inbox' = [inbox EXCEPT ![t] = Tail(@)]
  /\ CASE next = "ready" ->
            tray' = [tray EXCEPT ![t] = new] /\ UNCHANGED <<request, sigio>>
       [] next = "gone" ->
            tray' = [tray EXCEPT ![t] = GoneTray] /\ Announce(t) /\ UNCHANGED request
       [] OTHER -> Send(t, new, next, Request(next, 0))
  /\ UNCHANGED <<daemonVars, counts, history>>

(* recvMessage() fails at the end of the connection, and what was kept is  *)
(* dropped.  Whoever sends a further request is killed by SIGPIPE.         *)
WaitFails(t) ==
  /\ Waiting(t)
  /\ inbox[t] = <<>> /\ daemon = "down"
  /\ tray' = [tray EXCEPT ![t] =
                IF @.phase \in {"bl_again", "set"}
                  THEN [@ EXCEPT !.phase = "ready", !.deferred = <<>>]
                  ELSE GoneTray]
  /\ UNCHANGED <<daemonVars, sigio, request, inbox, counts, history>>

(* readNotification(): a message.                                          *)
ReadNotification(t) ==
  LET msg == Head(inbox[t])
      read == [tray[t] EXCEPT !.errcount = 0]
  IN
  /\ tray[t].phase = "ready"
  /\ inbox[t] # <<>>
  /\ inbox' = [inbox EXCEPT ![t] = Tail(@)]
  /\ IF msg.id = "down"
       THEN Destroy(t)
       ELSE /\ tray' = [tray EXCEPT ![t] =
                          [read EXCEPT !.shown = Show(@, msg),
                                       !.missed = @ /\ msg.id # "bat"]]
            /\ UNCHANGED <<request, sigio>>
  /\ UNCHANGED <<daemonVars, counts, history>>

(* readNotification(): nothing to read, although the socket is readable.   *)
EndReported(t) ==
  /\ tray[t].phase = "ready"
  /\ inbox[t] = <<>> /\ daemon = "down"
  /\ UNCHANGED <<daemonVars, sigio, request, inbox, counts, history>>

(* Mutants of ReadError: one error too many; errors are not counted.       *)
ReadErrorLate(t) ==
  /\ EndReported(t)
  /\ tray' = [tray EXCEPT ![t] =
                IF @.errcount = MaxErrors THEN GoneTray
                                          ELSE [@ EXCEPT !.errcount = @ + 1]]

ReadErrorIgnored(t) == EndReported(t) /\ UNCHANGED tray

(* checkErrorCount(): the end is reported until there are too many errors. *)
ReadError(t) ==
  LET errors == tray[t].errcount + 1 IN
  /\ EndReported(t)
  /\ tray' = [tray EXCEPT ![t] = IF errors = MaxErrors
                                   THEN GoneTray
                                   ELSE [@ EXCEPT !.errcount = errors]]

(* desiredBrightnessChanged(): the user moves the slider.                  *)
MoveSlider(t) ==
  LET widgets == tray[t].shown
      moved   == [tray[t] EXCEPT
                    !.shown = [widgets EXCEPT !["bl"] = 1 - widgets["bl"]]]
  IN
  /\ tray[t].phase = "ready"
  /\ moves < MaxMoves
  /\ moves' = moves + 1
  /\ Send(t, moved, "set", Request("set", moved.shown["bl"]))
  /\ UNCHANGED <<daemonVars, inbox, changes, history>>

(* The user ends the tray.                                                 *)
Quit(t) ==
  /\ tray[t].phase = "ready"
  /\ Destroy(t)
  /\ UNCHANGED <<daemonVars, inbox, counts, history>>

Killed(t) ==
  /\ tray[t].phase \notin {"off", "gone"}
  /\ tray' = [tray EXCEPT ![t] = GoneTray]
  /\ Announce(t)
  /\ disturbed' = (disturbed \/ t \in ToSet(backlog))
  /\ UNCHANGED <<daemonVars, request, inbox, counts, lost>>

-----------------------------------------------------------------------------
Daemon == Listen \/ SignalAsyncIO \/ RecvClient

Tray(t) ==
  \/ Ping(t) \/ Defer(t) \/ GotReply(t) \/ WaitFails(t)
  \/ ReadNotification(t) \/ ReadError(t)

User(t) == Connect(t) \/ MoveSlider(t) \/ Quit(t) \/ Killed(t)

Next ==
  \/ Daemon
  \/ \E id \in Kinds : Change(id)
  \/ Terminate \/ Exit
  \/ \E t \in Trays : Tray(t) \/ User(t)

(* Both programs are scheduled and a shutdown ends (Helpers); nothing is   *)
(* promised about users.                                                   *)
Fairness ==
  /\ WF_vars(Daemon)
  /\ WF_vars(daemon = "closing" /\ Exit)
  /\ \A t \in Trays : WF_vars(Tray(t))

Spec == Init /\ [][Next]_vars /\ Fairness
-----------------------------------------------------------------------------
Values == [Kinds -> {0, 1}]
Requests == [id : DOMAIN NextPhase, value : {0, 1}]
Replies == [id : DOMAIN NextPhase, reply : {TRUE}, value : {0, 1}]
Notifications == [id : Kinds \cup {"down"}, reply : {FALSE}, value : {0, 1}]
Messages == Replies \cup Notifications

Apart(s, u) == ToSet(s) \cap ToSet(u) = {}

TypeOK ==
  /\ daemon \in {"starting", "up", "closing", "down"}
  /\ sigio \in BOOLEAN
  /\ \A s \in {backlog, clients, ahead} : s \in Seq(Trays) /\ IsInjective(s)
  /\ Apart(backlog, clients) /\ Apart(backlog, ahead) /\ Apart(clients, ahead)
  /\ notify \in [Trays -> BOOLEAN]
  /\ value \in Values
  /\ request \in [Trays -> Requests \cup {NoRequest}]
  /\ inbox \in [Trays -> Seq(Messages)]
  /\ \A t \in Trays : Len(inbox[t]) <= Cap
  /\ tray \in [Trays ->
       [phase : DOMAIN NextPhase \cup {"off", "connected", "ready", "gone"},
        deferred : Seq(Notifications), errcount : 0..(MaxErrors - 1),
        shown : Values, missed : BOOLEAN]]
  /\ changes \in 0..MaxChanges /\ moves \in 0..MaxMoves
  /\ history \in BOOLEAN \X BOOLEAN

(***************************************************************************)
(* A tray that has read all its messages shows the brightness and the      *)
(* battery state of the daemon, although requests and notifications cross  *)
(* and notifications are processed after the reply they came before.  The  *)
(* battery state may be stale if its notification came while the           *)
(* constructor of TrayWindow waited for its last reply: no slot is         *)
(* connected yet.                                                          *)
(***************************************************************************)
ShownCurrent ==
  \A t \in Trays :
    (daemon = "up" /\ tray[t].phase = "ready" /\ inbox[t] = <<>> /\ ~lost)
      => /\ tray[t].shown["bl"] = value["bl"]
         /\ tray[t].missed \/ tray[t].shown["bat"] = value["bat"]

(***************************************************************************)
(* No tray is stuck.  Every request is answered, so that every tray that   *)
(* connects becomes ready, although the SIGIOs of several trays merge and  *)
(* each accepts one connection: unless a message is lost, or a connection  *)
(* ends before it is accepted.  And when the daemon has gone no tray is    *)
(* left behind, whatever it was doing, with or without PTNOTI_SRVDOWN ("Is *)
(* the backend dead?").                                                    *)
(***************************************************************************)
Stuck(t) == Waiting(t) \/ (daemon = "down" /\ tray[t].phase = "ready")

Excused == daemon # "down" /\ (lost \/ disturbed)

NeverStuck == \A t \in Watched : Stuck(t) ~> (~Stuck(t) \/ Excused)
=============================================================================
