------------------------------ MODULE NatChat -------------------------------
(***************************************************************************)
(* ARM/NATICQ: the contacts with their logs of messages, the counters of   *)
(* unread messages, the window of the chat, and the acknowledgements of    *)
(* sent messages.  All of it runs in the MMI process, one packet, key or   *)
(* event of a window after the other; what matters is the order.           *)
(*                                                                         *)
(* The window shows a copy of the log of its contact.  While the user is   *)
(* inside a word (EDIT_IsBusy) nothing may be put into it: what arrives is *)
(* noted in req_add and req_drawack and is done when the window is redrawn *)
(* and the word has ended.  last_log is the first message of the log that  *)
(* is not in the window.                                                   *)
(*                                                                         *)
(* A message is a key; its texts and their colours but for the colour of   *)
(* the acknowledgement are left out, and so is total_unread, which is      *)
(* counted and never read.  The history of a contact is not loaded         *)
(* (HISTORY_BUFFER = 0).  The server, the user and the windows of the      *)
(* phone are external.                                                     *)
(***************************************************************************)
EXTENDS Integers, Sequences, FiniteSets, SequencesExt, Functions

CONSTANTS
  Contact,    \* the contacts that may be in the list
  None,       \* no contact, no message
  MAXLOGMSG,  \* messages kept in a log
  Numbers,    \* 0x8000: how many numbers there are for messages
  MaxMsg,     \* bound: messages
  MaxConn,    \* bound: connections
  MaxOdd      \* bound: kinds of events that try the bookkeeping

ASSUME LogAssumption ==
  {MAXLOGMSG, Numbers} \subseteq Nat \ {0} /\ None \notin Contact \cup Int
\* A contact is known by its number, an unsigned int.
ASSUME ContactAssumption == IsFiniteSet(Contact)
ASSUME BoundAssumption == {MaxMsg, MaxConn, MaxOdd} \subseteq Nat

VARIABLES
  conn,             \* connect_state: "off", "login", "on"
  SENDMSGCOUNT,     \* number of the last message sent
  cl,               \* the contacts in the list
  log,              \* of each: its messages, the oldest first
  last_log,         \* the key of the first one that is not in the window, or None
  isunread, unreaded, req_add, req_drawack,   \* of each
  messages_unread,  \* over all
  chat,             \* the contact of the window, or None
  view,             \* the messages in the window: keys and colours
  top,              \* the window is on top
  busy,             \* the user is inside a word
  \* history
  keys,     \* messages so far
  conns,    \* connections so far
  server,   \* what the server has got in this connection, in order
  known,    \* messages that the server has acknowledged, ever
  odd       \* what has happened to try the bookkeeping

count  == <<isunread, unreaded, messages_unread>>
window == <<chat, view, top, busy>>
wire   == <<conn, SENDMSGCOUNT, conns, server, known>>
vars   == <<wire, cl, log, last_log, count, req_add, req_drawack, window, keys, odd>>

-----------------------------------------------------------------------------
\* ID: the number of the message, Plain for 0xFFFFFFFF, Old with the bits 0x18000.
Plain == -1
Old   == -2
Key   == 1..MaxMsg
Entry == [key : Key, ID : Nat \cup {Plain, Old}, ack : 0..2, drawn : BOOLEAN]

\* ACK_COLOR and I_COLOR for 1 and 2, UNACK_COLOR, or the colour of its kind.
Colour(e) ==
  IF e.ack # 0 THEN e.ack ELSE IF e.ID = Plain THEN Plain ELSE 0
Item(e) == [key |-> e.key, colour |-> Colour(e)]
Items(es) == [i \in DOMAIN es |-> Item(es[i])]

\* what has happened, if so.
Notes(what, so) == /\ odd' = IF so THEN odd \cup {what} ELSE odd
                   /\ Cardinality(odd') <= MaxOdd

LastOf(s, k) == SubSeq(s, Len(s) - k + 1, Len(s))
KeysOf(s) == [i \in DOMAIN s |-> s[i].key]
HasKey(s, k) == \E i \in DOMAIN s : s[i].key = k
From(s, k) == SubSeq(s, CHOOSE i \in DOMAIN s : s[i].key = k, Len(s))

\* One message is taken off the counter, however many there are.
ReadOne(t) ==
  /\ messages_unread' = messages_unread - (IF isunread[t] THEN 1 ELSE 0)
  /\ unreaded' = [unreaded EXCEPT ![t] = 0]
  /\ isunread' = [isunread EXCEPT ![t] = FALSE]

\* The window of t comes before the user: everything in it counts as read.
Read(t) ==
  /\ messages_unread' = messages_unread - unreaded[t]
  /\ unreaded' = [unreaded EXCEPT ![t] = 0]
  /\ isunread' = [isunread EXCEPT ![t] = FALSE]

-----------------------------------------------------------------------------
(* What the handlers are made of.                                          *)

\* AddStringToLog: the log of t with message k.  It is cut to MAXLOGMSG messages,
\* and further while the texts are too long.
Logged(t, k, id) ==
  LET all == Append(log[t], [key |-> k, ID |-> id, ack |-> 0, drawn |-> FALSE])
  IN  {LastOf(all, n) : n \in 1..(IF Len(all) > MAXLOGMSG THEN MAXLOGMSG ELSE Len(all))}

\* last_log is left where it was.
LastLogStays(t, es) == IF last_log[t] = None THEN Last(es).key ELSE last_log[t]

\* last_log moves on with the messages that are cut off.
LastLogged(t, es) ==
  CASE last_log[t] = None -> Last(es).key
    [] last_log[t] # None /\ HasKey(es, last_log[t]) -> last_log[t]
    [] OTHER -> IF HasKey(log[t], last_log[t]) THEN es[1].key ELSE last_log[t]

\* The window with the messages from k on, as many as are in the log es.
Shown(es, k) ==
  LET all == view \o Items(From(es, k))
  IN  IF Len(all) > Len(es) THEN LastOf(all, Len(es)) ELSE all

\* AddMsgToChat for what AddStringToLog has left: the counters of t are un and mu.
AddMsgToChat(t, es, k, un, mu) ==
  /\ view' = IF HasKey(es, k) THEN Shown(es, k) ELSE view
  /\ last_log' = [last_log EXCEPT ![t] = None]
  /\ IF top THEN /\ messages_unread' = mu - un
                 /\ unreaded' = [unreaded EXCEPT ![t] = 0]
                 /\ isunread' = [isunread EXCEPT ![t] = FALSE]
            ELSE /\ messages_unread' = mu
                 /\ unreaded' = [unreaded EXCEPT ![t] = un]
                 /\ isunread' = [isunread EXCEPT ![t] = TRUE]

\* AddStringToLog counts a message that came, and an X-status only for its window.
CountsAnd(t, k, es, inc) ==
  LET un == unreaded[t] + inc
      mu == messages_unread + inc
  IN  /\ log' = [log EXCEPT ![t] = es]
      /\ keys' = k
      /\ IF chat = t /\ ~busy
         THEN AddMsgToChat(t, es, LastLogged(t, es), un, mu) /\ UNCHANGED req_add
         ELSE /\ last_log' = [last_log EXCEPT ![t] = LastLogged(t, es)]
              /\ messages_unread' = mu
              /\ unreaded' = [unreaded EXCEPT ![t] = un]
              /\ isunread' = [isunread EXCEPT ![t] = @ \/ inc = 1]
              /\ req_add' = [req_add EXCEPT ![t] = @ \/ chat = t]
              /\ UNCHANGED view

-----------------------------------------------------------------------------
(* ProcessPacket.                                                          *)

\* A contact of the list that the server keeps.
T_CLENTRY == \E t \in Contact \ cl :
  /\ conn = "on" /\ cl' = cl \cup {t}
  /\ UNCHANGED <<wire, log, last_log, count, req_add, req_drawack, window, keys, odd>>

\* A message of somebody else adds a contact.  It comes by way of the other programs
\* (IPC_RECVMSG, IPC_FREEMSG), so perhaps after the end of its connection.
T_RECVMSG == \E t \in Contact :
  /\ conns > 0 /\ keys < MaxMsg
  /\ cl' = cl \cup {t}
  /\ \E es \in Logged(t, keys + 1, Plain) : CountsAnd(t, keys + 1, es, 1)
  /\ UNCHANGED <<wire, req_drawack, chat, top, busy, odd>>

\* AddStringToLog with NOT_LOG_SAME_XTXT, for the X-status that is already there:
\* nothing is logged, but what waits is put into the window.
SameXText == \E t \in cl :
  /\ conn = "on" /\ \E i \in DOMAIN log[t] : log[t][i].ID = Plain
  /\ IF chat = t /\ ~busy /\ isunread[t]
     THEN AddMsgToChat(t, log[t], last_log[t], unreaded[t], messages_unread)
          /\ UNCHANGED req_add
     ELSE /\ req_add' = [req_add EXCEPT ![t] = @ \/ (chat = t /\ busy)]
          /\ UNCHANGED <<view, last_log, count>>
  /\ UNCHANGED <<wire, cl, log, req_drawack, chat, top, busy, keys, odd>>

T_XTEXT_ACK == \E t \in cl :
  /\ conn = "on" /\ keys < MaxMsg
  /\ \E es \in Logged(t, keys + 1, Plain) :
       CountsAnd(t, keys + 1, es, IF chat = t THEN 1 ELSE 0)
  /\ UNCHANGED <<wire, cl, req_drawack, chat, top, busy, odd>>

\* The headers are found by counting from the end of the window.
DrawAck(t, es) ==
  LET at == Len(es) - Len(view)
      isDrawn(i) == i > at /\ ~es[i].drawn
  IN  /\ view' = [j \in DOMAIN view |->
                    IF j + at \in DOMAIN es /\ isDrawn(j + at)
                    THEN [view[j] EXCEPT !.colour = Colour(es[j + at])] ELSE view[j]]
      /\ log' = [log EXCEPT ![t] = [i \in DOMAIN es |->
                    IF isDrawn(i) THEN [es[i] EXCEPT !.drawn = TRUE] ELSE es[i]]]

\* FindContactLOGQByAck: the first message of the log with that number.
ByAck(es, n) ==
  LET hits == {i \in DOMAIN es : es[i].ID = n}
  IN  IF hits = {} THEN 0 ELSE CHOOSE i \in hits : \A j \in hits : i <= j

\* T_SRV_ACK (1), T_CLIENT_ACK (2): message n of this connection has been received,
\* in whatever order the acknowledgements come.
T_ACK == \E n \in DOMAIN server, kind \in 1..2 :
  LET t == server[n].to
      i == ByAck(log[t], n % Numbers)
      es == [log[t] EXCEPT ![i].ack = kind, ![i].drawn = FALSE]
  IN  /\ conn = "on"
      /\ known' = known \cup {server[n].key}
      /\ IF t \in cl /\ i # 0
         THEN IF chat = t /\ ~busy
              THEN /\ DrawAck(t, es) /\ UNCHANGED req_drawack
                   /\ Notes("ack", last_log[t] # None)
              ELSE /\ log' = [log EXCEPT ![t] = es]
                   /\ req_drawack' = [req_drawack EXCEPT ![t] = @ \/ chat = t]
                   /\ UNCHANGED <<view, odd>>
         ELSE UNCHANGED <<log, view, req_drawack, odd>>
      /\ UNCHANGED <<conn, SENDMSGCOUNT, conns, server, cl, last_log, count, req_add,
                     chat, top, busy, keys>>

\* DeleteContact; its window is closed.
T_CONTACTREMOVED == \E t \in cl :
  /\ conn = "on"
  /\ cl' = cl \ {t}
  /\ log' = [log EXCEPT ![t] = <<>>] /\ last_log' = [last_log EXCEPT ![t] = None]
  /\ unreaded' = [unreaded EXCEPT ![t] = 0]
  /\ isunread' = [isunread EXCEPT ![t] = FALSE]
  /\ req_add' = [req_add EXCEPT ![t] = FALSE]
  /\ req_drawack' = [req_drawack EXCEPT ![t] = FALSE]
  /\ IF chat = t THEN chat' = None /\ view' = <<>> /\ top' = FALSE /\ busy' = FALSE
                 ELSE UNCHANGED window
  /\ Notes("removed", unreaded[t] > 0)
  /\ UNCHANGED <<wire, messages_unread, keys>>

ProcessPacket ==
  T_CLENTRY \/ T_RECVMSG \/ SameXText \/ T_XTEXT_ACK \/ T_ACK \/ T_CONTACTREMOVED

-----------------------------------------------------------------------------
(* The connection.                                                         *)

\* ENIP_SOCK_CONNECTED: the numbers begin anew.  It may be the socket that has taken
\* the place of another one (key 0, a lookup or a timer that comes late): the end of
\* that one is no longer looked at, and the messages sent over it keep their numbers.
ENIP_SOCK_CONNECTED ==
  /\ conns < MaxConn
  /\ conn' = "login" /\ conns' = conns + 1
  /\ SENDMSGCOUNT' = 0 /\ server' = <<>>
  /\ Notes("over", conn # "off")
  /\ UNCHANGED <<known, cl, log, last_log, count, req_add, req_drawack, window, keys>>

T_LOGIN ==
  /\ conn = "login" /\ conn' = "on"
  /\ UNCHANGED <<SENDMSGCOUNT, conns, server, known, cl, log, last_log, count,
                 req_add, req_drawack, window, keys, odd>>

Aged(es) == [i \in DOMAIN es |-> IF es[i].ID = Plain THEN es[i] ELSE [es[i] EXCEPT !.ID = Old]]

\* The messages keep their numbers.
ClosedForgets ==
  /\ conn # "off" /\ conn' = "off"
  /\ UNCHANGED <<SENDMSGCOUNT, conns, server, known, cl, log, last_log, count,
                 req_add, req_drawack, window, keys, odd>>

\* FillAllOffline: no acknowledgement finds a message of an earlier connection.
ENIP_SOCK_CLOSED ==
  /\ conn # "off" /\ conn' = "off"
  /\ log' = [t \in Contact |-> Aged(log[t])]
  /\ UNCHANGED <<SENDMSGCOUNT, conns, server, known, cl, last_log, count, req_add,
                 req_drawack, window, keys, odd>>

\* Another program sends a message: it has a number, and is in no log.
IPC_SENDMSG == \E t \in Contact :
  /\ keys < MaxMsg /\ keys' = keys + 1
  /\ SENDMSGCOUNT' = SENDMSGCOUNT + 1
  /\ server' = IF conn = "off" THEN server ELSE Append(server, [to |-> t, key |-> keys + 1])
  /\ Notes("wrap", SENDMSGCOUNT + 1 >= Numbers)
  /\ UNCHANGED <<conn, conns, known, cl, log, last_log, count, req_add,
                 req_drawack, window>>

-----------------------------------------------------------------------------
(* The window of the chat.                                                 *)

\* CreateEditChat, from the list, or from the window of another contact, which
\* is closed.  The window comes on top.
CreateEditChat == \E t \in cl :
  /\ chat # t /\ (chat # None => top)
  /\ chat' = t /\ view' = Items(log[t]) /\ top' = TRUE /\ busy' = FALSE
  /\ Read(t)
  /\ req_add' = [req_add EXCEPT ![t] = FALSE]
  /\ last_log' = [last_log EXCEPT ![t] = None]
  /\ UNCHANGED <<wire, cl, log, req_drawack, keys, odd>>

\* The window goes with edchat_id here, which is cleared a message later
\* (MSG_GUI_DESTROYED): what ReqAddMsgToChat does meanwhile with the address of a
\* window that FindGUIbyId may not find is left out.
ClosesChat ==
  /\ chat # None /\ top
  /\ chat' = None /\ view' = <<>> /\ top' = FALSE /\ busy' = FALSE
  /\ UNCHANGED <<wire, cl, log, last_log, count, req_add, req_drawack, keys, odd>>

\* A menu or another program covers the window.
Covered ==
  /\ chat # None /\ top
  /\ top' = FALSE /\ busy' \in {busy, FALSE}
  /\ UNCHANGED <<wire, cl, log, last_log, count, req_add, req_drawack, chat, view, keys,
                 odd>>

\* edchat_ghook, 0x0A: the window is on top again.
OnFocus ==
  /\ chat # None /\ ~top
  /\ top' = TRUE
  /\ Read(chat)
  /\ Notes("focus", last_log[chat] # None)
  /\ UNCHANGED <<wire, cl, log, last_log, req_add, req_drawack, chat, view, busy, keys>>

BeginsWord ==
  /\ chat # None /\ top /\ ~busy /\ busy' = TRUE
  /\ UNCHANGED <<wire, cl, log, last_log, count, req_add, req_drawack, chat, view, top,
                 keys, odd>>

\* The word ends with a key, or by itself some time after the last one.
EndsWord ==
  /\ busy /\ busy' = FALSE
  /\ UNCHANGED <<wire, cl, log, last_log, count, req_add, req_drawack, chat, view, top,
                 keys, odd>>

\* edchat_ghook, 7: the window is redrawn, and what was put off is done.
Waits(t) == req_add[t] \/ req_drawack[t]

OnRedraw ==
  /\ chat # None /\ top /\ ~busy /\ Waits(chat)
  /\ req_add' = [req_add EXCEPT ![chat] = FALSE]
  /\ req_drawack' = [req_drawack EXCEPT ![chat] = FALSE]
  /\ LET adds == req_add[chat] /\ isunread[chat]
         es   == log[chat]
         k    == last_log[chat]
         now  == IF adds /\ k # None /\ HasKey(es, k) THEN Shown(es, k) ELSE view
         at   == Len(es) - Len(now)
         isDrawn(i) == req_drawack[chat] /\ i > at /\ ~es[i].drawn
     IN  /\ view' = [j \in DOMAIN now |->
                       IF j + at \in DOMAIN es /\ isDrawn(j + at)
                       THEN [now[j] EXCEPT !.colour = Colour(es[j + at])] ELSE now[j]]
         /\ log' = [log EXCEPT ![chat] = [i \in DOMAIN es |->
                       IF isDrawn(i) THEN [es[i] EXCEPT !.drawn = TRUE] ELSE es[i]]]
         /\ IF adds THEN Read(chat) /\ last_log' = [last_log EXCEPT ![chat] = None]
                    ELSE UNCHANGED <<count, last_log>>
  /\ UNCHANGED <<wire, cl, chat, top, busy, keys, odd>>

\* Messages that the user sends: GREEN_BUTTON, with a number, or an item of the
\* menu over the window (GetShortInfo, SendAuthReq, SendAuthGrant), without.
Writes(id) ==
  /\ chat # None /\ conn = "on" /\ keys < MaxMsg
  /\ keys' = keys + 1
  /\ \E es \in Logged(chat, keys + 1, id) :
       /\ log' = [log EXCEPT ![chat] = es]
       /\ AddMsgToChat(chat, es, LastLogged(chat, es), unreaded[chat] + 1,
                       messages_unread + 1)
  /\ UNCHANGED <<conn, conns, known, cl, req_add, req_drawack, chat, top>>

GREEN_BUTTON ==
  /\ top
  /\ SENDMSGCOUNT' = SENDMSGCOUNT + 1
  /\ server' = Append(server, [to |-> chat, key |-> keys + 1])
  /\ Writes((SENDMSGCOUNT + 1) % Numbers)
  /\ busy' = FALSE
  /\ Notes("wrap", SENDMSGCOUNT + 1 >= Numbers)

MenuSends ==
  /\ ~top
  /\ Writes(Plain)
  /\ UNCHANGED <<SENDMSGCOUNT, server, busy, odd>>

\* An item of the menu.  last_log stays as it is.
ClearLog ==
  /\ chat # None /\ ~top
  /\ log' = [log EXCEPT ![chat] = <<>>]
  /\ view' = IF log[chat] = <<>> THEN view ELSE <<>>
  /\ Notes("clear", last_log[chat] # None)
  /\ UNCHANGED <<wire, cl, last_log, count, req_add, req_drawack, chat, top, busy, keys>>

Window ==
  \/ CreateEditChat \/ ClosesChat \/ Covered \/ OnFocus
  \/ BeginsWord \/ EndsWord \/ OnRedraw
  \/ GREEN_BUTTON \/ MenuSends \/ ClearLog

-----------------------------------------------------------------------------
Init ==
  /\ conn = "off" /\ SENDMSGCOUNT = 0
  /\ cl = {}
  /\ log = [t \in Contact |-> <<>>] /\ last_log = [t \in Contact |-> None]
  /\ isunread = [t \in Contact |-> FALSE] /\ unreaded = [t \in Contact |-> 0]
  /\ req_add = [t \in Contact |-> FALSE] /\ req_drawack = [t \in Contact |-> FALSE]
  /\ messages_unread = 0
  /\ chat = None /\ view = <<>> /\ top = FALSE /\ busy = FALSE
  /\ keys = 0 /\ conns = 0 /\ server = <<>> /\ known = {} /\ odd = {}

Next ==
  \/ ProcessPacket
  \/ ENIP_SOCK_CONNECTED \/ T_LOGIN \/ ENIP_SOCK_CLOSED \/ IPC_SENDMSG
  \/ Window

Spec == Init /\ [][Next]_vars

-----------------------------------------------------------------------------
\* messages_unread is the number of unread messages, and a contact is marked as
\* unread exactly if it has some (main.c:1866-1878, 2013-2031, 3914-3923,
\* 4088-4094), unless an unread contact has been removed.
MessagesCounted ==
  /\ \A t \in Contact : isunread[t] <=> unreaded[t] > 0
  /\ "removed" \notin odd => messages_unread = FoldFunction(+, 0, unreaded)

\* An acknowledgement is shown at the message that it was sent for, through any
\* number of connections (main.c:912-930, 2404-2446, cl_work.c:47-52), as long as each
\* has ended before the next one is made and none has used up the numbers.  Where a
\* connection takes the place of another one (2630-2635, 1437, 2936), no FillAllOffline
\* comes between the two, and number 1 of the new one is found at an old message.
AckTrue ==
  odd \cap {"over", "wrap"} = {} =>
    \A t \in Contact : \A i \in DOMAIN log[t] :
      log[t][i].ack # 0 => log[t][i].key \in known

\* The window shows the log of its contact, whole and in order, but for what
\* waits for the end of a word; and each message with the colour of its
\* acknowledgement, unless that waits too.  It is so unless the window comes
\* on top again, or is drawn, with messages waiting.
ViewOfLog ==
  chat # None /\ odd \cap {"focus", "ack", "clear"} = {} =>
    /\ last_log[chat] = None => KeysOf(view) = KeysOf(log[chat])
    /\ last_log[chat] # None => /\ req_add[chat] /\ isunread[chat]
                                /\ HasKey(log[chat], last_log[chat])
    /\ last_log[chat] = None /\ ~req_drawack[chat] => view = Items(log[chat])
=============================================================================
