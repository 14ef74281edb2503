------------------------------ MODULE NatConn ------------------------------
(***************************************************************************)
(* ARM/NATICQ: the connection to the server, the queue of what is to be    *)
(* sent, and the packets that come.                                        *)
(*                                                                         *)
(* The MMI process runs the keys, the timers and maincsm_onmessage, one    *)
(* after the other; the HELPER process runs the jobs of SUBPROC, one after *)
(* the other.  Both write sock, connect_state and disautorecconect, so the *)
(* jobs are cut where the other process can change what they use.          *)
(*                                                                         *)
(* A packet is the unit of what is received, and of what is sent but for   *)
(* one that the stack has taken a part of; the two packets of send_login   *)
(* are one here.  The stack, the resolver, GPRS, the server and the user   *)
(* are external.                                                           *)
(***************************************************************************)
EXTENDS Integers, Sequences, Functions

CONSTANTS
  ByAddress, \* the host is an IP address: no name to look up
  MaxSock,   \* bound: sockets created
  MaxKey,    \* bound: keys pressed
  MaxGprs,   \* bound: times GPRS goes down
  MaxData,   \* bound: packets that the server sends but for the answer to a login
  MaxSay,    \* bound: messages, pings and the like that are sent
  MaxFault,  \* bound: calls that fail or are put off, connections that break
  MaxAll     \* bound: all of these but the sockets together

ASSUME FlagAssumption == ByAddress \in BOOLEAN
ASSUME BoundAssumption ==
  {MaxSock, MaxKey, MaxGprs, MaxData, MaxSay, MaxFault, MaxAll} \subseteq Nat

VARIABLES
  \* NATICQ
  sock,      \* sock, NoSock for -1
  state,     \* connect_state
  dis,       \* disautorecconect
  eop,       \* RXstate = EOP: nothing more is received
  sendq,     \* the packets of sendq_p
  online,    \* is_gprs_online
  dnr,       \* DNR_ID
  tries,     \* DNR_TRIES
  gprsdown,  \* gprsdown # 0
  alive,     \* its CSM exists
  \* its two processes
  timer,     \* reconnect_tmr is running
  inbox,     \* messages for the MMI process
  jobs, hpc, \* jobs for HELPER, and where it is inside of one
  rb,        \* packets that get_answer has still to look at
  \* the phone and the server
  socks,     \* the sockets
  gprs,      \* IsGPRSEnabled
  lookups,   \* names being looked up, by id
  down,      \* packets that have come on sock
  heard,     \* of each socket: what the server has got, and whether it has let us in
  \* history
  acked,     \* messages that the server knows to have arrived
  got,       \* messages that have come to ProcessPacket
  used,      \* how often each bounded thing has happened
  odd        \* what has happened to try the bookkeeping

link  == <<sock, state, dis, eop, sendq>>
own   == <<online, dnr, tries, gprsdown, alive>>
phone == <<socks, gprs, lookups, down, heard>>
vars  == <<link, own, timer, inbox, jobs, hpc, rb, phone, acked, got, used, odd>>

-----------------------------------------------------------------------------
NoSock  == -1
Socket  == 1..MaxSock
TRIES   == 3
Message == 1..MaxData

Packet(what, k) == [what |-> what, key |-> k]
Msg(ev, id)     == [ev |-> ev, id |-> id, key |-> 0]

Bound == [key |-> MaxKey, gprs |-> MaxGprs, data |-> MaxData, say |-> MaxSay,
          fault |-> MaxFault]
Spent == FoldFunction(+, 0, used)
Once(what) == /\ used[what] < Bound[what] /\ Spent < MaxAll
              /\ used' = [used EXCEPT ![what] = @ + 1]
Notes(what, so) == odd' = IF so THEN odd \cup {what} ELSE odd
SUBPROC(job) == jobs' = Append(jobs, job)

Live(s) == socks[s] \in {"open", "connecting", "up", "half"}
Usable  == sock # NoSock /\ socks[sock] \in {"up", "half"}

\* end_socket: closesocket makes the stack report ENIP_SOCK_CLOSED in time.
Shut(s) == IF s # NoSock /\ Live(s) THEN [socks EXCEPT ![s] = "shut"] ELSE socks

\* A connection is being made, or will be by what is under way.
Resolving == hpc = "dnr" \/ lookups # {} \/ \E i \in DOMAIN inbox : inbox[i].ev = "DNR"
Making == \/ hpc \in {"offline", "connect", "state"}
          \/ "create_connect" \in Range(jobs)
          \/ Resolving

-----------------------------------------------------------------------------
(* HELPER: create_connect.                                                 *)

Starts(job) == hpc = "idle" /\ jobs # <<>> /\ Head(jobs) = job /\ jobs' = Tail(jobs)

CreateBegins ==
  /\ Starts("create_connect")
  /\ state' = 0 /\ timer' = FALSE
  /\ hpc' = (IF gprs THEN "dnr" ELSE "offline")
  /\ dnr' = (IF gprs THEN 0 ELSE dnr)
  /\ UNCHANGED <<sock, dis, eop, sendq, online, tries, gprsdown, alive, inbox, rb,
                 phone, acked, got, used, odd>>

\* "Wait for GPRS up"
GoesOffline ==
  /\ hpc = "offline"
  /\ online' = FALSE /\ hpc' = "idle"
  /\ UNCHANGED <<link, dnr, tries, gprsdown, alive, timer, inbox, jobs, rb, phone,
                 acked, got, used, odd>>

NamePending ==
  /\ hpc = "dnr" /\ ~ByAddress /\ Once("fault")
  /\ dnr' = used'["fault"] /\ lookups' = lookups \cup {dnr'}
  /\ hpc' = "idle"
  /\ UNCHANGED <<link, online, tries, gprsdown, alive, timer, inbox, jobs, rb, socks,
                 gprs, down, heard, acked, got, odd>>

NameError ==
  /\ hpc = "dnr" /\ ~ByAddress /\ Once("fault")
  /\ timer' = TRUE /\ hpc' = "idle"
  /\ UNCHANGED <<link, own, inbox, jobs, rb, phone, acked, got, odd>>

\* "Host not found", or a host without an address: this is not tried again.
NameNotFound ==
  /\ hpc = "dnr" /\ ~ByAddress /\ Once("fault")
  /\ tries' \in {tries - 1, tries} /\ hpc' = "idle"
  /\ Notes("notfound", TRUE)
  /\ UNCHANGED <<link, online, dnr, gprsdown, alive, timer, inbox, jobs, rb, phone,
                 acked, got>>

\* The address is known: it is in the configuration, or the resolver has it.
OpensSocket ==
  /\ hpc = "dnr"
  /\ tries' = IF ByAddress THEN tries ELSE 0
  /\ \E s \in Socket :
       /\ \A old \in Socket : socks[old] = "none" <=> old >= s
       /\ sock' = s /\ socks' = [socks EXCEPT ![s] = "open"]
  /\ hpc' = "connect" /\ down' = <<>>
  /\ UNCHANGED <<state, dis, eop, sendq, online, dnr, gprsdown, alive, timer, inbox,
                 jobs, rb, gprs, lookups, heard, acked, got, used, odd>>

\* With GPRS go the connections.
Aborted == [s \in Socket |-> IF socks[s] = "none" THEN "none" ELSE "closed"]

\* "Can't create socket": GPRS is switched off, for a minute.
NoSocketLeft ==
  /\ hpc = "dnr" /\ Once("fault")
  /\ tries' = IF ByAddress THEN tries ELSE 0
  /\ sock' = NoSock /\ gprsdown' = TRUE /\ hpc' = "idle"
  /\ gprs' = FALSE /\ socks' = Aborted
  /\ inbox' = IF alive THEN Append(inbox, Msg("LMAN_DISCONNECT", 0)) ELSE inbox
  /\ UNCHANGED <<state, dis, eop, sendq, online, dnr, alive, timer, jobs, rb, lookups,
                 down, heard, acked, got, odd>>

CanConnect == gprs /\ sock # NoSock /\ socks[sock] = "open"

Connecting ==
  /\ hpc = "connect" /\ CanConnect
  /\ socks' = [socks EXCEPT ![sock] = "connecting"] /\ hpc' = "state"
  /\ UNCHANGED <<link, own, timer, inbox, jobs, rb, gprs, lookups, down, heard, acked,
                 got, used, odd>>

\* The socket is not closed.
CannotNotClosed ==
  /\ hpc = "connect"
  /\ IF CanConnect THEN Once("fault") ELSE UNCHANGED used
  /\ sock' = NoSock /\ timer' = TRUE /\ hpc' = "idle"
  /\ UNCHANGED <<state, dis, eop, sendq, own, inbox, jobs, rb, phone, acked, got, odd>>

CannotConnect ==
  /\ hpc = "connect"
  /\ IF CanConnect THEN Once("fault") ELSE UNCHANGED used
  /\ socks' = IF sock = NoSock THEN socks ELSE [socks EXCEPT ![sock] = "closed"]
  /\ sock' = NoSock /\ timer' = TRUE /\ hpc' = "idle"
  /\ UNCHANGED <<state, dis, eop, sendq, own, inbox, jobs, rb, gprs, lookups, down,
                 heard, acked, got, odd>>

SetsState ==
  /\ hpc = "state"
  /\ state' = 1 /\ hpc' = "idle"
  /\ UNCHANGED <<sock, dis, eop, sendq, own, timer, inbox, jobs, rb, phone, acked, got,
                 used, odd>>

create_connect ==
  \/ CreateBegins \/ GoesOffline \/ NamePending \/ NameError \/ NameNotFound
  \/ OpensSocket \/ NoSocketLeft \/ Connecting \/ CannotConnect \/ SetsState

-----------------------------------------------------------------------------
(* HELPER: sending.                                                        *)

\* What the server knows after n packets of q, and a part of the next one if cut.
Hears(h, q, n, cut) ==
  CASE h = "none" /\ n > 0 -> IF q[1].what = "login" THEN "login" ELSE "other"
    [] h = "none" /\ n = 0 /\ cut -> IF q[1].what = "login" THEN "part" ELSE "other"
    [] h = "part" /\ n > 0 -> "login"
    [] OTHER -> h

\* The stack takes all of q, or some of it, or there is an error.
Sends(q) ==
  \/ /\ Usable
     /\ \E n \in 0..Len(q), cut \in BOOLEAN :
          /\ IF n < Len(q) THEN Once("fault") ELSE ~cut /\ UNCHANGED used
          /\ LET rest == SubSeq(q, n + 1, Len(q))
             IN  sendq' = IF cut THEN [rest EXCEPT ![1].what = "rest"] ELSE rest
          /\ heard' = [heard EXCEPT ![sock] = Hears(@, q, n, cut)]
          /\ acked' = acked \cup ({q[i].key : i \in 1..n} \ {0})
     /\ UNCHANGED socks
  \/ /\ IF Usable THEN Once("fault") ELSE UNCHANGED used
     /\ sendq' = q /\ socks' = Shut(sock)
     /\ UNCHANGED <<heard, acked>>

\* SendAnswer with p, or with nothing, in connect_state st.
SendAnswer(st, p) ==
  IF st < 2 \/ sendq \o p = <<>>
  THEN UNCHANGED <<sendq, socks, heard, acked, used>>
  ELSE IF sendq # <<>> /\ p # <<>>
  THEN sendq' = sendq \o p /\ UNCHANGED <<socks, heard, acked, used>>
  ELSE Sends(sendq \o p)

send_login ==
  /\ Starts("send_login")
  /\ state' = 2 /\ eop' = FALSE
  /\ SendAnswer(2, <<Packet("login", 0)>>)
  /\ Notes("wrong", sock = NoSock)
  /\ UNCHANGED <<sock, dis, own, timer, inbox, hpc, rb, gprs, lookups, down, got>>

\* A message, a ping, a status.
SendsOther ==
  /\ Starts("other")
  /\ SendAnswer(state, <<Packet("other", 0)>>)
  /\ UNCHANGED <<sock, state, dis, eop, own, timer, inbox, hpc, rb, gprs, lookups,
                 down, got, odd>>

\* SendAnswer(0, 0): what is in the queue, after ENIP_BUFFER_FREE or send_tmr.
resend ==
  /\ Starts("resend")
  /\ SendAnswer(state, <<>>)
  /\ UNCHANGED <<sock, state, dis, eop, own, timer, inbox, hpc, rb, gprs, lookups,
                 down, got, odd>>

ClearSendQ ==
  /\ Starts("ClearSendQ")
  /\ sendq' = <<>>
  /\ UNCHANGED <<sock, state, dis, eop, own, timer, inbox, hpc, rb, phone, acked, got,
                 used, odd>>

end_socket ==
  /\ Starts("end_socket")
  /\ socks' = Shut(sock)
  /\ UNCHANGED <<link, own, timer, inbox, hpc, rb, gprs, lookups, down, heard, acked,
                 got, used, odd>>

ElfKiller ==
  /\ Starts("ElfKiller")
  /\ hpc' = "killed"
  /\ UNCHANGED <<link, own, timer, inbox, rb, phone, acked, got, used, odd>>

-----------------------------------------------------------------------------
(* HELPER: get_answer.                                                     *)

Receives ==
  /\ Starts("get_answer")
  /\ IF state >= 2 /\ ~eop /\ Usable /\ down # <<>>
     THEN /\ rb' = down /\ down' = <<>>
          /\ hpc' = "packet"
     ELSE UNCHANGED <<rb, down, hpc>>
  /\ UNCHANGED <<link, own, timer, inbox, socks, gprs, lookups, heard, acked, got, used,
                 odd>>

Sees(what) == hpc = "packet" /\ Head(rb).what = what
GoesOn == rb' = Tail(rb) /\ hpc' = IF Len(rb) > 1 THEN "packet" ELSE "idle"

T_LOGIN ==
  /\ Sees("login") /\ GoesOn
  /\ state' = 3
  /\ Notes("wrong", sock = NoSock)
  /\ UNCHANGED <<sock, dis, eop, sendq, own, timer, inbox, jobs, phone, acked, got, used>>

\* "Error code 1" and "110" say that somebody else uses the number; other errors
\* are only shown.
T_ERROR ==
  /\ Sees("error") /\ GoesOn
  /\ dis' \in {dis, TRUE}
  /\ Notes("off", dis' /\ (timer \/ Making))
  /\ UNCHANGED <<sock, state, eop, sendq, own, timer, inbox, jobs, phone, acked, got,
                 used>>

\* More than 16383 bytes: "Bad packet".
BadPacket ==
  /\ Sees("bad")
  /\ socks' = Shut(sock) /\ eop' = TRUE
  /\ rb' = <<>> /\ hpc' = "idle"
  /\ UNCHANGED <<sock, state, dis, sendq, own, timer, inbox, jobs, gprs, lookups, down,
                 heard, acked, got, used, odd>>

\* T_RECVMSG is acknowledged, and then handed to the MMI process.
SendMSGACK ==
  /\ Sees("msg") /\ hpc' = "post"
  /\ SendAnswer(state, <<Packet("ack", Head(rb).key)>>)
  /\ UNCHANGED <<sock, state, dis, eop, own, timer, inbox, jobs, rb, gprs, lookups,
                 down, got, odd>>

HandsOver ==
  /\ hpc = "post" /\ GoesOn
  /\ inbox' = IF alive
              THEN Append(inbox, [ev |-> "PACKET", id |-> sock, key |-> Head(rb).key])
              ELSE inbox
  /\ UNCHANGED <<link, own, timer, jobs, phone, acked, got, used, odd>>

get_answer == Receives \/ T_LOGIN \/ T_ERROR \/ BadPacket \/ SendMSGACK \/ HandsOver

HELPER ==
  \/ create_connect \/ send_login \/ SendsOther \/ resend \/ ClearSendQ
  \/ end_socket \/ ElfKiller \/ get_answer

-----------------------------------------------------------------------------
(* MMI: keys, menu and timers.                                             *)

GREEN_BUTTON ==
  /\ alive /\ Once("key")
  /\ dis' = FALSE
  /\ IF state = 0 /\ sock = NoSock
     THEN /\ timer' = FALSE /\ tries' = TRIES /\ SUBPROC("create_connect")
          /\ Notes("over", Making)
     ELSE UNCHANGED <<timer, tries, jobs, odd>>
  /\ UNCHANGED <<sock, state, eop, sendq, online, dnr, gprsdown, alive, inbox, hpc, rb,
                 phone, acked, got>>

ZeroKey ==
  /\ alive /\ Once("key")
  /\ dis' = FALSE /\ timer' = FALSE /\ tries' = TRIES
  /\ jobs' = jobs \o <<"end_socket", "create_connect">>
  /\ odd' = odd \cup {"zero"} \cup (IF Making THEN {"over"} ELSE {})
  /\ UNCHANGED <<sock, state, eop, sendq, online, dnr, gprsdown, alive, inbox, hpc, rb,
                 phone, acked, got>>

\* An item of the menu.  A timer that is running, or a connection that is being
\* made, goes on.
Disconnect ==
  /\ alive /\ Once("key")
  /\ dis' = TRUE /\ SUBPROC("end_socket")
  /\ Notes("off", timer \/ Making)
  /\ UNCHANGED <<sock, state, eop, sendq, own, timer, inbox, hpc, rb, phone, acked, got>>

\* Messages, pings of process_active_timer, IPC_SENDMSG.
Says ==
  /\ alive /\ Once("say")
  /\ SUBPROC("other")
  /\ UNCHANGED <<link, own, timer, inbox, hpc, rb, phone, acked, got, odd>>

\* When it fires, what was posted before has been done.
do_reconnect ==
  /\ alive /\ timer /\ hpc = "idle" /\ jobs = <<>> /\ inbox = <<>>
  /\ timer' = FALSE
  /\ IF online THEN tries' = TRIES /\ SUBPROC("create_connect")
               ELSE UNCHANGED <<tries, jobs>>
  /\ UNCHANGED <<link, online, dnr, gprsdown, alive, inbox, hpc, rb, phone, acked, got,
                 used, odd>>

Posts(s, m) == inbox' = IF alive /\ s \in {sock, 0} THEN Append(inbox, m) ELSE inbox

\* IPC_TENSECONDS: "we switch GPRS on if we have switched it off ourselves".
TurnsGprsOn ==
  /\ alive /\ gprsdown
  /\ gprsdown' = FALSE /\ gprs' = TRUE
  /\ IF gprs THEN UNCHANGED inbox ELSE Posts(0, Msg("LMAN_CONNECT", 0))
  /\ UNCHANGED <<link, online, dnr, tries, alive, timer, jobs, hpc, rb, socks, lookups,
                 down, heard, acked, got, used, odd>>

maincsm_onclose ==
  /\ alive /\ alive' = FALSE /\ timer' = FALSE
  /\ inbox' = <<>>
  /\ jobs' = jobs \o <<"end_socket", "ClearSendQ", "ElfKiller">>
  /\ UNCHANGED <<link, online, dnr, tries, gprsdown, hpc, rb, phone, acked, got, used,
                 odd>>

-----------------------------------------------------------------------------
(* MMI: maincsm_onmessage.                                                 *)

Handles(ev) ==
  /\ alive /\ inbox # <<>> /\ Head(inbox).ev = ev
  /\ inbox' = Tail(inbox)
HandlesOwn(ev) == Handles(ev) /\ Head(inbox).id = sock

LMAN_DISCONNECT_IND ==
  /\ Handles("LMAN_DISCONNECT")
  /\ online' = FALSE
  /\ UNCHANGED <<link, dnr, tries, gprsdown, alive, timer, jobs, hpc, rb, phone, acked,
                 got, used, odd>>

LMAN_CONNECT_CNF ==
  /\ Handles("LMAN_CONNECT")
  /\ online' = TRUE /\ timer' = (timer \/ ~dis)
  /\ odd' = odd \cup (IF ~dis /\ (Making \/ sock # NoSock) THEN {"over"} ELSE {})
                \cup (IF hpc = "offline" THEN {"offline"} ELSE {})
  /\ UNCHANGED <<link, dnr, tries, gprsdown, alive, jobs, hpc, rb, phone, acked, got,
                 used>>

ENIP_DNR_HOST_BY_NAME ==
  /\ Handles("DNR")
  /\ IF Head(inbox).id = dnr /\ tries # 0 THEN SUBPROC("create_connect")
                                          ELSE UNCHANGED jobs
  /\ UNCHANGED <<link, own, timer, hpc, rb, phone, acked, got, used, odd>>

\* A message goes round once more, by IPC, for other programs to look at; what
\* comes back is handled whatever has become of the socket: ProcessPacket, in
\* NatChat.
HandlesPacket ==
  /\ alive /\ inbox # <<>> /\ Head(inbox).ev = "PACKET" /\ Head(inbox).id = sock
  /\ inbox' = Append(Tail(inbox), [Head(inbox) EXCEPT !.ev = "FREEMSG"])
  /\ UNCHANGED <<link, own, timer, jobs, hpc, rb, phone, acked, got, used, odd>>

IPC_FREEMSG ==
  /\ Handles("FREEMSG")
  /\ got' = got \cup {Head(inbox).key}
  /\ UNCHANGED <<link, own, timer, jobs, hpc, rb, phone, acked, used, odd>>

\* "Illegal message" in any other state.
ENIP_SOCK_CONNECTED ==
  /\ HandlesOwn("CONNECTED")
  /\ IF state = 1 THEN SUBPROC("send_login") ELSE UNCHANGED jobs
  /\ UNCHANGED <<link, own, timer, hpc, rb, phone, acked, got, used, odd>>

ENIP_SOCK_DATA_READ ==
  /\ HandlesOwn("DATA_READ")
  /\ IF state >= 2 THEN SUBPROC("get_answer") ELSE UNCHANGED jobs
  /\ UNCHANGED <<link, own, timer, hpc, rb, phone, acked, got, used, odd>>

ENIP_BUFFER_FREE ==
  /\ HandlesOwn("BUFFER_FREE")
  /\ SUBPROC("resend")
  /\ UNCHANGED <<link, own, timer, hpc, rb, phone, acked, got, used, odd>>

\* The socket is let go at once.
RemoteClosedLetsGo ==
  /\ HandlesOwn("REMOTE_CLOSED")
  /\ SUBPROC("end_socket") /\ sock' = NoSock
  /\ UNCHANGED <<state, dis, eop, sendq, own, timer, hpc, rb, phone, acked, got, used,
                 odd>>

ENIP_SOCK_REMOTE_CLOSED ==
  /\ HandlesOwn("REMOTE_CLOSED")
  /\ SUBPROC("end_socket")
  /\ UNCHANGED <<link, own, timer, hpc, rb, phone, acked, got, used, odd>>

\* The queue is left; the timer is started in any case; it is not started.
ClosedKeepsQueue ==
  /\ HandlesOwn("CLOSED")
  /\ state' = 0 /\ sock' = NoSock
  /\ timer' = (timer \/ ~dis)
  /\ UNCHANGED <<dis, eop, sendq, own, jobs, hpc, rb, phone, acked, got, used, odd>>

ClosedReconnects ==
  /\ HandlesOwn("CLOSED")
  /\ state' = 0 /\ sock' = NoSock /\ SUBPROC("ClearSendQ")
  /\ timer' = TRUE
  /\ UNCHANGED <<dis, eop, sendq, own, hpc, rb, phone, acked, got, used, odd>>

ClosedNoTimer ==
  /\ HandlesOwn("CLOSED")
  /\ state' = 0 /\ sock' = NoSock /\ SUBPROC("ClearSendQ")
  /\ UNCHANGED <<dis, eop, sendq, own, timer, hpc, rb, phone, acked, got, used, odd>>

ENIP_SOCK_CLOSED ==
  /\ HandlesOwn("CLOSED")
  /\ state' = 0 /\ sock' = NoSock /\ SUBPROC("ClearSendQ")
  /\ timer' = (timer \/ ~dis)
  /\ Notes("over", ~dis /\ Resolving)
  /\ UNCHANGED <<dis, eop, sendq, own, hpc, rb, phone, acked, got, used>>

NotOurs ==
  /\ alive /\ inbox # <<>> /\ inbox' = Tail(inbox)
  /\ Head(inbox).ev \in {"PACKET", "CONNECTED", "DATA_READ", "BUFFER_FREE",
                         "REMOTE_CLOSED", "CLOSED"}
  /\ Head(inbox).id # sock
  /\ UNCHANGED <<link, own, timer, jobs, hpc, rb, phone, acked, got, used, odd>>

maincsm_onmessage ==
  \/ LMAN_DISCONNECT_IND \/ LMAN_CONNECT_CNF \/ ENIP_DNR_HOST_BY_NAME
  \/ HandlesPacket \/ IPC_FREEMSG \/ ENIP_SOCK_CONNECTED \/ ENIP_SOCK_DATA_READ
  \/ ENIP_BUFFER_FREE \/ ENIP_SOCK_REMOTE_CLOSED \/ ENIP_SOCK_CLOSED \/ NotOurs

-----------------------------------------------------------------------------
(* The phone and the server.  Events of a socket that is not ours any more *)
(* are not listened to, so they are not posted.                            *)

Changes(s, from, to, ev) ==
  /\ socks[s] = from /\ socks' = [socks EXCEPT ![s] = to]
  /\ Posts(s, Msg(ev, s))
  /\ Notes("late", ev = "CLOSED" /\ hpc = "post" /\ s = sock)
  /\ UNCHANGED <<link, own, timer, jobs, hpc, rb, gprs, lookups, down, heard, acked,
                 got>>

Soon(s, from, to, ev) == Changes(s, from, to, ev) /\ UNCHANGED used
StackConnects == \E s \in Socket : Soon(s, "connecting", "up", "CONNECTED")
ServerHangsUp == \E s \in Socket : Soon(s, "up", "half", "REMOTE_CLOSED")
StackCloses   == \E s \in Socket : Soon(s, "shut", "closed", "CLOSED")
StackBreaks   == \E s \in Socket, from \in {"connecting", "up"} :
                   Changes(s, from, "closed", "CLOSED") /\ Once("fault")

StackHasRoom ==
  /\ Usable /\ sendq # <<>> /\ Msg("BUFFER_FREE", sock) \notin Range(inbox)
  /\ "resend" \notin Range(jobs)
  /\ Posts(sock, Msg("BUFFER_FREE", sock))
  /\ UNCHANGED <<link, own, timer, jobs, hpc, rb, phone, acked, got, used, odd>>

\* A login is answered; then come messages that have not been acknowledged, errors
\* and what is no packet.
ServerSends ==
  /\ sock # NoSock /\ socks[sock] = "up"
  /\ \E p \in {Packet("login", 0), Packet("error", 0), Packet("bad", 0)}
              \cup {Packet("msg", k) : k \in Message \ acked} :
       /\ IF p.what = "login"
          THEN /\ heard[sock] = "login" /\ heard' = [heard EXCEPT ![sock] = "in"]
               /\ UNCHANGED used
          ELSE /\ heard[sock] = "in" \/ (heard[sock] = "login" /\ p.what = "error")
               /\ Once("data") /\ UNCHANGED heard
       /\ down' = Append(down, p)
  /\ Posts(sock, Msg("DATA_READ", sock))
  /\ UNCHANGED <<link, own, timer, jobs, hpc, rb, socks, gprs, lookups, acked, got, odd>>

ResolverAnswers == \E id \in lookups :
  /\ lookups' = lookups \ {id}
  /\ Posts(0, Msg("DNR", id))
  /\ UNCHANGED <<link, own, timer, jobs, hpc, rb, socks, gprs, down, heard, acked, got,
                 used, odd>>

GprsDown ==
  /\ alive /\ gprs /\ Once("gprs")
  /\ gprs' = FALSE /\ socks' = Aborted
  /\ inbox' = Append(inbox, Msg("LMAN_DISCONNECT", 0))
              \o (IF sock # NoSock /\ socks[sock] # "closed"
                  THEN <<Msg("CLOSED", sock)>> ELSE <<>>)
  /\ Notes("late", hpc = "post")
  /\ UNCHANGED <<link, own, timer, jobs, hpc, rb, lookups, down, heard, acked, got>>

GprsUp ==
  /\ alive /\ ~gprs /\ gprs' = TRUE
  /\ Posts(0, Msg("LMAN_CONNECT", 0))
  /\ UNCHANGED <<link, own, timer, jobs, hpc, rb, socks, lookups, down, heard, acked,
                 got, used, odd>>

Phone ==
  \/ StackConnects \/ StackBreaks \/ ServerHangsUp \/ StackCloses \/ StackHasRoom
  \/ ServerSends \/ ResolverAnswers \/ GprsDown \/ GprsUp

-----------------------------------------------------------------------------
\* The check for a second run has found none.
Init ==
  /\ sock = NoSock /\ state = 0 /\ dis = FALSE /\ eop = TRUE /\ sendq = <<>>
  /\ online = TRUE /\ dnr = 0 /\ tries = TRIES /\ gprsdown = FALSE /\ alive = TRUE
  /\ timer = FALSE /\ inbox = <<>> /\ jobs = <<"create_connect">> /\ hpc = "idle"
  /\ rb = <<>>
  /\ socks = [s \in Socket |-> "none"] /\ gprs \in BOOLEAN /\ lookups = {}
  /\ down = <<>> /\ heard = [s \in Socket |-> "none"]
  /\ acked = {} /\ got = {} /\ used = [what \in DOMAIN Bound |-> 0] /\ odd = {}

Next ==
  \/ HELPER \/ maincsm_onmessage
  \/ GREEN_BUTTON \/ ZeroKey \/ Disconnect \/ Says \/ do_reconnect \/ TurnsGprsOn
  \/ maincsm_onclose
  \/ Phone

Spec == Init /\ [][Next]_vars

\* Jobs are run, messages read, timers fire; a connection is not for ever
\* connecting nor a name for ever looked up, and a socket that is closed is
\* reported as closed.
Fairness ==
  /\ WF_vars(HELPER) /\ WF_vars(maincsm_onmessage)
  /\ WF_vars(do_reconnect) /\ WF_vars(TurnsGprsOn)
  /\ WF_vars(StackConnects \/ StackBreaks) /\ WF_vars(StackCloses)
  /\ WF_vars(ResolverAnswers)

FairSpec == Spec /\ Fairness

-----------------------------------------------------------------------------
\* The first thing that the server gets in a connection is the login: nothing of
\* an earlier connection is left in the queue (main.c:1486, 1516, 1584, 3057),
\* unless a connection is made while there is one, or connect_state has been set
\* after the connection had gone.
LoginFirst ==
  odd \cap {"over", "zero", "wrong"} = {} => \A s \in Socket : heard[s] # "other"

\* A message that the server knows to have arrived is not lost on the way to the
\* chat (main.c:1743-1745, 2936), unless the connection breaks between its
\* acknowledgement and its message to the MMI process, or another one is made.
AckedArrives ==
  alive /\ odd \cap {"late", "over", "zero"} = {} =>
    \A k \in acked :
      \/ k \in got
      \/ hpc = "post" /\ Head(rb).key = k
      \/ \E i \in DOMAIN inbox :
           /\ inbox[i].key = k
           /\ \/ inbox[i].ev = "PACKET" /\ inbox[i].id = sock
              \/ inbox[i].ev = "FREEMSG"

\* No connection but that of sock is open (main.c:1437-1459, 1496, 2622-2637).
OneConnection ==
  "over" \notin odd => \A s \in Socket : Live(s) => s = sock

\* "Disconnect" (mainmenu.c:72), or an error that somebody else uses the number,
\* ends connecting until the user presses a key, unless a connection was already
\* on its way.
StaysOff ==
  [][CreateBegins /\ dis => odd \cap {"off", "over", "zero"} # {}]_vars

\* "There is a function of automatic connecting when the connection is lost"
\* (NATICQ.txt:118): as long as nobody says otherwise a connection is made again,
\* unless the host is not found, or GPRS comes up while create_connect notes that it
\* is down, or connections are made over each other.
KeepsTrying ==
  alive /\ ~dis /\ gprs /\ sock = NoSock ~>
    \/ ~alive \/ dis \/ ~gprs \/ sock # NoSock
    \/ odd \cap {"notfound", "offline", "over"} # {} \/ "none" \notin Range(socks)

\* "3 - connected with the ICQ server" (NATICQ.txt:116) is not said of no
\* connection at all.
StateTrue ==
  hpc = "idle" /\ jobs = <<>> /\ inbox = <<>> /\ state = 3 => sock # NoSock
=============================================================================
