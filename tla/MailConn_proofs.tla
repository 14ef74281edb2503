---------------------------- MODULE MailConn_proofs ----------------------------
(***************************************************************************)
(* The connection of the daemon, for any number of sockets, checks, faults *)
(* and arrivals: no socket is let go while it is connected, "connected" is *)
(* said of a socket that is, and nothing is left open behind a daemon that *)
(* has been closed.                                                        *)
(*                                                                         *)
(* None of them is inductive.  That sock may be overwritten when a socket  *)
(* has been made rests on there being none then, which rests on there      *)
(* being one attempt at a time: one job create_connect, one name that is   *)
(* looked up, one answer of the resolver or the timer, and none of them    *)
(* while there is a socket (OneInv).  That nothing is left open rests on   *)
(* what stands before ElfKiller in the jobs (KillInv).                     *)
(***************************************************************************)
EXTENDS MailConn, SequenceTheorems, TLAPS

-----------------------------------------------------------------------------
NoneLive == \A s \in Socket : ~Live(s)
OnlyOurs == \A s \in Socket : Live(s) => s = sock
Posted   == \E i \in DOMAIN jobs : jobs[i] = "create_connect"
Answered == \E i \in DOMAIN inbox : inbox[i].ev = "DNR"
Creates  == hpc \notin {"idle", "killed"}

OneAnswer ==
  \A i, j \in DOMAIN inbox : inbox[i].ev = "DNR" /\ inbox[j].ev = "DNR" => i = j
OneJob ==
  \A i, j \in DOMAIN jobs :
    jobs[i] = "create_connect" /\ jobs[j] = "create_connect" => i = j

\* A socket that is reported closed is.
ClosedIs ==
  \A i \in DOMAIN inbox : inbox[i].ev = "CLOSED" =>
    inbox[i].id \in Socket /\ socks[inbox[i].id] = "closed"

SocketInv == (sock # NoSock => socks[sock] # "none") /\ ClosedIs

\* One connection is made at a time, and none while there is one.
SingleInv ==
  /\ Creates => ~Posted /\ lookups = {} /\ ~Answered
  /\ Posted => lookups = {} /\ ~Answered
  /\ lookups # {} => ~Answered
  /\ \A a, b \in lookups : a = b
  /\ OneAnswer /\ OneJob
  /\ timer = TRUE => ~Creates /\ ~Posted /\ lookups = {} /\ ~Answered /\ sock = NoSock
  /\ sock # NoSock => /\ hpc \in {"idle", "connect", "state", "killed"}
                      /\ ~Posted /\ lookups = {} /\ ~Answered

OneInv == SocketInv /\ ("over" \notin odd => OnlyOurs /\ SingleInv)

\* The socket is closed after the last connection has been made and before the end.
Ended(i) ==
  \/ \E j \in 1..(i - 1) : /\ jobs[j] = "end_socket"
                           /\ \A k \in DOMAIN jobs : k > j => jobs[k] # "create_connect"
  \/ NoneLive /\ ~Creates /\ ~Posted

KillInv ==
  /\ hpc = "killed" => ~(alive = TRUE) /\ ("over" \notin odd => NoneLive)
  /\ \A i \in DOMAIN jobs : jobs[i] = "ElfKiller" =>
       ~(alive = TRUE) /\ ("over" \notin odd => Ended(i))

StateInv ==
  /\ hpc \in {"connect", "state"} => state = 0
  /\ hpc = "state" => sock # NoSock \/ odd \cap {"early", "over"} # {}
  /\ ConnectedIsSocket

\* A session begins with nothing of an earlier one (FreshSession).
OwnEvents == {"CONNECTED", "DATA_READ", "BUFFER_FREE", "REMOTE_CLOSED", "CLOSED"}
Left      == {"get_answer", "end_socket", "send_str", "ClearSendQ", "ElfKiller"}
Mute      == {"none", "open", "connecting"}
Early     == hpc \in {"gprs", "offline", "dnr", "socket"}
NoLeft    == \A i \in DOMAIN jobs : jobs[i] \notin Left

\* Nothing is said of a socket before it is connected, and that comes first.
Untold == \A i \in DOMAIN inbox : inbox[i].ev \in OwnEvents => socks[inbox[i].id] \notin Mute
Ordered ==
  \A i, j \in DOMAIN inbox :
    inbox[i].ev \in OwnEvents /\ inbox[j].ev = "CONNECTED" /\ inbox[i].id = inbox[j].id
      => i >= j

\* The connection has been begun, and "connected" is still to be read.
Pending ==
  /\ sock # NoSock
  /\ \/ socks[sock] \in {"open", "connecting"}
     \/ \E i \in DOMAIN inbox : inbox[i].ev = "CONNECTED" /\ inbox[i].id = sock

\* What is left of a session is run before the next connection is made.
Behind ==
  \A i, j \in DOMAIN jobs : jobs[i] = "create_connect" /\ i < j => jobs[j] \notin Left

FreshJobs ==
  /\ Behind
  /\ Early => sendq = FALSE /\ NoLeft
  /\ Pending => NoLeft /\ (sendq = TRUE => ~Live(sock))

FreshInv == Untold /\ Ordered /\ ("over" \notin odd /\ alive = TRUE => FreshJobs)

-----------------------------------------------------------------------------
(* Sequences, the bounds and the messages.                                 *)

LEMMA Added ==
  ASSUME NEW S, NEW q \in Seq(S), NEW e \in S
  PROVE  /\ Append(q, e) \in Seq(S) /\ Len(Append(q, e)) = Len(q) + 1 /\ Len(q) \in Nat
         /\ \A i \in 1..Len(q) : Append(q, e)[i] = q[i]
         /\ Append(q, e)[Len(q) + 1] = e
         /\ DOMAIN q = 1..Len(q) /\ DOMAIN Append(q, e) = 1..(Len(q) + 1)
  OBVIOUS

LEMMA Taken ==
  ASSUME NEW S, NEW q \in Seq(S), q # <<>>
  PROVE  /\ Tail(q) \in Seq(S) /\ Len(Tail(q)) = Len(q) - 1
         /\ Len(q) \in Nat \ {0} /\ Head(q) = q[1] /\ Head(q) \in S
         /\ \A i \in 1..(Len(q) - 1) : Tail(q)[i] = q[i + 1]
         /\ DOMAIN q = 1..Len(q) /\ DOMAIN Tail(q) = 1..(Len(q) - 1)
  OBVIOUS

LEMMA Sockets == Socket \subseteq Nat /\ NoSock \notin Socket /\ 0 \in Int
  BY BoundAssumption DEF Socket, NoSock

LEMMA Counted ==
  ASSUME used \in [DOMAIN Bound -> Nat], NEW what \in DOMAIN Bound, Once(what)
  PROVE  used' \in [DOMAIN Bound -> Nat] /\ used[what] < Bound[what] /\ used[what] \in Nat
  BY DEF Once

LEMMA Kinds == DOMAIN Bound = {"ask", "stop", "gprs", "data", "fault"} /\ Bound["fault"] = MaxFault
  BY DEF Bound

LEMMA MessageTypes ==
  /\ \A s \in Socket, ev \in {"CONNECTED", "DATA_READ", "BUFFER_FREE", "REMOTE_CLOSED",
                              "CLOSED"} :
       Msg(ev, s) \in Message /\ Msg(ev, s).ev = ev /\ Msg(ev, s).id = s
  /\ \A id \in Lookup : Msg("DNR", id) \in Message /\ Msg("DNR", id).ev = "DNR"
  /\ \A ev \in {"CHECK", "STOP", "LMAN_CONNECT", "LMAN_DISCONNECT"} :
       Msg(ev, 0) \in Message /\ Msg(ev, 0).ev = ev
  BY DEF Msg, Message

LEMMA ShutTypes ==
  ASSUME TypeOK
  PROVE  /\ Shut(sock) \in [Socket -> SocketStates]
         /\ \A s \in Socket :
              /\ Shut(sock)[s] \in {"open", "connecting", "up", "half"} => Live(s) /\ s # sock
              /\ socks[s] = "closed" => Shut(sock)[s] = "closed"
              /\ Shut(sock)[s] = "none" <=> socks[s] = "none"
  BY Sockets DEF TypeOK, Shut, Live, SocketStates

LEMMA AbortedTypes ==
  ASSUME TypeOK
  PROVE  /\ Aborted \in [Socket -> SocketStates]
         /\ \A s \in Socket : /\ Aborted[s] \in {"none", "closed"}
                              /\ socks[s] # "none" => Aborted[s] = "closed"
  BY DEF TypeOK, Aborted, SocketStates

\* What comes when GPRS goes down, in one order or the other.
LEMMA DownTypes ==
  ASSUME TypeOK,
         NEW q, q = Append(inbox \o OwnClosed, Msg("LMAN_DISCONNECT", 0))
                  \/ q = Append(inbox, Msg("LMAN_DISCONNECT", 0)) \o OwnClosed
  PROVE  /\ q \in Seq(Message)
         /\ \A i \in DOMAIN inbox : i \in DOMAIN q /\ q[i] = inbox[i]
         /\ \A i \in DOMAIN q : \/ i \in DOMAIN inbox /\ q[i] = inbox[i]
                                \/ q[i].ev = "LMAN_DISCONNECT"
                                \/ sock # NoSock /\ q[i].ev = "CLOSED" /\ q[i].id = sock
<1> DEFINE m == Msg("LMAN_DISCONNECT", 0)
<1>1. inbox \in Seq(Message) /\ m \in Message /\ m.ev = "LMAN_DISCONNECT"
  BY MessageTypes DEF TypeOK
<1>2. CASE OwnClosed = <<>>
  <2>1. inbox \o OwnClosed = inbox /\ Append(inbox, m) \in Seq(Message)
    BY <1>1, <1>2
  <2>2. Append(inbox, m) \o <<>> = Append(inbox, m)
    BY <2>1
  <2>3. q = Append(inbox, m)
    BY <1>2, <2>1, <2>2
  <2> HIDE DEF m
  <2> QED
    BY <1>1, <2>3, Added
<1>3. CASE sock # NoSock /\ OwnClosed = <<Msg("CLOSED", sock)>>
  <2>1. sock # NoSock /\ sock \in Socket
    BY <1>3 DEF TypeOK
  <2>2. PICK c \in Message : /\ c = Msg("CLOSED", sock) /\ c.ev = "CLOSED" /\ c.id = sock
    BY <2>1, MessageTypes
  <2>3. inbox \o <<c>> = Append(inbox, c)
    BY <1>1, <2>2
  <2>4. Append(inbox, m) \o <<c>> = Append(Append(inbox, m), c)
    BY <1>1, <2>2
  <2>5. q = Append(Append(inbox, c), m) \/ q = Append(Append(inbox, m), c)
    BY <1>3, <2>2, <2>3, <2>4
  <2> HIDE DEF m
  <2>6. /\ Append(inbox, c) \in Seq(Message) /\ Append(inbox, m) \in Seq(Message)
        /\ DOMAIN inbox = 1..Len(inbox) /\ Len(inbox) \in Nat
    BY <1>1, <2>2, Added
  <2>7. /\ q \in Seq(Message) /\ DOMAIN q = 1..(Len(inbox) + 2)
        /\ \A i \in 1..Len(inbox) : q[i] = inbox[i]
        /\ q[Len(inbox) + 1] \in {m, c} /\ q[Len(inbox) + 2] \in {m, c}
    BY <1>1, <2>2, <2>5, <2>6
  <2> QED
    BY <1>1, <2>1, <2>2, <2>6, <2>7
<1> QED
  BY <1>2, <1>3 DEF OwnClosed

-----------------------------------------------------------------------------
(* Types.                                                                  *)

LEMMA StartsTypes ==
  ASSUME TypeOK, NEW job, Starts(job)
  PROVE  jobs' \in Seq(Jobs)
  BY Taken DEF TypeOK, Starts

LEMMA CreateTypes == TypeOK /\ create_connect => TypeOK'
<1> SUFFICES ASSUME TypeOK, create_connect
             PROVE  TypeOK'
  OBVIOUS
<1>1. CASE CreateBegins
  <2>1. jobs' \in Seq(Jobs) /\ hpc' \in HelperStates
    BY <1>1, StartsTypes DEF CreateBegins, HelperStates
  <2>2. timer' \in BOOLEAN /\ sendq' \in BOOLEAN /\ waiting' \in BOOLEAN
    BY <1>1 DEF CreateBegins
  <2>4. state' \in 0..2
    BY <1>1 DEF CreateBegins
  <2>3. UNCHANGED <<sock, online, dnrId, dnrTries, alive, gprs, inbox, socks, lookups, used>>
    BY <1>1 DEF CreateBegins, phone
  <2> QED
    BY <2>1, <2>2, <2>3, <2>4 DEF TypeOK
<1>2. CASE ChecksGprs \/ GoesOffline \/ NameFound \/ SetsState
  <2>1. /\ hpc' \in HelperStates /\ dnrId' \in Lookup \cup {0} /\ dnrTries' \in Int
        /\ state' \in 0..2
    BY <1>2 DEF ChecksGprs, GoesOffline, NameFound, SetsState, HelperStates, TypeOK
  <2>3. online' \in BOOLEAN /\ waiting' \in BOOLEAN
    BY <1>2 DEF ChecksGprs, GoesOffline, NameFound, SetsState, TypeOK, hist
  <2>2. UNCHANGED <<sock, sendq, alive, timer, gprs, inbox, jobs, socks, lookups, used>>
    BY <1>2 DEF ChecksGprs, GoesOffline, NameFound, SetsState, phone
  <2> QED
    BY <2>1, <2>2, <2>3 DEF TypeOK
<1>3. CASE NamePending \/ NameError \/ NameNotFound
  <2>1. UNCHANGED <<sock, state, sendq, online, alive, gprs, waiting, inbox, jobs, socks>>
    BY <1>3 DEF NamePending, NameError, NameNotFound, hist, daemon, phone
  <2>5. hpc' \in HelperStates /\ timer' \in BOOLEAN
    BY <1>3 DEF NamePending, NameError, NameNotFound, HelperStates, TypeOK
  <2>6. dnrTries' \in Int
    BY <1>3 DEF NamePending, NameError, NameNotFound, TypeOK, daemon
  <2>2. Once("fault")
    BY <1>3 DEF NamePending, NameError, NameNotFound
  <2>3. used' \in [DOMAIN Bound -> Nat] /\ used["fault"] + 1 \in Lookup
    <3>1. /\ used' \in [DOMAIN Bound -> Nat] /\ used["fault"] < MaxFault
          /\ used["fault"] \in Nat
      BY <2>2, Counted, Kinds DEF TypeOK
    <3>2. MaxFault \in Nat
      BY BoundAssumption
    <3> QED
      BY <3>1, <3>2 DEF Lookup
  <2>4. dnrId' \in Lookup \cup {0} /\ lookups' \subseteq Lookup
    BY <1>3, <2>3 DEF NamePending, NameError, NameNotFound, TypeOK, daemon, phone
  <2> QED
    BY <2>1, <2>3, <2>4, <2>5, <2>6 DEF TypeOK
<1>4. CASE OpensSocket
  <2>1. sock' \in Socket /\ socks' \in [Socket -> SocketStates]
    BY <1>4 DEF OpensSocket, TypeOK, SocketStates
  <2> QED
    BY <1>4, <2>1 DEF OpensSocket, TypeOK, HelperStates, hist
<1>5. CASE NoSocketLeft
  <2>1. used' \in [DOMAIN Bound -> Nat]
    BY <1>5, Counted, Kinds DEF NoSocketLeft, TypeOK
  <2>2. inbox' \in Seq(Message)
    BY <1>5, DownTypes DEF NoSocketLeft, TypeOK
  <2>3. /\ sock' = NoSock /\ state' \in 0..2 /\ hpc' \in HelperStates
        /\ socks' = Aborted
    BY <1>5 DEF NoSocketLeft, HelperStates
  <2>5. gprs' \in BOOLEAN
    BY <1>5 DEF NoSocketLeft
  <2>4. UNCHANGED <<sendq, online, dnrId, dnrTries, alive, timer, jobs, lookups, waiting>>
    BY <1>5 DEF NoSocketLeft, hist
  <2> QED
    BY <2>1, <2>2, <2>3, <2>4, <2>5, AbortedTypes DEF TypeOK
<1>6. CASE Connecting
  <2>1. socks' \in [Socket -> SocketStates] /\ hpc' \in HelperStates
    BY <1>6 DEF Connecting, TypeOK, SocketStates, HelperStates
  <2> QED
    BY <1>6, <2>1 DEF Connecting, TypeOK, daemon, hist
<1>7. CASE CannotConnect
  <2>1. socks' \in [Socket -> SocketStates] /\ hpc' \in HelperStates
    BY <1>7 DEF CannotConnect, TypeOK, SocketStates, HelperStates
  <2>2. used' \in [DOMAIN Bound -> Nat]
    BY <1>7, Counted, Kinds DEF CannotConnect, TypeOK
  <2> QED
    BY <1>7, <2>1, <2>2 DEF CannotConnect, TypeOK, hist
<1> QED
  BY <1>1, <1>2, <1>3, <1>4, <1>5, <1>6, <1>7 DEF create_connect

OtherJobs ==
  get_answer \/ end_connect \/ end_socket \/ send_str \/ ClearSendQ \/ ElfKiller

\* What the other jobs have in common: they close the socket, or leave it.
LEMMA OtherIs ==
  ASSUME TypeOK, OtherJobs
  PROVE  /\ jobs' \in Seq(Jobs) /\ sendq' \in BOOLEAN /\ used' \in [DOMAIN Bound -> Nat]
         /\ socks' = socks \/ socks' = Shut(sock)
         /\ hpc' = hpc \/ (ElfKiller /\ hpc' = "killed")
         /\ UNCHANGED <<sock, state, online, dnrId, dnrTries, alive, timer, inbox, gprs,
                        lookups, hist>>
<1>1. jobs' \in Seq(Jobs)
  BY StartsTypes DEF OtherJobs, get_answer, end_connect, end_socket, send_str, ClearSendQ,
     ElfKiller
<1>2. CASE get_answer \/ send_str
  <2>1. \/ UNCHANGED <<sendq, socks, used>>
        \/ Queues \/ Sends
        \/ sendq' \in {sendq, TRUE} /\ socks' = Shut(sock) /\ UNCHANGED used
    BY <1>2 DEF get_answer, send_str
  <2>2. ASSUME Sends
        PROVE  /\ sendq' \in BOOLEAN /\ used' \in [DOMAIN Bound -> Nat]
               /\ socks' = socks \/ socks' = Shut(sock)
    BY <2>2, Counted, Kinds DEF Sends, TypeOK
  <2>3. /\ sendq' \in BOOLEAN /\ used' \in [DOMAIN Bound -> Nat]
        /\ socks' = socks \/ socks' = Shut(sock)
    BY <2>1, <2>2 DEF Queues, TypeOK
  <2>4. UNCHANGED <<hpc, sock, state, online, dnrId, dnrTries, alive, timer, inbox, gprs,
                    lookups, hist>>
    BY <1>2 DEF get_answer, send_str
  <2> QED
    BY <1>1, <2>3, <2>4
<1>3. CASE end_connect \/ end_socket \/ ClearSendQ \/ ElfKiller
  <2>1. sendq' \in BOOLEAN
    BY <1>3 DEF end_connect, end_socket, ClearSendQ, ElfKiller, TypeOK, daemon
  <2>2. used' \in [DOMAIN Bound -> Nat] /\ (socks' = socks \/ socks' = Shut(sock))
    BY <1>3 DEF end_connect, end_socket, ClearSendQ, ElfKiller, TypeOK, phone
  <2>3. hpc' = hpc \/ (ElfKiller /\ hpc' = "killed")
    BY <1>3 DEF end_connect, end_socket, ClearSendQ, ElfKiller
  <2>4. UNCHANGED <<sock, state, online, dnrId, dnrTries, alive, timer, inbox, gprs, lookups,
                    hist>>
    BY <1>3 DEF end_connect, end_socket, ClearSendQ, ElfKiller, daemon, phone
  <2> QED
    BY <1>1, <2>1, <2>2, <2>3, <2>4
<1> QED
  BY <1>2, <1>3 DEF OtherJobs

LEMMA OtherTypes == TypeOK /\ OtherJobs => TypeOK'
<1> SUFFICES ASSUME TypeOK, OtherJobs
             PROVE  TypeOK'
  OBVIOUS
<1>1. socks' \in [Socket -> SocketStates] /\ hpc' \in HelperStates
  BY OtherIs, ShutTypes DEF TypeOK, HelperStates
<1> QED
  BY <1>1, OtherIs DEF TypeOK, hist

Asked == Asks \/ PressesStop \/ do_reconnect \/ Closes

LEMMA AskedTypes == TypeOK /\ Asked => TypeOK'
<1> SUFFICES ASSUME TypeOK, Asked
             PROVE  TypeOK'
  OBVIOUS
<1>1. CASE Asks \/ PressesStop
  <2>1. inbox' \in Seq(Message)
    <3>1. PICK m \in Message : inbox' = Append(inbox, m)
      BY <1>1, MessageTypes DEF Asks, PressesStop
    <3> QED
      BY <3>1 DEF TypeOK
  <2>2. used' \in [DOMAIN Bound -> Nat]
    BY <1>1, Counted, Kinds DEF Asks, PressesStop, TypeOK
  <2> QED
    BY <1>1, <2>1, <2>2 DEF Asks, PressesStop, TypeOK, daemon, phone, hist
<1>2. CASE do_reconnect
  <2>1. jobs' \in Seq(Jobs) /\ dnrTries' \in Int
    <3>1. "create_connect" \in Jobs /\ TRIES \in Int
      BY DEF Jobs, TRIES
    <3>2. \/ dnrTries' = TRIES /\ jobs' = Append(jobs, "create_connect")
          \/ UNCHANGED <<dnrTries, jobs>>
      BY <1>2 DEF do_reconnect, SUBPROC
    <3>3. jobs \in Seq(Jobs) /\ dnrTries \in Int
      BY DEF TypeOK
    <3>4. Append(jobs, "create_connect") \in Seq(Jobs)
      BY <3>1, <3>3
    <3> QED
      BY <3>1, <3>2, <3>3, <3>4
  <2> QED
    BY <1>2, <2>1 DEF do_reconnect, TypeOK, phone, hist
<1>3. CASE Closes
  <2>1. <<"end_socket", "ClearSendQ", "ElfKiller">> \in Seq(Jobs)
    BY DEF Jobs
  <2>2. jobs' \in Seq(Jobs)
    BY <1>3, <2>1 DEF Closes, TypeOK
  <2> QED
    BY <1>3, <2>2 DEF Closes, TypeOK, phone, hist
<1> QED
  BY <1>1, <1>2, <1>3 DEF Asked

LEMMA MessagesTypes == TypeOK /\ maincsm_onmessage => TypeOK'
<1> SUFFICES ASSUME TypeOK, maincsm_onmessage
             PROVE  TypeOK'
  OBVIOUS
<1>1. inbox' \in Seq(Message)
  BY Taken DEF maincsm_onmessage, IPC_CHECK_MAILBOX, IPC_STOP_CHECKING, LMAN_DISCONNECT_IND,
     LMAN_CONNECT_CNF, ENIP_DNR_HOST_BY_NAME, ENIP_SOCK_CONNECTED, ENIP_SOCK_DATA_READ,
     ENIP_BUFFER_FREE, ENIP_SOCK_REMOTE_CLOSED, ENIP_SOCK_CLOSED, NotOurs, HandlesOwn,
     Handles, TypeOK
<1>2. UNCHANGED jobs \/ \E job \in Jobs : SUBPROC(job)
  BY DEF maincsm_onmessage, IPC_CHECK_MAILBOX, IPC_STOP_CHECKING, LMAN_DISCONNECT_IND,
     LMAN_CONNECT_CNF, ENIP_DNR_HOST_BY_NAME, ENIP_SOCK_CONNECTED, ENIP_SOCK_DATA_READ,
     ENIP_BUFFER_FREE, ENIP_SOCK_REMOTE_CLOSED, ENIP_SOCK_CLOSED, NotOurs, Jobs
<1>3. jobs' \in Seq(Jobs)
  <2>1. CASE UNCHANGED jobs
    BY <2>1 DEF TypeOK
  <2>2. ASSUME NEW job \in Jobs, SUBPROC(job)
        PROVE  jobs' \in Seq(Jobs)
    BY <2>2 DEF SUBPROC, TypeOK
  <2> QED
    BY <1>2, <2>1, <2>2
<1>4. sock' \in Socket \cup {NoSock} /\ state' \in 0..2
  BY DEF maincsm_onmessage, IPC_CHECK_MAILBOX, IPC_STOP_CHECKING, LMAN_DISCONNECT_IND,
     LMAN_CONNECT_CNF, ENIP_DNR_HOST_BY_NAME, ENIP_SOCK_CONNECTED, ENIP_SOCK_DATA_READ,
     ENIP_BUFFER_FREE, ENIP_SOCK_REMOTE_CLOSED, ENIP_SOCK_CLOSED, NotOurs, TypeOK, daemon
<1>5. dnrTries' \in {dnrTries, TRIES}
  BY DEF maincsm_onmessage, IPC_CHECK_MAILBOX, IPC_STOP_CHECKING, LMAN_DISCONNECT_IND,
     LMAN_CONNECT_CNF, ENIP_DNR_HOST_BY_NAME, ENIP_SOCK_CONNECTED, ENIP_SOCK_DATA_READ,
     ENIP_BUFFER_FREE, ENIP_SOCK_REMOTE_CLOSED, ENIP_SOCK_CLOSED, NotOurs, daemon
<1>6. dnrTries' \in Int
  BY <1>5 DEF TypeOK, TRIES
<1>7. timer' \in BOOLEAN /\ online' \in BOOLEAN
  BY DEF maincsm_onmessage, IPC_CHECK_MAILBOX, IPC_STOP_CHECKING, LMAN_DISCONNECT_IND,
     LMAN_CONNECT_CNF, ENIP_DNR_HOST_BY_NAME, ENIP_SOCK_CONNECTED, ENIP_SOCK_DATA_READ,
     ENIP_BUFFER_FREE, ENIP_SOCK_REMOTE_CLOSED, ENIP_SOCK_CLOSED, NotOurs, TypeOK, daemon
<1>8. UNCHANGED <<sendq, dnrId, alive, hpc, socks, gprs, lookups, used, waiting>>
  BY DEF maincsm_onmessage, IPC_CHECK_MAILBOX, IPC_STOP_CHECKING, LMAN_DISCONNECT_IND,
     LMAN_CONNECT_CNF, ENIP_DNR_HOST_BY_NAME, ENIP_SOCK_CONNECTED, ENIP_SOCK_DATA_READ,
     ENIP_BUFFER_FREE, ENIP_SOCK_REMOTE_CLOSED, ENIP_SOCK_CLOSED, NotOurs, HandlesOwn,
     daemon, phone, hist
<1> QED
  BY <1>1, <1>3, <1>4, <1>6, <1>7, <1>8 DEF TypeOK

LEMMA PhoneTypes == TypeOK /\ Phone => TypeOK'
<1> SUFFICES ASSUME TypeOK, Phone
             PROVE  TypeOK'
  OBVIOUS
<1>1. inbox' \in Seq(Message)
  <2>1. CASE GprsDown
    BY <2>1, DownTypes DEF GprsDown, TypeOK
  <2>2. CASE ~GprsDown
    <3>1. PICK m \in Message : Posts(m)
      BY <2>2, MessageTypes DEF Phone, StackConnects, StackBreaks, StackReceives, StackHasRoom,
         ServerHangsUp, StackCloses, ResolverAnswers, GprsUp, TypeOK
    <3> QED
      BY <3>1, Added DEF Posts, TypeOK
  <2> QED
    BY <2>1, <2>2
<1>2. socks' \in [Socket -> SocketStates]
  BY AbortedTypes DEF Phone, StackConnects, StackBreaks, StackReceives, StackHasRoom,
     ServerHangsUp, StackCloses, ResolverAnswers, GprsUp, GprsDown, Changes, TypeOK,
     SocketStates, phone
<1>3. used' \in [DOMAIN Bound -> Nat]
  BY Counted, Kinds DEF Phone, StackConnects, StackBreaks, StackReceives, StackHasRoom,
     ServerHangsUp, StackCloses, ResolverAnswers, GprsUp, GprsDown, TypeOK
<1>4. gprs' \in BOOLEAN /\ lookups' \subseteq Lookup
  BY DEF Phone, StackConnects, StackBreaks, StackReceives, StackHasRoom, ServerHangsUp,
     StackCloses, ResolverAnswers, GprsUp, GprsDown, TypeOK, phone
<1>5. UNCHANGED <<sock, state, sendq, online, dnrId, dnrTries, alive, timer, jobs, hpc, waiting>>
  BY DEF Phone, StackConnects, StackBreaks, StackReceives, StackHasRoom, ServerHangsUp,
     StackCloses, ResolverAnswers, GprsUp, GprsDown, daemon, hist
<1> QED
  BY <1>1, <1>2, <1>3, <1>4, <1>5 DEF TypeOK

LEMMA TypesStart == Init => TypeOK
<1> SUFFICES ASSUME Init
             PROVE  TypeOK
  OBVIOUS
<1>1. jobs \in Seq(Jobs) /\ inbox \in Seq(Message)
  BY DEF Init
<1>2. used \in [DOMAIN Bound -> Nat]
  BY DEF Init
<1>3. /\ sendq \in BOOLEAN /\ online \in BOOLEAN /\ alive \in BOOLEAN /\ timer \in BOOLEAN
      /\ gprs \in BOOLEAN /\ waiting \in BOOLEAN
  BY DEF Init
<1>4. /\ sock = NoSock /\ state \in 0..2 /\ hpc \in HelperStates /\ lookups \subseteq Lookup
      /\ socks \in [Socket -> SocketStates] /\ dnrId \in Lookup \cup {0} /\ dnrTries \in Int
  BY DEF Init, SocketStates, HelperStates, TRIES
<1> QED
  BY <1>1, <1>2, <1>3, <1>4 DEF TypeOK

LEMMA TypesStay == TypeOK /\ [Next]_vars => TypeOK'
<1> SUFFICES ASSUME TypeOK, [Next]_vars
             PROVE  TypeOK'
  OBVIOUS
<1>1. CASE HELPER
  BY <1>1, CreateTypes, OtherTypes DEF HELPER, OtherJobs
<1>2. CASE UNCHANGED vars
  BY <1>2 DEF vars, daemon, phone, hist, TypeOK
<1> QED
  BY <1>1, <1>2, AskedTypes, MessagesTypes, PhoneTypes DEF Next, Asked

-----------------------------------------------------------------------------
(* What a step does to the messages, the jobs and the sockets.             *)

ClosedStays == \A s \in Socket : socks[s] = "closed" => socks'[s] = "closed"

LEMMA Gains ==
  ASSUME TypeOK, NEW m \in Message, inbox' = Append(inbox, m)
  PROVE  /\ Answered' <=> Answered \/ m.ev = "DNR"
         /\ OneAnswer /\ (m.ev = "DNR" => ~Answered) => OneAnswer'
         /\ /\ ClosedIs /\ ClosedStays
            /\ m.ev = "CLOSED" => m.id \in Socket /\ socks'[m.id] = "closed"
            => ClosedIs'
<1>1. /\ \A i \in 1..Len(inbox) : inbox'[i] = inbox[i]
      /\ inbox'[Len(inbox) + 1] = m /\ Len(inbox) \in Nat
      /\ DOMAIN inbox = 1..Len(inbox) /\ DOMAIN inbox' = 1..(Len(inbox) + 1)
  BY Added DEF TypeOK
<1>2. Answered' <=> Answered \/ m.ev = "DNR"
  BY <1>1 DEF Answered
<1>3. OneAnswer /\ (m.ev = "DNR" => ~Answered) => OneAnswer'
  BY <1>1 DEF Answered, OneAnswer
<1>4. /\ ClosedIs /\ ClosedStays
      /\ m.ev = "CLOSED" => m.id \in Socket /\ socks'[m.id] = "closed"
      => ClosedIs'
  BY <1>1 DEF ClosedIs, ClosedStays
<1> QED
  BY <1>2, <1>3, <1>4

LEMMA Loses ==
  ASSUME TypeOK, inbox # <<>>, inbox' = Tail(inbox)
  PROVE  /\ Answered' => Answered
         /\ Head(inbox).ev = "DNR" => Answered
         /\ OneAnswer => OneAnswer' /\ (Head(inbox).ev = "DNR" => ~Answered')
         /\ ClosedIs /\ Head(inbox).ev = "CLOSED" =>
              Head(inbox).id \in Socket /\ socks[Head(inbox).id] = "closed"
         /\ ClosedIs /\ ClosedStays => ClosedIs'
<1>1. /\ Len(inbox) \in Nat \ {0} /\ Head(inbox) = inbox[1]
      /\ \A i \in 1..(Len(inbox) - 1) : inbox'[i] = inbox[i + 1]
      /\ DOMAIN inbox = 1..Len(inbox) /\ DOMAIN inbox' = 1..(Len(inbox) - 1)
  BY Taken DEF TypeOK
<1>2. (Answered' => Answered) /\ (Head(inbox).ev = "DNR" => Answered)
  BY <1>1 DEF Answered
<1>3. OneAnswer => OneAnswer' /\ (Head(inbox).ev = "DNR" => ~Answered')
  BY <1>1 DEF Answered, OneAnswer
<1>4. /\ ClosedIs /\ Head(inbox).ev = "CLOSED" =>
           Head(inbox).id \in Socket /\ socks[Head(inbox).id] = "closed"
      /\ ClosedIs /\ ClosedStays => ClosedIs'
  BY <1>1 DEF ClosedIs, ClosedStays
<1> QED
  BY <1>2, <1>3, <1>4

LEMMA Keeps ==
  ASSUME UNCHANGED inbox
  PROVE  /\ Answered' <=> Answered
         /\ OneAnswer' <=> OneAnswer
         /\ ClosedIs /\ ClosedStays => ClosedIs'
  BY DEF Answered, OneAnswer, ClosedIs, ClosedStays

\* What is posted: jobs that do not make a connection, or one that does.
LEMMA JobsAdded ==
  ASSUME TypeOK, NEW t \in Seq(Jobs), jobs' = jobs \o t,
         \A i \in DOMAIN t : t[i] # "create_connect"
  PROVE  (Posted' <=> Posted) /\ (OneJob => OneJob')
<1>1. /\ jobs \in Seq(Jobs) /\ Len(jobs) \in Nat /\ Len(t) \in Nat
      /\ \A i \in 1..Len(jobs) : jobs'[i] = jobs[i]
      /\ \A i \in 1..(Len(jobs) + Len(t)) : i > Len(jobs) => jobs'[i] = t[i - Len(jobs)]
      /\ DOMAIN jobs = 1..Len(jobs) /\ DOMAIN jobs' = 1..(Len(jobs) + Len(t))
      /\ DOMAIN t = 1..Len(t)
  BY DEF TypeOK
<1>2. \A i \in DOMAIN jobs' : jobs'[i] = "create_connect" =>
        i \in DOMAIN jobs /\ jobs[i] = "create_connect"
  BY <1>1
<1> QED
  BY <1>1, <1>2 DEF Posted, OneJob

LEMMA JobAdded ==
  ASSUME TypeOK, NEW job \in Jobs \ {"create_connect"}, SUBPROC(job)
  PROVE  (Posted' <=> Posted) /\ (OneJob => OneJob')
<1>1. jobs' = jobs \o <<job>> /\ <<job>> \in Seq(Jobs)
  BY DEF SUBPROC, TypeOK
<1>2. \A i \in DOMAIN <<job>> : <<job>>[i] # "create_connect"
  OBVIOUS
<1> QED
  BY <1>1, <1>2, JobsAdded

LEMMA CreateAdded ==
  ASSUME TypeOK, SUBPROC("create_connect"), ~Posted
  PROVE  OneJob'
<1>1. "create_connect" \in Jobs
  BY DEF Jobs
<1>2. /\ \A i \in 1..Len(jobs) : jobs'[i] = jobs[i]
      /\ DOMAIN jobs = 1..Len(jobs) /\ DOMAIN jobs' = 1..(Len(jobs) + 1) /\ Len(jobs) \in Nat
  BY <1>1, Added DEF TypeOK, SUBPROC
<1> QED
  BY <1>2 DEF Posted, OneJob

LEMMA JobTaken ==
  ASSUME TypeOK, NEW job, Starts(job)
  PROVE  /\ Posted' => Posted
         /\ OneJob => OneJob' /\ (job = "create_connect" => ~Posted')
         /\ job = "create_connect" => Posted
<1>1. /\ Len(jobs) \in Nat \ {0} /\ job = jobs[1]
      /\ \A i \in 1..(Len(jobs) - 1) : jobs'[i] = jobs[i + 1]
      /\ DOMAIN jobs = 1..Len(jobs) /\ DOMAIN jobs' = 1..(Len(jobs) - 1)
  BY Taken DEF TypeOK, Starts
<1>2. (Posted' => Posted) /\ (job = "create_connect" => Posted)
  BY <1>1 DEF Posted
<1>3. \A i \in DOMAIN jobs' : i + 1 \in DOMAIN jobs /\ jobs[i + 1] = jobs'[i] /\ i \in Nat \ {0}
  BY <1>1
<1>4. OneJob => OneJob'
  BY <1>3 DEF OneJob
<1>5. ASSUME OneJob, job = "create_connect", NEW i \in DOMAIN jobs',
             jobs'[i] = "create_connect"
      PROVE  FALSE
  <2>1. 1 \in DOMAIN jobs /\ jobs[1] = "create_connect"
    BY <1>1, <1>5
  <2>2. i + 1 = 1
    BY <1>3, <1>5, <2>1 DEF OneJob
  <2> QED
    BY <1>3, <2>2
<1> QED
  BY <1>2, <1>4, <1>5 DEF Posted

LEMMA JobsKept ==
  ASSUME UNCHANGED jobs
  PROVE  (Posted' <=> Posted) /\ (OneJob' <=> OneJob)
  BY DEF Posted, OneJob

LEMMA SocksKept ==
  ASSUME UNCHANGED socks
  PROVE  /\ NoneLive' <=> NoneLive
         /\ ClosedStays
         /\ UNCHANGED sock => (OnlyOurs' <=> OnlyOurs)
  BY DEF NoneLive, OnlyOurs, ClosedStays, Live

LEMMA SocksShut ==
  ASSUME TypeOK, socks' = Shut(sock), UNCHANGED sock
  PROVE  /\ OnlyOurs => OnlyOurs' /\ NoneLive'
         /\ NoneLive => NoneLive'
         /\ ClosedStays
         /\ SocketInv /\ sock # NoSock => socks'[sock] # "none"
<1>1. \A s \in Socket : Live(s)' => Live(s) /\ s # sock
  BY ShutTypes DEF Live
<1>2. ClosedStays
  BY ShutTypes DEF ClosedStays
<1>3. SocketInv /\ sock # NoSock => socks'[sock] # "none"
  BY ShutTypes DEF SocketInv, TypeOK
<1> QED
  BY <1>1, <1>2, <1>3 DEF OnlyOurs, NoneLive

LEMMA SocksAborted ==
  ASSUME TypeOK, socks' = Aborted
  PROVE  NoneLive' /\ OnlyOurs' /\ ClosedStays
  BY AbortedTypes DEF NoneLive, OnlyOurs, ClosedStays, Live

LEMMA NoneOurs ==
  /\ OnlyOurs /\ sock = NoSock => NoneLive
  /\ NoneLive => OnlyOurs
  BY Sockets DEF OnlyOurs, NoneLive

LEMMA OddGrows ==
  ASSUME NEW what, NEW so, Notes(what, so)
  PROVE  odd \subseteq odd' /\ (so => what \in odd')
  BY DEF Notes

\* Nothing is wanted, made or answered.
LEMMA NotMaking ==
  ASSUME ~Making
  PROVE  ~Creates /\ ~Posted /\ lookups = {} /\ ~Answered
  BY DEF Making, Creates, Posted, Answered, Range

-----------------------------------------------------------------------------
(* No action makes a second connection.                                    *)

\* Nothing that is wanted or made changes, and nothing comes to life.
LEMMA Undisturbed ==
  ASSUME OneInv, SocketInv', odd \subseteq odd', UNCHANGED <<sock, lookups>>,
         hpc' = hpc \/ (hpc = "idle" /\ hpc' = "killed"),
         timer' = TRUE => timer = TRUE,
         Answered' => Answered, Posted' => Posted,
         OneAnswer => OneAnswer', OneJob => OneJob', OnlyOurs => OnlyOurs'
  PROVE  OneInv'
  BY DEF OneInv, SingleInv, Creates

LEMMA OtherOne == TypeOK /\ OneInv /\ OtherJobs => OneInv'
<1> SUFFICES ASSUME TypeOK, OneInv, OtherJobs
             PROVE  OneInv'
  OBVIOUS
<1>1. PICK job \in Jobs : Starts(job)
  BY DEF OtherJobs, get_answer, end_connect, end_socket, send_str, ClearSendQ, ElfKiller, Jobs
<1>2. (Posted' => Posted) /\ (OneJob => OneJob')
  BY <1>1, JobTaken
<1>3. /\ UNCHANGED <<sock, lookups, timer, inbox, hist>>
      /\ socks' = socks \/ socks' = Shut(sock)
      /\ hpc' = hpc \/ hpc' = "killed"
  BY OtherIs
<1>4. /\ OnlyOurs => OnlyOurs'
      /\ ClosedStays
      /\ SocketInv /\ sock # NoSock => socks'[sock] # "none"
  <2>1. CASE socks' = socks
    BY <1>3, <2>1, SocksKept DEF SocketInv
  <2>2. CASE socks' = Shut(sock)
    BY <1>3, <2>2, SocksShut
  <2> QED
    BY <1>3, <2>1, <2>2
<1>5. SocketInv'
  BY <1>3, <1>4, Keeps DEF OneInv, SocketInv
<1>6. hpc = "idle" /\ odd \subseteq odd'
  BY <1>1, <1>3 DEF Starts, hist
<1> QED
  BY <1>2, <1>3, <1>4, <1>5, <1>6, Keeps, Undisturbed

LEMMA CreateOne == TypeOK /\ OneInv /\ create_connect => OneInv'
<1> SUFFICES ASSUME TypeOK, OneInv, create_connect
             PROVE  OneInv'
  OBVIOUS
<1>1. CASE CreateBegins
  <2>1. /\ Starts("create_connect") /\ ~(timer' = TRUE)
        /\ UNCHANGED <<sock, socks, inbox, lookups, odd>>
    BY <1>1 DEF CreateBegins, phone
  <2>2. SocketInv'
    BY <2>1, Keeps, SocksKept DEF OneInv, SocketInv
  <2>3. ASSUME "over" \notin odd
        PROVE  OnlyOurs' /\ SingleInv'
    <3>1. /\ OnlyOurs /\ Posted /\ lookups = {} /\ ~Answered /\ OneAnswer
          /\ sock = NoSock /\ OneJob' /\ ~Posted'
      BY <2>1, <2>3, JobTaken DEF OneInv, SingleInv
    <3> QED
      BY <2>1, <3>1, Keeps, SocksKept DEF SingleInv
  <2> QED
    BY <2>1, <2>2, <2>3 DEF OneInv
<1>2. CASE ChecksGprs \/ GoesOffline \/ NameFound
  <2>1. /\ hpc \in {"gprs", "offline", "dnr"} /\ hpc' \in {"dnr", "offline", "socket", "idle"}
        /\ UNCHANGED <<sock, socks, inbox, jobs, lookups, odd, timer>>
    BY <1>2 DEF ChecksGprs, GoesOffline, NameFound, phone, hist
  <2>2. SocketInv'
    BY <2>1, Keeps, SocksKept DEF OneInv, SocketInv
  <2> QED
    BY <2>1, <2>2, Keeps, SocksKept, JobsKept DEF OneInv, SingleInv, Creates
<1>3. CASE NamePending \/ NameError \/ NameNotFound
  <2>1. /\ hpc = "dnr" /\ hpc' = "idle"
        /\ UNCHANGED <<sock, socks, inbox, jobs, odd>>
    BY <1>3 DEF NamePending, NameError, NameNotFound, phone, daemon, hist
  <2>2. \/ lookups' = lookups
        \/ timer' = timer /\ \E id : lookups' = lookups \cup {id}
    BY <1>3 DEF NamePending, NameError, NameNotFound, phone
  <2>3. SocketInv'
    BY <2>1, Keeps, SocksKept DEF OneInv, SocketInv
  <2>4. ASSUME "over" \notin odd
        PROVE  OnlyOurs' /\ SingleInv'
    <3>1. /\ OnlyOurs /\ ~Posted /\ lookups = {} /\ ~Answered /\ ~(timer = TRUE)
          /\ sock = NoSock /\ OneAnswer /\ OneJob
      BY <2>1, <2>4 DEF OneInv, SingleInv, Creates
    <3>2. /\ OnlyOurs' /\ ~Posted' /\ ~Answered' /\ OneAnswer' /\ OneJob'
      BY <2>1, <3>1, Keeps, SocksKept, JobsKept
    <3>3. (lookups' = {} \/ ~(timer' = TRUE)) /\ \A a, b \in lookups' : a = b
      BY <2>2, <3>1
    <3> QED
      BY <2>1, <3>1, <3>2, <3>3 DEF SingleInv, Creates
  <2> QED
    BY <2>1, <2>3, <2>4 DEF OneInv
<1>4. CASE OpensSocket
  <2>1. PICK s \in Socket : /\ socks[s] = "none" /\ sock' = s
                            /\ socks' = [socks EXCEPT ![s] = "open"]
    <3>1. PICK s \in Socket : /\ \A old \in Socket : socks[old] = "none" <=> old >= s
                              /\ sock' = s /\ socks' = [socks EXCEPT ![s] = "open"]
      BY <1>4 DEF OpensSocket
    <3>2. s >= s
      BY <3>1, Sockets
    <3> QED
      BY <3>1, <3>2
  <2>2. /\ hpc = "socket" /\ hpc' = "connect" /\ UNCHANGED <<inbox, jobs, lookups, timer, odd>>
    BY <1>4 DEF OpensSocket, hist
  <2>3. ClosedStays /\ socks'[sock'] = "open"
    BY <2>1 DEF ClosedStays, TypeOK
  <2>4. SocketInv'
    BY <2>2, <2>3, Keeps DEF OneInv, SocketInv
  <2>5. NoneLive => OnlyOurs'
    BY <2>1 DEF NoneLive, OnlyOurs, Live, TypeOK
  <2>6. ASSUME "over" \notin odd
        PROVE  OnlyOurs' /\ SingleInv'
    <3>1. /\ NoneLive /\ ~Posted /\ lookups = {} /\ ~Answered
          /\ ~(timer = TRUE) /\ OneAnswer /\ OneJob
      BY <2>2, <2>6, NoneOurs DEF OneInv, SingleInv, Creates
    <3>2. ~Posted' /\ ~Answered' /\ OneAnswer' /\ OneJob'
      BY <2>2, <3>1, Keeps, JobsKept
    <3> QED
      BY <2>2, <2>5, <3>1, <3>2 DEF SingleInv, Creates
  <2> QED
    BY <2>2, <2>4, <2>6 DEF OneInv
<1>5. CASE NoSocketLeft
  <2>1. /\ hpc = "socket" /\ hpc' = "idle" /\ sock' = NoSock /\ socks' = Aborted
        /\ UNCHANGED <<jobs, lookups, timer, odd>>
    BY <1>5 DEF NoSocketLeft, hist
  <2>2. OnlyOurs' /\ ClosedStays
    BY <2>1, SocksAborted
  <2>3. (Answered' => Answered) /\ (OneAnswer => OneAnswer') /\ (SocketInv => ClosedIs')
    <3>1. CASE UNCHANGED inbox
      BY <2>2, <3>1, Keeps DEF SocketInv
    <3>2. CASE inbox' = Append(inbox \o OwnClosed, Msg("LMAN_DISCONNECT", 0))
      <4>1. \A i \in DOMAIN inbox' : \/ i \in DOMAIN inbox /\ inbox'[i] = inbox[i]
                                     \/ inbox'[i].ev = "LMAN_DISCONNECT"
                                     \/ /\ sock # NoSock /\ inbox'[i].ev = "CLOSED"
                                        /\ inbox'[i].id = sock
        BY <3>2, DownTypes
      <4>2. SocketInv /\ sock # NoSock => sock \in Socket /\ socks'[sock] = "closed"
        BY <2>1, AbortedTypes DEF SocketInv, TypeOK
      <4> QED
        BY <2>2, <4>1, <4>2 DEF Answered, OneAnswer, SocketInv, ClosedIs, ClosedStays
    <3> QED
      BY <1>5, <3>1, <3>2 DEF NoSocketLeft
  <2>4. SocketInv'
    BY <2>1, <2>3 DEF OneInv, SocketInv
  <2>5. ASSUME "over" \notin odd
        PROVE  SingleInv'
    <3>1. /\ ~Posted /\ lookups = {} /\ ~Answered /\ ~(timer = TRUE) /\ OneAnswer /\ OneJob
      BY <2>1, <2>5 DEF OneInv, SingleInv, Creates
    <3>2. ~Posted' /\ ~Answered' /\ OneAnswer' /\ OneJob'
      BY <2>1, <2>3, <3>1, JobsKept
    <3> QED
      BY <2>1, <3>1, <3>2 DEF SingleInv, Creates
  <2> QED
    BY <2>1, <2>2, <2>4, <2>5 DEF OneInv
<1>6. CASE Connecting \/ SetsState
  <2>1. /\ hpc \in {"connect", "state"} /\ hpc' \in {"state", "idle"}
        /\ UNCHANGED <<sock, inbox, jobs, lookups, timer, odd>>
    BY <1>6 DEF Connecting, SetsState, daemon, hist, phone
  <2>2. \A s \in Socket : /\ Live(s)' <=> Live(s)
                          /\ socks[s] = "closed" => socks'[s] = "closed"
                          /\ socks[s] # "none" => socks'[s] # "none"
    BY <1>6 DEF Connecting, SetsState, TypeOK, Live, phone
  <2>3. (OnlyOurs => OnlyOurs') /\ ClosedStays
    BY <2>1, <2>2 DEF OnlyOurs, ClosedStays
  <2>4. SocketInv'
    BY <2>1, <2>2, <2>3, Keeps DEF OneInv, SocketInv, TypeOK
  <2> QED
    BY <2>1, <2>3, <2>4, Keeps, JobsKept DEF OneInv, SingleInv, Creates
<1>7. CASE CannotConnect
  <2>1. /\ hpc = "connect" /\ hpc' = "idle" /\ sock' = NoSock
        /\ UNCHANGED <<inbox, jobs, lookups, odd>>
        /\ socks' = IF sock = NoSock THEN socks ELSE [socks EXCEPT ![sock] = "closed"]
    BY <1>7 DEF CannotConnect, hist
  <2>2. OnlyOurs => OnlyOurs'
    BY <2>1, Sockets DEF OnlyOurs, Live, TypeOK
  <2>3. ClosedStays
    BY <2>1 DEF ClosedStays, TypeOK
  <2>4. SocketInv'
    BY <2>1, <2>3, Keeps DEF OneInv, SocketInv
  <2> QED
    BY <2>1, <2>2, <2>4, Keeps, JobsKept DEF OneInv, SingleInv, Creates
<1> QED
  BY <1>1, <1>2, <1>3, <1>4, <1>5, <1>6, <1>7 DEF create_connect

LEMMA AskedOne == TypeOK /\ OneInv /\ Asked => OneInv'
<1> SUFFICES ASSUME TypeOK, OneInv, Asked
             PROVE  OneInv'
  OBVIOUS
<1>1. UNCHANGED <<sock, socks, lookups, hpc, odd>>
  BY DEF Asked, Asks, PressesStop, do_reconnect, Closes, daemon, phone, hist
<1>2. (OnlyOurs' <=> OnlyOurs) /\ ClosedStays
  BY <1>1, SocksKept
<1>3. CASE Asks \/ PressesStop
  <2>1. PICK m \in Message : m.ev \notin {"DNR", "CLOSED"} /\ inbox' = Append(inbox, m)
    BY <1>3, MessageTypes DEF Asks, PressesStop
  <2>2. UNCHANGED <<jobs, timer>>
    BY <1>3 DEF Asks, PressesStop
  <2>3. (Answered' <=> Answered) /\ (OneAnswer => OneAnswer') /\ (ClosedIs => ClosedIs')
    BY <1>2, <2>1, Gains
  <2>4. SocketInv'
    BY <1>1, <2>3 DEF OneInv, SocketInv
  <2> QED
    BY <1>1, <1>2, <2>2, <2>3, <2>4, JobsKept, Undisturbed
<1>4. CASE do_reconnect
  <2>1. timer = TRUE /\ ~(timer' = TRUE) /\ UNCHANGED inbox
    BY <1>4 DEF do_reconnect, TypeOK
  <2>2. SocketInv'
    BY <1>1, <1>2, <2>1, Keeps DEF OneInv, SocketInv
  <2>3. ASSUME "over" \notin odd
        PROVE  SingleInv'
    <3>1. /\ sock = NoSock /\ ~Creates /\ ~Posted /\ lookups = {} /\ ~Answered
          /\ OneAnswer /\ OneJob
      BY <2>1, <2>3 DEF OneInv, SingleInv
    <3>2. OneJob'
      BY <1>4, <3>1, CreateAdded, JobsKept DEF do_reconnect
    <3>3. ~Answered' /\ OneAnswer'
      BY <2>1, <3>1, Keeps
    <3>4. ~Creates' /\ lookups' = {} /\ sock' = NoSock
      BY <1>1, <3>1 DEF Creates
    <3> QED
      BY <2>1, <3>2, <3>3, <3>4 DEF SingleInv
  <2> QED
    BY <1>1, <1>2, <2>2, <2>3 DEF OneInv
<1>5. CASE Closes
  <2> DEFINE t == <<"end_socket", "ClearSendQ", "ElfKiller">>
  <2>1. t \in Seq(Jobs) /\ \A i \in DOMAIN t : t[i] # "create_connect"
    BY DEF Jobs
  <2>2. jobs' = jobs \o t /\ ~(timer' = TRUE) /\ UNCHANGED inbox
    BY <1>5 DEF Closes
  <2> HIDE DEF t
  <2>3. (Posted' <=> Posted) /\ (OneJob => OneJob')
    BY <2>1, <2>2, JobsAdded
  <2>4. SocketInv'
    BY <1>1, <1>2, <2>2, Keeps DEF OneInv, SocketInv
  <2> QED
    BY <1>1, <1>2, <2>2, <2>3, <2>4, Keeps, Undisturbed
<1> QED
  BY <1>3, <1>4, <1>5 DEF Asked

LEMMA MessagesOne == TypeOK /\ OneInv /\ maincsm_onmessage => OneInv'
<1> SUFFICES ASSUME TypeOK, OneInv, maincsm_onmessage
             PROVE  OneInv'
  OBVIOUS
<1>1. inbox # <<>> /\ inbox' = Tail(inbox)
  BY DEF maincsm_onmessage, IPC_CHECK_MAILBOX, IPC_STOP_CHECKING, LMAN_DISCONNECT_IND,
     LMAN_CONNECT_CNF, ENIP_DNR_HOST_BY_NAME, ENIP_SOCK_CONNECTED, ENIP_SOCK_DATA_READ,
     ENIP_BUFFER_FREE, ENIP_SOCK_REMOTE_CLOSED, ENIP_SOCK_CLOSED, NotOurs, HandlesOwn, Handles
<1>2. UNCHANGED <<socks, lookups, hpc>>
  BY DEF maincsm_onmessage, IPC_CHECK_MAILBOX, IPC_STOP_CHECKING, LMAN_DISCONNECT_IND,
     LMAN_CONNECT_CNF, ENIP_DNR_HOST_BY_NAME, ENIP_SOCK_CONNECTED, ENIP_SOCK_DATA_READ,
     ENIP_BUFFER_FREE, ENIP_SOCK_REMOTE_CLOSED, ENIP_SOCK_CLOSED, NotOurs, phone
<1>3. odd \subseteq odd'
  BY OddGrows DEF maincsm_onmessage, IPC_CHECK_MAILBOX, IPC_STOP_CHECKING,
     LMAN_DISCONNECT_IND, LMAN_CONNECT_CNF, ENIP_DNR_HOST_BY_NAME, ENIP_SOCK_CONNECTED,
     ENIP_SOCK_DATA_READ, ENIP_BUFFER_FREE, ENIP_SOCK_REMOTE_CLOSED, ENIP_SOCK_CLOSED,
     NotOurs, HandlesOwn, hist
<1>4. /\ Answered' => Answered
      /\ OneAnswer => OneAnswer'
      /\ ClosedIs => ClosedIs'
  BY <1>1, <1>2, Loses, SocksKept
<1>5. sock' = sock => (OnlyOurs' <=> OnlyOurs)
  BY <1>2, SocksKept
<1>6. sock' \in {sock, NoSock} => SocketInv'
  BY <1>2, <1>4 DEF OneInv, SocketInv
<1>7. CASE IPC_CHECK_MAILBOX
  <2>1. sock' = sock
    BY <1>7 DEF IPC_CHECK_MAILBOX
  <2>2. CASE UNCHANGED <<timer, jobs, odd>>
    BY <1>2, <1>4, <1>5, <1>6, <2>1, <2>2, JobsKept, Undisturbed
  <2>3. CASE /\ Ready /\ ~(timer' = TRUE) /\ SUBPROC("create_connect")
             /\ Notes("over", Making)
    <3>1. ASSUME "over" \notin odd'
          PROVE  OnlyOurs' /\ SingleInv'
      <4>1. ~Making /\ "over" \notin odd /\ sock = NoSock
        BY <2>3, <3>1, OddGrows DEF Ready
      <4>2. ~Creates /\ ~Posted /\ lookups = {} /\ ~Answered
        BY <4>1, NotMaking
      <4>3. OneJob' /\ ~Answered' /\ OneAnswer' /\ OnlyOurs'
        BY <1>4, <1>5, <2>1, <2>3, <4>1, <4>2, CreateAdded DEF OneInv, SingleInv
      <4> QED
        BY <1>2, <2>1, <2>3, <4>1, <4>2, <4>3 DEF SingleInv, Creates
    <3> QED
      BY <1>6, <2>1, <3>1 DEF OneInv
  <2> QED
    BY <1>7, <2>2, <2>3 DEF IPC_CHECK_MAILBOX
<1>8. CASE LMAN_CONNECT_CNF
  <2>1. /\ UNCHANGED <<sock, jobs>>
        /\ odd' = odd \cup (IF Making \/ sock # NoSock THEN {"over"} ELSE {})
                      \cup (IF hpc \in {"gprs", "offline"} THEN {"offline"} ELSE {})
    BY <1>8 DEF LMAN_CONNECT_CNF
  <2>2. ASSUME "over" \notin odd'
        PROVE  OnlyOurs' /\ SingleInv'
    <3>1. ~Making /\ "over" \notin odd /\ sock = NoSock
      BY <2>1, <2>2
    <3>2. ~Creates /\ ~Posted /\ lookups = {} /\ ~Answered
      BY <3>1, NotMaking
    <3>3. OneJob' /\ ~Posted' /\ ~Answered' /\ OneAnswer' /\ OnlyOurs'
      BY <1>4, <1>5, <2>1, <3>1, <3>2, JobsKept DEF OneInv, SingleInv
    <3> QED
      BY <1>2, <2>1, <3>1, <3>2, <3>3 DEF SingleInv, Creates
  <2> QED
    BY <1>6, <2>1, <2>2 DEF OneInv
<1>9. CASE ENIP_DNR_HOST_BY_NAME
  <2>1. /\ Head(inbox).ev = "DNR" /\ (SUBPROC("create_connect") \/ UNCHANGED jobs)
        /\ UNCHANGED <<sock, timer, odd>>
    BY <1>9 DEF ENIP_DNR_HOST_BY_NAME, Handles, daemon, hist
  <2>2. ASSUME "over" \notin odd
        PROVE  OnlyOurs' /\ SingleInv'
    <3>1. Answered /\ (OneAnswer => ~Answered')
      BY <1>1, <2>1, Loses
    <3>2. /\ sock = NoSock /\ ~Posted /\ ~Creates /\ lookups = {} /\ ~(timer = TRUE)
          /\ OneAnswer /\ OneJob /\ OnlyOurs
      BY <2>2, <3>1 DEF OneInv, SingleInv
    <3>3. OneJob'
      BY <2>1, <3>2, CreateAdded, JobsKept
    <3> QED
      BY <1>2, <1>4, <1>5, <2>1, <3>1, <3>2, <3>3 DEF SingleInv, Creates
  <2> QED
    BY <1>6, <2>1, <2>2 DEF OneInv
<1>10. CASE ENIP_SOCK_CLOSED
  <2>1. /\ Head(inbox).ev = "CLOSED" /\ Head(inbox).id = sock
        /\ SUBPROC("ClearSendQ") /\ sock' = NoSock /\ UNCHANGED timer
    BY <1>10 DEF ENIP_SOCK_CLOSED, HandlesOwn, Handles
  <2>2. socks[sock] = "closed" /\ sock \in Socket
    BY <1>1, <2>1, Loses DEF OneInv, SocketInv
  <2>3. OnlyOurs => OnlyOurs'
    BY <1>2, <2>2 DEF OnlyOurs, Live
  <2>4. (Posted' <=> Posted) /\ (OneJob => OneJob')
    BY <2>1, JobAdded DEF Jobs
  <2> QED
    BY <1>2, <1>3, <1>4, <1>6, <2>1, <2>3, <2>4 DEF OneInv, SingleInv, Creates
<1>11. CASE ~ (IPC_CHECK_MAILBOX \/ LMAN_CONNECT_CNF \/ ENIP_DNR_HOST_BY_NAME \/ ENIP_SOCK_CLOSED)
  <2>1. UNCHANGED <<sock, timer>>
    BY <1>11 DEF maincsm_onmessage, IPC_STOP_CHECKING, LMAN_DISCONNECT_IND,
       ENIP_SOCK_CONNECTED, ENIP_SOCK_DATA_READ, ENIP_BUFFER_FREE, ENIP_SOCK_REMOTE_CLOSED,
       NotOurs, daemon
  <2>2. UNCHANGED jobs \/ \E job \in Jobs \ {"create_connect"} : SUBPROC(job)
    BY <1>11 DEF maincsm_onmessage, IPC_STOP_CHECKING, LMAN_DISCONNECT_IND,
       ENIP_SOCK_CONNECTED, ENIP_SOCK_DATA_READ, ENIP_BUFFER_FREE, ENIP_SOCK_REMOTE_CLOSED,
       NotOurs, Jobs
  <2>3. (Posted' <=> Posted) /\ (OneJob => OneJob')
    BY <2>2, JobAdded, JobsKept
  <2> QED
    BY <1>2, <1>3, <1>4, <1>5, <1>6, <2>1, <2>3, Undisturbed
<1> QED
  BY <1>7, <1>8, <1>9, <1>10, <1>11

LEMMA PhoneOne == TypeOK /\ OneInv /\ Phone => OneInv'
<1> SUFFICES ASSUME TypeOK, OneInv, Phone
             PROVE  OneInv'
  OBVIOUS
<1>1. UNCHANGED <<sock, timer, jobs, hpc, odd>>
  BY DEF Phone, StackConnects, StackBreaks, StackReceives, StackHasRoom, ServerHangsUp,
     StackCloses, ResolverAnswers, GprsUp, GprsDown, daemon, hist
<1>2. (Posted' <=> Posted) /\ (OneJob' <=> OneJob)
  BY <1>1, JobsKept
<1>3. CASE GprsDown
  <2>1. socks' = Aborted /\ UNCHANGED lookups
    BY <1>3 DEF GprsDown
  <2>2. OnlyOurs' /\ ClosedStays
    BY <2>1, SocksAborted
  <2>3. SocketInv /\ sock # NoSock => sock \in Socket /\ socks'[sock] = "closed"
    BY <2>1, AbortedTypes DEF SocketInv, TypeOK
  <2>4. (Answered' => Answered) /\ (OneAnswer => OneAnswer') /\ (SocketInv => ClosedIs')
    <3>1. CASE UNCHANGED inbox
      BY <2>2, <3>1, Keeps DEF SocketInv
    <3>2. CASE inbox' = Append(inbox, Msg("LMAN_DISCONNECT", 0)) \o OwnClosed
      <4>1. \A i \in DOMAIN inbox' : \/ i \in DOMAIN inbox /\ inbox'[i] = inbox[i]
                                     \/ inbox'[i].ev = "LMAN_DISCONNECT"
                                     \/ /\ sock # NoSock /\ inbox'[i].ev = "CLOSED"
                                        /\ inbox'[i].id = sock
        BY <3>2, DownTypes
      <4> QED
        BY <2>2, <2>3, <4>1 DEF Answered, OneAnswer, SocketInv, ClosedIs, ClosedStays
    <3> QED
      BY <1>3, <3>1, <3>2 DEF GprsDown
  <2>5. SocketInv'
    BY <1>1, <2>3, <2>4 DEF OneInv, SocketInv
  <2> QED
    BY <1>1, <1>2, <2>1, <2>2, <2>4, <2>5, Undisturbed
<1>4. CASE ResolverAnswers
  <2>1. PICK id \in lookups : lookups' = lookups \ {id} /\ Posts(Msg("DNR", id))
    BY <1>4 DEF ResolverAnswers
  <2>2. UNCHANGED socks /\ Msg("DNR", id) \in Message /\ Msg("DNR", id).ev = "DNR"
    BY <1>4, <2>1, MessageTypes DEF ResolverAnswers, TypeOK
  <2>3. (OnlyOurs' <=> OnlyOurs) /\ ClosedStays
    BY <1>1, <2>2, SocksKept
  <2>4. /\ ClosedIs => ClosedIs'
        /\ OneAnswer /\ ~Answered => OneAnswer'
    BY <2>1, <2>2, <2>3, Gains, Keeps DEF Posts
  <2>5. SocketInv'
    BY <1>1, <2>2, <2>4 DEF OneInv, SocketInv
  <2>6. ASSUME "over" \notin odd
        PROVE  SingleInv'
    <3>1. /\ ~Creates /\ ~Posted /\ ~Answered /\ ~(timer = TRUE) /\ sock = NoSock
          /\ OneAnswer /\ OneJob /\ lookups' = {}
      BY <2>1, <2>6 DEF OneInv, SingleInv
    <3> QED
      BY <1>1, <1>2, <2>4, <3>1 DEF SingleInv, Creates
  <2> QED
    BY <1>1, <2>3, <2>5, <2>6 DEF OneInv
<1>5. CASE StackReceives \/ StackHasRoom \/ GprsUp
  <2>1. PICK m \in Message : m.ev \notin {"DNR", "CLOSED"} /\ Posts(m)
    BY <1>5, MessageTypes DEF StackReceives, StackHasRoom, GprsUp
  <2>2. UNCHANGED <<socks, lookups>>
    BY <1>5 DEF StackReceives, StackHasRoom, GprsUp, phone
  <2>3. (OnlyOurs' <=> OnlyOurs) /\ ClosedStays
    BY <1>1, <2>2, SocksKept
  <2>4. (Answered' => Answered) /\ (OneAnswer => OneAnswer') /\ (ClosedIs => ClosedIs')
    BY <2>1, <2>3, Gains, Keeps DEF Posts
  <2>5. SocketInv'
    BY <1>1, <2>2, <2>4 DEF OneInv, SocketInv
  <2> QED
    BY <1>1, <1>2, <2>2, <2>3, <2>4, <2>5, Undisturbed
<1>6. CASE StackConnects \/ StackBreaks \/ ServerHangsUp \/ StackCloses
  <2>1. PICK s \in Socket, to \in {"up", "closed", "half"}, m \in Message :
          /\ socks[s] \in {"connecting", "up", "shut"} /\ Changes(s, to) /\ Posts(m)
          /\ socks[s] = "shut" => to = "closed"
          /\ m.ev # "DNR" /\ (m.ev = "CLOSED" => m.id = s /\ to = "closed")
          /\ UNCHANGED lookups
    BY <1>6, MessageTypes DEF StackConnects, StackBreaks, ServerHangsUp, StackCloses
  <2>2. \A r \in Socket : /\ Live(r)' => Live(r)
                          /\ socks[r] = "closed" => socks'[r] = "closed"
                          /\ socks[r] # "none" => socks'[r] # "none"
    BY <2>1 DEF Changes, Live, TypeOK
  <2>3. socks'[s] = to
    BY <2>1 DEF Changes, TypeOK
  <2>4. (OnlyOurs => OnlyOurs') /\ ClosedStays
    BY <1>1, <2>2 DEF OnlyOurs, ClosedStays
  <2>5. (Answered' => Answered) /\ (OneAnswer => OneAnswer') /\ (ClosedIs => ClosedIs')
    BY <2>1, <2>3, <2>4, Gains, Keeps DEF Posts
  <2>6. SocketInv'
    BY <1>1, <2>2, <2>5 DEF OneInv, SocketInv, TypeOK
  <2> QED
    BY <1>1, <1>2, <2>1, <2>4, <2>5, <2>6, Undisturbed
<1> QED
  BY <1>3, <1>4, <1>5, <1>6 DEF Phone

LEMMA OneStarts == Init => OneInv
<1> SUFFICES ASSUME Init
             PROVE  OneInv
  OBVIOUS
<1>1. /\ sock = NoSock /\ inbox = <<>> /\ jobs = <<>> /\ hpc = "idle"
      /\ lookups = {} /\ timer = FALSE
      /\ socks = [s \in Socket |-> "none"]
  BY DEF Init
<1>2. SocketInv /\ OnlyOurs
  BY <1>1 DEF SocketInv, ClosedIs, OnlyOurs, Live
<1>3. ~Answered /\ OneAnswer /\ OneJob /\ ~Posted
  BY <1>1 DEF Answered, OneAnswer, OneJob, Posted
<1> QED
  BY <1>1, <1>2, <1>3 DEF OneInv, SingleInv, Creates

LEMMA OneStays == TypeOK /\ OneInv /\ [Next]_vars => OneInv'
<1> SUFFICES ASSUME TypeOK, OneInv, [Next]_vars
             PROVE  OneInv'
  OBVIOUS
<1>1. CASE HELPER
  BY <1>1, CreateOne, OtherOne DEF HELPER, OtherJobs
<1>2. CASE UNCHANGED vars
  <2>1. UNCHANGED <<sock, socks, jobs, inbox, hpc, lookups, timer, odd>>
    BY <1>2 DEF vars, daemon, phone, hist
  <2>2. SocketInv'
    BY <2>1, Keeps, SocksKept DEF OneInv, SocketInv
  <2> QED
    BY <2>1, <2>2, Keeps, SocksKept, JobsKept, Undisturbed
<1> QED
  BY <1>1, <1>2, AskedOne, MessagesOne, PhoneOne DEF Next, Asked

-----------------------------------------------------------------------------
(* Nothing is left open.                                                   *)

\* The jobs stay, and nothing comes to life.
LEMMA KillKept ==
  ASSUME KillInv, UNCHANGED <<jobs, hpc, alive>>, odd \subseteq odd', NoneLive => NoneLive'
  PROVE  KillInv'
<1>1. ASSUME NEW i \in DOMAIN jobs, Ended(i)
      PROVE  Ended(i)'
  BY <1>1 DEF Ended, Creates, Posted
<1> QED
  BY <1>1 DEF KillInv

\* While a connection is made, what ends it stands in the jobs.
LEMMA KillCreating ==
  ASSUME KillInv, Creates, UNCHANGED <<jobs, alive>>, odd \subseteq odd', hpc' # "killed"
  PROVE  KillInv'
<1>1. ASSUME NEW i \in DOMAIN jobs, Ended(i)
      PROVE  Ended(i)'
  BY <1>1 DEF Ended
<1> QED
  BY <1>1 DEF KillInv

\* A job is begun: end_socket leaves nothing open, and ElfKiller finds it so.
LEMMA KillTaken ==
  ASSUME TypeOK, KillInv, NEW job, Starts(job), UNCHANGED alive, odd \subseteq odd',
         NoneLive => NoneLive' \/ Creates',
         job = "end_socket" => NoneLive' \/ "over" \in odd,
         job # "create_connect" => ~Creates' /\ (NoneLive => NoneLive'),
         hpc' = "killed" => job = "ElfKiller"
  PROVE  KillInv'
<1>1. /\ Len(jobs) \in Nat \ {0} /\ job = jobs[1]
      /\ \A i \in 1..(Len(jobs) - 1) : jobs'[i] = jobs[i + 1]
      /\ DOMAIN jobs = 1..Len(jobs) /\ DOMAIN jobs' = 1..(Len(jobs) - 1)
  BY Taken DEF TypeOK, Starts
<1>2. \A i \in DOMAIN jobs' : i + 1 \in DOMAIN jobs /\ jobs[i + 1] = jobs'[i] /\ i \in Nat \ {0}
  BY <1>1
<1>3. ASSUME hpc' = "killed"
      PROVE  ~(alive' = TRUE) /\ ("over" \notin odd' => NoneLive')
  <2>1. 1 \in DOMAIN jobs /\ jobs[1] = "ElfKiller" /\ 1..(1 - 1) = {}
    BY <1>1, <1>3
  <2>2. ~(alive = TRUE) /\ ("over" \notin odd => NoneLive)
    BY <2>1 DEF KillInv, Ended
  <2> QED
    BY <1>3, <2>2
<1>4. ASSUME NEW i \in DOMAIN jobs', jobs'[i] = "ElfKiller"
      PROVE  ~(alive' = TRUE) /\ ("over" \notin odd' => Ended(i)')
  <2>1. i + 1 \in DOMAIN jobs /\ jobs[i + 1] = "ElfKiller" /\ (i + 1) - 1 = i /\ i \in Nat
    BY <1>2, <1>4
  <2>2. ~(alive = TRUE) /\ ("over" \notin odd => Ended(i + 1))
    BY <2>1 DEF KillInv
  <2>3. ASSUME "over" \notin odd, NEW j \in 1..i, jobs[j] = "end_socket",
               \A k \in DOMAIN jobs : k > j => jobs[k] # "create_connect"
        PROVE  Ended(i)'
    <3>1. CASE j = 1
      <4>1. job = "end_socket"
        BY <1>1, <2>3, <3>1
      <4>2. NoneLive' /\ ~Creates'
        BY <2>3, <4>1
      <4>3. \A k \in DOMAIN jobs' : jobs'[k] # "create_connect"
        <5> SUFFICES ASSUME NEW k \in DOMAIN jobs'
                     PROVE  jobs'[k] # "create_connect"
          OBVIOUS
        <5>1. k + 1 \in DOMAIN jobs /\ jobs[k + 1] = jobs'[k] /\ k + 1 > j
          BY <1>2, <3>1
        <5> QED
          BY <2>3, <5>1
      <4> QED
        BY <4>2, <4>3 DEF Ended, Posted
    <3>2. CASE j # 1
      <4>1. j - 1 \in 1..(i - 1) /\ j - 1 \in DOMAIN jobs' /\ (j - 1) + 1 = j
        BY <1>1, <2>1, <3>2
      <4>2. jobs'[j - 1] = "end_socket"
        BY <1>2, <2>3, <4>1
      <4>3. \A k \in DOMAIN jobs' : k > j - 1 => jobs'[k] # "create_connect"
        <5> SUFFICES ASSUME NEW k \in DOMAIN jobs', k > j - 1
                     PROVE  jobs'[k] # "create_connect"
          OBVIOUS
        <5>1. k + 1 \in DOMAIN jobs /\ jobs[k + 1] = jobs'[k] /\ k + 1 > j
          BY <1>2, <4>1
        <5> QED
          BY <2>3, <5>1
      <4> QED
        BY <4>1, <4>2, <4>3 DEF Ended
    <3> QED
      BY <3>1, <3>2
  <2>4. ASSUME NoneLive, ~Posted
        PROVE  Ended(i)'
    <3>1. job # "create_connect"
      BY <1>1, <2>4 DEF Posted
    <3>2. NoneLive' /\ ~Creates'
      BY <2>4, <3>1
    <3>3. ~Posted'
      BY <2>4, JobTaken
    <3> QED
      BY <3>2, <3>3 DEF Ended
  <2> QED
    BY <2>1, <2>2, <2>3, <2>4 DEF Ended
<1> QED
  BY <1>3, <1>4 DEF KillInv

\* As long as the daemon lives nothing kills it.
LEMMA KillAlive ==
  ASSUME TypeOK, KillInv, alive = TRUE, hpc' = hpc,
         UNCHANGED jobs \/ \E job \in Jobs \ {"ElfKiller"} : SUBPROC(job)
  PROVE  KillInv'
<1>1. hpc # "killed" /\ \A i \in DOMAIN jobs : jobs[i] # "ElfKiller"
  BY DEF KillInv
<1>2. \A i \in DOMAIN jobs' : jobs'[i] # "ElfKiller"
  <2>1. CASE UNCHANGED jobs
    BY <1>1, <2>1
  <2>2. ASSUME NEW job \in Jobs \ {"ElfKiller"}, SUBPROC(job)
        PROVE  \A i \in DOMAIN jobs' : jobs'[i] # "ElfKiller"
    BY <1>1, <2>2, Added DEF SUBPROC, TypeOK
  <2> QED
    BY <2>1, <2>2
<1> QED
  BY <1>1, <1>2 DEF KillInv

LEMMA CreateKill == TypeOK /\ KillInv /\ create_connect => KillInv'
<1> SUFFICES ASSUME TypeOK, KillInv, create_connect
             PROVE  KillInv'
  OBVIOUS
<1>1. CASE CreateBegins
  <2>1. /\ Starts("create_connect") /\ hpc' = "gprs" /\ UNCHANGED <<alive, socks, odd>>
    BY <1>1 DEF CreateBegins, phone
  <2>2. NoneLive => NoneLive'
    BY <2>1, SocksKept
  <2> QED
    BY <2>1, <2>2, KillTaken
<1>2. CASE ~CreateBegins
  <2>1. UNCHANGED <<jobs, alive, odd>>
    BY <1>2 DEF create_connect, ChecksGprs, GoesOffline, NameFound, NamePending, NameError,
       NameNotFound, OpensSocket, NoSocketLeft, Connecting, CannotConnect, SetsState, daemon,
       hist
  <2>2. Creates /\ hpc' # "killed"
    BY <1>2 DEF create_connect, ChecksGprs, GoesOffline, NameFound, NamePending, NameError,
       NameNotFound, OpensSocket, NoSocketLeft, Connecting, CannotConnect, SetsState, Creates
  <2> QED
    BY <2>1, <2>2, KillCreating
<1> QED
  BY <1>1, <1>2

LEMMA OtherKill == TypeOK /\ OneInv /\ KillInv /\ OtherJobs => KillInv'
<1> SUFFICES ASSUME TypeOK, OneInv, KillInv, OtherJobs
             PROVE  KillInv'
  OBVIOUS
<1>1. PICK job \in Jobs : Starts(job) /\ (job = "end_socket" => end_socket)
                          /\ (ElfKiller => job = "ElfKiller") /\ job # "create_connect"
  BY DEF OtherJobs, get_answer, end_connect, end_socket, send_str, ClearSendQ, ElfKiller, Jobs
<1>2. /\ UNCHANGED <<sock, alive, hist>>
      /\ socks' = socks \/ socks' = Shut(sock)
      /\ hpc' = hpc \/ (ElfKiller /\ hpc' = "killed")
  BY OtherIs
<1>3. hpc = "idle" /\ odd' = odd
  BY <1>1, <1>2 DEF Starts, hist
<1>4. NoneLive => NoneLive'
  BY <1>2, SocksKept, SocksShut
<1>5. job = "end_socket" => NoneLive' \/ "over" \in odd
  BY <1>1, <1>2, SocksShut DEF end_socket, OneInv
<1>6. ~Creates'
  BY <1>2, <1>3 DEF Creates
<1> QED
  BY <1>1, <1>2, <1>3, <1>4, <1>5, <1>6, KillTaken

LEMMA AskedKill == TypeOK /\ KillInv /\ Asked => KillInv'
<1> SUFFICES ASSUME TypeOK, KillInv, Asked
             PROVE  KillInv'
  OBVIOUS
<1>1. alive = TRUE /\ hpc' = hpc
  BY DEF Asked, Asks, PressesStop, do_reconnect, Closes, TypeOK
<1>2. CASE ~Closes
  <2>1. UNCHANGED jobs \/ SUBPROC("create_connect")
    BY <1>2 DEF Asked, Asks, PressesStop, do_reconnect
  <2> QED
    BY <1>1, <2>1, KillAlive DEF Jobs
\* end_socket stands before ElfKiller, and nothing after it.
<1>3. CASE Closes
  <2>1. /\ jobs' = jobs \o <<"end_socket", "ClearSendQ", "ElfKiller">>
        /\ ~(alive' = TRUE)
    BY <1>3 DEF Closes
  <2>2. hpc # "killed" /\ \A i \in DOMAIN jobs : jobs[i] # "ElfKiller"
    BY <1>1 DEF KillInv
  <2>3. /\ Len(jobs) \in Nat /\ DOMAIN jobs = 1..Len(jobs) /\ DOMAIN jobs' = 1..(Len(jobs) + 3)
        /\ \A i \in 1..Len(jobs) : jobs'[i] = jobs[i]
        /\ jobs'[Len(jobs) + 1] = "end_socket" /\ jobs'[Len(jobs) + 2] = "ClearSendQ"
        /\ jobs'[Len(jobs) + 3] = "ElfKiller"
    BY <2>1 DEF TypeOK
  <2>4. ASSUME NEW i \in DOMAIN jobs', jobs'[i] = "ElfKiller"
        PROVE  Ended(i)'
    <3>1. i = Len(jobs) + 3
      BY <2>2, <2>3, <2>4
    <3>2. Len(jobs) + 1 \in 1..(i - 1)
      BY <2>3, <3>1
    <3>3. \A k \in DOMAIN jobs' : k > Len(jobs) + 1 => jobs'[k] # "create_connect"
      BY <2>3
    <3>4. PICK j : j = Len(jobs) + 1
      OBVIOUS
    <3> QED
      BY <2>3, <3>2, <3>3, <3>4 DEF Ended
  <2> QED
    BY <1>1, <2>1, <2>2, <2>4 DEF KillInv
<1> QED
  BY <1>2, <1>3

LEMMA MessagesKill == TypeOK /\ KillInv /\ maincsm_onmessage => KillInv'
<1> SUFFICES ASSUME TypeOK, KillInv, maincsm_onmessage
             PROVE  KillInv'
  OBVIOUS
<1>1. alive = TRUE
  BY DEF maincsm_onmessage, IPC_CHECK_MAILBOX, IPC_STOP_CHECKING, LMAN_DISCONNECT_IND,
     LMAN_CONNECT_CNF, ENIP_DNR_HOST_BY_NAME, ENIP_SOCK_CONNECTED, ENIP_SOCK_DATA_READ,
     ENIP_BUFFER_FREE, ENIP_SOCK_REMOTE_CLOSED, ENIP_SOCK_CLOSED, NotOurs, HandlesOwn,
     Handles, TypeOK
<1>2. hpc' = hpc
  BY DEF maincsm_onmessage, IPC_CHECK_MAILBOX, IPC_STOP_CHECKING, LMAN_DISCONNECT_IND,
     LMAN_CONNECT_CNF, ENIP_DNR_HOST_BY_NAME, ENIP_SOCK_CONNECTED, ENIP_SOCK_DATA_READ,
     ENIP_BUFFER_FREE, ENIP_SOCK_REMOTE_CLOSED, ENIP_SOCK_CLOSED, NotOurs
<1>3. UNCHANGED jobs \/ \E job \in Jobs \ {"ElfKiller"} : SUBPROC(job)
  BY DEF maincsm_onmessage, IPC_CHECK_MAILBOX, IPC_STOP_CHECKING, LMAN_DISCONNECT_IND,
     LMAN_CONNECT_CNF, ENIP_DNR_HOST_BY_NAME, ENIP_SOCK_CONNECTED, ENIP_SOCK_DATA_READ,
     ENIP_BUFFER_FREE, ENIP_SOCK_REMOTE_CLOSED, ENIP_SOCK_CLOSED, NotOurs, Jobs
<1> QED
  BY <1>1, <1>2, <1>3, KillAlive

LEMMA PhoneKill == TypeOK /\ KillInv /\ Phone => KillInv'
<1> SUFFICES ASSUME TypeOK, KillInv, Phone
             PROVE  KillInv'
  OBVIOUS
<1>1. UNCHANGED <<jobs, hpc, alive, odd>>
  BY DEF Phone, StackConnects, StackBreaks, StackReceives, StackHasRoom, ServerHangsUp,
     StackCloses, ResolverAnswers, GprsUp, GprsDown, daemon, hist
<1>2. NoneLive => NoneLive'
  <2>1. CASE GprsDown
    BY <2>1, SocksAborted DEF GprsDown
  <2>2. CASE UNCHANGED socks
    BY <2>2, SocksKept
  <2>3. CASE StackConnects \/ StackBreaks \/ ServerHangsUp \/ StackCloses
    BY <2>3 DEF StackConnects, StackBreaks, ServerHangsUp, StackCloses, Changes, NoneLive, Live,
       TypeOK
  <2> QED
    BY <2>1, <2>2, <2>3 DEF Phone, StackReceives, StackHasRoom, ResolverAnswers, GprsUp, phone
<1> QED
  BY <1>1, <1>2, KillKept

LEMMA KillStays == TypeOK /\ OneInv /\ KillInv /\ [Next]_vars => KillInv'
<1> SUFFICES ASSUME TypeOK, OneInv, KillInv, [Next]_vars
             PROVE  KillInv'
  OBVIOUS
<1>1. CASE HELPER
  BY <1>1, CreateKill, OtherKill DEF HELPER, OtherJobs
<1>2. CASE UNCHANGED vars
  BY <1>2, SocksKept, KillKept DEF vars, daemon, phone, hist
<1> QED
  BY <1>1, <1>2, AskedKill, MessagesKill, PhoneKill DEF Next, Asked

-----------------------------------------------------------------------------
(* What is said of the connection.                                         *)

LEMMA StateStays == TypeOK /\ StateInv /\ [Next]_vars => StateInv'
<1> SUFFICES ASSUME TypeOK, StateInv, [Next]_vars
             PROVE  StateInv'
  OBVIOUS
<1>1. CASE create_connect
  <2>1. odd' = odd
    BY <1>1 DEF create_connect, CreateBegins, ChecksGprs, GoesOffline, NameFound, NamePending,
       NameError, NameNotFound, OpensSocket, NoSocketLeft, Connecting, CannotConnect,
       SetsState, hist
  <2>2. CASE CreateBegins \/ NoSocketLeft
    BY <2>1, <2>2 DEF CreateBegins, NoSocketLeft, StateInv, ConnectedIsSocket
  <2>3. CASE ChecksGprs \/ GoesOffline \/ NameFound \/ NamePending \/ NameError \/ NameNotFound
    BY <2>1, <2>3 DEF ChecksGprs, GoesOffline, NameFound, NamePending, NameError, NameNotFound,
       StateInv, ConnectedIsSocket, daemon
  <2>4. CASE OpensSocket
    BY <2>1, <2>4, Sockets DEF OpensSocket, StateInv, ConnectedIsSocket
  <2>5. CASE Connecting \/ CannotConnect \/ SetsState
    BY <2>1, <2>5 DEF Connecting, CannotConnect, SetsState, StateInv, ConnectedIsSocket, daemon
  <2> QED
    BY <1>1, <2>2, <2>3, <2>4, <2>5 DEF create_connect
<1>2. CASE OtherJobs
  BY <1>2, OtherIs DEF StateInv, ConnectedIsSocket, hist
<1>3. CASE Asked \/ Phone \/ UNCHANGED vars
  <2>1. UNCHANGED <<state, sock, hpc, odd>>
    BY <1>3 DEF Asked, Asks, PressesStop, do_reconnect, Closes, Phone, StackConnects,
       StackBreaks, StackReceives, StackHasRoom, ServerHangsUp, StackCloses, ResolverAnswers,
       GprsUp, GprsDown, vars, daemon, hist
  <2> QED
    BY <2>1 DEF StateInv, ConnectedIsSocket
<1>4. CASE maincsm_onmessage
  <2>1. odd \subseteq odd' /\ hpc' = hpc
    BY <1>4, OddGrows DEF maincsm_onmessage, IPC_CHECK_MAILBOX, IPC_STOP_CHECKING,
       LMAN_DISCONNECT_IND, LMAN_CONNECT_CNF, ENIP_DNR_HOST_BY_NAME, ENIP_SOCK_CONNECTED,
       ENIP_SOCK_DATA_READ, ENIP_BUFFER_FREE, ENIP_SOCK_REMOTE_CLOSED, ENIP_SOCK_CLOSED,
       NotOurs, HandlesOwn, hist
  <2>2. CASE ENIP_SOCK_CLOSED
    <3>1. state' = 0 /\ (hpc = "state" => "early" \in odd')
      BY <2>2, OddGrows DEF ENIP_SOCK_CLOSED, HandlesOwn
    <3> QED
      BY <2>1, <3>1 DEF StateInv, ConnectedIsSocket
  <2>3. CASE ~ENIP_SOCK_CLOSED
    <3>1. sock' = sock /\ (state' = state \/ (state = 1 /\ state' = 2))
      BY <1>4, <2>3 DEF maincsm_onmessage, IPC_CHECK_MAILBOX, IPC_STOP_CHECKING,
         LMAN_DISCONNECT_IND, LMAN_CONNECT_CNF, ENIP_DNR_HOST_BY_NAME, ENIP_SOCK_CONNECTED,
         ENIP_SOCK_DATA_READ, ENIP_BUFFER_FREE, ENIP_SOCK_REMOTE_CLOSED, NotOurs, daemon
    <3> QED
      BY <2>1, <3>1 DEF StateInv, ConnectedIsSocket
  <2> QED
    BY <2>2, <2>3
<1> QED
  BY <1>1, <1>2, <1>3, <1>4 DEF Next, Asked, HELPER, OtherJobs

-----------------------------------------------------------------------------
(* A session begins with nothing of an earlier one.                        *)

ToldStays == \A s \in Socket : socks[s] \notin Mute => socks'[s] \notin Mute

LEMMA OwnIds ==
  ASSUME TypeOK, NEW i \in DOMAIN inbox, inbox[i].ev \in OwnEvents
  PROVE  inbox[i].id \in Socket
<1>1. inbox[i] \in Message
  BY DEF TypeOK
<1> QED
  BY <1>1 DEF Message, OwnEvents

\* A message comes: of a socket that may be spoken of, "connected" before all others.
LEMMA FreshGains ==
  ASSUME TypeOK, Untold, Ordered, ToldStays, NEW m \in Message, inbox' = Append(inbox, m),
         m.ev \in OwnEvents => socks'[m.id] \notin Mute, m.ev = "CONNECTED" => socks[m.id] \in Mute
  PROVE  Untold' /\ Ordered'
<1>1. /\ \A i \in 1..Len(inbox) : inbox'[i] = inbox[i]
      /\ inbox'[Len(inbox) + 1] = m /\ Len(inbox) \in Nat
      /\ DOMAIN inbox = 1..Len(inbox) /\ DOMAIN inbox' = 1..(Len(inbox) + 1)
  BY Added DEF TypeOK
<1>2. Untold'
  <2> SUFFICES ASSUME NEW i \in DOMAIN inbox', inbox'[i].ev \in OwnEvents
               PROVE  socks'[inbox'[i].id] \notin Mute
    BY DEF Untold
  <2>1. CASE i \in 1..Len(inbox)
    <3>1. inbox[i].id \in Socket /\ socks[inbox[i].id] \notin Mute /\ inbox'[i].id = inbox[i].id
      BY <1>1, <2>1, OwnIds DEF Untold
    <3> QED
      BY <3>1 DEF ToldStays
  <2> QED
    BY <1>1, <2>1 DEF Mute
<1>3. ASSUME NEW i \in DOMAIN inbox', NEW j \in DOMAIN inbox', inbox'[i].ev \in OwnEvents,
             inbox'[j].ev = "CONNECTED", inbox'[i].id = inbox'[j].id, i < j
      PROVE  FALSE
  <2>1. i \in 1..Len(inbox) /\ inbox'[i] = inbox[i]
    BY <1>1, <1>3
  <2>2. CASE j \in 1..Len(inbox)
    BY <1>1, <1>3, <2>1, <2>2 DEF Ordered
  <2>3. CASE j = Len(inbox) + 1
    <3>1. socks[inbox[i].id] \notin Mute /\ socks[inbox[i].id] \in Mute
      BY <1>1, <1>3, <2>1, <2>3 DEF Untold
    <3> QED
      BY <3>1
  <2> QED
    BY <1>1, <2>2, <2>3
<1>4. Ordered'
  BY <1>1, <1>3 DEF Ordered
<1> QED
  BY <1>2, <1>4

LEMMA Beyond ==
  ASSUME NEW n \in Nat, NEW k \in Nat, NEW i \in 1..k, NEW j \in 1..n, i \notin 1..n
  PROVE  i >= j
  OBVIOUS

\* GPRS goes down: what comes is no "connected".
LEMMA FreshDown ==
  ASSUME TypeOK, SocketInv, Untold, Ordered, socks' = Aborted,
         \/ UNCHANGED inbox
         \/ inbox' = Append(inbox \o OwnClosed, Msg("LMAN_DISCONNECT", 0))
         \/ inbox' = Append(inbox, Msg("LMAN_DISCONNECT", 0)) \o OwnClosed
  PROVE  /\ Untold' /\ Ordered' /\ ToldStays
         /\ \A i \in DOMAIN inbox' : inbox'[i].ev = "CONNECTED" =>
              i \in DOMAIN inbox /\ inbox[i] = inbox'[i]
<1>1. \A s \in Socket : socks[s] # "none" => socks'[s] \notin Mute
  BY AbortedTypes DEF Mute
<1>2. ToldStays
  BY <1>1 DEF ToldStays, Mute
<1>3. /\ inbox' \in Seq(Message)
      /\ \A i \in DOMAIN inbox' : \/ i \in DOMAIN inbox /\ inbox'[i] = inbox[i]
                                  \/ inbox'[i].ev = "LMAN_DISCONNECT"
                                  \/ sock # NoSock /\ inbox'[i].ev = "CLOSED" /\ inbox'[i].id = sock
  <2>1. CASE UNCHANGED inbox
    BY <2>1 DEF TypeOK
  <2>2. CASE ~UNCHANGED inbox
    BY <2>2, DownTypes
  <2> QED
    BY <2>1, <2>2
<1>4. \A i \in DOMAIN inbox' : inbox'[i].ev = "CONNECTED" =>
        i \in DOMAIN inbox /\ inbox[i] = inbox'[i]
  BY <1>3
<1>5. Untold'
  <2> SUFFICES ASSUME NEW i \in DOMAIN inbox', inbox'[i].ev \in OwnEvents
               PROVE  socks'[inbox'[i].id] \notin Mute
    BY DEF Untold
  <2>1. CASE i \in DOMAIN inbox /\ inbox'[i] = inbox[i]
    <3>1. inbox[i].id \in Socket /\ socks[inbox[i].id] \notin Mute
      BY <2>1, OwnIds DEF Untold
    <3>2. socks[inbox[i].id] # "none"
      BY <3>1 DEF Mute
    <3> QED
      BY <1>1, <2>1, <3>1, <3>2 DEF Mute
  <2>2. CASE sock # NoSock /\ inbox'[i].id = sock
    <3>1. sock \in Socket /\ socks[sock] # "none"
      BY <2>2 DEF SocketInv, TypeOK
    <3> QED
      BY <1>1, <2>2, <3>1 DEF Mute
  <2> QED
    BY <1>3, <2>1, <2>2 DEF OwnEvents
<1>6. Ordered'
  <2> SUFFICES ASSUME NEW i \in DOMAIN inbox', NEW j \in DOMAIN inbox',
                      inbox'[i].ev \in OwnEvents, inbox'[j].ev = "CONNECTED",
                      inbox'[i].id = inbox'[j].id
               PROVE  i >= j
    BY DEF Ordered
  <2>1. j \in DOMAIN inbox /\ inbox[j] = inbox'[j]
    BY <1>4
  <2>2. CASE i \in DOMAIN inbox /\ inbox'[i] = inbox[i]
    BY <2>1, <2>2 DEF Ordered
  <2>3. CASE sock # NoSock /\ inbox'[i].ev = "CLOSED" /\ inbox'[i].id = sock /\ i \notin DOMAIN inbox
    <3>1. DOMAIN inbox = 1..Len(inbox) /\ DOMAIN inbox' = 1..Len(inbox')
          /\ Len(inbox) \in Nat /\ Len(inbox') \in Nat
      BY <1>3 DEF TypeOK
    <3>2. j \in 1..Len(inbox) /\ i \in 1..Len(inbox') /\ ~(i \in 1..Len(inbox))
      BY <2>1, <2>3, <3>1
    <3> QED
      BY <3>1, <3>2, Beyond, Zenon
  <2>4. CASE i \in DOMAIN inbox /\ ~(inbox'[i] = inbox[i])
    <3>1. (i \in DOMAIN inbox' /\ UNCHANGED inbox) \/ inbox'[i] = inbox[i]
      BY <2>4, DownTypes
    <3> QED
      BY <2>4, <3>1
  <2> QED
    BY <1>3, <2>2, <2>3, <2>4 DEF OwnEvents
<1> QED
  BY <1>2, <1>4, <1>5, <1>6

LEMMA FreshLoses ==
  ASSUME TypeOK, Untold, Ordered, ToldStays, inbox # <<>>, inbox' = Tail(inbox)
  PROVE  /\ Untold' /\ Ordered'
         /\ \A i \in DOMAIN inbox' : \E j \in DOMAIN inbox : inbox[j] = inbox'[i]
         /\ Head(inbox).ev \in OwnEvents => socks[Head(inbox).id] \notin Mute
         /\ Head(inbox).ev \in OwnEvents =>
              \A i \in DOMAIN inbox' : inbox'[i].ev = "CONNECTED" =>
                inbox'[i].id # Head(inbox).id
<1>1. /\ Len(inbox) \in Nat \ {0} /\ Head(inbox) = inbox[1]
      /\ \A i \in 1..(Len(inbox) - 1) : inbox'[i] = inbox[i + 1]
      /\ DOMAIN inbox = 1..Len(inbox) /\ DOMAIN inbox' = 1..(Len(inbox) - 1)
  BY Taken DEF TypeOK
<1>2. \A i \in DOMAIN inbox' : i + 1 \in DOMAIN inbox /\ inbox[i + 1] = inbox'[i] /\ i \in Nat \ {0}
  BY <1>1
<1>3. Untold'
  <2> SUFFICES ASSUME NEW i \in DOMAIN inbox', inbox'[i].ev \in OwnEvents
               PROVE  socks'[inbox'[i].id] \notin Mute
    BY DEF Untold
  <2>1. inbox[i + 1].id \in Socket /\ socks[inbox[i + 1].id] \notin Mute
    BY <1>2, OwnIds DEF Untold
  <2> QED
    BY <1>2, <2>1 DEF ToldStays
<1>4. Ordered'
  <2> SUFFICES ASSUME NEW i \in DOMAIN inbox', NEW j \in DOMAIN inbox',
                      inbox'[i].ev \in OwnEvents, inbox'[j].ev = "CONNECTED",
                      inbox'[i].id = inbox'[j].id
               PROVE  i >= j
    BY DEF Ordered
  <2>1. i + 1 >= j + 1
    BY <1>2 DEF Ordered
  <2> QED
    BY <1>2, <2>1
<1>5. Head(inbox).ev \in OwnEvents => socks[Head(inbox).id] \notin Mute
  BY <1>1 DEF Untold
<1>6. ASSUME Head(inbox).ev \in OwnEvents, NEW i \in DOMAIN inbox',
             inbox'[i].ev = "CONNECTED", inbox'[i].id = Head(inbox).id
      PROVE  FALSE
  <2>1. 1 >= i + 1
    BY <1>1, <1>2, <1>6 DEF Ordered
  <2> QED
    BY <1>2, <2>1
<1> QED
  BY <1>2, <1>3, <1>4, <1>5, <1>6

LEMMA FreshKeeps ==
  ASSUME TypeOK, Untold, Ordered, ToldStays, UNCHANGED inbox
  PROVE  Untold' /\ Ordered'
<1>1. Ordered'
  BY DEF Ordered
<1>2. Untold'
  <2> SUFFICES ASSUME NEW i \in DOMAIN inbox, inbox[i].ev \in OwnEvents
               PROVE  socks'[inbox[i].id] \notin Mute
    BY DEF Untold, Mute
  <2>1. inbox[i].id \in Socket /\ socks[inbox[i].id] \notin Mute
    BY OwnIds DEF Untold
  <2> QED
    BY <2>1 DEF ToldStays
<1> QED
  BY <1>1, <1>2

LEMMA LeftTaken ==
  ASSUME TypeOK, NEW job, Starts(job)
  PROVE  /\ Behind => Behind'
         /\ NoLeft => NoLeft' /\ job \notin Left
         /\ Behind /\ job = "create_connect" => NoLeft'
<1>1. /\ Len(jobs) \in Nat \ {0} /\ job = jobs[1]
      /\ \A i \in 1..(Len(jobs) - 1) : jobs'[i] = jobs[i + 1]
      /\ DOMAIN jobs = 1..Len(jobs) /\ DOMAIN jobs' = 1..(Len(jobs) - 1)
  BY Taken DEF TypeOK, Starts
<1>2. \A i \in DOMAIN jobs' : i + 1 \in DOMAIN jobs /\ jobs[i + 1] = jobs'[i] /\ i \in Nat \ {0}
  BY <1>1
<1>3. Behind => Behind'
  <2> SUFFICES ASSUME Behind, NEW i \in DOMAIN jobs', NEW j \in DOMAIN jobs',
                      jobs'[i] = "create_connect", i < j
               PROVE  jobs'[j] \notin Left
    BY DEF Behind
  <2>1. i + 1 < j + 1
    BY <1>2
  <2> QED
    BY <1>2, <2>1 DEF Behind
<1>4. NoLeft => NoLeft' /\ job \notin Left
  BY <1>1, <1>2 DEF NoLeft
<1>5. Behind /\ job = "create_connect" => NoLeft'
  <2> SUFFICES ASSUME Behind, job = "create_connect", NEW j \in DOMAIN jobs'
               PROVE  jobs'[j] \notin Left
    BY DEF NoLeft
  <2>1. 1 \in DOMAIN jobs /\ 1 < j + 1 /\ jobs[1] = "create_connect"
    BY <1>1, <1>2
  <2> QED
    BY <1>2, <2>1 DEF Behind
<1> QED
  BY <1>3, <1>4, <1>5

LEMMA LeftAdded ==
  ASSUME TypeOK, NEW job \in Jobs, SUBPROC(job)
  PROVE  /\ Behind /\ (job \in Left => ~Posted) => Behind'
         /\ NoLeft /\ job \notin Left => NoLeft'
<1>1. /\ \A i \in 1..Len(jobs) : jobs'[i] = jobs[i] /\ jobs'[Len(jobs) + 1] = job
      /\ DOMAIN jobs = 1..Len(jobs) /\ DOMAIN jobs' = 1..(Len(jobs) + 1) /\ Len(jobs) \in Nat
  BY Added DEF TypeOK, SUBPROC
<1>2. jobs'[Len(jobs) + 1] = job
  BY Added DEF TypeOK, SUBPROC
<1>3. Behind /\ (job \in Left => ~Posted) => Behind'
  <2> SUFFICES ASSUME Behind, job \in Left => ~Posted, NEW i \in DOMAIN jobs',
                      NEW j \in DOMAIN jobs', jobs'[i] = "create_connect", i < j
               PROVE  jobs'[j] \notin Left
    BY DEF Behind
  <2>1. i \in DOMAIN jobs /\ jobs[i] = "create_connect"
    BY <1>1
  <2>2. CASE j \in DOMAIN jobs
    BY <1>1, <2>1, <2>2 DEF Behind
  <2>3. CASE j = Len(jobs) + 1
    BY <1>2, <2>1, <2>3 DEF Posted
  <2> QED
    BY <1>1, <2>2, <2>3
<1>4. NoLeft /\ job \notin Left => NoLeft'
  BY <1>1, <1>2 DEF NoLeft
<1> QED
  BY <1>3, <1>4

LEMMA LeftKept ==
  ASSUME UNCHANGED jobs
  PROVE  (Behind' <=> Behind) /\ (NoLeft' <=> NoLeft) /\ (NoLeft => Behind)
  BY DEF Behind, NoLeft

LEMMA PendingBack ==
  ASSUME UNCHANGED sock,
         sock # NoSock /\ socks'[sock] \in {"open", "connecting"}
           => socks[sock] \in {"open", "connecting"},
         \A i \in DOMAIN inbox' : inbox'[i].ev = "CONNECTED" =>
           \/ socks[inbox'[i].id] = "connecting"
           \/ \E j \in DOMAIN inbox : inbox[j] = inbox'[i]
  PROVE  Pending' => Pending
<1> SUFFICES ASSUME Pending'
             PROVE  Pending
  OBVIOUS
<1>1. sock # NoSock
  BY DEF Pending
<1>2. CASE socks'[sock] \in {"open", "connecting"}
  BY <1>1, <1>2 DEF Pending
<1>3. ASSUME NEW i \in DOMAIN inbox', inbox'[i].ev = "CONNECTED", inbox'[i].id = sock
      PROVE  Pending
  <2>1. CASE socks[inbox'[i].id] = "connecting"
    BY <1>1, <1>3, <2>1 DEF Pending
  <2>2. ASSUME NEW j \in DOMAIN inbox, inbox[j] = inbox'[i]
        PROVE  Pending
    BY <1>1, <1>3, <2>2 DEF Pending
  <2> QED
    BY <1>3, <2>1, <2>2
<1> QED
  BY <1>2, <1>3 DEF Pending

\* Neither the jobs nor the queue gain anything that a connection could meet.
LEMMA FreshCalm ==
  ASSUME FreshJobs, UNCHANGED <<sock, sendq>>, Behind', NoLeft => NoLeft',
         Early' => Early, Pending' => Pending,
         sock # NoSock /\ Live(sock)' => Live(sock)
  PROVE  FreshJobs'
<1>1. Early' => sendq' = FALSE /\ NoLeft'
  BY DEF FreshJobs
<1>2. ASSUME Pending'
      PROVE  NoLeft' /\ (sendq' = TRUE => ~Live(sock)')
  <2>1. sock # NoSock
    BY <1>2 DEF Pending
  <2> QED
    BY <1>2, <2>1 DEF FreshJobs
<1> QED
  BY <1>1, <1>2 DEF FreshJobs, Live

LEMMA CreateFresh == TypeOK /\ OneInv /\ FreshInv /\ create_connect => FreshInv'
<1> SUFFICES ASSUME TypeOK, OneInv, FreshInv, create_connect
             PROVE  FreshInv'
  OBVIOUS
<1>1. Untold /\ Ordered /\ UNCHANGED <<alive, odd>>
  BY DEF FreshInv, create_connect, CreateBegins, ChecksGprs, GoesOffline, NameFound,
     NamePending, NameError, NameNotFound, OpensSocket, NoSocketLeft, Connecting,
     CannotConnect, SetsState, daemon, hist
<1>2. CASE CreateBegins
  <2>1. /\ Starts("create_connect") /\ ~(sendq' = TRUE) /\ sendq' = FALSE
        /\ UNCHANGED <<sock, socks, inbox>>
    BY <1>2 DEF CreateBegins, phone
  <2>2. Untold' /\ Ordered'
    BY <1>1, <2>1, FreshKeeps DEF ToldStays
  <2>3. ASSUME "over" \notin odd, alive = TRUE
        PROVE  FreshJobs'
    <3>1. sock = NoSock
      BY <2>1, <2>3, JobTaken DEF OneInv, SingleInv
    <3>2. ~Pending'
      BY <2>1, <3>1 DEF Pending
    <3>3. NoLeft' /\ Behind'
      BY <2>1, <2>3, LeftTaken DEF FreshInv, FreshJobs
    <3> QED
      BY <2>1, <3>2, <3>3 DEF FreshJobs
  <2> QED
    BY <1>1, <2>2, <2>3 DEF FreshInv
<1>3. CASE ChecksGprs \/ GoesOffline \/ NameFound \/ NamePending \/ NameError \/ NameNotFound
  <2>1. Early /\ UNCHANGED <<sock, socks, inbox, jobs, sendq>>
    BY <1>3 DEF ChecksGprs, GoesOffline, NameFound, NamePending, NameError, NameNotFound, Early,
       daemon, phone
  <2>2. Untold' /\ Ordered'
    BY <1>1, <2>1, FreshKeeps DEF ToldStays
  <2>3. (Pending' => Pending) /\ (Live(sock)' => Live(sock))
    BY <2>1 DEF Pending, Live
  <2>4. FreshJobs => FreshJobs'
    BY <2>1, <2>3, LeftKept, FreshCalm DEF FreshJobs
  <2> QED
    BY <1>1, <2>2, <2>4 DEF FreshInv
\* The new socket finds neither jobs nor a queue.
<1>4. CASE OpensSocket
  <2>1. hpc = "socket" /\ hpc' = "connect" /\ UNCHANGED <<inbox, jobs, sendq>>
    BY <1>4 DEF OpensSocket
  <2>2. PICK s \in Socket : socks[s] = "none" /\ socks' = [socks EXCEPT ![s] = "open"]
    <3>1. PICK s \in Socket : /\ \A old \in Socket : socks[old] = "none" <=> old >= s
                              /\ socks' = [socks EXCEPT ![s] = "open"]
      BY <1>4 DEF OpensSocket
    <3>2. s >= s
      BY <3>1, Sockets
    <3> QED
      BY <3>1, <3>2
  <2>3. ToldStays
    BY <2>2 DEF ToldStays, Mute, TypeOK
  <2>4. Untold' /\ Ordered'
    BY <1>1, <2>1, <2>3, FreshKeeps
  <2>5. FreshJobs => FreshJobs'
    <3>1. FreshJobs => NoLeft /\ sendq = FALSE
      BY <2>1 DEF FreshJobs, Early
    <3>2. ~Early'
      BY <2>1 DEF Early
    <3> QED
      BY <2>1, <3>1, <3>2, LeftKept DEF FreshJobs
  <2> QED
    BY <1>1, <2>4, <2>5 DEF FreshInv
<1>5. CASE NoSocketLeft
  <2>1. /\ sock' = NoSock /\ hpc' = "idle" /\ socks' = Aborted /\ UNCHANGED jobs
        /\ \/ UNCHANGED inbox
           \/ inbox' = Append(inbox \o OwnClosed, Msg("LMAN_DISCONNECT", 0))
    BY <1>5 DEF NoSocketLeft
  <2>2. Untold' /\ Ordered'
    BY <1>1, <2>1, FreshDown DEF OneInv
  <2>3. ~Pending' /\ ~Early'
    BY <2>1 DEF Pending, Early
  <2>4. FreshJobs => FreshJobs'
    BY <2>1, <2>3, LeftKept DEF FreshJobs
  <2> QED
    BY <1>1, <2>2, <2>4 DEF FreshInv
<1>6. CASE Connecting \/ SetsState
  <2>1. hpc' \in {"state", "idle"} /\ UNCHANGED <<sock, inbox, jobs, sendq>>
    BY <1>6 DEF Connecting, SetsState, daemon
  <2>2. \/ UNCHANGED socks
        \/ sock # NoSock /\ socks[sock] = "open" /\ socks' = [socks EXCEPT ![sock] = "connecting"]
    BY <1>6 DEF Connecting, SetsState, phone
  <2>3. ToldStays
    BY <2>2 DEF ToldStays, Mute, TypeOK
  <2>4. Untold' /\ Ordered'
    BY <1>1, <2>1, <2>3, FreshKeeps
  <2>5. (Pending' => Pending) /\ (Live(sock)' => Live(sock)) /\ ~Early'
    BY <2>1, <2>2 DEF Pending, Live, Early
  <2>6. FreshJobs => FreshJobs'
    BY <2>1, <2>5, LeftKept, FreshCalm DEF FreshJobs
  <2> QED
    BY <1>1, <2>4, <2>6 DEF FreshInv
<1>7. CASE CannotConnect
  <2>1. /\ sock' = NoSock /\ hpc' = "idle" /\ UNCHANGED <<inbox, jobs>>
        /\ socks' = IF sock = NoSock THEN socks ELSE [socks EXCEPT ![sock] = "closed"]
    BY <1>7 DEF CannotConnect
  <2>2. ToldStays
    BY <2>1 DEF ToldStays, Mute, TypeOK
  <2>3. Untold' /\ Ordered'
    BY <1>1, <2>1, <2>2, FreshKeeps
  <2>4. ~Pending' /\ ~Early'
    BY <2>1 DEF Pending, Early
  <2>5. FreshJobs => FreshJobs'
    BY <2>1, <2>4, LeftKept DEF FreshJobs
  <2> QED
    BY <1>1, <2>3, <2>5 DEF FreshInv
<1> QED
  BY <1>2, <1>3, <1>4, <1>5, <1>6, <1>7 DEF create_connect

\* Before "connected" has been read only end_connect can run, and it shuts the socket.
LEMMA OtherFresh == TypeOK /\ FreshInv /\ OtherJobs => FreshInv'
<1> SUFFICES ASSUME TypeOK, FreshInv, OtherJobs
             PROVE  FreshInv'
  OBVIOUS
<1>1. PICK job \in Jobs : /\ Starts(job) /\ job # "create_connect"
                          /\ job \notin Left => end_connect
  BY DEF OtherJobs, get_answer, end_connect, end_socket, send_str, ClearSendQ, ElfKiller, Jobs,
     Left
<1>2. /\ UNCHANGED <<sock, alive, inbox, hist>>
      /\ socks' = socks \/ socks' = Shut(sock)
      /\ hpc' = hpc \/ hpc' = "killed"
  BY OtherIs
<1>3. odd' = odd /\ ~Early'
  BY <1>1, <1>2 DEF Starts, Early, hist
<1>4. ASSUME NEW s \in Socket
      PROVE  /\ socks[s] \notin Mute => socks'[s] \notin Mute
             /\ socks'[s] \in {"open", "connecting"} => socks[s] \in {"open", "connecting"}
  BY <1>2, ShutTypes DEF Mute, Shut, TypeOK
<1>5. Untold' /\ Ordered'
  BY <1>2, <1>4, FreshKeeps DEF ToldStays, FreshInv
<1>6. Pending' => Pending
  BY <1>2, <1>4 DEF Pending, TypeOK
<1>7. (Behind => Behind') /\ (NoLeft => NoLeft' /\ job \notin Left)
  BY <1>1, LeftTaken
<1>8. ASSUME sock # NoSock, end_connect
      PROVE  ~Live(sock)'
  <2>1. sock \in Socket /\ socks' = Shut(sock) /\ sock' = sock
    BY <1>2, <1>8 DEF TypeOK, end_connect
  <2>2. socks'[sock] \notin {"open", "connecting", "up", "half"}
    BY <2>1, ShutTypes
  <2> QED
    BY <2>1, <2>2 DEF Live
<1>9. ASSUME FreshJobs
      PROVE  FreshJobs'
  <2>1. ASSUME Pending'
        PROVE  NoLeft' /\ ~Live(sock)'
    <3>1. NoLeft /\ sock # NoSock
      BY <1>6, <1>9, <2>1 DEF FreshJobs, Pending
    <3> QED
      BY <1>1, <1>7, <1>8, <3>1
  <2> QED
    BY <1>3, <1>7, <1>9, <2>1 DEF FreshJobs, Live
<1> QED
  BY <1>2, <1>3, <1>5, <1>9 DEF FreshInv

LEMMA AskedFresh == TypeOK /\ FreshInv /\ Asked => FreshInv'
<1> SUFFICES ASSUME TypeOK, FreshInv, Asked
             PROVE  FreshInv'
  OBVIOUS
<1>1. UNCHANGED <<sock, sendq, hpc, odd>> /\ (socks' = socks)
  BY DEF Asked, Asks, PressesStop, do_reconnect, Closes, daemon, phone, hist
<1>2. ToldStays /\ Untold /\ Ordered
  BY <1>1 DEF ToldStays, FreshInv
<1>3. (Early' => Early) /\ (Live(sock)' => Live(sock))
  BY <1>1 DEF Early, Live
<1>4. CASE Asks \/ PressesStop
  <2>1. PICK m \in Message : m.ev \notin OwnEvents /\ inbox' = Append(inbox, m)
    BY <1>4, MessageTypes DEF Asks, PressesStop, OwnEvents
  <2>2. Untold' /\ Ordered'
    BY <1>2, <2>1, FreshGains DEF OwnEvents
  <2>3. UNCHANGED <<jobs, alive>>
    BY <1>4 DEF Asks, PressesStop, daemon
  <2>4. \A i \in DOMAIN inbox' : inbox'[i].ev = "CONNECTED" =>
          \E j \in DOMAIN inbox : inbox[j] = inbox'[i]
    BY <2>1, Added DEF OwnEvents, TypeOK
  <2>5. Pending' => Pending
    BY <1>1, <2>4, PendingBack
  <2>6. FreshJobs => FreshJobs'
    BY <1>1, <1>3, <2>3, <2>5, LeftKept, FreshCalm DEF FreshJobs
  <2> QED
    BY <1>1, <2>2, <2>3, <2>6 DEF FreshInv
<1>5. CASE do_reconnect
  <2>1. UNCHANGED <<inbox, alive>> /\ (UNCHANGED jobs \/ SUBPROC("create_connect"))
    BY <1>5 DEF do_reconnect
  <2>2. Untold' /\ Ordered'
    BY <1>2, <2>1, FreshKeeps
  <2>3. Pending' => Pending
    BY <1>1, <2>1 DEF Pending
  <2>4. (Behind => Behind') /\ (NoLeft => NoLeft')
    BY <2>1, LeftAdded, LeftKept DEF Left, Jobs
  <2>5. FreshJobs => FreshJobs'
    BY <1>1, <1>3, <2>3, <2>4, FreshCalm DEF FreshJobs
  <2> QED
    BY <1>1, <2>1, <2>2, <2>5 DEF FreshInv
<1>6. CASE Closes
  <2>1. UNCHANGED inbox /\ ~(alive' = TRUE)
    BY <1>6 DEF Closes
  <2>2. Untold' /\ Ordered'
    BY <1>2, <2>1, FreshKeeps
  <2> QED
    BY <2>1, <2>2 DEF FreshInv
<1> QED
  BY <1>4, <1>5, <1>6 DEF Asked

\* What is posted for a socket is posted while it is ours: then no connection is asked
\* for, and "connected" has been read.
LEMMA MessagesFresh == TypeOK /\ OneInv /\ FreshInv /\ maincsm_onmessage => FreshInv'
<1> SUFFICES ASSUME TypeOK, OneInv, FreshInv, maincsm_onmessage
             PROVE  FreshInv'
  OBVIOUS
<1>1. inbox # <<>> /\ inbox' = Tail(inbox)
  BY DEF maincsm_onmessage, IPC_CHECK_MAILBOX, IPC_STOP_CHECKING, LMAN_DISCONNECT_IND,
     LMAN_CONNECT_CNF, ENIP_DNR_HOST_BY_NAME, ENIP_SOCK_CONNECTED, ENIP_SOCK_DATA_READ,
     ENIP_BUFFER_FREE, ENIP_SOCK_REMOTE_CLOSED, ENIP_SOCK_CLOSED, NotOurs, HandlesOwn, Handles
<1>2. UNCHANGED <<socks, hpc, sendq, alive>>
  BY DEF maincsm_onmessage, IPC_CHECK_MAILBOX, IPC_STOP_CHECKING, LMAN_DISCONNECT_IND,
     LMAN_CONNECT_CNF, ENIP_DNR_HOST_BY_NAME, ENIP_SOCK_CONNECTED, ENIP_SOCK_DATA_READ,
     ENIP_BUFFER_FREE, ENIP_SOCK_REMOTE_CLOSED, ENIP_SOCK_CLOSED, NotOurs, phone, daemon
<1>3. odd \subseteq odd'
  BY OddGrows DEF maincsm_onmessage, IPC_CHECK_MAILBOX, IPC_STOP_CHECKING,
     LMAN_DISCONNECT_IND, LMAN_CONNECT_CNF, ENIP_DNR_HOST_BY_NAME, ENIP_SOCK_CONNECTED,
     ENIP_SOCK_DATA_READ, ENIP_BUFFER_FREE, ENIP_SOCK_REMOTE_CLOSED, ENIP_SOCK_CLOSED,
     NotOurs, HandlesOwn, hist
<1>4. ToldStays /\ (Early' => Early)
  BY <1>2 DEF ToldStays, Early
<1>5. /\ Untold' /\ Ordered'
      /\ \A i \in DOMAIN inbox' : \E j \in DOMAIN inbox : inbox[j] = inbox'[i]
  BY <1>1, <1>4, FreshLoses DEF FreshInv
<1>6. ASSUME NEW ev \in OwnEvents, HandlesOwn(ev), ev # "CONNECTED" \/ UNCHANGED jobs
      PROVE  /\ sock # NoSock
             /\ "over" \notin odd => ~Posted /\ ~Early
             /\ sock' = sock => ~Pending'
  <2>1. Head(inbox).ev = ev /\ Head(inbox).id = sock /\ Head(inbox) \in Message
    BY <1>1, <1>6, Taken DEF HandlesOwn, Handles, TypeOK
  <2>2. sock # NoSock
    BY <2>1, Sockets DEF Message, OwnEvents
  <2>3. /\ socks[sock] \notin Mute
        /\ \A i \in DOMAIN inbox' : inbox'[i].ev = "CONNECTED" => inbox'[i].id # sock
    BY <1>1, <1>4, <2>1, FreshLoses DEF FreshInv
  <2>4. sock' = sock => ~Pending'
    BY <1>2, <2>3 DEF Pending, Mute
  <2>5. "over" \notin odd => ~Posted /\ ~Early
    BY <2>2 DEF OneInv, SingleInv, Early
  <2> QED
    BY <2>2, <2>4, <2>5
<1>7. CASE /\ UNCHANGED sock
           /\ UNCHANGED jobs \/ SUBPROC("create_connect") \/ SUBPROC("end_connect")
  <2>1. (Pending' => Pending) /\ (Live(sock)' => Live(sock))
    BY <1>2, <1>5, <1>7, PendingBack DEF Live
  <2>2. (Behind => Behind') /\ (NoLeft => NoLeft')
    BY <1>7, LeftAdded, LeftKept DEF Left, Jobs
  <2>3. FreshJobs => FreshJobs'
    BY <1>2, <1>4, <1>7, <2>1, <2>2, FreshCalm DEF FreshJobs
  <2> QED
    BY <1>2, <1>3, <1>5, <2>3 DEF FreshInv
<1>8. ASSUME NEW ev \in OwnEvents, HandlesOwn(ev), NEW job \in Left, SUBPROC(job),
             ev # "CONNECTED", sock' \in {sock, NoSock}
      PROVE  FreshInv'
  <2>1. ("over" \notin odd => ~Posted /\ ~Early) /\ ~Pending'
    BY <1>6, <1>8 DEF Pending
  <2>2. ~Posted => (Behind => Behind')
    BY <1>8, LeftAdded DEF Left, Jobs
  <2>3. "over" \notin odd /\ FreshJobs => FreshJobs'
    BY <1>4, <2>1, <2>2 DEF FreshJobs
  <2> QED
    BY <1>2, <1>3, <1>5, <2>3 DEF FreshInv
<1>9. CASE \/ ENIP_SOCK_DATA_READ \/ ENIP_BUFFER_FREE \/ ENIP_SOCK_REMOTE_CLOSED
           \/ ENIP_SOCK_CLOSED
  <2>1. \/ UNCHANGED <<sock, jobs>>
        \/ \E ev \in OwnEvents \ {"CONNECTED"}, job \in Left :
             HandlesOwn(ev) /\ SUBPROC(job) /\ sock' \in {sock, NoSock}
    BY <1>9 DEF ENIP_SOCK_DATA_READ, ENIP_BUFFER_FREE, ENIP_SOCK_REMOTE_CLOSED,
       ENIP_SOCK_CLOSED, OwnEvents, Left, daemon
  <2> QED
    BY <1>7, <1>8, <2>1
<1>10. CASE ~(\/ ENIP_SOCK_DATA_READ \/ ENIP_BUFFER_FREE \/ ENIP_SOCK_REMOTE_CLOSED
              \/ ENIP_SOCK_CLOSED)
  BY <1>7, <1>10 DEF maincsm_onmessage, IPC_CHECK_MAILBOX, IPC_STOP_CHECKING,
     LMAN_DISCONNECT_IND, LMAN_CONNECT_CNF, ENIP_DNR_HOST_BY_NAME, ENIP_SOCK_CONNECTED,
     NotOurs, daemon
<1> QED
  BY <1>9, <1>10

LEMMA PhoneFresh == TypeOK /\ OneInv /\ FreshInv /\ Phone => FreshInv'
<1> SUFFICES ASSUME TypeOK, OneInv, FreshInv, Phone
             PROVE  FreshInv'
  OBVIOUS
<1>1. UNCHANGED <<sock, sendq, alive, jobs, hpc, odd>> /\ Untold /\ Ordered
  BY DEF Phone, StackConnects, StackBreaks, StackReceives, StackHasRoom, ServerHangsUp,
     StackCloses, ResolverAnswers, GprsUp, GprsDown, daemon, hist, FreshInv
<1>2. Early' => Early
  BY <1>1 DEF Early
<1>3. ASSUME Untold', Ordered', Pending' => Pending,
             \A s \in Socket : Live(s)' => Live(s)
      PROVE  FreshInv'
  <2>1. sock # NoSock /\ Live(sock)' => Live(sock)
    BY <1>1, <1>3 DEF TypeOK, Live
  <2>2. FreshJobs => FreshJobs'
    BY <1>1, <1>2, <1>3, <2>1, LeftKept, FreshCalm DEF FreshJobs
  <2> QED
    BY <1>1, <1>3, <2>2 DEF FreshInv
<1>4. CASE GprsDown
  <2>1. /\ socks' = Aborted
        /\ UNCHANGED inbox \/ inbox' = Append(inbox, Msg("LMAN_DISCONNECT", 0)) \o OwnClosed
    BY <1>4 DEF GprsDown
  <2>2. /\ Untold' /\ Ordered'
        /\ \A i \in DOMAIN inbox' : inbox'[i].ev = "CONNECTED" =>
             i \in DOMAIN inbox /\ inbox[i] = inbox'[i]
    BY <1>1, <2>1, FreshDown DEF OneInv
  <2>3. \A s \in Socket : ~Live(s)' /\ socks'[s] \notin {"open", "connecting"}
    BY <2>1, AbortedTypes DEF Live
  <2>4. Pending' => Pending
    BY <1>1, <2>2, <2>3, PendingBack DEF TypeOK
  <2> QED
    BY <1>3, <2>2, <2>3, <2>4
<1>5. CASE ~GprsDown
  <2>1. PICK m \in Message :
          /\ Posts(m)
          /\ m.ev \in OwnEvents => m.id \in Socket /\ socks'[m.id] \notin Mute
          /\ m.ev = "CONNECTED" => socks[m.id] = "connecting"
          /\ \/ UNCHANGED socks
             \/ \E s \in Socket, to \in {"up", "closed", "half"} :
                  /\ socks[s] \in {"connecting", "up", "shut"} /\ Changes(s, to)
                  /\ socks[s] = "shut" => to = "closed"
    <3>1. CASE StackConnects \/ StackBreaks \/ ServerHangsUp \/ StackCloses
      <4>1. PICK s \in Socket, to \in {"up", "closed", "half"}, m \in Message :
              /\ socks[s] \in {"connecting", "up", "shut"} /\ Changes(s, to) /\ Posts(m)
              /\ socks[s] = "shut" => to = "closed"
              /\ m.id = s /\ (m.ev = "CONNECTED" => socks[s] = "connecting")
        BY <3>1, MessageTypes DEF StackConnects, StackBreaks, ServerHangsUp, StackCloses
      <4>2. socks'[s] = to
        BY <4>1 DEF Changes, TypeOK
      <4> QED
        BY <4>1, <4>2 DEF Mute
    <3>2. CASE StackReceives \/ StackHasRoom
      <4>1. PICK s \in Socket, m \in Message :
              /\ socks[s] = "up" /\ Posts(m) /\ m.id = s /\ m.ev # "CONNECTED"
              /\ UNCHANGED socks
        BY <3>2, MessageTypes DEF StackReceives, StackHasRoom, phone
      <4> QED
        BY <4>1 DEF Mute
    <3>3. CASE ResolverAnswers \/ GprsUp
      <4>1. PICK m \in Message : Posts(m) /\ m.ev \notin OwnEvents /\ UNCHANGED socks
        BY <3>3, MessageTypes DEF ResolverAnswers, GprsUp, OwnEvents, TypeOK
      <4> QED
        BY <4>1 DEF OwnEvents
    <3> QED
      BY <1>5, <3>1, <3>2, <3>3 DEF Phone
  <2>2. \A s \in Socket : /\ Live(s)' => Live(s)
                          /\ socks[s] \notin Mute => socks'[s] \notin Mute
                          /\ socks'[s] \in {"open", "connecting"} =>
                               socks[s] \in {"open", "connecting"}
    BY <2>1 DEF Changes, Live, Mute, TypeOK
  <2>3. ToldStays
    BY <2>2 DEF ToldStays
  <2>4. m.ev = "CONNECTED" => socks[m.id] \in Mute
    BY <2>1 DEF Mute
  <2>5. Untold' /\ Ordered'
    <3>1. CASE UNCHANGED inbox
      BY <1>1, <2>3, <3>1, FreshKeeps
    <3>2. CASE inbox' = Append(inbox, m)
      BY <1>1, <2>1, <2>3, <2>4, <3>2, FreshGains
    <3> QED
      BY <2>1, <3>1, <3>2 DEF Posts
  <2>6. \A i \in DOMAIN inbox' : inbox'[i].ev = "CONNECTED" =>
          \/ socks[inbox'[i].id] = "connecting"
          \/ \E j \in DOMAIN inbox : inbox[j] = inbox'[i]
    <3>1. CASE UNCHANGED inbox
      BY <3>1
    <3>2. CASE inbox' = Append(inbox, m)
      BY <2>1, <3>2, Added DEF TypeOK
    <3> QED
      BY <2>1, <3>1, <3>2 DEF Posts
  <2>7. Pending' => Pending
    BY <1>1, <2>2, <2>6, PendingBack DEF TypeOK
  <2> QED
    BY <1>3, <2>2, <2>5, <2>7
<1> QED
  BY <1>4, <1>5

LEMMA FreshStarts == Init => FreshInv
<1> SUFFICES ASSUME Init
             PROVE  FreshInv
  OBVIOUS
<1>1. sock = NoSock /\ inbox = <<>> /\ jobs = <<>> /\ hpc = "idle"
  BY DEF Init
<1> QED
  BY <1>1 DEF FreshInv, FreshJobs, Untold, Ordered, Behind, Early, Pending

LEMMA FreshStays == TypeOK /\ OneInv /\ FreshInv /\ [Next]_vars => FreshInv'
<1> SUFFICES ASSUME TypeOK, OneInv, FreshInv, [Next]_vars
             PROVE  FreshInv'
  OBVIOUS
<1>1. CASE HELPER
  BY <1>1, CreateFresh, OtherFresh DEF HELPER, OtherJobs
<1>2. CASE UNCHANGED vars
  <2>1. UNCHANGED <<sock, sendq, socks, inbox, jobs, hpc, alive, odd>>
    BY <1>2 DEF vars, daemon, phone, hist
  <2>2. Untold' /\ Ordered'
    BY <2>1 DEF FreshInv, Untold, Ordered, Mute
  <2>3. FreshJobs' <=> FreshJobs
    BY <2>1 DEF FreshJobs, Behind, NoLeft, Early, Pending, Live
  <2> QED
    BY <2>1, <2>2, <2>3 DEF FreshInv
<1> QED
  BY <1>1, <1>2, AskedFresh, MessagesFresh, PhoneFresh DEF Next, Asked

-----------------------------------------------------------------------------
\* Every variable of the connection has its type: no job, message or state of a
\* socket but those of the code comes up.
THEOREM ConnTypes == Spec => []TypeOK
  BY TypesStart, TypesStay, PTL DEF Spec

\* "connected" is said of a socket that is, or of one whose end is on its way
\* (MailDaemon/main.c:747, 940, 988), whatever fails and however often, unless a
\* message of the socket overtakes create_connect or two connections are made at once.
THEOREM ConnectedIsSocketAlways == Spec => []ConnectedIsSocket
<1>1. Init => StateInv
  BY DEF Init, StateInv, ConnectedIsSocket
<1>2. TypeOK /\ StateInv /\ [Next]_vars => (TypeOK /\ StateInv)'
  BY TypesStay, StateStays
<1>3. StateInv => ConnectedIsSocket
  BY DEF StateInv
<1> QED
  BY <1>1, <1>2, <1>3, TypesStart, PTL DEF Spec

\* When the daemon is gone its sockets are closed, whatever HELPER was doing when the
\* user closed it, and however many jobs stood before those of maincsm_onclose.
THEOREM NothingLeftOpenAlways == Spec => []NothingLeftOpen
<1>1. Init => KillInv
  BY DEF Init, KillInv
<1>2. TypeOK /\ OneInv /\ KillInv /\ [Next]_vars => (TypeOK /\ OneInv /\ KillInv)'
  BY TypesStay, OneStays, KillStays
<1>3. TypeOK /\ KillInv => NothingLeftOpen
  BY DEF TypeOK, SocketStates, KillInv, NothingLeftOpen, NoneLive, Live
<1> QED
  BY <1>1, <1>2, <1>3, TypesStart, OneStarts, PTL DEF Spec

\* A socket is let go only when the stack has closed it or been told to: none is lost
\* while it is connected to the server, for any number of sockets, checks and faults.
THEOREM AbandonsOnlyClosedAlways == Spec => AbandonsOnlyClosed
<1>1. TypeOK /\ OneInv /\ [Next]_vars => (TypeOK /\ OneInv)'
  BY TypesStay, OneStays
<1>2. TypeOK /\ OneInv /\ [Next]_vars
        => [sock # NoSock /\ sock' # sock =>
              socks'[sock] \in {"shut", "closed"} \/ "over" \in odd]_vars
  <2> SUFFICES ASSUME TypeOK, OneInv, Next, sock # NoSock, sock' # sock
               PROVE  socks'[sock] \in {"shut", "closed"} \/ "over" \in odd
    OBVIOUS
  <2>1. sock \in Socket /\ socks[sock] # "none"
    BY DEF TypeOK, OneInv, SocketInv
  <2>2. CASE OpensSocket
    BY <2>2 DEF OpensSocket, OneInv, SingleInv
  <2>3. CASE NoSocketLeft
    BY <2>1, <2>3, AbortedTypes DEF NoSocketLeft
  <2>4. CASE CannotConnect
    BY <2>1, <2>4 DEF CannotConnect, TypeOK
  <2>5. CASE ENIP_SOCK_CLOSED
    <3>1. /\ inbox # <<>> /\ inbox' = Tail(inbox) /\ Head(inbox).ev = "CLOSED"
          /\ Head(inbox).id = sock /\ UNCHANGED socks
      BY <2>5 DEF ENIP_SOCK_CLOSED, HandlesOwn, Handles, phone
    <3> QED
      BY <3>1, Loses DEF OneInv, SocketInv
  <2>6. CASE HELPER
    <3>1. OtherJobs => sock' = sock
      BY OtherIs
    <3> QED
      BY <2>2, <2>3, <2>4, <2>6, <3>1 DEF HELPER, OtherJobs, create_connect, CreateBegins,
         ChecksGprs, GoesOffline, NameFound, NamePending, NameError, NameNotFound, Connecting,
         SetsState, daemon
  <2>7. CASE maincsm_onmessage
    BY <2>5, <2>7 DEF maincsm_onmessage, IPC_CHECK_MAILBOX, IPC_STOP_CHECKING,
       LMAN_DISCONNECT_IND, LMAN_CONNECT_CNF, ENIP_DNR_HOST_BY_NAME, ENIP_SOCK_CONNECTED,
       ENIP_SOCK_DATA_READ, ENIP_BUFFER_FREE, ENIP_SOCK_REMOTE_CLOSED, NotOurs, daemon
  <2>8. CASE Asked \/ Phone
    BY <2>8 DEF Asked, Asks, PressesStop, do_reconnect, Closes, Phone, StackConnects,
       StackBreaks, StackReceives, StackHasRoom, ServerHangsUp, StackCloses, ResolverAnswers,
       GprsUp, GprsDown, daemon
  <2> QED
    BY <2>6, <2>7, <2>8 DEF Next, Asked
<1> QED
  BY <1>1, <1>2, TypesStart, OneStarts, PTL DEF Spec, AbandonsOnlyClosed

\* A session begins with nothing of an earlier one: when the connection is reported, HELPER
\* is at rest, none of its jobs but end_connect is left, and no command waits for a socket
\* that could carry it, however the messages and jobs of the sessions before interleaved.
THEOREM FreshSessionAlways == Spec => FreshSession
<1>1. Init => StateInv /\ KillInv
  BY DEF Init, StateInv, ConnectedIsSocket, KillInv
<1> DEFINE Inv == TypeOK /\ OneInv /\ KillInv /\ StateInv /\ FreshInv
<1>2. Inv /\ [Next]_vars => Inv'
  BY TypesStay, OneStays, KillStays, StateStays, FreshStays
<1>3. Inv /\ [Next]_vars
        => [state # 2 /\ state' = 2 /\ "over" \notin odd =>
              /\ hpc = "idle" /\ Range(jobs) \subseteq {"end_connect"}
              /\ sendq => socks[sock] \notin {"up", "half"}]_vars
  <2> SUFFICES ASSUME TypeOK, OneInv, KillInv, StateInv, FreshInv, Next,
                      state # 2, state' = 2, "over" \notin odd
               PROVE  /\ hpc = "idle" /\ Range(jobs) \subseteq {"end_connect"}
                      /\ sendq => socks[sock] \notin {"up", "half"}
    OBVIOUS
  <2>1. ENIP_SOCK_CONNECTED
    <3>1. OtherJobs => state' = state
      BY OtherIs
    <3>2. HELPER => state' # 2
      BY <3>1 DEF HELPER, OtherJobs, create_connect, CreateBegins, ChecksGprs, GoesOffline,
         NameFound, NamePending, NameError, NameNotFound, OpensSocket, NoSocketLeft,
         Connecting, CannotConnect, SetsState, daemon
    <3>3. Asked \/ Phone => state' = state
      BY DEF Asked, Asks, PressesStop, do_reconnect, Closes, Phone, StackConnects,
         StackBreaks, StackReceives, StackHasRoom, ServerHangsUp, StackCloses,
         ResolverAnswers, GprsUp, GprsDown, daemon
    <3>4. maincsm_onmessage /\ ~ENIP_SOCK_CONNECTED => state' # 2
      BY DEF maincsm_onmessage, IPC_CHECK_MAILBOX, IPC_STOP_CHECKING, LMAN_DISCONNECT_IND,
         LMAN_CONNECT_CNF, ENIP_DNR_HOST_BY_NAME, ENIP_SOCK_DATA_READ, ENIP_BUFFER_FREE,
         ENIP_SOCK_REMOTE_CLOSED, ENIP_SOCK_CLOSED, NotOurs, daemon
    <3> QED
      BY <3>2, <3>3, <3>4 DEF Next, Asked
  <2>2. /\ alive = TRUE /\ inbox # <<>> /\ Head(inbox).ev = "CONNECTED"
        /\ Head(inbox).id = sock /\ state = 1
    BY <2>1 DEF ENIP_SOCK_CONNECTED, HandlesOwn, Handles, TypeOK
  <2>3. /\ 1 \in DOMAIN inbox /\ inbox[1].ev = "CONNECTED" /\ inbox[1].id = sock
        /\ inbox[1] \in Message
    BY <2>2, Taken DEF TypeOK
  <2>4. sock # NoSock
    BY <2>3, Sockets DEF Message
  <2>5. Pending
    BY <2>3, <2>4 DEF Pending
  <2>6. NoLeft /\ (sendq = TRUE => ~Live(sock)) /\ ~Posted
    BY <2>2, <2>4, <2>5 DEF FreshInv, FreshJobs, OneInv, SingleInv
  <2>7. hpc = "idle"
    BY <2>2, <2>4 DEF OneInv, SingleInv, StateInv, KillInv
  <2>8. \A i \in DOMAIN jobs : jobs[i] = "end_connect"
    <3>1. \A i \in DOMAIN jobs : jobs[i] \in Jobs
      BY DEF TypeOK
    <3> QED
      BY <2>6, <3>1 DEF Jobs, Left, NoLeft, Posted
  <2>9. Range(jobs) \subseteq {"end_connect"}
    BY <2>8 DEF Range
  <2> QED
    BY <2>6, <2>7, <2>9 DEF Live, TypeOK
<1> QED
  BY <1>1, <1>2, <1>3, TypesStart, OneStarts, FreshStarts, PTL DEF Spec, FreshSession
=============================================================================
