------------------------------ MODULE MailConn ------------------------------
(***************************************************************************)
(* The connection of ARM/MailClient/MailDaemon: who makes it, who ends it, *)
(* and who may touch it when.                                              *)
(*                                                                         *)
(* Two processes of the phone share the daemon's variables.  The MMI       *)
(* process runs maincsm_onmessage, one message at a time, and the timer    *)
(* procedure; it hands everything that may block to the HELPER process     *)
(* with SUBPROC, which runs one job after the other.  create_connect is    *)
(* cut where it reads or writes what the MMI process writes or reads.      *)
(*                                                                         *)
(* The TCP stack, the resolver, GPRS and the user are external.  The       *)
(* dialogue itself is in MailPop3, the bytes of the send queue are in      *)
(* MailSend; here get_answer is known by what it does to the connection.   *)
(***************************************************************************)
EXTENDS Integers, Sequences, Functions

CONSTANTS
  ByAddress,  \* POP3_ADRESS is an IP address: no name to look up
  MaxSock,    \* bound: sockets created
  MaxAsk,     \* bound: checks asked for by the viewer or by SMS
  MaxStop,    \* bound: "Stop" pressed
  MaxGprs,    \* bound: times GPRS goes down
  MaxData,    \* bound: arrivals of data
  MaxFault,   \* bound: calls that fail or are put off, connections that break
  MaxAll      \* bound: all of these but the sockets together

ASSUME FlagAssumption == ByAddress \in BOOLEAN
ASSUME BoundAssumption ==
  {MaxSock, MaxAsk, MaxStop, MaxGprs, MaxData, MaxFault, MaxAll} \subseteq Nat

VARIABLES
  \* the daemon
  sock,      \* sock, NoSock for -1
  state,     \* pop_stat.connect_state
  sendq,     \* sendq_p # NULL
  online,    \* is_gprs_online
  dnrId,     \* DNR_ID
  dnrTries,  \* DNR_TRIES
  alive,     \* the daemon's CSM exists
  \* its two processes
  timer,     \* reconnect_tmr is running
  inbox,     \* messages for the MMI process
  jobs,      \* SUBPROC: jobs for HELPER
  hpc,       \* where HELPER is inside its job
  \* the phone
  socks,     \* the sockets: "none", "open", "connecting", "up", "half", "shut", "closed"
  gprs,      \* IsGPRSEnabled
  lookups,   \* names being looked up, by id
  used,      \* how often each bounded thing has happened
  waiting,   \* the last attempt has ended with "Wait for GPRS up!"
  odd        \* what has happened to try the connection

daemon == <<sock, state, sendq, online, dnrId, dnrTries, alive>>
phone  == <<socks, gprs, lookups>>
hist   == <<waiting, odd>>
vars   == <<daemon, timer, inbox, jobs, hpc, phone, used, hist>>

-----------------------------------------------------------------------------
NoSock == -1
Socket == 1..MaxSock
Lookup == 1..(MaxFault + 1)
TRIES  == 3

Jobs == {"create_connect", "get_answer", "end_connect", "end_socket",
         "send_str", "ClearSendQ", "ElfKiller"}
Message == [ev : {"CONNECTED", "DATA_READ", "BUFFER_FREE", "REMOTE_CLOSED",
                  "CLOSED"}, id : Socket]
           \cup [ev : {"DNR"}, id : Lookup]
           \cup [ev : {"CHECK", "STOP", "LMAN_CONNECT", "LMAN_DISCONNECT"}, id : {0}]
Msg(ev, id) == [ev |-> ev, id |-> id]

Bound == [ask |-> MaxAsk, stop |-> MaxStop, gprs |-> MaxGprs,
          data |-> MaxData, fault |-> MaxFault]
Spent == FoldFunction(+, 0, used)
Once(what) == /\ used[what] < Bound[what] /\ Spent < MaxAll
              /\ used' = [used EXCEPT ![what] = @ + 1]
Notes(what, so) == odd' = IF so THEN odd \cup {what} ELSE odd

Live(s) == socks[s] \in {"open", "connecting", "up", "half"}

\* end_socket: closesocket makes the stack report ENIP_SOCK_CLOSED in time.
Shut(s) == IF s # NoSock /\ Live(s) THEN [socks EXCEPT ![s] = "shut"] ELSE socks

SUBPROC(job) == jobs' = Append(jobs, job)

-----------------------------------------------------------------------------
(* HELPER: create_connect.                                                 *)

Starts(job) == hpc = "idle" /\ jobs # <<>> /\ Head(jobs) = job /\ jobs' = Tail(jobs)

\* Broken: the queue of before is kept.
CreateKeepsQueue ==
  /\ Starts("create_connect")
  /\ state' = 0 /\ timer' = FALSE
  /\ hpc' = "gprs" /\ waiting' = FALSE
  /\ UNCHANGED <<sock, sendq, online, dnrId, dnrTries, alive, inbox, phone, used, odd>>

CreateBegins ==
  /\ Starts("create_connect")
  /\ state' = 0 /\ timer' = FALSE /\ sendq' = FALSE
  /\ hpc' = "gprs" /\ waiting' = FALSE
  /\ UNCHANGED <<sock, online, dnrId, dnrTries, alive, inbox, phone, used, odd>>

ChecksGprs ==
  /\ hpc = "gprs"
  /\ IF gprs THEN hpc' = "dnr" /\ dnrId' = 0
             ELSE hpc' = "offline" /\ UNCHANGED dnrId
  /\ UNCHANGED <<sock, state, sendq, online, dnrTries, alive, timer, inbox, jobs,
                 phone, used, hist>>

GoesOffline ==
  /\ hpc = "offline"
  /\ online' = FALSE /\ waiting' = TRUE /\ hpc' = "idle"
  /\ UNCHANGED <<sock, state, sendq, dnrId, dnrTries, alive, timer, inbox, jobs,
                 phone, used, odd>>

\* The address is known: the configuration or the resolver has it.
NameFound ==
  /\ hpc = "dnr"
  /\ hpc' = "socket"
  /\ dnrTries' = IF ByAddress THEN dnrTries ELSE 0
  /\ UNCHANGED <<sock, state, sendq, online, dnrId, alive, timer, inbox, jobs,
                 phone, used, hist>>

\* The resolver starts to look the name up and says so with an id.
NamePending ==
  /\ hpc = "dnr" /\ ~ByAddress
  /\ LET id == used["fault"] + 1
     IN  dnrId' = id /\ lookups' = lookups \cup {id}
  /\ hpc' = "idle"
  /\ Once("fault")
  /\ UNCHANGED <<sock, state, sendq, online, dnrTries, alive, timer, inbox, jobs,
                 socks, gprs, hist>>

\* An error is tried again in two minutes.
NameError ==
  /\ hpc = "dnr" /\ ~ByAddress
  /\ Once("fault")
  /\ timer' = TRUE /\ hpc' = "idle"
  /\ UNCHANGED <<daemon, inbox, jobs, phone, hist>>

\* No host, or one without an address, is not tried again.
NameNotFound ==
  /\ hpc = "dnr" /\ ~ByAddress
  /\ Once("fault")
  /\ dnrTries' \in {dnrTries - 1, dnrTries}
  /\ hpc' = "idle"
  /\ UNCHANGED <<sock, state, sendq, online, dnrId, alive, timer, inbox, jobs,
                 phone, hist>>

OpensSocket ==
  /\ hpc = "socket"
  /\ \E s \in Socket :
       /\ \A old \in Socket : socks[old] = "none" <=> old >= s
       /\ sock' = s
       /\ socks' = [socks EXCEPT ![s] = "open"]
  /\ state' = 0 /\ hpc' = "connect"
  /\ UNCHANGED <<sendq, online, dnrId, dnrTries, alive, timer, inbox, jobs, gprs,
                 lookups, used, hist>>

\* "Can't create socket, GPRS restarted!"
Aborted == [s \in Socket |-> IF socks[s] = "none" THEN "none" ELSE "closed"]
OwnClosed ==
  IF sock # NoSock /\ socks[sock] # "closed" THEN <<Msg("CLOSED", sock)>> ELSE <<>>

NoSocketLeft ==
  /\ hpc = "socket"
  /\ IF "none" \in Range(socks) THEN Once("fault") ELSE UNCHANGED used
  /\ state' = 0 /\ sock' = NoSock /\ hpc' = "idle"
  /\ gprs' = FALSE /\ socks' = Aborted
  /\ inbox' = IF alive THEN Append(inbox \o OwnClosed, Msg("LMAN_DISCONNECT", 0))
                       ELSE inbox
  /\ UNCHANGED <<sendq, online, dnrId, dnrTries, alive, timer, jobs, lookups,
                 hist>>

Connecting ==
  /\ hpc = "connect"
  /\ gprs /\ sock # NoSock /\ socks[sock] = "open"
  /\ socks' = [socks EXCEPT ![sock] = "connecting"]
  /\ hpc' = "state"
  /\ UNCHANGED <<daemon, timer, inbox, jobs, gprs, lookups, used, hist>>

\* The socket that cannot be connected is forgotten, not closed.
CannotNotClosed ==
  /\ hpc = "connect"
  /\ Once("fault")
  /\ sock' = NoSock /\ timer' = TRUE /\ hpc' = "idle"
  /\ UNCHANGED <<state, sendq, online, dnrId, dnrTries, alive, inbox, jobs, phone,
                 hist>>

CannotConnect ==
  /\ hpc = "connect"
  /\ IF gprs /\ sock # NoSock /\ socks[sock] = "open" THEN Once("fault")
                                                   ELSE UNCHANGED used
  /\ socks' = IF sock = NoSock THEN socks ELSE [socks EXCEPT ![sock] = "closed"]
  /\ sock' = NoSock /\ timer' = TRUE /\ hpc' = "idle"
  /\ UNCHANGED <<state, sendq, online, dnrId, dnrTries, alive, inbox, jobs, gprs,
                 lookups, hist>>

SetsState ==
  /\ hpc = "state"
  /\ state' = 1 /\ hpc' = "idle"
  /\ UNCHANGED <<sock, sendq, online, dnrId, dnrTries, alive, timer, inbox, jobs,
                 phone, used, hist>>

create_connect ==
  \/ CreateBegins \/ ChecksGprs \/ GoesOffline
  \/ NameFound \/ NamePending \/ NameError \/ NameNotFound
  \/ OpensSocket \/ NoSocketLeft \/ Connecting \/ CannotConnect \/ SetsState

-----------------------------------------------------------------------------
(* HELPER: the other jobs.                                                 *)

\* send_str hands the queue to the stack: all of it, or a part, or it fails.
Sends ==
  \/ sendq' = FALSE /\ UNCHANGED <<socks, used>>
  \/ sendq' = TRUE /\ Once("fault") /\ UNCHANGED socks
  \/ sendq' = TRUE /\ Once("fault") /\ socks' = Shut(sock)

\* With a queue already there a command is added to it, and nothing is sent.
Queues == sendq /\ UNCHANGED <<sendq, socks, used>>

\* A line of the dialogue: nothing, a command, or QUIT and the end; what came
\* before the server closed its side is still read.
get_answer ==
  /\ Starts("get_answer")
  /\ \/ UNCHANGED <<sendq, socks, used>>
     \/ /\ sock # NoSock /\ socks[sock] \in {"up", "half"}
        /\ \/ Queues
           \/ ~sendq /\ Sends
           \/ sendq' \in {sendq, TRUE} /\ socks' = Shut(sock) /\ UNCHANGED used
  /\ UNCHANGED <<sock, state, online, dnrId, dnrTries, alive, timer, inbox, hpc,
                 gprs, lookups, hist>>

\* "Manually stopped": QUIT, on no socket at all it stays in the queue.
end_connect ==
  /\ Starts("end_connect")
  /\ sendq' \in IF sock = NoSock THEN {TRUE} ELSE {sendq, TRUE}
  /\ socks' = Shut(sock)
  /\ UNCHANGED <<sock, state, online, dnrId, dnrTries, alive, timer, inbox, hpc,
                 gprs, lookups, used, hist>>

end_socket ==
  /\ Starts("end_socket")
  /\ socks' = Shut(sock)
  /\ UNCHANGED <<daemon, timer, inbox, hpc, gprs, lookups, used, hist>>

\* send_str(0), after ENIP_BUFFER_FREE.
send_str ==
  /\ Starts("send_str")
  /\ IF sendq THEN Sends ELSE UNCHANGED <<sendq, socks, used>>
  /\ UNCHANGED <<sock, state, online, dnrId, dnrTries, alive, timer, inbox, hpc,
                 gprs, lookups, hist>>

ClearSendQ ==
  /\ Starts("ClearSendQ")
  /\ sendq' = FALSE
  /\ UNCHANGED <<sock, state, online, dnrId, dnrTries, alive, timer, inbox, hpc,
                 phone, used, hist>>

\* The daemon's memory is given back; nothing of it runs any more.
ElfKiller ==
  /\ Starts("ElfKiller")
  /\ hpc' = "killed"
  /\ UNCHANGED <<daemon, timer, inbox, phone, used, hist>>

HELPER ==
  \/ create_connect \/ get_answer \/ end_connect \/ end_socket \/ send_str
  \/ ClearSendQ \/ ElfKiller

-----------------------------------------------------------------------------
(* MMI: who asks, and the timer.                                           *)

\* Everything asked for so far has been dealt with.
Quiet == hpc = "idle" /\ jobs = <<>> /\ inbox = <<>> /\ lookups = {}

\* A connection is being made, or will be by what is under way.
Making == \/ hpc \notin {"idle", "killed"}
          \/ "create_connect" \in Range(jobs)
          \/ lookups # {} \/ \E i \in DOMAIN inbox : inbox[i].ev = "DNR"

\* The viewer, or an SMS from the number in SMSFORWARD.
Asks ==
  /\ alive
  /\ Once("ask")
  /\ inbox' = Append(inbox, Msg("CHECK", 0))
  /\ UNCHANGED <<daemon, timer, jobs, hpc, phone, hist>>

PressesStop ==
  /\ alive
  /\ Once("stop")
  /\ inbox' = Append(inbox, Msg("STOP", 0))
  /\ UNCHANGED <<daemon, timer, jobs, hpc, phone, hist>>

\* do_reconnect, two minutes later: the messages of before have been read.
do_reconnect ==
  /\ alive /\ timer /\ Quiet
  /\ timer' = FALSE
  /\ IF online THEN dnrTries' = TRIES /\ SUBPROC("create_connect")
               ELSE UNCHANGED <<dnrTries, jobs>>
  /\ UNCHANGED <<sock, state, sendq, online, dnrId, alive, inbox, hpc, phone, used,
                 hist>>

\* The socket is closed at once, before the jobs that are still to run.
ClosesAtOnce ==
  /\ alive
  /\ alive' = FALSE /\ timer' = FALSE
  /\ socks' = Shut(sock)
  /\ jobs' = jobs \o <<"ClearSendQ", "ElfKiller">>
  /\ UNCHANGED <<sock, state, sendq, online, dnrId, dnrTries, inbox, hpc, gprs,
                 lookups, used, hist>>

\* maincsm_onclose.
Closes ==
  /\ alive
  /\ alive' = FALSE /\ timer' = FALSE
  /\ jobs' = jobs \o <<"end_socket", "ClearSendQ", "ElfKiller">>
  /\ UNCHANGED <<sock, state, sendq, online, dnrId, dnrTries, inbox, hpc, phone,
                 used, hist>>

-----------------------------------------------------------------------------
(* MMI: maincsm_onmessage.                                                 *)

Handles(ev) ==
  /\ alive
  /\ inbox # <<>> /\ Head(inbox).ev = ev
  /\ inbox' = Tail(inbox)

\* Refused ("Can't connect!") unless the daemon is disconnected.
Ready == state = 0 /\ sock = NoSock

IPC_CHECK_MAILBOX ==
  /\ Handles("CHECK")
  /\ IF Ready
     THEN /\ timer' = FALSE /\ dnrTries' = TRIES /\ SUBPROC("create_connect")
          /\ Notes("over", Making)
     ELSE UNCHANGED <<timer, dnrTries, jobs, odd>>
  /\ UNCHANGED <<sock, state, sendq, online, dnrId, alive, hpc, phone, used, waiting>>

IPC_STOP_CHECKING ==
  /\ Handles("STOP")
  /\ SUBPROC("end_connect")
  /\ UNCHANGED <<daemon, timer, hpc, phone, used, hist>>

\* A message of our socket, maybe before create_connect has set connect_state.
HandlesOwn(ev) ==
  /\ Handles(ev) /\ Head(inbox).id = sock
  /\ Notes("early", hpc = "state")
  /\ UNCHANGED waiting

LMAN_DISCONNECT_IND ==
  /\ Handles("LMAN_DISCONNECT")
  /\ online' = FALSE
  /\ UNCHANGED <<sock, state, sendq, dnrId, dnrTries, alive, timer, jobs, hpc, phone,
                 used, hist>>

\* GPRS is on again, but nothing is started.
ConnectNoTimer ==
  /\ Handles("LMAN_CONNECT")
  /\ online' = TRUE
  /\ UNCHANGED <<sock, state, sendq, dnrId, dnrTries, alive, timer, jobs, hpc, phone,
                 used, hist>>

LMAN_CONNECT_CNF ==
  /\ Handles("LMAN_CONNECT")
  /\ online' = TRUE /\ timer' = TRUE
  /\ odd' = odd \cup (IF Making \/ sock # NoSock THEN {"over"} ELSE {})
                \cup (IF hpc \in {"gprs", "offline"} THEN {"offline"} ELSE {})
  /\ UNCHANGED <<sock, state, sendq, dnrId, dnrTries, alive, jobs, hpc, phone, used,
                 waiting>>

ENIP_DNR_HOST_BY_NAME ==
  /\ Handles("DNR")
  /\ IF Head(inbox).id = dnrId /\ dnrTries # 0 THEN SUBPROC("create_connect")
                                               ELSE UNCHANGED jobs
  /\ UNCHANGED <<daemon, timer, hpc, phone, used, hist>>

\* InitMailDB is here; "Illegal message ENIP_SOCK_CONNECTED!" otherwise.
ENIP_SOCK_CONNECTED ==
  /\ HandlesOwn("CONNECTED")
  /\ state' = IF state = 1 THEN 2 ELSE state
  /\ UNCHANGED <<sock, sendq, online, dnrId, dnrTries, alive, timer, jobs, hpc, phone,
                 used>>

\* "Illegal message ENIP_DATA_READ" when not connected.
ENIP_SOCK_DATA_READ ==
  /\ HandlesOwn("DATA_READ")
  /\ IF state >= 2 THEN SUBPROC("get_answer") ELSE UNCHANGED jobs
  /\ UNCHANGED <<daemon, timer, hpc, phone, used>>

\* Both of ENIP_BUFFER_FREE and ENIP_BUFFER_FREE1.
ENIP_BUFFER_FREE ==
  /\ HandlesOwn("BUFFER_FREE")
  /\ SUBPROC(IF sendq THEN "send_str" ELSE "end_socket")
  /\ UNCHANGED <<daemon, timer, hpc, phone, used>>

\* The daemon waits for the stack to close its end too.
RemoteClosedIgnored ==
  /\ HandlesOwn("REMOTE_CLOSED")
  /\ UNCHANGED <<daemon, timer, jobs, hpc, phone, used>>

ENIP_SOCK_REMOTE_CLOSED ==
  /\ HandlesOwn("REMOTE_CLOSED")
  /\ IF state # 0 THEN SUBPROC("end_socket") ELSE UNCHANGED jobs
  /\ UNCHANGED <<daemon, timer, hpc, phone, used>>

\* connect_state is not reset.
ClosedStillConnected ==
  /\ HandlesOwn("CLOSED")
  /\ sock' = NoSock
  /\ SUBPROC("ClearSendQ")
  /\ UNCHANGED <<state, sendq, online, dnrId, dnrTries, alive, timer, hpc, phone, used>>

ENIP_SOCK_CLOSED ==
  /\ HandlesOwn("CLOSED")
  /\ state' = 0 /\ sock' = NoSock
  /\ SUBPROC("ClearSendQ")
  /\ UNCHANGED <<sendq, online, dnrId, dnrTries, alive, timer, hpc, phone, used>>

\* What is said of a socket that is not ours any more is not listened to.
NotOurs ==
  /\ alive
  /\ inbox # <<>> /\ Head(inbox).ev \in {"CONNECTED", "DATA_READ", "BUFFER_FREE",
                                        "REMOTE_CLOSED", "CLOSED"}
  /\ Head(inbox).id # sock
  /\ inbox' = Tail(inbox)
  /\ UNCHANGED <<daemon, timer, jobs, hpc, phone, used, hist>>

maincsm_onmessage ==
  \/ IPC_CHECK_MAILBOX \/ IPC_STOP_CHECKING
  \/ LMAN_DISCONNECT_IND \/ LMAN_CONNECT_CNF \/ ENIP_DNR_HOST_BY_NAME
  \/ ENIP_SOCK_CONNECTED \/ ENIP_SOCK_DATA_READ \/ ENIP_BUFFER_FREE
  \/ ENIP_SOCK_REMOTE_CLOSED \/ ENIP_SOCK_CLOSED \/ NotOurs

-----------------------------------------------------------------------------
(* The phone: TCP stack, resolver, GPRS.                                   *)

Posts(m) == inbox' = IF alive THEN Append(inbox, m) ELSE inbox

Changes(s, to) == socks' = [socks EXCEPT ![s] = to]

StackConnects == \E s \in Socket :
  /\ socks[s] = "connecting" /\ Changes(s, "up")
  /\ Posts(Msg("CONNECTED", s))
  /\ UNCHANGED <<daemon, timer, jobs, hpc, gprs, lookups, used, hist>>

\* The connection is refused, or breaks.
StackBreaks == \E s \in Socket :
  /\ socks[s] \in {"connecting", "up"} /\ Changes(s, "closed")
  /\ Once("fault")
  /\ Posts(Msg("CLOSED", s))
  /\ UNCHANGED <<daemon, timer, jobs, hpc, gprs, lookups, hist>>

StackReceives == \E s \in Socket :
  /\ socks[s] = "up" /\ Once("data")
  /\ Posts(Msg("DATA_READ", s))
  /\ UNCHANGED <<daemon, timer, jobs, hpc, phone, hist>>

\* There is room again for what could not be sent: this is said once.
StackHasRoom == \E s \in Socket :
  /\ socks[s] = "up" /\ sendq /\ "send_str" \notin Range(jobs)
  /\ Msg("BUFFER_FREE", s) \notin Range(inbox)
  /\ Posts(Msg("BUFFER_FREE", s))
  /\ UNCHANGED <<daemon, timer, jobs, hpc, phone, used, hist>>

\* The server has hung up; the daemon has still to close its end.
ServerHangsUp == \E s \in Socket :
  /\ socks[s] = "up" /\ Changes(s, "half")
  /\ Posts(Msg("REMOTE_CLOSED", s))
  /\ UNCHANGED <<daemon, timer, jobs, hpc, gprs, lookups, used, hist>>

StackCloses == \E s \in Socket :
  /\ socks[s] = "shut" /\ Changes(s, "closed")
  /\ Posts(Msg("CLOSED", s))
  /\ UNCHANGED <<daemon, timer, jobs, hpc, gprs, lookups, used, hist>>

ResolverAnswers == \E id \in lookups :
  /\ lookups' = lookups \ {id}
  /\ Posts(Msg("DNR", id))
  /\ UNCHANGED <<daemon, timer, jobs, hpc, socks, gprs, used, hist>>

\* With GPRS go the connections.
GprsDown ==
  /\ gprs /\ Once("gprs")
  /\ gprs' = FALSE /\ socks' = Aborted
  /\ inbox' = IF alive THEN Append(inbox, Msg("LMAN_DISCONNECT", 0)) \o OwnClosed
                       ELSE inbox
  /\ UNCHANGED <<daemon, timer, jobs, hpc, lookups, hist>>

GprsUp ==
  /\ ~gprs
  /\ gprs' = TRUE
  /\ Posts(Msg("LMAN_CONNECT", 0))
  /\ UNCHANGED <<daemon, timer, jobs, hpc, socks, lookups, used, hist>>

Phone ==
  \/ StackConnects \/ StackBreaks \/ StackReceives \/ StackHasRoom
  \/ ServerHangsUp \/ StackCloses \/ ResolverAnswers \/ GprsDown \/ GprsUp

-----------------------------------------------------------------------------
Init ==
  /\ sock = NoSock /\ state = 0 /\ sendq = FALSE /\ online = TRUE
  /\ dnrId = 0 /\ dnrTries = TRIES /\ alive = TRUE
  /\ timer = FALSE /\ inbox = <<>> /\ jobs = <<>> /\ hpc = "idle"
  /\ socks = [s \in Socket |-> "none"] /\ gprs \in BOOLEAN /\ lookups = {}
  /\ used = [what \in DOMAIN Bound |-> 0] /\ waiting = FALSE
  /\ odd = {}

Next ==
  \/ HELPER \/ maincsm_onmessage
  \/ Asks \/ PressesStop \/ do_reconnect \/ Closes
  \/ Phone

Spec == Init /\ [][Next]_vars

\* HELPER runs its jobs, messages are read, the stack closes what it is told
\* to close, a connection is not for ever connecting, a name not for ever looked
\* up, and a POP3 server hangs up on a client that says nothing.
PhoneFairness ==
  /\ WF_vars(HELPER) /\ WF_vars(maincsm_onmessage)
  /\ WF_vars(StackCloses) /\ WF_vars(StackConnects \/ StackBreaks)
  /\ WF_vars(ServerHangsUp) /\ WF_vars(ResolverAnswers)

FairSpec == Spec /\ PhoneFairness /\ WF_vars(do_reconnect)

-----------------------------------------------------------------------------
HelperStates == {"idle", "gprs", "offline", "dnr", "socket", "connect", "state",
                 "killed"}
SocketStates == {"none", "open", "connecting", "up", "half", "shut", "closed"}

TypeOK ==
  /\ sock \in Socket \cup {NoSock} /\ state \in 0..2
  /\ sendq \in BOOLEAN /\ online \in BOOLEAN /\ alive \in BOOLEAN
  /\ timer \in BOOLEAN /\ gprs \in BOOLEAN /\ waiting \in BOOLEAN
  /\ dnrId \in Lookup \cup {0} /\ dnrTries \in Int
  /\ inbox \in Seq(Message) /\ jobs \in Seq(Jobs) /\ hpc \in HelperStates
  /\ socks \in [Socket -> SocketStates] /\ lookups \subseteq Lookup
  /\ used \in [DOMAIN Bound -> Nat]

\* A socket is let go only when the stack has closed it: none is lost while it
\* is still connected to the server.
AbandonsOnlyClosed ==
  [][sock # NoSock /\ sock' # sock =>
       socks'[sock] \in {"shut", "closed"} \/ "over" \in odd]_vars

\* "connected" is said of a socket that is, or of one whose end is on its way.
ConnectedIsSocket == state # 0 => sock # NoSock \/ odd \cap {"early", "over"} # {}

\* A session starts from nothing, as MailPop3 takes for granted in Connects: when the
\* connection is reported, HELPER has no job of an earlier session left that would
\* receive, send or hang up, and no command of before waits to go out on it.
FreshSession ==
  [][state # 2 /\ state' = 2 /\ "over" \notin odd =>
       /\ hpc = "idle" /\ Range(jobs) \subseteq {"end_connect"}
       /\ sendq => socks[sock] \notin {"up", "half"}]_vars

\* "Wait for GPRS up!" (main.c:667): once GPRS is up for good, a check that was
\* put off for it is taken up again.
GprsResumes ==
  <>[](gprs /\ alive) => (waiting ~> ~waiting \/ odd \cap {"offline", "over"} # {})

\* The daemon does not stay busy: it becomes ready for the next check.
ReadyAgain == ~Ready ~> Ready \/ ~alive \/ odd \cap {"early", "over"} # {}

\* When the daemon is gone its sockets are closed, whatever HELPER was doing when
\* it was told to close: the jobs of maincsm_onclose come after it.
NothingLeftOpen ==
  hpc = "killed" /\ "over" \notin odd =>
    \A s \in Socket : socks[s] \in {"none", "shut", "closed"}
=============================================================================
