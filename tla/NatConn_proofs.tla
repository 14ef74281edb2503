---------------------------- MODULE NatConn_proofs ----------------------------
(***************************************************************************)
(* The connection of NATICQ, for any number of sockets, packets, keys and  *)
(* faults: one connection at a time, and none that was told not to be.     *)
(*                                                                         *)
(* Neither is inductive.  That create_connect may overwrite sock rests on  *)
(* nothing being connected then: one job, one lookup, one answer of the    *)
(* resolver or the timer at a time (SingleInv), and none of them while a   *)
(* socket lives that is not closed first (LiveInv); these hold together    *)
(* with what a report of the stack says of its socket (SocketInv).  That   *)
(* "Disconnect" is kept to rests on there being nothing left that would    *)
(* connect (OffInv).                                                       *)
(* The second half is about what the server gets: the login first, and     *)
(* what it has been told to have arrived.                                  *)
(***************************************************************************)
EXTENDS NatConn, SequenceTheorems, TLAPS
-----------------------------------------------------------------------------
(* Types.                                                                  *)

Packets == [what : {"login", "other", "rest", "ack", "msg", "error", "bad"}, key : Nat]
Events  == {"PACKET", "CONNECTED", "DATA_READ", "BUFFER_FREE", "REMOTE_CLOSED", "CLOSED",
            "FREEMSG", "DNR", "LMAN_CONNECT", "LMAN_DISCONNECT"}
Messages == [ev : Events, id : Int, key : Nat]
Jobs == {"create_connect", "send_login", "other", "resend", "ClearSendQ", "end_socket",
         "get_answer", "ElfKiller"}
HelperStates == {"idle", "offline", "dnr", "connect", "state", "packet", "post", "killed"}
SocketStates == {"none", "open", "connecting", "up", "half", "shut", "closed"}
Heard == {"none", "part", "login", "in", "other"}

TypeOK ==
  /\ sock \in Socket \cup {NoSock} /\ state \in 0..3
  /\ dis \in BOOLEAN /\ timer \in BOOLEAN /\ alive \in BOOLEAN /\ gprs \in BOOLEAN
  /\ sendq \in Seq(Packets) /\ down \in Seq(Packets) /\ rb \in Seq(Packets)
  /\ hpc \in {"packet", "post"} => rb # <<>>
  /\ inbox \in Seq(Messages) /\ jobs \in Seq(Jobs) /\ hpc \in HelperStates
  /\ socks \in [Socket -> SocketStates] /\ heard \in [Socket -> Heard]
  /\ lookups \in SUBSET Nat /\ used \in [DOMAIN Bound -> Nat]

-----------------------------------------------------------------------------
(* One connection.                                                         *)

OnlyOurs  == \A s \in Socket : Live(s) => s = sock
NoneLive  == \A s \in Socket : ~Live(s)
Posted    == \E i \in DOMAIN jobs : jobs[i] = "create_connect"
Answered  == \E i \in DOMAIN inbox : inbox[i].ev = "DNR"
Creates   == hpc \in {"offline", "dnr", "connect", "state"}

OneAnswer ==
  \A i, j \in DOMAIN inbox : inbox[i].ev = "DNR" /\ inbox[j].ev = "DNR" => i = j
OneJob ==
  \A i, j \in DOMAIN jobs :
    jobs[i] = "create_connect" /\ jobs[j] = "create_connect" => i = j

\* Before a connection is made the one that there is is closed.
EndsFirst ==
  \A i \in DOMAIN jobs : jobs[i] = "create_connect" =>
    NoneLive \/ \E j \in 1..(i - 1) : jobs[j] = "end_socket"

\* A socket that is reported closed is.
ClosedIs ==
  \A i \in DOMAIN inbox : inbox[i].ev = "CLOSED" =>
    inbox[i].id \in Socket /\ socks[inbox[i].id] = "closed"

SocketInv == (sock # NoSock => socks[sock] # "none") /\ ClosedIs

\* There is one connection, and none where one is about to be made.
LiveInv ==
  /\ OnlyOurs
  /\ hpc = "dnr" \/ lookups # {} \/ Answered \/ timer = TRUE => NoneLive
  /\ EndsFirst

\* One connection is being made at a time.
SingleInv ==
  /\ Creates => ~Posted /\ lookups = {} /\ ~Answered
  /\ Posted => lookups = {} /\ ~Answered
  /\ lookups # {} => ~Answered
  /\ \A a, b \in lookups : a = b
  /\ OneAnswer /\ OneJob
  /\ timer = TRUE => hpc # "dnr" /\ lookups = {} /\ ~Answered

OneInv == SocketInv /\ ("over" \notin odd => LiveInv /\ SingleInv)

\* Nothing makes a connection that was told not to be.
OffInv ==
  dis /\ odd \cap {"off", "over", "zero"} = {} =>
    timer = FALSE /\ ~Creates /\ ~Posted /\ lookups = {} /\ ~Answered
-----------------------------------------------------------------------------
(* Sequences, the bounds and the packets.                                  *)

LEMMA Added ==
  ASSUME NEW S, NEW q \in Seq(S), NEW e \in S
  PROVE  /\ Append(q, e) \in Seq(S) /\ Len(Append(q, e)) = Len(q) + 1 /\ Len(q) \in Nat
         /\ \A i \in 1..Len(q) : Append(q, e)[i] = q[i]
         /\ Append(q, e)[Len(q) + 1] = e
  OBVIOUS

LEMMA Taken ==
  ASSUME NEW S, NEW q \in Seq(S), q # <<>>
  PROVE  /\ Tail(q) \in Seq(S) /\ Len(Tail(q)) = Len(q) - 1
         /\ Len(q) \in Nat \ {0} /\ Head(q) = q[1] /\ Head(q) \in S
         /\ \A i \in 1..(Len(q) - 1) : Tail(q)[i] = q[i + 1]
  OBVIOUS

LEMMA Counted ==
  ASSUME used \in [DOMAIN Bound -> Nat], NEW what \in DOMAIN Bound, Once(what)
  PROVE  used' \in [DOMAIN Bound -> Nat] /\ used'[what] \in Nat
  BY DEF Once

LEMMA Kinds == DOMAIN Bound = {"key", "gprs", "data", "say", "fault"}
  BY DEF Bound

LEMMA Sockets == Socket \subseteq Nat /\ NoSock \notin Socket /\ NoSock \in Int /\ 0 \notin Socket
  BY BoundAssumption DEF Socket, NoSock

LEMMA Closing ==
  ASSUME TypeOK
  PROVE  /\ Shut(sock) \in [Socket -> SocketStates]
         /\ \A s \in Socket : /\ Shut(sock)[s] \in {"open", "connecting", "up", "half"}
                                   => Live(s) /\ s # sock
                              /\ socks[s] = "closed" => Shut(sock)[s] = "closed"
                              /\ Shut(sock)[s] = "none" <=> socks[s] = "none"
  BY Sockets DEF TypeOK, Shut, Live, SocketStates

LEMMA SendsTypes ==
  ASSUME TypeOK, NEW q \in Seq(Packets), Sends(q)
  PROVE  /\ sendq' \in Seq(Packets) /\ heard' \in [Socket -> Heard]
         /\ used' \in [DOMAIN Bound -> Nat]
         /\ socks' = socks \/ socks' = Shut(sock)
<1>1. CASE /\ Usable
           /\ \E n \in 0..Len(q), cut \in BOOLEAN :
                /\ IF n < Len(q) THEN Once("fault") ELSE ~cut /\ UNCHANGED used
                /\ LET rest == SubSeq(q, n + 1, Len(q))
                   IN  sendq' = IF cut THEN [rest EXCEPT ![1].what = "rest"] ELSE rest
                /\ heard' = [heard EXCEPT ![sock] = Hears(@, q, n, cut)]
                /\ acked' = acked \cup ({q[i].key : i \in 1..n} \ {0})
           /\ UNCHANGED socks
  <2>1. PICK n \in 0..Len(q), cut \in BOOLEAN :
                /\ IF n < Len(q) THEN Once("fault") ELSE ~cut /\ UNCHANGED used
                /\ sendq' = IF cut THEN [SubSeq(q, n + 1, Len(q)) EXCEPT ![1].what = "rest"]
                                   ELSE SubSeq(q, n + 1, Len(q))
                /\ heard' = [heard EXCEPT ![sock] = Hears(@, q, n, cut)]
    BY <1>1
  <2>2. SubSeq(q, n + 1, Len(q)) \in Seq(Packets) /\ Len(SubSeq(q, n + 1, Len(q))) = Len(q) - n
    OBVIOUS
  <2>3. used' \in [DOMAIN Bound -> Nat]
    BY <2>1, Counted, Kinds DEF TypeOK
  <2>4. sendq' \in Seq(Packets)
    <3>1. CASE ~cut
      BY <3>1, <2>1, <2>2
    <3>2. CASE cut
      <4>1. n < Len(q)
        BY <3>2, <2>1
      <4> DEFINE rest == SubSeq(q, n + 1, Len(q))
      <4>2. rest \in Seq(Packets) /\ Len(rest) \in Nat \ {0} /\ 1 \in DOMAIN rest
        BY <4>1, <2>2
      <4>3. rest[1] \in Packets
        BY <4>2
      <4>4. [rest[1] EXCEPT !.what = "rest"] \in Packets
        BY <4>3 DEF Packets
      <4>5. sendq' = [rest EXCEPT ![1] = [rest[1] EXCEPT !.what = "rest"]]
        BY <3>2, <2>1, <4>2
      <4> HIDE DEF rest
      <4> QED
        BY <4>2, <4>4, <4>5, ExceptSeq
    <3> QED
      BY <3>1, <3>2
  <2>5. Hears(heard[sock], q, n, cut) \in Heard
    BY <1>1 DEF Hears, Heard, TypeOK, Usable
  <2>6. heard' \in [Socket -> Heard]
    BY <2>1, <2>5 DEF TypeOK
  <2> QED
    BY <1>1, <2>3, <2>4, <2>6
<1>2. CASE /\ IF Usable THEN Once("fault") ELSE UNCHANGED used
           /\ sendq' = q /\ socks' = Shut(sock)
           /\ UNCHANGED <<heard, acked>>
  BY <1>2, Counted, Kinds DEF TypeOK
<1> QED
  BY <1>1, <1>2 DEF Sends

LEMMA AnswerTypes ==
  ASSUME TypeOK, NEW st, NEW p \in Seq(Packets), SendAnswer(st, p)
  PROVE  /\ sendq' \in Seq(Packets) /\ heard' \in [Socket -> Heard]
         /\ used' \in [DOMAIN Bound -> Nat]
         /\ socks' = socks \/ socks' = Shut(sock)
<1>1. sendq \o p \in Seq(Packets)
  BY DEF TypeOK
<1> QED
  BY <1>1, SendsTypes DEF SendAnswer, TypeOK

LEMMA PostsTypes ==
  ASSUME TypeOK, NEW s, NEW m \in Messages, Posts(s, m)
  PROVE  inbox' \in Seq(Messages)
  BY DEF TypeOK, Posts

LEMMA MessageTypes ==
  ASSUME NEW ev \in Events, NEW id \in Int
  PROVE  Msg(ev, id) \in Messages
  BY DEF Msg, Messages

LEMMA ChangesTypes ==
  ASSUME TypeOK, NEW s \in Socket, NEW from, NEW to \in SocketStates, NEW ev \in Events,
         Changes(s, from, to, ev), used' \in [DOMAIN Bound -> Nat]
  PROVE  TypeOK'
<1>1. inbox' \in Seq(Messages)
  BY PostsTypes, MessageTypes, Sockets DEF Changes
<1>2. socks' \in [Socket -> SocketStates]
  BY DEF Changes, TypeOK
<1> QED
  BY <1>1, <1>2 DEF Changes, TypeOK, link, own

LEMMA StartsTypes ==
  ASSUME TypeOK, NEW job, Starts(job)
  PROVE  jobs' \in Seq(Jobs) /\ hpc = "idle"
  BY Taken DEF Starts, TypeOK

LEMMA CreateTypes == TypeOK /\ create_connect => TypeOK'
<1> SUFFICES ASSUME TypeOK, create_connect
             PROVE  TypeOK'
  OBVIOUS
<1>1. CASE CreateBegins
  <2>1. jobs' \in Seq(Jobs)
    BY <1>1, StartsTypes DEF CreateBegins
  <2>2. state' \in 0..3
    BY <1>1 DEF CreateBegins
  <2>5. timer' \in BOOLEAN
    BY <1>1 DEF CreateBegins
  <2>3. hpc' \in {"dnr", "offline"}
    BY <1>1 DEF CreateBegins
  <2>4. UNCHANGED <<sock, dis, sendq, alive, inbox, rb, phone, used>>
    BY <1>1 DEF CreateBegins
  <2> QED
    BY <2>1, <2>2, <2>3, <2>4, <2>5 DEF TypeOK, HelperStates, phone
<1>2. CASE GoesOffline
  BY <1>2 DEF GoesOffline, TypeOK, HelperStates, phone, link
<1>3. CASE NamePending
  <2>1. used' \in [DOMAIN Bound -> Nat] /\ used'["fault"] \in Nat
    BY <1>3, Counted, Kinds DEF NamePending, TypeOK
  <2> QED
    BY <1>3, <2>1 DEF NamePending, TypeOK, HelperStates, link
<1>4. CASE NameError
  <2>1. used' \in [DOMAIN Bound -> Nat]
    BY <1>4, Counted, Kinds DEF NameError, TypeOK
  <2> QED
    BY <1>4, <2>1 DEF NameError, TypeOK, HelperStates, link, phone, own
<1>5. CASE NameNotFound
  <2>1. used' \in [DOMAIN Bound -> Nat]
    BY <1>5, Counted, Kinds DEF NameNotFound, TypeOK
  <2> QED
    BY <1>5, <2>1 DEF NameNotFound, TypeOK, HelperStates, link, phone
<1>6. CASE OpensSocket
  BY <1>6 DEF OpensSocket, TypeOK, HelperStates, SocketStates
<1>7. CASE NoSocketLeft
  <2>1. used' \in [DOMAIN Bound -> Nat]
    BY <1>7, Counted, Kinds DEF NoSocketLeft, TypeOK
  <2>2. inbox' \in Seq(Messages)
    BY <1>7, MessageTypes DEF NoSocketLeft, TypeOK, Events
  <2>3. Aborted \in [Socket -> SocketStates]
    BY DEF Aborted, SocketStates
  <2> QED
    BY <1>7, <2>1, <2>2, <2>3 DEF NoSocketLeft, TypeOK, HelperStates
<1>8. CASE Connecting
  BY <1>8 DEF Connecting, TypeOK, HelperStates, SocketStates, link, own
<1>9. CASE CannotConnect
  <2>1. used' \in [DOMAIN Bound -> Nat]
    BY <1>9, Counted, Kinds DEF CannotConnect, TypeOK
  <2> QED
    BY <1>9, <2>1 DEF CannotConnect, TypeOK, HelperStates, SocketStates, own
<1>10. CASE SetsState
  BY <1>10 DEF SetsState, TypeOK, HelperStates, own, phone
<1> QED
  BY <1>1, <1>2, <1>3, <1>4, <1>5, <1>6, <1>7, <1>8, <1>9, <1>10 DEF create_connect

LEMMA SendingTypes ==
  TypeOK /\ (send_login \/ SendsOther \/ resend \/ ClearSendQ \/ end_socket \/ ElfKiller)
    => TypeOK'
<1> SUFFICES ASSUME TypeOK,
                    send_login \/ SendsOther \/ resend \/ ClearSendQ \/ end_socket \/ ElfKiller
             PROVE  TypeOK'
  OBVIOUS
<1>1. <<Packet("login", 0)>> \in Seq(Packets) /\ <<Packet("other", 0)>> \in Seq(Packets)
  <2>1. Packet("login", 0) \in Packets /\ Packet("other", 0) \in Packets
    BY DEF Packet, Packets
  <2> QED
    BY <2>1
<1>2. ASSUME NEW st, NEW p \in Seq(Packets), SendAnswer(st, p)
      PROVE  /\ sendq' \in Seq(Packets) /\ heard' \in [Socket -> Heard]
             /\ used' \in [DOMAIN Bound -> Nat] /\ socks' \in [Socket -> SocketStates]
  BY <1>2, AnswerTypes, Closing DEF TypeOK
<1>3. CASE send_login
  <2>1. SendAnswer(2, <<Packet("login", 0)>>)
    BY <1>3 DEF send_login
  <2>2. state' \in 0..3 /\ jobs' \in Seq(Jobs)
    BY <1>3, StartsTypes DEF send_login
  <2> QED
    BY <1>1, <1>2, <1>3, <2>1, <2>2 DEF send_login, TypeOK, own
<1>4. CASE SendsOther
  <2>1. SendAnswer(state, <<Packet("other", 0)>>)
    BY <1>4 DEF SendsOther
  <2> QED
    BY <1>1, <1>2, <1>4, <2>1, StartsTypes DEF SendsOther, TypeOK, own
<1>5. CASE resend
  <2>1. SendAnswer(state, <<>>) /\ <<>> \in Seq(Packets)
    BY <1>5 DEF resend
  <2> QED
    BY <1>2, <1>5, <2>1, StartsTypes DEF resend, TypeOK, own
<1>6. CASE ClearSendQ
  BY <1>6, StartsTypes DEF ClearSendQ, TypeOK, own, phone
<1>7. CASE end_socket
  BY <1>7, Closing, StartsTypes DEF end_socket, TypeOK, own, link
<1>8. CASE ElfKiller
  BY <1>8, StartsTypes DEF ElfKiller, TypeOK, own, link, phone, HelperStates
<1> QED
  BY <1>3, <1>4, <1>5, <1>6, <1>7, <1>8

LEMMA AnsweringTypes == TypeOK /\ get_answer => TypeOK'
<1> SUFFICES ASSUME TypeOK, get_answer
             PROVE  TypeOK'
  OBVIOUS
<1>1. CASE Receives
  <2>1. jobs' \in Seq(Jobs)
    BY <1>1, StartsTypes DEF Receives
  <2>2. hpc = "idle"
    BY <1>1, StartsTypes DEF Receives
  <2>3. CASE hpc' = hpc /\ UNCHANGED <<rb, down>>
    BY <1>1, <2>1, <2>2, <2>3 DEF Receives, TypeOK, HelperStates, link, own
  <2>4. CASE down # <<>> /\ rb' = down /\ down' = <<>> /\ hpc' = "packet"
    BY <1>1, <2>1, <2>4 DEF Receives, TypeOK, HelperStates, link, own
  <2> QED
    BY <1>1, <2>3, <2>4 DEF Receives
<1>2. ASSUME NEW what, Sees(what)
      PROVE  rb \in Seq(Packets) /\ rb # <<>> /\ Head(rb) \in Packets
  BY <1>2, Taken DEF Sees, TypeOK
<1>3. ASSUME GoesOn, hpc \in {"packet", "post"}
      PROVE  rb' \in Seq(Packets) /\ hpc' \in HelperStates
             /\ (hpc' \in {"packet", "post"} => rb' # <<>>)
  <2>1. /\ rb \in Seq(Packets) /\ rb # <<>>
        /\ Tail(rb) \in Seq(Packets) /\ Len(Tail(rb)) = Len(rb) - 1
    BY <1>3, Taken DEF TypeOK
  <2>2. Len(rb) > 1 => Len(Tail(rb)) # 0
    BY <2>1
  <2>3. Len(rb) > 1 => Tail(rb) # <<>>
    BY <2>2
  <2> QED
    BY <1>3, <2>1, <2>3 DEF GoesOn, HelperStates
<1>4. CASE T_LOGIN
  BY <1>3, <1>4 DEF T_LOGIN, Sees, TypeOK, own, phone
<1>5. CASE T_ERROR
  BY <1>3, <1>5 DEF T_ERROR, Sees, TypeOK, own, phone
<1>6. CASE BadPacket
  BY <1>6, Closing DEF BadPacket, Sees, TypeOK, own, HelperStates
<1>7. CASE SendMSGACK
  <2>1. Head(rb).key \in Nat
    BY <1>2, <1>7 DEF SendMSGACK, Packets
  <2>2. Packet("ack", Head(rb).key) \in Packets
    BY <2>1 DEF Packet, Packets
  <2>3. SendAnswer(state, <<Packet("ack", Head(rb).key)>>)
    BY <1>7 DEF SendMSGACK
  <2>4. <<Packet("ack", Head(rb).key)>> \in Seq(Packets)
    BY <2>2
  <2>5. /\ sendq' \in Seq(Packets) /\ heard' \in [Socket -> Heard]
        /\ used' \in [DOMAIN Bound -> Nat] /\ socks' \in [Socket -> SocketStates]
    BY <2>3, <2>4, AnswerTypes, Closing DEF TypeOK
  <2>6. rb # <<>>
    BY <1>2, <1>7 DEF SendMSGACK
  <2> QED
    BY <1>7, <2>5, <2>6 DEF SendMSGACK, TypeOK, own, HelperStates
<1>8. CASE HandsOver
  <2>0. Head(rb) \in Packets
    BY <1>8, Taken DEF HandsOver, TypeOK
  <2>1. Head(rb).key \in Nat
    BY <2>0 DEF Packets
  <2>2. sock \in Int
    BY Sockets DEF TypeOK
  <2>4. [ev |-> "PACKET", id |-> sock, key |-> Head(rb).key] \in Messages
    BY <2>1, <2>2 DEF Messages, Events
  <2>3. inbox' \in Seq(Messages)
    BY <1>8, <2>4 DEF HandsOver, TypeOK
  <2> QED
    BY <1>3, <1>8, <2>3 DEF HandsOver, TypeOK, own, link, phone
<1> QED
  BY <1>1, <1>4, <1>5, <1>6, <1>7, <1>8 DEF get_answer

LEMMA JobTypes ==
  ASSUME TypeOK, NEW job \in Jobs, SUBPROC(job)
  PROVE  jobs' \in Seq(Jobs)
  BY DEF SUBPROC, TypeOK

LEMMA KeyTypes ==
  TypeOK /\ (GREEN_BUTTON \/ ZeroKey \/ Disconnect \/ Says \/ do_reconnect \/ TurnsGprsOn
             \/ maincsm_onclose)
    => TypeOK'
<1> SUFFICES ASSUME TypeOK,
                    GREEN_BUTTON \/ ZeroKey \/ Disconnect \/ Says \/ do_reconnect
                      \/ TurnsGprsOn \/ maincsm_onclose
             PROVE  TypeOK'
  OBVIOUS
<1>1. ASSUME NEW what \in DOMAIN Bound, Once(what)
      PROVE  used' \in [DOMAIN Bound -> Nat]
  BY <1>1, Counted DEF TypeOK
<1>2. CASE GREEN_BUTTON
  <2>1. used' \in [DOMAIN Bound -> Nat]
    BY <1>1, <1>2, Kinds DEF GREEN_BUTTON
  <2>2. jobs' \in Seq(Jobs)
    BY <1>2, JobTypes DEF GREEN_BUTTON, Jobs, TypeOK
  <2>3. timer' \in BOOLEAN /\ dis' \in BOOLEAN
    BY <1>2 DEF GREEN_BUTTON, TypeOK
  <2> QED
    BY <1>2, <2>1, <2>2, <2>3 DEF GREEN_BUTTON, TypeOK, phone
<1>3. CASE ZeroKey
  <2>1. used' \in [DOMAIN Bound -> Nat]
    BY <1>1, <1>3, Kinds DEF ZeroKey
  <2>2. jobs' \in Seq(Jobs)
    <3>1. <<"end_socket", "create_connect">> \in Seq(Jobs)
      BY DEF Jobs
    <3> QED
      BY <1>3, <3>1 DEF ZeroKey, TypeOK
  <2> QED
    BY <1>3, <2>1, <2>2 DEF ZeroKey, TypeOK, phone
<1>4. CASE Disconnect
  <2>1. used' \in [DOMAIN Bound -> Nat]
    BY <1>1, <1>4, Kinds DEF Disconnect
  <2>2. jobs' \in Seq(Jobs)
    BY <1>4, JobTypes DEF Disconnect, Jobs
  <2> QED
    BY <1>4, <2>1, <2>2 DEF Disconnect, TypeOK, phone, own
<1>5. CASE Says
  <2>1. used' \in [DOMAIN Bound -> Nat]
    BY <1>1, <1>5, Kinds DEF Says
  <2>2. jobs' \in Seq(Jobs)
    BY <1>5, JobTypes DEF Says, Jobs
  <2> QED
    BY <1>5, <2>1, <2>2 DEF Says, TypeOK, phone, own, link
<1>6. CASE do_reconnect
  <2>1. jobs' \in Seq(Jobs)
    BY <1>6, JobTypes DEF do_reconnect, Jobs, TypeOK
  <2> QED
    BY <1>6, <2>1 DEF do_reconnect, TypeOK, phone, link
<1>7. CASE TurnsGprsOn
  <2>1. inbox' \in Seq(Messages)
    BY <1>7, PostsTypes, MessageTypes DEF TurnsGprsOn, Events, TypeOK
  <2> QED
    BY <1>7, <2>1 DEF TurnsGprsOn, TypeOK, link
<1>8. CASE maincsm_onclose
  <2>1. jobs' \in Seq(Jobs)
    <3>1. <<"end_socket", "ClearSendQ", "ElfKiller">> \in Seq(Jobs)
      BY DEF Jobs
    <3> QED
      BY <1>8, <3>1 DEF maincsm_onclose, TypeOK
  <2>2. alive' \in BOOLEAN /\ timer' \in BOOLEAN
    BY <1>8 DEF maincsm_onclose
  <2>3. inbox' \in Seq(Messages)
    BY <1>8 DEF maincsm_onclose
  <2>4. UNCHANGED <<link, hpc, rb, phone, used>>
    BY <1>8 DEF maincsm_onclose
  <2> QED
    BY <1>8, <2>1, <2>2, <2>3, <2>4 DEF TypeOK, phone, link
<1> QED
  BY <1>2, <1>3, <1>4, <1>5, <1>6, <1>7, <1>8

\* A message is taken, and goes round once more or not.
Round == [Head(inbox) EXCEPT !.ev = "FREEMSG"]
Takes == /\ inbox # <<>>
         /\ inbox' = Tail(inbox) \/ inbox' = Append(Tail(inbox), Round)

LEMMA TakesAre ==
  ASSUME TypeOK, Takes
  PROVE  /\ Len(inbox) \in Nat \ {0} /\ DOMAIN inbox = 1..Len(inbox)
         /\ Head(inbox) = inbox[1] /\ Head(inbox) \in Messages /\ 1 \in DOMAIN inbox
         /\ inbox' \in Seq(Messages) /\ DOMAIN inbox' = 1..Len(inbox')
         /\ Len(inbox') \in Nat /\ Len(inbox') <= Len(inbox)
         /\ \A i \in DOMAIN inbox' :
              \/ i # Len(inbox) /\ i + 1 \in DOMAIN inbox /\ inbox'[i] = inbox[i + 1]
              \/ /\ i = Len(inbox)
                 /\ inbox'[i].ev = "FREEMSG" /\ inbox'[i].key = Head(inbox).key
         /\ \A i \in DOMAIN inbox : i # 1 =>
              i - 1 \in DOMAIN inbox' /\ inbox'[i - 1] = inbox[i]
         /\ inbox' # Tail(inbox) => Len(inbox) \in DOMAIN inbox'
<1>1. PICK q, m, n : q = Tail(inbox) /\ m = Round /\ n = Len(inbox)
  OBVIOUS
<1>2. /\ n \in Nat \ {0} /\ DOMAIN inbox = 1..n
      /\ Head(inbox) = inbox[1] /\ Head(inbox) \in Messages
      /\ q \in Seq(Messages) /\ Len(q) = n - 1
      /\ \A i \in 1..(n - 1) : q[i] = inbox[i + 1]
  BY <1>1, Taken DEF TypeOK, Takes
<1>3. m \in Messages /\ m.ev = "FREEMSG" /\ m.key = Head(inbox).key
  BY <1>1, <1>2 DEF Round, Messages, Events
<1>4. inbox' = q \/ inbox' = Append(q, m)
  BY <1>1 DEF Takes
<1>5. /\ Append(q, m) \in Seq(Messages) /\ Len(Append(q, m)) = n
      /\ \A i \in 1..(n - 1) : Append(q, m)[i] = q[i]
      /\ Append(q, m)[n] = m
  BY <1>2, <1>3, Added
<1>6. /\ inbox' \in Seq(Messages) /\ DOMAIN inbox' = 1..Len(inbox')
      /\ Len(inbox') \in {n - 1, n} /\ (inbox' # q => Len(inbox') = n)
      /\ \A i \in 1..(n - 1) : inbox'[i] = inbox[i + 1]
      /\ Len(inbox') = n => inbox'[n] = m
  <2>1. CASE inbox' = q
    BY <1>2, <2>1
  <2>2. CASE inbox' = Append(q, m)
    BY <1>2, <1>5, <2>2
  <2> QED
    BY <1>4, <2>1, <2>2
<1>7. ASSUME NEW i \in DOMAIN inbox'
      PROVE  \/ i # n /\ i + 1 \in DOMAIN inbox /\ inbox'[i] = inbox[i + 1]
             \/ i = n /\ inbox'[i].ev = "FREEMSG" /\ inbox'[i].key = Head(inbox).key
  <2>1. PICK l : l = Len(inbox') /\ (l = n - 1 \/ l = n) /\ i \in 1..l
    BY <1>6
  <2>2. i \in Nat /\ (i = n => l = n) /\ (i # n => i \in 1..(n - 1) /\ i + 1 \in 1..n)
    BY <1>2, <2>1
  <2> QED
    BY <1>2, <1>3, <1>6, <2>1, <2>2
<1>8. ASSUME NEW i \in DOMAIN inbox, i # 1
      PROVE  i - 1 \in DOMAIN inbox' /\ inbox'[i - 1] = inbox[i]
  <2>1. i - 1 \in 1..(n - 1) /\ (i - 1) + 1 = i
    BY <1>2, <1>8
  <2>2. PICK l : l = Len(inbox') /\ (l = n - 1 \/ l = n)
    BY <1>6
  <2>3. i - 1 \in 1..l
    BY <1>2, <2>1, <2>2
  <2> QED
    BY <1>6, <2>1, <2>2, <2>3
<1>9. inbox' # q => n \in DOMAIN inbox'
  <2>1. PICK l : l = Len(inbox') /\ (inbox' # q => l = n)
    BY <1>6
  <2>2. inbox' # q => n \in 1..l
    BY <1>2, <2>1
  <2> QED
    BY <1>6, <2>1, <2>2
<1>10. Len(inbox') \in Nat /\ Len(inbox') <= n /\ 1 \in DOMAIN inbox
  <2>1. PICK l : l = Len(inbox') /\ (l = n - 1 \/ l = n)
    BY <1>6
  <2> QED
    BY <1>2, <2>1
<1> QED
  BY <1>1, <1>2, <1>6, <1>7, <1>8, <1>9, <1>10

LEMMA HandlesTypes ==
  ASSUME TypeOK, Takes
  PROVE  inbox' \in Seq(Messages) /\ Head(inbox) \in Messages
  BY TakesAre

LEMMA MessagesTypes == TypeOK /\ maincsm_onmessage => TypeOK'
<1> SUFFICES ASSUME TypeOK, maincsm_onmessage
             PROVE  TypeOK'
  OBVIOUS
<1>0. inbox' \in Seq(Messages)
  BY HandlesTypes DEF maincsm_onmessage, LMAN_DISCONNECT_IND, LMAN_CONNECT_CNF,
     ENIP_DNR_HOST_BY_NAME, HandlesPacket, IPC_FREEMSG, ENIP_SOCK_CONNECTED,
     ENIP_SOCK_DATA_READ,
     ENIP_BUFFER_FREE, ENIP_SOCK_REMOTE_CLOSED, ENIP_SOCK_CLOSED, NotOurs, HandlesOwn,
     Handles, Takes, Round
<1> USE <1>0
<1>1. CASE LMAN_DISCONNECT_IND
  BY <1>1 DEF LMAN_DISCONNECT_IND, TypeOK, phone, link
<1>2. CASE LMAN_CONNECT_CNF
  BY <1>2 DEF LMAN_CONNECT_CNF, TypeOK, phone, link
<1>3. CASE ENIP_DNR_HOST_BY_NAME
  <2>1. jobs' \in Seq(Jobs)
    BY <1>3, JobTypes DEF ENIP_DNR_HOST_BY_NAME, Jobs, TypeOK
  <2> QED
    BY <1>3, <2>1 DEF ENIP_DNR_HOST_BY_NAME, TypeOK, phone, link, own
<1>4. CASE HandlesPacket \/ IPC_FREEMSG
  BY <1>4 DEF HandlesPacket, IPC_FREEMSG, TypeOK, phone, link, own
<1>5. CASE ENIP_SOCK_CONNECTED
  <2>1. jobs' \in Seq(Jobs)
    BY <1>5, JobTypes DEF ENIP_SOCK_CONNECTED, Jobs, TypeOK
  <2> QED
    BY <1>5, <2>1 DEF ENIP_SOCK_CONNECTED, TypeOK, phone, link, own
<1>6. CASE ENIP_SOCK_DATA_READ
  <2>1. jobs' \in Seq(Jobs)
    BY <1>6, JobTypes DEF ENIP_SOCK_DATA_READ, Jobs, TypeOK
  <2> QED
    BY <1>6, <2>1 DEF ENIP_SOCK_DATA_READ, TypeOK, phone, link, own
<1>7. CASE ENIP_BUFFER_FREE
  <2>1. jobs' \in Seq(Jobs)
    BY <1>7, JobTypes DEF ENIP_BUFFER_FREE, Jobs
  <2> QED
    BY <1>7, <2>1 DEF ENIP_BUFFER_FREE, TypeOK, phone, link, own
<1>8. CASE ENIP_SOCK_REMOTE_CLOSED
  <2>1. jobs' \in Seq(Jobs)
    BY <1>8, JobTypes DEF ENIP_SOCK_REMOTE_CLOSED, Jobs
  <2> QED
    BY <1>8, <2>1 DEF ENIP_SOCK_REMOTE_CLOSED, TypeOK, phone, link, own
<1>9. CASE ENIP_SOCK_CLOSED
  <2>1. jobs' \in Seq(Jobs)
    BY <1>9, JobTypes DEF ENIP_SOCK_CLOSED, Jobs
  <2>2. timer' \in BOOLEAN
    BY <1>9 DEF ENIP_SOCK_CLOSED
  <2>3. sock' = NoSock /\ state' \in 0..3
    BY <1>9 DEF ENIP_SOCK_CLOSED
  <2> QED
    BY <1>9, <2>1, <2>2, <2>3 DEF ENIP_SOCK_CLOSED, TypeOK, phone, own
<1>10. CASE NotOurs
  BY <1>10 DEF NotOurs, TypeOK, phone, link, own
<1> QED
  BY <1>1, <1>2, <1>3, <1>4, <1>5, <1>6, <1>7, <1>8, <1>9, <1>10 DEF maincsm_onmessage

LEMMA PhoneTypes == TypeOK /\ Phone => TypeOK'
<1> SUFFICES ASSUME TypeOK, Phone
             PROVE  TypeOK'
  OBVIOUS
<1>1. CASE StackConnects \/ ServerHangsUp \/ StackCloses
  <2>1. PICK s \in Socket, from \in SocketStates, to \in SocketStates, ev \in Events :
          Changes(s, from, to, ev) /\ UNCHANGED used
    BY <1>1 DEF StackConnects, ServerHangsUp, StackCloses, Soon, SocketStates, Events
  <2>2. used' \in [DOMAIN Bound -> Nat]
    BY <2>1 DEF TypeOK
  <2> QED
    BY <2>1, <2>2, ChangesTypes
<1>2. CASE StackBreaks
  <2>1. PICK s \in Socket, from \in {"connecting", "up"} :
          Changes(s, from, "closed", "CLOSED") /\ Once("fault")
    BY <1>2 DEF StackBreaks
  <2>2. used' \in [DOMAIN Bound -> Nat]
    BY <2>1, Counted, Kinds DEF TypeOK
  <2> QED
    BY <2>1, <2>2, ChangesTypes DEF SocketStates, Events
<1>3. CASE StackHasRoom
  <2>1. inbox' \in Seq(Messages)
    BY <1>3, PostsTypes, MessageTypes, Sockets DEF StackHasRoom, Events, Usable, TypeOK
  <2> QED
    BY <1>3, <2>1 DEF StackHasRoom, TypeOK, link, own, phone
<1>4. CASE ServerSends
  <2>1. inbox' \in Seq(Messages)
    BY <1>4, PostsTypes, MessageTypes, Sockets DEF ServerSends, Events, TypeOK
  <2>2. PICK p : /\ p \in {Packet("login", 0), Packet("error", 0), Packet("bad", 0)}
                           \cup {Packet("msg", k) : k \in Message \ acked}
                 /\ IF p.what = "login"
                    THEN heard' = [heard EXCEPT ![sock] = "in"] /\ UNCHANGED used
                    ELSE Once("data") /\ UNCHANGED heard
                 /\ down' = Append(down, p)
    BY <1>4 DEF ServerSends
  <2>3. p \in Packets
    BY <2>2, BoundAssumption DEF Packet, Packets, Message
  <2>4. down' \in Seq(Packets)
    BY <2>2, <2>3 DEF TypeOK
  <2>5. used' \in [DOMAIN Bound -> Nat]
    BY <2>2, Counted, Kinds DEF TypeOK
  <2>6. heard' \in [Socket -> Heard]
    BY <2>2 DEF TypeOK, Heard
  <2> QED
    BY <1>4, <2>1, <2>4, <2>5, <2>6 DEF ServerSends, TypeOK, link, own
<1>5. CASE ResolverAnswers
  <2>1. PICK id \in lookups : /\ lookups' = lookups \ {id}
                              /\ Posts(0, Msg("DNR", id))
    BY <1>5 DEF ResolverAnswers
  <2>2. inbox' \in Seq(Messages)
    BY <2>1, PostsTypes, MessageTypes DEF Events, TypeOK
  <2> QED
    BY <1>5, <2>1, <2>2 DEF ResolverAnswers, TypeOK, link, own
<1>6. CASE GprsDown
  <2>1. used' \in [DOMAIN Bound -> Nat]
    BY <1>6, Counted, Kinds DEF GprsDown, TypeOK
  <2>2. Aborted \in [Socket -> SocketStates]
    BY DEF Aborted, SocketStates
  <2>3. Msg("LMAN_DISCONNECT", 0) \in Messages /\ Msg("CLOSED", sock) \in Messages
    BY MessageTypes, Sockets DEF Events, TypeOK
  <2>4. Append(inbox, Msg("LMAN_DISCONNECT", 0)) \in Seq(Messages)
    BY <2>3 DEF TypeOK
  <2>5. <<>> \in Seq(Messages) /\ <<Msg("CLOSED", sock)>> \in Seq(Messages)
    BY <2>3
  <2>6. inbox' \in Seq(Messages)
    BY <1>6, <2>4, <2>5 DEF GprsDown
  <2> QED
    BY <1>6, <2>1, <2>2, <2>6 DEF GprsDown, TypeOK, link, own
<1>7. CASE GprsUp
  <2>1. inbox' \in Seq(Messages)
    BY <1>7, PostsTypes, MessageTypes DEF GprsUp, Events
  <2> QED
    BY <1>7, <2>1 DEF GprsUp, TypeOK, link, own
<1> QED
  BY <1>1, <1>2, <1>3, <1>4, <1>5, <1>6, <1>7 DEF Phone

LEMMA TypesStart == Init => TypeOK
<1> SUFFICES ASSUME Init
             PROVE  TypeOK
  OBVIOUS
<1>1. jobs \in Seq(Jobs)
  BY DEF Init, Jobs
<1>2. used \in [DOMAIN Bound -> Nat]
  BY DEF Init
<1>3. /\ sendq \in Seq(Packets) /\ down \in Seq(Packets) /\ rb \in Seq(Packets)
      /\ inbox \in Seq(Messages)
  BY EmptySeq DEF Init
<1>4. dis \in BOOLEAN /\ timer \in BOOLEAN /\ alive \in BOOLEAN /\ gprs \in BOOLEAN
  BY DEF Init
<1>5. /\ sock = NoSock /\ state \in 0..3 /\ hpc = "idle" /\ lookups \in SUBSET Nat
      /\ socks \in [Socket -> SocketStates] /\ heard \in [Socket -> Heard]
  BY DEF Init, SocketStates, Heard
<1> QED
  BY <1>1, <1>2, <1>3, <1>4, <1>5 DEF TypeOK, HelperStates

LEMMA TypesStay == TypeOK /\ [Next]_vars => TypeOK'
<1> SUFFICES ASSUME TypeOK, [Next]_vars
             PROVE  TypeOK'
  OBVIOUS
<1>1. CASE HELPER
  BY <1>1, CreateTypes, SendingTypes, AnsweringTypes DEF HELPER
<1>2. CASE UNCHANGED vars
  BY <1>2 DEF vars, link, own, phone, TypeOK
<1> QED
  BY <1>1, <1>2, KeyTypes, MessagesTypes, PhoneTypes DEF Next

\* Every variable of the connection has its type: no job, message or state of a
\* socket but those of the code comes up (main.c:1432-1459).
THEOREM NatTypes == Spec => []TypeOK
  BY TypesStart, TypesStay, PTL DEF Spec
-----------------------------------------------------------------------------
(* What a step does to the jobs, the messages and the sockets.             *)

ClosedStays == \A s \in Socket : socks[s] = "closed" => socks'[s] = "closed"

LEMMA Gains ==
  ASSUME TypeOK, NEW m \in Messages, inbox' = Append(inbox, m)
  PROVE  /\ Answered' <=> Answered \/ m.ev = "DNR"
         /\ OneAnswer /\ (m.ev = "DNR" => ~Answered) => OneAnswer'
         /\ /\ ClosedIs /\ ClosedStays
            /\ m.ev = "CLOSED" => m.id \in Socket /\ socks'[m.id] = "closed"
            => ClosedIs'
<1>1. /\ inbox \in Seq(Messages) /\ inbox' \in Seq(Messages) /\ Len(inbox) \in Nat
      /\ Len(inbox') = Len(inbox) + 1
      /\ \A i \in 1..Len(inbox) : inbox'[i] = inbox[i]
      /\ inbox'[Len(inbox) + 1] = m
  BY Added DEF TypeOK
<1>2. DOMAIN inbox = 1..Len(inbox) /\ DOMAIN inbox' = 1..(Len(inbox) + 1)
  BY <1>1
<1>3. Answered' <=> Answered \/ m.ev = "DNR"
  BY <1>1, <1>2 DEF Answered
<1>4. OneAnswer /\ (m.ev = "DNR" => ~Answered) => OneAnswer'
  BY <1>1, <1>2 DEF Answered, OneAnswer
<1>5. /\ ClosedIs /\ ClosedStays
      /\ m.ev = "CLOSED" => m.id \in Socket /\ socks'[m.id] = "closed"
      => ClosedIs'
  BY <1>1, <1>2 DEF ClosedIs, ClosedStays
<1> QED
  BY <1>3, <1>4, <1>5

LEMMA Loses ==
  ASSUME TypeOK, Takes
  PROVE  /\ Answered' => Answered
         /\ Head(inbox).ev = "DNR" => Answered
         /\ OneAnswer => OneAnswer' /\ (Head(inbox).ev = "DNR" => ~Answered')
         /\ ClosedIs /\ Head(inbox).ev = "CLOSED" =>
              Head(inbox).id \in Socket /\ socks[Head(inbox).id] = "closed"
         /\ ClosedIs /\ ClosedStays => ClosedIs'
<1>1. /\ 1 \in DOMAIN inbox /\ Head(inbox) = inbox[1]
      /\ \A i \in DOMAIN inbox' : \/ i + 1 \in DOMAIN inbox /\ inbox'[i] = inbox[i + 1]
                                 \/ inbox'[i].ev = "FREEMSG"
  BY TakesAre
<1>2. \A i, j \in DOMAIN inbox' : (i + 1 # 1) /\ (i + 1 = j + 1 => i = j)
  <2>1. PICK l \in Nat : DOMAIN inbox' = 1..l
    BY TakesAre
  <2> QED
    BY <2>1
<1>3. (Answered' => Answered) /\ (Head(inbox).ev = "DNR" => Answered)
  BY <1>1, <1>2 DEF Answered
<1>4. OneAnswer => OneAnswer' /\ (Head(inbox).ev = "DNR" => ~Answered')
  BY <1>1, <1>2 DEF Answered, OneAnswer
<1>5. /\ ClosedIs /\ Head(inbox).ev = "CLOSED" =>
           Head(inbox).id \in Socket /\ socks[Head(inbox).id] = "closed"
      /\ ClosedIs /\ ClosedStays => ClosedIs'
  BY <1>1, <1>2 DEF ClosedIs, ClosedStays
<1> QED
  BY <1>3, <1>4, <1>5

LEMMA Keeps ==
  ASSUME UNCHANGED inbox
  PROVE  /\ Answered' <=> Answered
         /\ OneAnswer' <=> OneAnswer
         /\ ClosedIs /\ ClosedStays => ClosedIs'
  BY DEF Answered, OneAnswer, ClosedIs, ClosedStays

\* What is posted: jobs that do not make a connection, or one that does.
LEMMA JobsAdded ==
  ASSUME TypeOK, NEW t \in Seq(Jobs), jobs' = jobs \o t,
         \A i \in DOMAIN t : t[i] # "create_connect"
  PROVE  /\ Posted' <=> Posted
         /\ OneJob => OneJob'
         /\ EndsFirst /\ (Posted /\ NoneLive => NoneLive') => EndsFirst'
<1>1. /\ jobs \in Seq(Jobs) /\ jobs' \in Seq(Jobs) /\ Len(jobs) \in Nat /\ Len(t) \in Nat
      /\ Len(jobs') = Len(jobs) + Len(t)
      /\ \A i \in 1..Len(jobs) : jobs'[i] = jobs[i]
      /\ \A i \in 1..(Len(jobs) + Len(t)) : i > Len(jobs) => jobs'[i] = t[i - Len(jobs)]
  BY DEF TypeOK
<1>2. /\ DOMAIN jobs = 1..Len(jobs) /\ DOMAIN jobs' = 1..(Len(jobs) + Len(t))
      /\ DOMAIN t = 1..Len(t)
  BY <1>1
<1>3. \A i \in DOMAIN jobs' : jobs'[i] = "create_connect" =>
        i \in DOMAIN jobs /\ jobs[i] = "create_connect"
  BY <1>1, <1>2
<1>4. Posted' <=> Posted
  BY <1>1, <1>2, <1>3 DEF Posted
<1>5. OneJob => OneJob'
  BY <1>3 DEF OneJob
<1>6. EndsFirst /\ (Posted /\ NoneLive => NoneLive') => EndsFirst'
  BY <1>1, <1>2, <1>3 DEF EndsFirst, Posted
<1> QED
  BY <1>4, <1>5, <1>6

LEMMA JobAdded ==
  ASSUME TypeOK, NEW job \in Jobs \ {"create_connect"}, SUBPROC(job)
  PROVE  /\ Posted' <=> Posted
         /\ OneJob => OneJob'
         /\ EndsFirst /\ (Posted /\ NoneLive => NoneLive') => EndsFirst'
<1>1. jobs' = jobs \o <<job>> /\ <<job>> \in Seq(Jobs)
  BY DEF SUBPROC, TypeOK
<1>2. \A i \in DOMAIN <<job>> : <<job>>[i] # "create_connect"
  OBVIOUS
<1> QED
  BY <1>1, <1>2, JobsAdded

LEMMA CreateAdded ==
  ASSUME TypeOK, SUBPROC("create_connect"), ~Posted
  PROVE  OneJob' /\ (NoneLive' => EndsFirst')
<1>1. /\ jobs \in Seq(Jobs) /\ jobs' \in Seq(Jobs) /\ Len(jobs) \in Nat
      /\ Len(jobs') = Len(jobs) + 1
      /\ \A i \in 1..Len(jobs) : jobs'[i] = jobs[i]
  BY Added DEF TypeOK, SUBPROC, Jobs
<1>2. DOMAIN jobs = 1..Len(jobs) /\ DOMAIN jobs' = 1..(Len(jobs) + 1)
  BY <1>1
<1> QED
  BY <1>1, <1>2 DEF Posted, OneJob, EndsFirst

LEMMA EndCreateAdded ==
  ASSUME TypeOK, jobs' = jobs \o <<"end_socket", "create_connect">>, ~Posted
  PROVE  OneJob' /\ EndsFirst'
<1>1. /\ jobs \in Seq(Jobs) /\ Len(jobs) \in Nat
      /\ Len(jobs') = Len(jobs) + 2 /\ DOMAIN jobs' = 1..(Len(jobs) + 2)
      /\ \A i \in 1..Len(jobs) : jobs'[i] = jobs[i]
      /\ jobs'[Len(jobs) + 1] = "end_socket"
      /\ DOMAIN jobs = 1..Len(jobs)
  BY DEF TypeOK, Jobs
<1>2. \A i \in DOMAIN jobs' : jobs'[i] = "create_connect" => i = Len(jobs) + 2
  BY <1>1 DEF Posted
<1> QED
  BY <1>1, <1>2 DEF OneJob, EndsFirst

LEMMA JobTaken ==
  ASSUME TypeOK, NEW job, Starts(job)
  PROVE  /\ Posted' => Posted
         /\ OneJob => OneJob' /\ (job = "create_connect" => ~Posted')
         /\ job = "create_connect" => Posted /\ (EndsFirst => NoneLive)
         /\ /\ EndsFirst /\ (NoneLive => NoneLive')
            /\ job = "end_socket" => NoneLive'
            => EndsFirst'
<1>1. /\ jobs' \in Seq(Jobs) /\ Len(jobs') = Len(jobs) - 1
      /\ Len(jobs) \in Nat \ {0} /\ job = jobs[1]
      /\ \A i \in 1..(Len(jobs) - 1) : jobs'[i] = jobs[i + 1]
  BY Taken DEF TypeOK, Starts
<1>2. DOMAIN jobs = 1..Len(jobs) /\ DOMAIN jobs' = 1..(Len(jobs) - 1)
  BY <1>1 DEF TypeOK
<1>3. Posted' => Posted
  BY <1>1, <1>2 DEF Posted
<1>4. OneJob => OneJob' /\ (job = "create_connect" => ~Posted')
  <2>1. \A i \in DOMAIN jobs' : i + 1 \in DOMAIN jobs /\ jobs[i + 1] = jobs'[i] /\ i \in Nat
    BY <1>1, <1>2
  <2>2. OneJob => OneJob'
    BY <2>1 DEF OneJob
  <2>3. ASSUME OneJob, job = "create_connect", NEW i \in DOMAIN jobs',
               jobs'[i] = "create_connect"
        PROVE  FALSE
    <3>0. 1 \in DOMAIN jobs /\ jobs[1] = "create_connect"
      BY <1>1, <1>2, <2>3
    <3>1. i + 1 = 1
      BY <2>1, <2>3, <3>0 DEF OneJob
    <3> QED
      BY <1>2, <2>1, <3>1, <1>1
  <2> QED
    BY <2>2, <2>3 DEF Posted
<1>5. job = "create_connect" => Posted /\ (EndsFirst => NoneLive)
  <2>1. 1 \in DOMAIN jobs /\ jobs[1] = job
    BY <1>1, <1>2
  <2>2. 1..(1 - 1) = {}
    OBVIOUS
  <2> QED
    BY <2>1, <2>2 DEF Posted, EndsFirst
<1>6. /\ EndsFirst /\ (NoneLive => NoneLive')
      /\ job = "end_socket" => NoneLive'
      => EndsFirst'
  <2> SUFFICES ASSUME EndsFirst, NoneLive => NoneLive', job = "end_socket" => NoneLive',
                      NEW i \in DOMAIN jobs', jobs'[i] = "create_connect", ~NoneLive'
               PROVE  \E j \in 1..(i - 1) : jobs'[j] = "end_socket"
    BY DEF EndsFirst
  <2>0. /\ i + 1 \in DOMAIN jobs /\ jobs[i + 1] = "create_connect" /\ ~NoneLive
        /\ (i + 1) - 1 = i /\ i \in Nat
    BY <1>1, <1>2
  <2>1. PICK j \in 1..i : jobs[j] = "end_socket"
    BY <2>0 DEF EndsFirst
  <2>2. j # 1
    BY <1>1, <2>1
  <2> QED
    <3>1. j - 1 \in 1..(i - 1) /\ j - 1 \in 1..(Len(jobs) - 1) /\ (j - 1) + 1 = j
      BY <1>1, <1>2, <2>0, <2>1, <2>2
    <3> QED
      BY <1>1, <2>1, <3>1
<1> QED
  BY <1>3, <1>4, <1>5, <1>6

LEMMA JobsKept ==
  ASSUME UNCHANGED jobs
  PROVE  /\ Posted' <=> Posted
         /\ OneJob' <=> OneJob
         /\ EndsFirst /\ (Posted /\ NoneLive => NoneLive') => EndsFirst'
  BY DEF Posted, OneJob, EndsFirst

LEMMA SocksKept ==
  ASSUME UNCHANGED socks
  PROVE  /\ NoneLive' <=> NoneLive
         /\ ClosedStays
         /\ UNCHANGED sock => (OnlyOurs' <=> OnlyOurs)
         /\ OnlyOurs /\ sock = NoSock => NoneLive
         /\ NoneLive' => OnlyOurs'
  BY Sockets DEF NoneLive, OnlyOurs, ClosedStays, Live

LEMMA SocksShut ==
  ASSUME TypeOK, socks' = Shut(sock), UNCHANGED sock
  PROVE  /\ OnlyOurs => OnlyOurs' /\ NoneLive'
         /\ ClosedStays
         /\ SocketInv /\ sock # NoSock => socks'[sock] # "none"
<1>1. \A s \in Socket : Live(s)' => Live(s) /\ s # sock
  BY Closing DEF Live
<1>2. ClosedStays
  BY Closing DEF ClosedStays
<1>3. SocketInv /\ sock # NoSock => socks'[sock] # "none"
  BY Closing DEF SocketInv, TypeOK
<1> QED
  BY <1>1, <1>2, <1>3 DEF OnlyOurs, NoneLive

LEMMA SocksAborted ==
  ASSUME TypeOK, socks' = Aborted
  PROVE  NoneLive' /\ OnlyOurs' /\ ClosedStays
  BY DEF Aborted, NoneLive, OnlyOurs, ClosedStays, Live, TypeOK
-----------------------------------------------------------------------------
(* No action makes a second connection.                                    *)

\* Nothing that is wanted or made changes, and nothing comes to life.
LEMMA Quiet ==
  ASSUME OneInv, UNCHANGED <<hpc, lookups, timer>>, odd \subseteq odd',
         SocketInv', Answered' => Answered, Posted' => Posted,
         OneAnswer => OneAnswer', OneJob => OneJob',
         OnlyOurs => OnlyOurs', NoneLive => NoneLive',
         OnlyOurs /\ EndsFirst => EndsFirst'
  PROVE  OneInv'
  BY DEF OneInv, LiveInv, SingleInv, Creates

LEMMA OddGrows ==
  ASSUME NEW what, NEW so, Notes(what, so)
  PROVE  odd \subseteq odd' /\ (so => what \in odd')
  BY DEF Notes

LEMMA HELPERSends ==
  TypeOK /\ OneInv
  /\ (send_login \/ SendsOther \/ resend \/ ClearSendQ \/ end_socket \/ ElfKiller)
    => OneInv'
<1> SUFFICES ASSUME TypeOK, OneInv,
                    send_login \/ SendsOther \/ resend \/ ClearSendQ \/ end_socket \/ ElfKiller
             PROVE  OneInv'
  OBVIOUS
<1>1. PICK job \in Jobs \ {"create_connect"} : Starts(job)
  BY DEF send_login, SendsOther, resend, ClearSendQ, end_socket, ElfKiller, Jobs
<1>2. UNCHANGED <<sock, inbox, lookups, timer>> /\ odd \subseteq odd'
  BY OddGrows DEF send_login, SendsOther, resend, ClearSendQ, end_socket, ElfKiller, phone,
     link
<1>3. socks' = socks \/ socks' = Shut(sock)
  <2>1. Packet("login", 0) \in Packets /\ Packet("other", 0) \in Packets
    BY DEF Packet, Packets
  <2>2. /\ <<Packet("login", 0)>> \in Seq(Packets) /\ <<Packet("other", 0)>> \in Seq(Packets)
        /\ <<>> \in Seq(Packets)
    BY <2>1
  <2> QED
    BY <2>2, AnswerTypes DEF send_login, SendsOther, resend, ClearSendQ, end_socket,
       ElfKiller, phone
<1>4. /\ OnlyOurs => OnlyOurs' /\ (NoneLive => NoneLive')
      /\ ClosedStays
      /\ SocketInv /\ sock # NoSock => socks'[sock] # "none"
  <2>1. CASE socks' = socks
    BY <1>2, <2>1, SocksKept DEF SocketInv
  <2>2. CASE socks' = Shut(sock)
    BY <1>2, <2>2, SocksShut
  <2> QED
    BY <1>3, <2>1, <2>2
<1>5. job = "end_socket" => (OnlyOurs => NoneLive')
  <2>1. job = "end_socket" => end_socket \/ ElfKiller
    BY <1>1 DEF send_login, SendsOther, resend, ClearSendQ, end_socket, ElfKiller, Starts
  <2>2. job = "end_socket" => end_socket
    BY <1>1, <2>1 DEF ElfKiller, Starts
  <2>3. end_socket => socks' = Shut(sock)
    BY DEF end_socket
  <2> QED
    BY <1>2, <2>2, <2>3, SocksShut
<1>6. SocketInv'
  BY <1>2, <1>4, Keeps DEF OneInv, SocketInv
<1>7. /\ Posted' => Posted
      /\ OneJob => OneJob'
      /\ OnlyOurs /\ EndsFirst => EndsFirst'
  BY <1>1, <1>4, <1>5, JobTaken
<1>8. /\ Answered' => Answered
      /\ OneAnswer => OneAnswer'
  BY <1>2, Keeps
<1>9. Creates' => Creates
  BY <1>1 DEF send_login, SendsOther, resend, ClearSendQ, end_socket, ElfKiller, Creates
<1>10. hpc' # "dnr"
  BY <1>1 DEF send_login, SendsOther, resend, ClearSendQ, end_socket, ElfKiller, Starts
<1>11. OnlyOurs => (NoneLive => NoneLive')
  BY <1>4
<1> QED
  BY <1>2, <1>4, <1>6, <1>7, <1>8, <1>9, <1>10 DEF OneInv, LiveInv, SingleInv

LEMMA HELPERAnswers == TypeOK /\ OneInv /\ get_answer => OneInv'
<1> SUFFICES ASSUME TypeOK, OneInv, get_answer
             PROVE  OneInv'
  OBVIOUS
<1>1. UNCHANGED <<sock, lookups, timer>> /\ odd \subseteq odd'
  BY OddGrows DEF get_answer, Receives, T_LOGIN, T_ERROR, BadPacket, SendMSGACK, HandsOver,
     phone, link
<1>2. hpc' \in {"idle", "packet", "post"}
  BY DEF get_answer, Receives, Starts, T_LOGIN, T_ERROR, BadPacket, SendMSGACK, HandsOver,
     GoesOn
<1>3. socks' = socks \/ socks' = Shut(sock)
  <2>1. CASE SendMSGACK
    <3>1. Head(rb) \in Packets
      BY <2>1, Taken DEF SendMSGACK, Sees, TypeOK
    <3>2. Packet("ack", Head(rb).key) \in Packets
      BY <3>1 DEF Packet, Packets
    <3>3. <<Packet("ack", Head(rb).key)>> \in Seq(Packets)
      BY <3>2
    <3> QED
      BY <2>1, <3>3, AnswerTypes DEF SendMSGACK
  <2> QED
    BY <2>1 DEF get_answer, Receives, T_LOGIN, T_ERROR, BadPacket, HandsOver, phone
<1>4. /\ OnlyOurs => OnlyOurs' /\ (NoneLive => NoneLive')
      /\ ClosedStays
      /\ SocketInv /\ sock # NoSock => socks'[sock] # "none"
  <2>1. CASE socks' = socks
    BY <1>1, <2>1, SocksKept DEF SocketInv
  <2>2. CASE socks' = Shut(sock)
    BY <1>1, <2>2, SocksShut
  <2> QED
    BY <1>3, <2>1, <2>2
<1>5. /\ Posted' => Posted
      /\ OneJob => OneJob'
      /\ OnlyOurs /\ EndsFirst => EndsFirst'
  <2>1. CASE Starts("get_answer")
    BY <1>4, <2>1, JobTaken
  <2>2. CASE UNCHANGED jobs
    BY <1>4, <2>2, JobsKept
  <2> QED
    BY <2>1, <2>2 DEF get_answer, Receives, T_LOGIN, T_ERROR, BadPacket, SendMSGACK, HandsOver
<1>6. /\ Answered' => Answered
      /\ OneAnswer => OneAnswer'
      /\ ClosedIs => ClosedIs'
  <2>1. CASE UNCHANGED inbox
    BY <1>4, <2>1, Keeps
  <2>2. CASE HandsOver /\ alive
    <3> DEFINE m == [ev |-> "PACKET", id |-> sock, key |-> Head(rb).key]
    <3>1. Head(rb) \in Packets
      BY <2>2, Taken DEF HandsOver, TypeOK
    <3>2. Head(rb).key \in Nat /\ sock \in Int
      BY <3>1, Sockets DEF Packets, TypeOK
    <3>3. m \in Messages
      BY <3>2 DEF Messages, Events
    <3>4. inbox' = Append(inbox, m) /\ m.ev = "PACKET"
      BY <2>2 DEF HandsOver
    <3> HIDE DEF m
    <3>5. m.ev # "DNR" /\ m.ev # "CLOSED"
      BY <3>4
    <3> QED
      BY <1>4, <3>3, <3>4, <3>5, Gains
  <2> QED
    BY <2>1, <2>2 DEF get_answer, Receives, T_LOGIN, T_ERROR, BadPacket, SendMSGACK, HandsOver
<1>7. SocketInv'
  BY <1>1, <1>4, <1>6 DEF OneInv, SocketInv
<1> QED
  BY <1>1, <1>2, <1>4, <1>5, <1>6, <1>7 DEF OneInv, LiveInv, SingleInv, Creates

LEMMA HELPERCreates == TypeOK /\ OneInv /\ create_connect => OneInv'
<1> SUFFICES ASSUME TypeOK, OneInv, create_connect
             PROVE  OneInv'
  OBVIOUS
<1>1. CASE CreateBegins
  <2>1. /\ Starts("create_connect") /\ timer' = FALSE /\ hpc' \in {"dnr", "offline"}
        /\ UNCHANGED <<sock, socks, inbox, lookups, odd>>
    BY <1>1 DEF CreateBegins, phone
  <2>2. SocketInv'
    BY <2>1, Keeps, SocksKept DEF OneInv, SocketInv
  <2>3. (LiveInv' /\ SingleInv') \/ "over" \in odd
    BY <2>1, Keeps, SocksKept, JobTaken DEF OneInv, LiveInv, SingleInv
  <2> QED
    BY <2>1, <2>2, <2>3 DEF OneInv
<1>2. CASE GoesOffline
  <2>1. /\ hpc = "offline" /\ hpc' = "idle"
        /\ UNCHANGED <<sock, socks, inbox, jobs, lookups, odd, timer>>
    BY <1>2 DEF GoesOffline, phone, link
  <2>2. SocketInv'
    BY <2>1, Keeps, SocksKept DEF OneInv, SocketInv
  <2> QED
    BY <2>1, <2>2, Keeps, SocksKept, JobsKept DEF OneInv, LiveInv, SingleInv, Creates
<1>3. CASE NamePending \/ NameError \/ NameNotFound
  <2>1. /\ hpc = "dnr" /\ hpc' = "idle"
        /\ UNCHANGED <<sock, socks, inbox, jobs>>
        /\ odd \subseteq odd'
    BY <1>3, OddGrows DEF NamePending, NameError, NameNotFound, phone, link
  <2>4. \/ lookups' = lookups
        \/ timer' = timer /\ \E id : lookups' = lookups \cup {id}
    BY <1>3 DEF NamePending, NameError, NameNotFound, phone
  <2>2. SocketInv'
    BY <2>1, Keeps, SocksKept DEF OneInv, SocketInv
  <2>3. ASSUME "over" \notin odd
        PROVE  LiveInv' /\ SingleInv'
    <3>1. /\ OnlyOurs /\ NoneLive /\ ~Posted /\ lookups = {} /\ ~Answered
          /\ ~(timer = TRUE) /\ OneAnswer /\ OneJob /\ EndsFirst
      BY <2>1, <2>3 DEF OneInv, LiveInv, SingleInv, Creates
    <3>2. /\ OnlyOurs' /\ NoneLive' /\ ~Posted' /\ ~Answered' /\ OneAnswer' /\ OneJob'
          /\ EndsFirst'
      BY <2>1, <3>1, Keeps, SocksKept, JobsKept
    <3>3. (lookups' = {} \/ ~(timer' = TRUE)) /\ \A a, b \in lookups' : a = b
      BY <2>4, <3>1
    <3> QED
      BY <2>1, <3>2, <3>3 DEF LiveInv, SingleInv, Creates
  <2> QED
    BY <2>1, <2>2, <2>3 DEF OneInv
<1>4. CASE OpensSocket
  <2>1. PICK s \in Socket : /\ socks[s] = "none" /\ sock' = s
                            /\ socks' = [socks EXCEPT ![s] = "open"]
    <3>1. PICK s \in Socket : /\ \A old \in Socket : socks[old] = "none" <=> old >= s
                              /\ sock' = s /\ socks' = [socks EXCEPT ![s] = "open"]
      BY <1>4 DEF OpensSocket
    <3>2. s >= s
      BY <3>1, Sockets
    <3> QED
      BY <3>1, <3>2
  <2>2. /\ hpc = "dnr" /\ hpc' = "connect" /\ UNCHANGED <<inbox, jobs, lookups, timer, odd>>
    BY <1>4 DEF OpensSocket
  <2>3. ClosedStays /\ socks'[sock'] = "open"
    BY <2>1 DEF ClosedStays, TypeOK
  <2>4. SocketInv'
    BY <2>2, <2>3, Keeps DEF OneInv, SocketInv
  <2>5. NoneLive => OnlyOurs'
    BY <2>1 DEF NoneLive, OnlyOurs, Live, TypeOK
  <2>6. ASSUME "over" \notin odd
        PROVE  LiveInv' /\ SingleInv'
    <3>1. /\ NoneLive /\ ~Posted /\ lookups = {} /\ ~Answered
          /\ ~(timer = TRUE) /\ OneAnswer /\ OneJob /\ EndsFirst
      BY <2>2, <2>6 DEF OneInv, LiveInv, SingleInv, Creates
    <3>2. ~Posted' /\ ~Answered' /\ OneAnswer' /\ OneJob' /\ EndsFirst'
      BY <2>2, <3>1, Keeps, JobsKept
    <3> QED
      BY <2>2, <2>5, <3>1, <3>2 DEF LiveInv, SingleInv, Creates
  <2> QED
    BY <2>2, <2>4, <2>6 DEF OneInv
<1>5. CASE NoSocketLeft
  <2>1. /\ hpc = "dnr" /\ hpc' = "idle" /\ sock' = NoSock /\ socks' = Aborted
        /\ UNCHANGED <<jobs, lookups, timer, odd>>
    BY <1>5 DEF NoSocketLeft
  <2>2. NoneLive' /\ OnlyOurs' /\ ClosedStays
    BY <2>1, SocksAborted
  <2>3. (Answered' <=> Answered) /\ (OneAnswer => OneAnswer') /\ (ClosedIs => ClosedIs')
    <3>1. CASE UNCHANGED inbox
      BY <2>2, <3>1, Keeps
    <3>2. CASE inbox' = Append(inbox, Msg("LMAN_DISCONNECT", 0))
      <4>1. /\ Msg("LMAN_DISCONNECT", 0) \in Messages
            /\ Msg("LMAN_DISCONNECT", 0).ev \notin {"DNR", "CLOSED"}
        BY MessageTypes DEF Msg, Events
      <4> QED
        BY <2>2, <3>2, <4>1, Gains
    <3> QED
      BY <1>5, <3>1, <3>2 DEF NoSocketLeft
  <2>4. SocketInv'
    BY <2>1, <2>3 DEF OneInv, SocketInv
  <2> QED
    BY <2>1, <2>2, <2>3, <2>4, JobsKept DEF OneInv, LiveInv, SingleInv, Creates
<1>6. CASE Connecting \/ SetsState
  <2>1. /\ hpc \in {"connect", "state"} /\ hpc' \in {"state", "idle"}
        /\ UNCHANGED <<sock, inbox, jobs, lookups, timer, odd>>
        /\ \A s \in Socket : /\ Live(s)' <=> Live(s)
                             /\ socks[s] = "closed" => socks'[s] = "closed"
                             /\ socks[s] # "none" => socks'[s] # "none"
    BY <1>6 DEF Connecting, SetsState, CanConnect, TypeOK, Live, phone, link
  <2>2. /\ OnlyOurs' <=> OnlyOurs
        /\ NoneLive' <=> NoneLive
        /\ ClosedStays
    BY <2>1 DEF OnlyOurs, NoneLive, ClosedStays
  <2>3. SocketInv'
    BY <2>1, <2>2, Keeps DEF OneInv, SocketInv, TypeOK
  <2> QED
    BY <2>1, <2>2, <2>3, Keeps, JobsKept DEF OneInv, LiveInv, SingleInv, Creates
<1>7. CASE CannotConnect
  <2>1. /\ hpc = "connect" /\ hpc' = "idle" /\ sock' = NoSock /\ timer' = TRUE
        /\ UNCHANGED <<inbox, jobs, lookups, odd>>
        /\ socks' = IF sock = NoSock THEN socks ELSE [socks EXCEPT ![sock] = "closed"]
    BY <1>7 DEF CannotConnect
  <2>2. OnlyOurs => NoneLive' /\ OnlyOurs'
    BY <2>1, Sockets DEF OnlyOurs, NoneLive, Live, TypeOK
  <2>3. ClosedStays
    BY <2>1 DEF ClosedStays, TypeOK
  <2>4. SocketInv'
    BY <2>1, <2>3, Keeps DEF OneInv, SocketInv
  <2> QED
    BY <2>1, <2>2, <2>4, Keeps, JobsKept DEF OneInv, LiveInv, SingleInv, Creates
<1> QED
  BY <1>1, <1>2, <1>3, <1>4, <1>5, <1>6, <1>7 DEF create_connect

LEMMA KeysOne ==
  TypeOK /\ OneInv
  /\ (GREEN_BUTTON \/ ZeroKey \/ Disconnect \/ Says \/ do_reconnect \/ TurnsGprsOn
      \/ maincsm_onclose)
    => OneInv'
<1> SUFFICES ASSUME TypeOK, OneInv,
                    GREEN_BUTTON \/ ZeroKey \/ Disconnect \/ Says \/ do_reconnect
                      \/ TurnsGprsOn \/ maincsm_onclose
             PROVE  OneInv'
  OBVIOUS
<1>1. UNCHANGED <<sock, socks, lookups, hpc>> /\ odd \subseteq odd'
  BY OddGrows DEF GREEN_BUTTON, ZeroKey, Disconnect, Says, do_reconnect, TurnsGprsOn,
     maincsm_onclose, phone, link
<1>2. /\ NoneLive' <=> NoneLive
      /\ OnlyOurs' <=> OnlyOurs
      /\ OnlyOurs /\ sock = NoSock => NoneLive
      /\ ClosedStays
  BY <1>1, SocksKept
<1>3. ~Making => ~Creates /\ ~Posted /\ lookups = {} /\ ~Answered
  BY DEF Making, Resolving, Creates, Posted, Answered, Range
<1>4. ASSUME UNCHANGED inbox
      PROVE  SocketInv'
  BY <1>1, <1>2, <1>4, Keeps DEF OneInv, SocketInv
<1>5. CASE GREEN_BUTTON
  <2>1. CASE /\ sock = NoSock /\ timer' = FALSE /\ SUBPROC("create_connect")
             /\ Notes("over", Making)
    <3>1. UNCHANGED inbox
      BY <1>5 DEF GREEN_BUTTON
    <3>2. ASSUME "over" \notin odd'
          PROVE  LiveInv' /\ SingleInv'
      <4>1. ~Creates /\ ~Posted /\ lookups = {} /\ ~Answered /\ "over" \notin odd
        BY <1>1, <1>3, <2>1, <3>2, OddGrows
      <4>2. NoneLive' /\ OnlyOurs' /\ OneJob' /\ EndsFirst'
        BY <1>2, <2>1, <4>1, CreateAdded DEF OneInv, LiveInv
      <4>3. ~Answered' /\ OneAnswer'
        BY <3>1, <4>1, Keeps DEF OneInv, SingleInv
      <4>4. ~Creates' /\ lookups' = {} /\ ~(timer' = TRUE)
        BY <1>1, <2>1, <4>1 DEF Creates
      <4> QED
        BY <4>2, <4>3, <4>4 DEF LiveInv, SingleInv
    <3> QED
      BY <1>4, <3>1, <3>2 DEF OneInv
  <2>2. CASE UNCHANGED <<timer, jobs, odd>>
    <3>1. UNCHANGED inbox
      BY <1>5 DEF GREEN_BUTTON
    <3> QED
      BY <1>1, <1>2, <1>4, <2>2, <3>1, Keeps, JobsKept, Quiet
  <2> QED
    BY <1>5, <2>1, <2>2 DEF GREEN_BUTTON
<1>6. CASE ZeroKey
  <2>1. /\ timer' = FALSE /\ UNCHANGED inbox
        /\ jobs' = jobs \o <<"end_socket", "create_connect">>
        /\ odd' = odd \cup {"zero"} \cup (IF Making THEN {"over"} ELSE {})
    BY <1>6 DEF ZeroKey
  <2>2. ASSUME "over" \notin odd'
        PROVE  LiveInv' /\ SingleInv'
    <3>1. ~Creates /\ ~Posted /\ lookups = {} /\ ~Answered /\ "over" \notin odd
      BY <1>3, <2>1, <2>2
    <3>2. OnlyOurs' /\ OneJob' /\ EndsFirst'
      BY <1>2, <2>1, <3>1, EndCreateAdded DEF OneInv, LiveInv
    <3>3. ~Answered' /\ OneAnswer'
      BY <2>1, <3>1, Keeps DEF OneInv, SingleInv
    <3>4. ~Creates' /\ lookups' = {} /\ ~(timer' = TRUE)
      BY <1>1, <2>1, <3>1 DEF Creates
    <3> QED
      BY <3>2, <3>3, <3>4 DEF LiveInv, SingleInv, Creates
  <2> QED
    BY <1>4, <2>1, <2>2 DEF OneInv
<1>7. CASE Disconnect \/ Says
  <2>1. PICK job \in Jobs \ {"create_connect"} : SUBPROC(job)
    BY <1>7 DEF Disconnect, Says, Jobs
  <2>2. UNCHANGED <<inbox, timer>>
    BY <1>7 DEF Disconnect, Says, own
  <2> QED
    BY <1>1, <1>2, <1>4, <2>1, <2>2, Keeps, JobAdded, Quiet
<1>8. CASE do_reconnect
  <2>1. /\ timer = TRUE /\ jobs = <<>> /\ hpc = "idle" /\ UNCHANGED inbox
        /\ timer' = FALSE /\ odd' = odd
    BY <1>8 DEF do_reconnect, TypeOK
  <2>2. ~Posted
    BY <2>1 DEF Posted
  <2>3. ASSUME "over" \notin odd
        PROVE  LiveInv' /\ SingleInv'
    <3>1. NoneLive /\ OnlyOurs /\ lookups = {} /\ ~Answered /\ OneAnswer /\ OneJob /\ EndsFirst
      BY <2>1, <2>3 DEF OneInv, LiveInv, SingleInv
    <3>2. OneJob' /\ EndsFirst'
      <4>1. CASE SUBPROC("create_connect")
        BY <1>2, <2>2, <3>1, <4>1, CreateAdded
      <4>2. CASE UNCHANGED jobs
        BY <1>2, <3>1, <4>2, JobsKept
      <4> QED
        BY <1>8, <4>1, <4>2 DEF do_reconnect
    <3>3. ~Answered' /\ OneAnswer'
      BY <2>1, <3>1, Keeps
    <3>4. ~Creates' /\ lookups' = {} /\ ~(timer' = TRUE) /\ NoneLive' /\ OnlyOurs'
      BY <1>1, <1>2, <2>1, <3>1 DEF Creates
    <3> QED
      BY <3>2, <3>3, <3>4 DEF LiveInv, SingleInv
  <2> QED
    BY <1>4, <2>1, <2>3 DEF OneInv
<1>9. CASE TurnsGprsOn
  <2>1. UNCHANGED inbox \/ inbox' = Append(inbox, Msg("LMAN_CONNECT", 0))
    BY <1>9 DEF TurnsGprsOn, Posts
  <2>2. (Answered' <=> Answered) /\ (OneAnswer => OneAnswer') /\ (ClosedIs => ClosedIs')
    <3>1. /\ Msg("LMAN_CONNECT", 0) \in Messages
          /\ Msg("LMAN_CONNECT", 0).ev \notin {"DNR", "CLOSED"}
      BY MessageTypes DEF Msg, Events
    <3> QED
      BY <1>2, <2>1, <3>1, Gains, Keeps
  <2>3. SocketInv'
    BY <1>1, <2>2 DEF OneInv, SocketInv
  <2>4. UNCHANGED <<jobs, timer>>
    BY <1>9 DEF TurnsGprsOn
  <2> QED
    BY <1>1, <1>2, <2>2, <2>3, <2>4, JobsKept, Quiet
<1>10. CASE maincsm_onclose
  <2>1. /\ timer' = FALSE /\ inbox' = <<>>
        /\ jobs' = jobs \o <<"end_socket", "ClearSendQ", "ElfKiller">>
    BY <1>10 DEF maincsm_onclose
  <2>2. ~Answered' /\ OneAnswer' /\ ClosedIs'
    BY <2>1 DEF Answered, OneAnswer, ClosedIs
  <2>3. SocketInv'
    BY <1>1, <2>2 DEF OneInv, SocketInv
  <2>4. /\ Posted' <=> Posted
        /\ OneJob => OneJob'
        /\ EndsFirst => EndsFirst'
    <3> DEFINE t == <<"end_socket", "ClearSendQ", "ElfKiller">>
    <3>1. t \in Seq(Jobs) /\ \A i \in DOMAIN t : t[i] # "create_connect"
      BY DEF Jobs
    <3>2. jobs' = jobs \o t
      BY <2>1
    <3> HIDE DEF t
    <3> QED
      BY <1>2, <3>1, <3>2, JobsAdded
  <2> QED
    BY <1>1, <1>2, <2>1, <2>2, <2>3, <2>4 DEF OneInv, LiveInv, SingleInv, Creates
<1> QED
  BY <1>5, <1>6, <1>7, <1>8, <1>9, <1>10

LEMMA TwoAdded ==
  ASSUME NEW S, NEW q \in Seq(S), NEW a \in S, NEW b \in S, NEW r,
         r = Append(q, a) \/ r = Append(q, a) \o <<b>>
  PROVE  /\ \A i \in DOMAIN q : i \in DOMAIN r /\ r[i] = q[i]
         /\ \A i \in DOMAIN r : \/ i \in DOMAIN q /\ r[i] = q[i]
                                \/ r[i] = a
                                \/ r = Append(q, a) \o <<b>> /\ r[i] = b
<1>1. CASE r = Append(q, a)
  BY <1>1
<1>2. CASE r = Append(q, a) \o <<b>>
  <2>1. /\ Append(q, a) \in Seq(S) /\ <<b>> \in Seq(S)
        /\ Len(q) \in Nat /\ Len(Append(q, a)) = Len(q) + 1 /\ Len(<<b>>) = 1
    OBVIOUS
  <2>2. Len(r) = Len(q) + 2 /\ DOMAIN r = 1..(Len(q) + 2)
    BY <1>2, <2>1
  <2>3. \A i \in 1..(Len(q) + 2) : IF i <= Len(q) + 1 THEN r[i] = Append(q, a)[i] ELSE r[i] = b
    BY <1>2, <2>1
  <2>4. \A i \in 1..(Len(q) + 1) : IF i <= Len(q) THEN Append(q, a)[i] = q[i]
                                                   ELSE Append(q, a)[i] = a
    BY <2>1
  <2> QED
    BY <1>2, <2>1, <2>2, <2>3, <2>4
<1> QED
  BY <1>1, <1>2

LEMMA MessagesOne == TypeOK /\ OneInv /\ maincsm_onmessage => OneInv'
<1> SUFFICES ASSUME TypeOK, OneInv, maincsm_onmessage
             PROVE  OneInv'
  OBVIOUS
<1>0. /\ Takes
      /\ UNCHANGED <<socks, lookups, hpc>> /\ odd \subseteq odd'
  BY OddGrows DEF maincsm_onmessage, LMAN_DISCONNECT_IND, LMAN_CONNECT_CNF,
     ENIP_DNR_HOST_BY_NAME, HandlesPacket, IPC_FREEMSG, ENIP_SOCK_CONNECTED,
     ENIP_SOCK_DATA_READ,
     ENIP_BUFFER_FREE, ENIP_SOCK_REMOTE_CLOSED, ENIP_SOCK_CLOSED, NotOurs, HandlesOwn,
     Handles, Takes, Round, phone
<1>1. /\ Answered' => Answered
      /\ OneAnswer => OneAnswer'
      /\ ClosedIs => ClosedIs'
  BY <1>0, Loses, SocksKept
<1>2. /\ NoneLive' <=> NoneLive
      /\ sock' = sock => (OnlyOurs' <=> OnlyOurs)
      /\ OnlyOurs /\ sock = NoSock => NoneLive
      /\ NoneLive' => OnlyOurs'
  BY <1>0, SocksKept
<1>3. sock' \in {sock, NoSock} => SocketInv'
  BY <1>0, <1>1 DEF OneInv, SocketInv
<1>4. CASE LMAN_CONNECT_CNF
  <2>1. /\ timer' = (timer \/ ~dis) /\ UNCHANGED <<sock, jobs>>
        /\ odd' = odd \cup (IF ~dis /\ (Making \/ sock # NoSock) THEN {"over"} ELSE {})
                      \cup (IF hpc = "offline" THEN {"offline"} ELSE {})
    BY <1>4 DEF LMAN_CONNECT_CNF, link
  <2>2. ASSUME "over" \notin odd'
        PROVE  LiveInv' /\ SingleInv'
    <3>1. "over" \notin odd /\ (~dis => ~Making /\ sock = NoSock)
      BY <1>0, <2>1, <2>2
    <3>2. ~dis => /\ lookups = {} /\ ~Answered /\ hpc # "dnr" /\ NoneLive
      BY <1>2, <3>1 DEF Making, Resolving, Answered, OneInv, LiveInv
    <3>3. dis => (timer' = TRUE => timer = TRUE)
      BY <2>1 DEF TypeOK
    <3>4. OnlyOurs' /\ EndsFirst' /\ OneJob' /\ OneAnswer' /\ (Posted' <=> Posted)
      BY <1>1, <1>2, <2>1, <3>1, JobsKept DEF OneInv, LiveInv, SingleInv
    <3>5. /\ timer' = TRUE => hpc' # "dnr" /\ lookups' = {} /\ ~Answered' /\ NoneLive'
      BY <1>0, <1>1, <1>2, <3>1, <3>2, <3>3 DEF OneInv, LiveInv, SingleInv, TypeOK
    <3>6. hpc' = "dnr" \/ lookups' # {} \/ Answered' => NoneLive'
      BY <1>0, <1>1, <1>2, <3>1 DEF OneInv, LiveInv
    <3> QED
      BY <1>0, <1>1, <3>1, <3>4, <3>5, <3>6 DEF OneInv, LiveInv, SingleInv, Creates
  <2> QED
    BY <1>3, <2>1, <2>2 DEF OneInv
<1>5. CASE ENIP_DNR_HOST_BY_NAME
  <2>1. /\ Head(inbox).ev = "DNR" /\ (SUBPROC("create_connect") \/ UNCHANGED jobs)
        /\ UNCHANGED <<sock, timer, odd>>
    BY <1>5 DEF ENIP_DNR_HOST_BY_NAME, Handles, link, own
  <2>2. ASSUME "over" \notin odd
        PROVE  LiveInv' /\ SingleInv'
    <3>1. Answered /\ (OneAnswer => ~Answered')
      BY <1>0, <1>5, Loses DEF ENIP_DNR_HOST_BY_NAME, Handles
    <3>2. /\ NoneLive /\ ~Posted /\ ~Creates /\ lookups = {} /\ ~(timer = TRUE)
          /\ OneAnswer /\ OneJob /\ EndsFirst
      BY <2>2, <3>1 DEF OneInv, LiveInv, SingleInv
    <3>3. OneJob' /\ EndsFirst'
      BY <1>2, <2>1, <3>2, CreateAdded, JobsKept
    <3> QED
      BY <1>0, <1>1, <1>2, <2>1, <3>1, <3>2, <3>3 DEF LiveInv, SingleInv, Creates
  <2> QED
    BY <1>3, <2>1, <2>2 DEF OneInv
<1>6. CASE ENIP_SOCK_CLOSED
  <2>1. /\ Head(inbox).ev = "CLOSED" /\ Head(inbox).id = sock
        /\ SUBPROC("ClearSendQ") /\ sock' = NoSock /\ timer' = (timer \/ ~dis)
        /\ Notes("over", ~dis /\ Resolving)
    BY <1>6 DEF ENIP_SOCK_CLOSED, HandlesOwn, Handles
  <2>2. socks[sock] = "closed"
    BY <1>0, <2>1, Loses DEF OneInv, SocketInv
  <2>3. OnlyOurs => NoneLive
    BY <2>2 DEF OnlyOurs, NoneLive, Live
  <2>4. /\ Posted' <=> Posted
        /\ OneJob => OneJob'
        /\ EndsFirst => EndsFirst'
    BY <1>2, <2>1, JobAdded DEF Jobs
  <2>5. ASSUME "over" \notin odd'
        PROVE  LiveInv' /\ SingleInv'
    <3>1. "over" \notin odd /\ (~dis => ~Resolving)
      BY <2>1, <2>5, OddGrows
    <3>2. ~dis => lookups = {} /\ ~Answered /\ hpc # "dnr"
      BY <3>1 DEF Resolving, Answered
    <3>3. dis => (timer' = TRUE => timer = TRUE)
      BY <2>1 DEF TypeOK
    <3>4. NoneLive' /\ OnlyOurs' /\ EndsFirst' /\ OneJob' /\ OneAnswer'
      BY <1>1, <1>2, <2>3, <2>4, <3>1 DEF OneInv, LiveInv, SingleInv
    <3>5. timer' = TRUE => hpc' # "dnr" /\ lookups' = {} /\ ~Answered'
      BY <1>0, <1>1, <3>1, <3>2, <3>3 DEF OneInv, SingleInv, TypeOK
    <3> QED
      BY <1>0, <1>1, <2>4, <3>1, <3>4, <3>5 DEF OneInv, LiveInv, SingleInv, Creates
  <2> QED
    BY <1>3, <2>1, <2>5 DEF OneInv
<1>7. CASE \/ LMAN_DISCONNECT_IND \/ HandlesPacket \/ IPC_FREEMSG \/ ENIP_SOCK_CONNECTED
           \/ ENIP_SOCK_DATA_READ \/ ENIP_BUFFER_FREE \/ ENIP_SOCK_REMOTE_CLOSED \/ NotOurs
  <2>1. /\ UNCHANGED <<sock, timer>>
        /\ UNCHANGED jobs \/ \E job \in Jobs \ {"create_connect"} : SUBPROC(job)
    BY <1>7 DEF LMAN_DISCONNECT_IND, HandlesPacket, IPC_FREEMSG, ENIP_SOCK_CONNECTED,
       ENIP_SOCK_DATA_READ, ENIP_BUFFER_FREE, ENIP_SOCK_REMOTE_CLOSED, NotOurs, Jobs, link
  <2>2. /\ Posted' <=> Posted
        /\ OneJob => OneJob'
        /\ EndsFirst => EndsFirst'
    BY <1>2, <2>1, JobAdded, JobsKept
  <2> QED
    BY <1>0, <1>1, <1>2, <1>3, <2>1, <2>2, Quiet
<1> QED
  BY <1>4, <1>5, <1>6, <1>7 DEF maincsm_onmessage

LEMMA ChangesOne ==
  ASSUME TypeOK, OneInv, NEW s \in Socket, NEW from, NEW to \in SocketStates \ {"none"},
         NEW ev \in Events \ {"DNR"}, Changes(s, from, to, ev), from # "closed",
         from = "shut" => to = "closed", ev = "CLOSED" => to = "closed", from # "none"
  PROVE  OneInv'
<1>1. /\ socks[s] = from /\ socks' = [socks EXCEPT ![s] = to]
      /\ Posts(s, Msg(ev, s)) /\ odd \subseteq odd'
      /\ UNCHANGED <<sock, timer, jobs, hpc, lookups>>
  BY OddGrows DEF Changes, link
<1>2. /\ \A t \in Socket : Live(t)' => Live(t)
      /\ ClosedStays
      /\ sock # NoSock /\ socks[sock] # "none" => socks'[sock] # "none"
  BY <1>1 DEF Live, ClosedStays, TypeOK, SocketStates
<1>3. (OnlyOurs => OnlyOurs') /\ (NoneLive => NoneLive')
  BY <1>1, <1>2 DEF OnlyOurs, NoneLive
<1>4. (Answered' <=> Answered) /\ (OneAnswer => OneAnswer') /\ (ClosedIs => ClosedIs')
  <2>1. CASE UNCHANGED inbox
    BY <1>2, <2>1, Keeps
  <2>2. CASE inbox' = Append(inbox, Msg(ev, s))
    <3>1. /\ Msg(ev, s) \in Messages /\ Msg(ev, s).ev = ev /\ Msg(ev, s).id = s
      BY MessageTypes, Sockets DEF Msg
    <3>2. ev = "CLOSED" => socks'[s] = "closed"
      BY <1>1 DEF TypeOK
    <3> QED
      BY <1>2, <2>2, <3>1, <3>2, Gains
  <2> QED
    BY <1>1, <2>1, <2>2 DEF Posts
<1>5. SocketInv'
  BY <1>1, <1>2, <1>4 DEF OneInv, SocketInv
<1> QED
  BY <1>1, <1>3, <1>4, <1>5, JobsKept, Quiet

LEMMA PhoneOne == TypeOK /\ OneInv /\ Phone => OneInv'
<1> SUFFICES ASSUME TypeOK, OneInv, Phone
             PROVE  OneInv'
  OBVIOUS
<1>1. CASE StackConnects \/ ServerHangsUp \/ StackCloses \/ StackBreaks
  BY <1>1, ChangesOne DEF StackConnects, ServerHangsUp, StackCloses, StackBreaks, Soon,
     SocketStates, Events
<1>2. CASE StackHasRoom \/ ServerSends \/ GprsUp
  <2>1. PICK ev \in {"BUFFER_FREE", "DATA_READ", "LMAN_CONNECT"}, id \in {0, sock} :
          Posts(id, Msg(ev, id))
    BY <1>2 DEF StackHasRoom, ServerSends, GprsUp
  <2>2. UNCHANGED <<sock, socks, jobs, hpc, lookups, timer, odd>>
    BY <1>2 DEF StackHasRoom, ServerSends, GprsUp, link, phone
  <2>3. /\ Msg(ev, id) \in Messages /\ Msg(ev, id).ev \notin {"DNR", "CLOSED"}
    BY MessageTypes, Sockets DEF Msg, Events, TypeOK
  <2>4. (Answered' <=> Answered) /\ (OneAnswer => OneAnswer') /\ (ClosedIs => ClosedIs')
    BY <2>1, <2>2, <2>3, Gains, Keeps, SocksKept DEF Posts
  <2>5. SocketInv'
    BY <2>2, <2>4 DEF OneInv, SocketInv
  <2> QED
    BY <2>2, <2>4, <2>5, SocksKept, JobsKept, Quiet
<1>3. CASE ResolverAnswers
  <2>1. PICK id \in lookups : lookups' = lookups \ {id} /\ Posts(0, Msg("DNR", id))
    BY <1>3 DEF ResolverAnswers
  <2>2. UNCHANGED <<sock, socks, jobs, hpc, timer, odd>>
    BY <1>3 DEF ResolverAnswers, link
  <2>3. /\ Msg("DNR", id) \in Messages /\ Msg("DNR", id).ev = "DNR"
    BY MessageTypes DEF Msg, Events, TypeOK
  <2>4. /\ ~Answered /\ OneAnswer => OneAnswer'
        /\ ClosedIs => ClosedIs'
    BY <2>1, <2>2, <2>3, Gains, Keeps, SocksKept DEF Posts
  <2>5. SocketInv'
    BY <2>2, <2>4 DEF OneInv, SocketInv
  <2>6. ASSUME "over" \notin odd
        PROVE  LiveInv' /\ SingleInv'
    <3>1. /\ OnlyOurs /\ NoneLive /\ ~Posted /\ ~Creates /\ ~Answered /\ ~(timer = TRUE)
          /\ OneAnswer /\ OneJob /\ EndsFirst /\ \A a, b \in lookups : a = b
      BY <2>1, <2>6 DEF OneInv, LiveInv, SingleInv
    <3>2. lookups' = {}
      BY <2>1, <3>1
    <3>3. OnlyOurs' /\ NoneLive' /\ ~Posted' /\ OneAnswer' /\ OneJob' /\ EndsFirst'
      BY <2>2, <2>4, <3>1, SocksKept, JobsKept
    <3> QED
      BY <2>2, <3>1, <3>2, <3>3 DEF LiveInv, SingleInv, Creates
  <2> QED
    BY <2>2, <2>5, <2>6 DEF OneInv
<1>4. CASE GprsDown
  <2>1. /\ socks' = Aborted /\ odd \subseteq odd'
        /\ UNCHANGED <<sock, jobs, hpc, lookups, timer>>
    BY <1>4, OddGrows DEF GprsDown, link
  <2>2. NoneLive' /\ OnlyOurs' /\ ClosedStays
    BY <2>1, SocksAborted
  <2>3. SocketInv /\ sock # NoSock => socks'[sock] = "closed"
    BY <2>1 DEF SocketInv, Aborted, TypeOK
  <2>4. /\ (Answered' <=> Answered) /\ (OneAnswer => OneAnswer')
        /\ SocketInv /\ ClosedIs => ClosedIs'
    <3>1. Msg("LMAN_DISCONNECT", 0) \in Messages /\ Msg("CLOSED", sock) \in Messages
      BY MessageTypes, Sockets DEF Events, TypeOK
    <3>2. /\ Msg("LMAN_DISCONNECT", 0).ev = "LMAN_DISCONNECT"
          /\ Msg("CLOSED", sock).ev = "CLOSED" /\ Msg("CLOSED", sock).id = sock
      BY DEF Msg
    <3>3. \/ inbox' = Append(inbox, Msg("LMAN_DISCONNECT", 0))
          \/ /\ sock # NoSock
             /\ inbox' = Append(inbox, Msg("LMAN_DISCONNECT", 0)) \o <<Msg("CLOSED", sock)>>
      BY <1>4, <3>1 DEF GprsDown, TypeOK
    <3>4. /\ \A i \in DOMAIN inbox : i \in DOMAIN inbox' /\ inbox'[i] = inbox[i]
          /\ \A i \in DOMAIN inbox' :
               \/ i \in DOMAIN inbox /\ inbox'[i] = inbox[i]
               \/ inbox'[i] = Msg("LMAN_DISCONNECT", 0)
               \/ sock # NoSock /\ inbox'[i] = Msg("CLOSED", sock)
      <4> DEFINE r == inbox'
                 a == Msg("LMAN_DISCONNECT", 0)
                 b == Msg("CLOSED", sock)
      <4>1. /\ inbox \in Seq(Messages) /\ a \in Messages /\ b \in Messages
            /\ r = Append(inbox, a) \/ r = Append(inbox, a) \o <<b>>
            /\ sock = NoSock => r = Append(inbox, a)
        BY <3>1, <3>3 DEF TypeOK
      <4> HIDE DEF r, a, b
      <4>2. /\ \A i \in DOMAIN inbox : i \in DOMAIN r /\ r[i] = inbox[i]
            /\ \A i \in DOMAIN r : \/ i \in DOMAIN inbox /\ r[i] = inbox[i]
                                   \/ r[i] = a
                                   \/ r[i] = b
        BY <4>1, TwoAdded
      <4>3. \A i \in DOMAIN Append(inbox, a) :
              \/ i \in DOMAIN inbox /\ Append(inbox, a)[i] = inbox[i]
              \/ Append(inbox, a)[i] = a
        BY <4>1
      <4> QED
        BY <4>1, <4>2, <4>3 DEF r, a, b
    <3>5. ASSUME NEW i \in DOMAIN inbox'
          PROVE  \/ i \in DOMAIN inbox /\ inbox'[i] = inbox[i]
                 \/ inbox'[i].ev = "LMAN_DISCONNECT"
                 \/ sock # NoSock /\ inbox'[i].ev = "CLOSED" /\ inbox'[i].id = sock
      BY <3>2, <3>4, <3>5
    <3>6. Answered' <=> Answered
      <4>1. Answered' => Answered
        BY <3>5 DEF Answered
      <4> QED
        BY <3>4, <4>1 DEF Answered
    <3>7. OneAnswer => OneAnswer'
      BY <3>5 DEF OneAnswer
    <3>8. SocketInv /\ ClosedIs => ClosedIs'
      BY <2>2, <2>3, <3>5 DEF ClosedIs, ClosedStays, TypeOK
    <3> QED
      BY <3>6, <3>7, <3>8
  <2>5. SocketInv'
    BY <2>1, <2>3, <2>4 DEF OneInv, SocketInv
  <2> QED
    BY <2>1, <2>2, <2>4, <2>5, JobsKept, Quiet
<1> QED
  BY <1>1, <1>2, <1>3, <1>4 DEF Phone

LEMMA OneStarts == Init => OneInv
<1> SUFFICES ASSUME Init
             PROVE  OneInv
  OBVIOUS
<1>1. /\ sock = NoSock /\ inbox = <<>> /\ jobs = <<"create_connect">> /\ hpc = "idle"
      /\ lookups = {} /\ timer = FALSE
      /\ socks = [s \in Socket |-> "none"]
  BY DEF Init
<1>2. SocketInv /\ NoneLive /\ OnlyOurs
  BY <1>1 DEF SocketInv, ClosedIs, NoneLive, OnlyOurs, Live
<1>3. ~Answered /\ OneAnswer /\ OneJob /\ EndsFirst
  BY <1>1, <1>2 DEF Answered, OneAnswer, OneJob, EndsFirst
<1> QED
  BY <1>1, <1>2, <1>3 DEF OneInv, LiveInv, SingleInv, Creates

LEMMA OneStays == TypeOK /\ OneInv /\ [Next]_vars => OneInv'
<1> SUFFICES ASSUME TypeOK, OneInv, [Next]_vars
             PROVE  OneInv'
  OBVIOUS
<1>1. CASE HELPER
  BY <1>1, HELPERCreates, HELPERSends, HELPERAnswers DEF HELPER
<1>2. CASE UNCHANGED vars
  <2>1. UNCHANGED <<sock, socks, jobs, inbox, hpc, lookups, timer, odd>>
    BY <1>2 DEF vars, link, phone
  <2>2. SocketInv'
    BY <2>1, Keeps, SocksKept DEF OneInv, SocketInv
  <2> QED
    BY <2>1, <2>2, Keeps, SocksKept, JobsKept, Quiet
<1> QED
  BY <1>1, <1>2, KeysOne, MessagesOne, PhoneOne DEF Next

\* No connection but that of sock is open, however many sockets, keys, faults and
\* times GPRS goes down there are, unless a connection is asked for while one is
\* being made (main.c:1437-1459, 1496, 2622-2637).
THEOREM OneConnectionAlways == Spec => []OneConnection
<1>1. TypeOK /\ OneInv /\ [Next]_vars => (TypeOK /\ OneInv)'
  BY TypesStay, OneStays
<1>2. OneInv => OneConnection
  BY DEF OneInv, LiveInv, OnlyOurs, OneConnection
<1> QED
  BY <1>1, <1>2, TypesStart, OneStarts, PTL DEF Spec
-----------------------------------------------------------------------------
(* Told to be off, it stays off.                                           *)

\* Nothing that makes a connection, now or in time, comes up.
LEMMA OffQuiet ==
  ASSUME OffInv, dis' = dis, odd \subseteq odd', timer' = TRUE => timer = TRUE,
         TypeOK', Creates' => Creates, Posted' => Posted,
         lookups' \subseteq lookups,
         Answered' => Answered \/ lookups # {}
  PROVE  OffInv'
  BY DEF OffInv, TypeOK

\* It is told when there is nothing that does.
LEMMA OffTold ==
  ASSUME ~timer /\ ~Making, UNCHANGED <<timer, lookups, inbox>>,
         Creates' => Creates, Posted' => Posted, timer \in BOOLEAN
  PROVE  OffInv'
<1>1. ~Creates /\ ~Posted /\ lookups = {} /\ ~Answered
  BY DEF Making, Resolving, Creates, Posted, Answered, Range
<1>2. ~Answered'
  BY <1>1, Keeps
<1> QED
  BY <1>1, <1>2 DEF OffInv

LEMMA HELPEROff == TypeOK /\ TypeOK' /\ OffInv /\ HELPER => OffInv'
<1> SUFFICES ASSUME TypeOK, TypeOK', OffInv, HELPER
             PROVE  OffInv'
  OBVIOUS
<1>1. CASE create_connect
  <2>1. Creates \/ Posted
    <3>1. CASE CreateBegins
      BY <3>1, JobTaken DEF CreateBegins
    <3>2. CASE ~CreateBegins
      BY <1>1, <3>2 DEF create_connect, GoesOffline, NamePending, NameError, NameNotFound,
         OpensSocket, NoSocketLeft, Connecting, CannotConnect, SetsState, Creates
    <3> QED
      BY <3>1, <3>2
  <2>2. dis' = dis /\ odd \subseteq odd'
    BY <1>1, OddGrows DEF create_connect, CreateBegins, GoesOffline, NamePending, NameError,
       NameNotFound, OpensSocket, NoSocketLeft, Connecting, CannotConnect, SetsState, link
  <2> QED
    BY <2>1, <2>2 DEF OffInv
<1>2. CASE send_login \/ SendsOther \/ resend \/ ClearSendQ \/ end_socket \/ ElfKiller
  <2>1. PICK job : Starts(job)
    BY <1>2 DEF send_login, SendsOther, resend, ClearSendQ, end_socket, ElfKiller
  <2>2. /\ UNCHANGED <<dis, inbox, lookups, timer>> /\ odd \subseteq odd'
        /\ Creates' => Creates
    BY <1>2, OddGrows DEF send_login, SendsOther, resend, ClearSendQ, end_socket, ElfKiller,
       phone, link, Creates
  <2> QED
    BY <2>1, <2>2, JobTaken, Keeps, OffQuiet
<1>3. CASE T_ERROR
  <2>1. /\ dis' \in {dis, TRUE} /\ Notes("off", dis' /\ (timer \/ Making))
        /\ UNCHANGED <<timer, lookups, inbox, jobs>> /\ hpc' \in {"idle", "packet"}
    BY <1>3 DEF T_ERROR, GoesOn, phone
  <2>2. ~Creates'
    BY <2>1 DEF Creates
  <2>3. CASE ~timer /\ ~Making
    BY <2>1, <2>2, <2>3, JobsKept, OffTold DEF TypeOK
  <2>4. CASE timer \/ Making
    BY <2>1, <2>4, OddGrows DEF OffInv
  <2> QED
    BY <2>3, <2>4
<1>4. CASE get_answer /\ ~T_ERROR
  <2>1. /\ UNCHANGED <<dis, lookups, timer>> /\ odd \subseteq odd'
        /\ hpc' \in {"idle", "packet", "post"}
    BY <1>4, OddGrows DEF get_answer, Receives, T_LOGIN, BadPacket, SendMSGACK, HandsOver,
       phone, link, Starts, GoesOn
  <2>2. Posted' => Posted
    <3>1. CASE Starts("get_answer")
      BY <3>1, JobTaken
    <3>2. CASE UNCHANGED jobs
      BY <3>2, JobsKept
    <3> QED
      BY <1>4, <3>1, <3>2 DEF get_answer, Receives, T_LOGIN, BadPacket, SendMSGACK, HandsOver
  <2>3. Answered' => Answered
    <3>1. CASE UNCHANGED inbox
      BY <3>1, Keeps
    <3>2. CASE HandsOver /\ alive
      <4> DEFINE m == [ev |-> "PACKET", id |-> sock, key |-> Head(rb).key]
      <4>1. Head(rb) \in Packets
        BY <3>2, Taken DEF HandsOver, TypeOK
      <4>2. Head(rb).key \in Nat /\ sock \in Int
        BY <4>1, Sockets DEF Packets, TypeOK
      <4>3. m \in Messages /\ m.ev # "DNR"
        BY <4>2 DEF Messages, Events
      <4>4. inbox' = Append(inbox, m)
        BY <3>2 DEF HandsOver
      <4> HIDE DEF m
      <4> QED
        BY <4>3, <4>4, Gains
    <3> QED
      BY <1>4, <3>1, <3>2 DEF get_answer, Receives, T_LOGIN, BadPacket, SendMSGACK, HandsOver
  <2>4. ~Creates'
    BY <2>1 DEF Creates
  <2> QED
    BY <2>1, <2>2, <2>3, <2>4, OffQuiet
<1> QED
  BY <1>1, <1>2, <1>3, <1>4 DEF HELPER

LEMMA KeysOff ==
  TypeOK /\ TypeOK' /\ OffInv
  /\ (GREEN_BUTTON \/ ZeroKey \/ Disconnect \/ Says \/ do_reconnect \/ TurnsGprsOn
      \/ maincsm_onclose)
    => OffInv'
<1> SUFFICES ASSUME TypeOK, TypeOK', OffInv,
                    GREEN_BUTTON \/ ZeroKey \/ Disconnect \/ Says \/ do_reconnect
                      \/ TurnsGprsOn \/ maincsm_onclose
             PROVE  OffInv'
  OBVIOUS
<1>1. CASE GREEN_BUTTON \/ ZeroKey
  <2>1. dis' = FALSE
    BY <1>1 DEF GREEN_BUTTON, ZeroKey
  <2> QED
    BY <2>1 DEF OffInv
<1>2. CASE Disconnect
  <2>1. /\ SUBPROC("end_socket") /\ Notes("off", timer \/ Making)
        /\ UNCHANGED <<timer, lookups, inbox, hpc>>
    BY <1>2 DEF Disconnect, phone
  <2>2. (Posted' <=> Posted) /\ (Creates' <=> Creates)
    BY <2>1, JobAdded DEF Jobs, Creates
  <2>3. CASE ~timer /\ ~Making
    BY <2>1, <2>2, <2>3, OffTold DEF TypeOK
  <2>4. CASE timer \/ Making
    BY <2>1, <2>4, OddGrows DEF OffInv
  <2> QED
    BY <2>3, <2>4
<1>3. CASE do_reconnect
  <2>1. timer = TRUE /\ UNCHANGED <<dis, odd>>
    BY <1>3 DEF do_reconnect, TypeOK, link
  <2> QED
    BY <2>1 DEF OffInv
<1>4. CASE Says \/ TurnsGprsOn \/ maincsm_onclose
  <2>1. /\ UNCHANGED <<dis, lookups, hpc, odd>> /\ (timer' = TRUE => timer = TRUE)
    BY <1>4 DEF Says, TurnsGprsOn, maincsm_onclose, link, phone
  <2>2. Creates' <=> Creates
    BY <2>1 DEF Creates
  <2>3. Posted' <=> Posted
    <3> DEFINE t == <<"end_socket", "ClearSendQ", "ElfKiller">>
    <3>1. t \in Seq(Jobs) /\ \A i \in DOMAIN t : t[i] # "create_connect"
      BY DEF Jobs
    <3>2. SUBPROC("other") \/ UNCHANGED jobs \/ jobs' = jobs \o t
      BY <1>4 DEF Says, TurnsGprsOn, maincsm_onclose
    <3> HIDE DEF t
    <3> QED
      BY <3>1, <3>2, JobsAdded, JobAdded, JobsKept DEF Jobs
  <2>4. Answered' => Answered
    <3>1. /\ Msg("LMAN_CONNECT", 0) \in Messages /\ Msg("LMAN_CONNECT", 0).ev # "DNR"
      BY MessageTypes DEF Msg, Events
    <3>2. \/ UNCHANGED inbox \/ inbox' = <<>>
          \/ inbox' = Append(inbox, Msg("LMAN_CONNECT", 0))
      BY <1>4 DEF Says, TurnsGprsOn, maincsm_onclose, Posts
    <3>3. inbox' = <<>> => ~Answered'
      BY DEF Answered
    <3> QED
      BY <3>1, <3>2, <3>3, Gains, Keeps
  <2> QED
    BY <2>1, <2>2, <2>3, <2>4, OffQuiet
<1> QED
  BY <1>1, <1>2, <1>3, <1>4

LEMMA MessagesOff == TypeOK /\ TypeOK' /\ OffInv /\ maincsm_onmessage => OffInv'
<1> SUFFICES ASSUME TypeOK, TypeOK', OffInv, maincsm_onmessage
             PROVE  OffInv'
  OBVIOUS
<1>1. /\ Takes
      /\ UNCHANGED <<dis, lookups, hpc>> /\ odd \subseteq odd'
  BY OddGrows DEF maincsm_onmessage, LMAN_DISCONNECT_IND, LMAN_CONNECT_CNF,
     ENIP_DNR_HOST_BY_NAME, HandlesPacket, IPC_FREEMSG, ENIP_SOCK_CONNECTED,
     ENIP_SOCK_DATA_READ,
     ENIP_BUFFER_FREE, ENIP_SOCK_REMOTE_CLOSED, ENIP_SOCK_CLOSED, NotOurs, HandlesOwn,
     Handles, Takes, Round, phone, link
<1>2. /\ Answered' => Answered
      /\ Head(inbox).ev = "DNR" => Answered
  BY <1>1, Loses
<1>3. Creates' <=> Creates
  BY <1>1 DEF Creates
<1>4. CASE ENIP_DNR_HOST_BY_NAME
  <2>1. Answered
    BY <1>2, <1>4 DEF ENIP_DNR_HOST_BY_NAME, Handles
  <2> QED
    BY <1>1, <2>1 DEF OffInv
<1>5. CASE ~ENIP_DNR_HOST_BY_NAME
  <2>1. UNCHANGED jobs \/ \E job \in Jobs \ {"create_connect"} : SUBPROC(job)
    BY <1>5 DEF maincsm_onmessage, LMAN_DISCONNECT_IND, LMAN_CONNECT_CNF, HandlesPacket, IPC_FREEMSG,
       ENIP_SOCK_CONNECTED, ENIP_SOCK_DATA_READ, ENIP_BUFFER_FREE, ENIP_SOCK_REMOTE_CLOSED,
       ENIP_SOCK_CLOSED, NotOurs, Jobs
  <2>2. Posted' <=> Posted
    BY <2>1, JobAdded, JobsKept
  <2>3. timer' = timer \/ timer' = (timer \/ ~dis)
    BY <1>5 DEF maincsm_onmessage, LMAN_DISCONNECT_IND, LMAN_CONNECT_CNF, HandlesPacket, IPC_FREEMSG,
       ENIP_SOCK_CONNECTED, ENIP_SOCK_DATA_READ, ENIP_BUFFER_FREE, ENIP_SOCK_REMOTE_CLOSED,
       ENIP_SOCK_CLOSED, NotOurs
  <2>4. dis = FALSE \/ (timer' = TRUE => timer = TRUE)
    BY <2>3 DEF TypeOK
  <2>5. CASE dis = FALSE
    BY <1>1, <2>5 DEF OffInv
  <2>6. CASE timer' = TRUE => timer = TRUE
    BY <1>1, <1>2, <1>3, <2>2, <2>6, OffQuiet
  <2> QED
    BY <2>4, <2>5, <2>6
<1> QED
  BY <1>4, <1>5

\* The phone answers only what has been looked up.
LEMMA PhoneAnswers ==
  ASSUME TypeOK, Phone
  PROVE  Answered' => Answered \/ lookups # {}
<1>1. CASE ResolverAnswers
  BY <1>1 DEF ResolverAnswers
<1>2. CASE GprsDown
  <2> DEFINE r == inbox'
             a == Msg("LMAN_DISCONNECT", 0)
             b == Msg("CLOSED", sock)
  <2>1. /\ inbox \in Seq(Messages) /\ a \in Messages /\ b \in Messages
        /\ a.ev # "DNR" /\ b.ev # "DNR"
    BY MessageTypes, Sockets DEF Events, TypeOK, Msg
  <2>2. r = Append(inbox, a) \/ r = Append(inbox, a) \o <<b>>
    BY <1>2, <2>1 DEF GprsDown
  <2> HIDE DEF r, a, b
  <2>3. \A i \in DOMAIN r : \/ i \in DOMAIN inbox /\ r[i] = inbox[i]
                            \/ r[i] = a
                            \/ r[i] = b
    BY <2>1, <2>2, TwoAdded
  <2> QED
    BY <2>1, <2>3 DEF r, Answered
<1>3. CASE Phone /\ ~ResolverAnswers /\ ~GprsDown
  <2>1. PICK ev \in Events \ {"DNR"}, id \in Socket \cup {0, sock} : Posts(id, Msg(ev, id))
    BY <1>3 DEF Phone, StackConnects, StackBreaks, ServerHangsUp, StackCloses, Soon,
       Changes, StackHasRoom, ServerSends, GprsUp, Events
  <2>2. Msg(ev, id) \in Messages /\ Msg(ev, id).ev # "DNR"
    BY MessageTypes, Sockets DEF Msg, TypeOK
  <2> QED
    BY <2>1, <2>2, Gains, Keeps DEF Posts
<1> QED
  BY <1>1, <1>2, <1>3

LEMMA PhoneOff == TypeOK /\ TypeOK' /\ OffInv /\ Phone => OffInv'
<1> SUFFICES ASSUME TypeOK, TypeOK', OffInv, Phone
             PROVE  OffInv'
  OBVIOUS
<1>1. UNCHANGED <<dis, jobs, hpc, timer>> /\ odd \subseteq odd' /\ lookups' \subseteq lookups
  BY OddGrows DEF Phone, StackConnects, StackBreaks, ServerHangsUp, StackCloses, Soon,
     Changes, StackHasRoom, ServerSends, ResolverAnswers, GprsDown, GprsUp, link, phone
<1>2. (Creates' <=> Creates) /\ (Posted' <=> Posted)
  BY <1>1, JobsKept DEF Creates
<1>3. Answered' => Answered \/ lookups # {}
  BY PhoneAnswers
<1> QED
  BY <1>1, <1>2, <1>3, OffQuiet

LEMMA OffStays == TypeOK /\ TypeOK' /\ OffInv /\ [Next]_vars => OffInv'
<1> SUFFICES ASSUME TypeOK, TypeOK', OffInv, [Next]_vars
             PROVE  OffInv'
  OBVIOUS
<1>1. CASE UNCHANGED vars
  BY <1>1 DEF vars, link, phone, OffInv, Creates, Posted, Answered
<1> QED
  BY <1>1, HELPEROff, KeysOff, MessagesOff, PhoneOff DEF Next

\* Once the user has chosen "Disconnect" (mainmenu.c:72), or the server has said that
\* somebody else uses the number, no connection is begun until the user presses a key,
\* however often the stack, the resolver and GPRS do what they do, unless one was
\* already on its way.
THEOREM StaysOffAlways == Spec => StaysOff
<1>1. Init => OffInv
  BY DEF Init, OffInv
<1>2. TypeOK /\ OffInv /\ [Next]_vars => (TypeOK /\ OffInv)'
  BY TypesStay, OffStays
<1>3. TypeOK /\ OffInv /\ [Next]_vars
        => [CreateBegins /\ dis => odd \cap {"off", "over", "zero"} # {}]_vars
  BY JobTaken DEF CreateBegins, OffInv
<1> QED
  BY <1>1, <1>2, <1>3, TypesStart, PTL DEF Spec, StaysOff

-----------------------------------------------------------------------------
(***************************************************************************)
(* What the server of NATICQ gets first on a connection is the login, and  *)
(* what it has been told to have arrived does arrive, for any number of    *)
(* connections, packets, keys and faults.                                  *)
(*                                                                         *)
(* What is queued waits for connect_state >= 2, which send_login sets as   *)
(* it puts the login into the queue.  So the login is first if the queue   *)
(* is empty then (QueueInv).  What an earlier connection has left is       *)
(* thrown away by the ClearSendQ that its end has posted; it is done       *)
(* before the next create_connect (ClearInv), and a login is not sent      *)
(* before its connection stands (LoginsInv).  All of this needs that no    *)
(* connection is made while there is a socket (AloneInv).                  *)
(*                                                                         *)
(* A message is acknowledged, and perhaps only queues its acknowledgement, *)
(* before it is handed to the MMI process.  Whatever acknowledgement is in *)
(* the queue, its message is still on its way on the same connection       *)
(* (QueuedInv), so that it arrives before the connection can end           *)
(* (AckedInv), or the queue will be thrown away (OrphanInv, ClearsInv).    *)
(***************************************************************************)

Plain == odd \cap {"over", "zero", "wrong"} = {}

\* While there is a socket nothing makes another one.
AloneInv ==
  sock # NoSock =>
    hpc \notin {"offline", "dnr"} /\ ~Posted /\ lookups = {} /\ ~Answered /\ timer = FALSE

\* connect_state says that a login may be sent only of a socket that is connected.
NotYet == sock # NoSock /\ socks[sock] \in {"open", "connecting"}
StateInv ==
  /\ Creates => state = 0
  /\ sock = NoSock => state < 2
  /\ NotYet => state < 2
  /\ hpc \in {"packet", "post"} /\ sock # NoSock => state >= 2

\* A socket that is reported connected was.
Risen == {s \in Socket : socks[s] \notin {"none", "open", "connecting"}}
RisenInv == \A i \in DOMAIN inbox : inbox[i].ev = "CONNECTED" => inbox[i].id \in Risen

\* No connection is made before job j.
NoneBefore(j) == \A i \in 1..(j - 1) : jobs[i] # "create_connect"

\* Nothing that is sent on a connection that stands is thrown away.
ClearInv ==
  \A j \in DOMAIN jobs : jobs[j] = "ClearSendQ" =>
    \/ j > 1 /\ jobs[j - 1] = "end_socket"
    \/ j = 1 /\ hpc = "idle" /\ (sock # NoSock => ~Live(sock))
    \/ sock = NoSock /\ NoneBefore(j) /\ hpc \notin {"offline", "dnr"}

LoginsInv ==
  \A j \in DOMAIN jobs : jobs[j] = "send_login" => ~Creates /\ ~NotYet /\ NoneBefore(j)

\* What is left in the queue is thrown away before the next connection.
Cleared == \E j \in DOMAIN jobs : jobs[j] = "ClearSendQ" /\ NoneBefore(j)

ToLogin(q) == Usable /\ heard[sock] = "none" => q # <<>> /\ q[1].what = "login"

QueueInv ==
  /\ Creates => sendq = <<>>
  /\ sock # NoSock /\ state < 2 => sendq = <<>>
  /\ sock = NoSock /\ sendq # <<>> => Cleared
  /\ state >= 2 => ToLogin(sendq)

HeardInv == \A s \in Socket : heard[s] # "other"

Parts == AloneInv /\ StateInv /\ ClearInv /\ LoginsInv /\ QueueInv /\ HeardInv
LoginInv == Plain => Parts

-----------------------------------------------------------------------------
(* What a step does to the jobs and the queue.                             *)

LEMMA PlainWas == ASSUME odd \subseteq odd', Plain' PROVE Plain
  BY DEF Plain

LEMMA Later ==
  ASSUME TypeOK, NEW t \in Seq(Jobs), jobs' = jobs \o t
  PROVE  /\ Len(jobs) \in Nat /\ DOMAIN jobs = 1..Len(jobs)
         /\ \A j \in DOMAIN jobs : j \in DOMAIN jobs' /\ jobs'[j] = jobs[j]
         /\ \A j \in DOMAIN jobs' :
              \/ j \in DOMAIN jobs /\ jobs'[j] = jobs[j]
              \/ /\ j - Len(jobs) \in DOMAIN t /\ jobs'[j] = t[j - Len(jobs)]
                 /\ j - Len(jobs) > 1 => jobs'[j - 1] = t[j - Len(jobs) - 1]
<1>1. /\ jobs \in Seq(Jobs) /\ jobs' \in Seq(Jobs) /\ Len(jobs) \in Nat /\ Len(t) \in Nat
      /\ Len(jobs') = Len(jobs) + Len(t)
      /\ \A i \in 1..Len(jobs) : jobs'[i] = jobs[i]
      /\ \A i \in 1..(Len(jobs) + Len(t)) : i > Len(jobs) => jobs'[i] = t[i - Len(jobs)]
  BY DEF TypeOK
<1>2. /\ DOMAIN jobs = 1..Len(jobs) /\ DOMAIN jobs' = 1..(Len(jobs) + Len(t))
      /\ DOMAIN t = 1..Len(t)
  BY <1>1
<1> QED
  BY <1>1, <1>2

LEMMA First ==
  ASSUME TypeOK, NEW job, Starts(job)
  PROVE  /\ hpc = "idle" /\ 1 \in DOMAIN jobs /\ jobs[1] = job
         /\ \A j \in DOMAIN jobs' : /\ j \in Nat \ {0} /\ j + 1 \in DOMAIN jobs
                                    /\ jobs'[j] = jobs[j + 1]
         /\ \A j \in DOMAIN jobs : j # 1 =>
              j - 1 \in DOMAIN jobs' /\ jobs'[j - 1] = jobs[j] /\ j \in Nat
<1>1. /\ jobs' \in Seq(Jobs) /\ Len(jobs') = Len(jobs) - 1
      /\ Len(jobs) \in Nat \ {0} /\ job = jobs[1]
      /\ \A i \in 1..(Len(jobs) - 1) : jobs'[i] = jobs[i + 1]
  BY Taken DEF TypeOK, Starts
<1>2. DOMAIN jobs = 1..Len(jobs) /\ DOMAIN jobs' = 1..(Len(jobs) - 1)
  BY <1>1 DEF TypeOK
<1> QED
  BY <1>1, <1>2 DEF Starts

\* The jobs in front of one that has moved up were in front of it before.
LEMMA BeforeMoves ==
  ASSUME TypeOK, NEW job, Starts(job), NEW j \in DOMAIN jobs'
  PROVE  /\ NoneBefore(j + 1) => NoneBefore(j)' /\ job # "create_connect"
         /\ NoneBefore(j)' /\ job # "create_connect" => NoneBefore(j + 1)
<1>1. /\ j \in Nat \ {0} /\ j + 1 \in DOMAIN jobs /\ jobs[1] = job
      /\ jobs \in Seq(Jobs) /\ DOMAIN jobs = 1..Len(jobs) /\ Len(jobs) \in Nat
  BY First DEF TypeOK
<1>2. \A i \in 1..(j - 1) : i + 1 \in 1..j /\ jobs'[i] = jobs[i + 1]
  <2>1. \A i \in 1..(j - 1) : i + 1 \in DOMAIN jobs /\ i + 1 # 1 /\ (i + 1) - 1 = i
    BY <1>1
  <2> QED
    BY <1>1, <2>1, First
<1>3. \A i \in 1..j : i # 1 => i - 1 \in 1..(j - 1) /\ jobs'[i - 1] = jobs[i]
  <2>1. \A i \in 1..j : i \in DOMAIN jobs
    BY <1>1
  <2> QED
    BY <1>1, <2>1, First
<1>4. (j + 1) - 1 = j /\ 1 \in 1..j
  BY <1>1
<1>5. NoneBefore(j + 1) => NoneBefore(j)' /\ job # "create_connect"
  BY <1>1, <1>2, <1>4 DEF NoneBefore
<1>6. NoneBefore(j)' /\ job # "create_connect" => NoneBefore(j + 1)
  BY <1>1, <1>3, <1>4 DEF NoneBefore
<1> QED
  BY <1>5, <1>6

\* A step that does not touch the queue, and adds jobs or none.
JobsGrow(t) ==
  /\ jobs' = jobs \o t
  /\ \A i \in DOMAIN t : /\ t[i] = "ClearSendQ" => i > 1 /\ t[i - 1] = "end_socket"
                         /\ t[i] = "send_login" => i = 1 /\ ~Creates /\ ~NotYet /\ ~Posted
                         /\ t[i] = "create_connect" => sock = NoSock

LEMMA NoJobs == TypeOK => (UNCHANGED jobs => JobsGrow(<<>>)) /\ <<>> \in Seq(Jobs)
  BY DEF JobsGrow, TypeOK

LEMMA OneMore ==
  ASSUME TypeOK, NEW job \in Jobs \ {"ClearSendQ"}, SUBPROC(job),
         job = "create_connect" => sock = NoSock,
         job = "send_login" => ~Creates /\ ~NotYet /\ ~Posted
  PROVE  <<job>> \in Seq(Jobs) /\ JobsGrow(<<job>>)
  BY DEF JobsGrow, SUBPROC, TypeOK

LEMMA Growing ==
  ASSUME TypeOK, NEW t \in Seq(Jobs), JobsGrow(t)
  PROVE  /\ \A j \in DOMAIN jobs : NoneBefore(j)' <=> NoneBefore(j)
         /\ Cleared => Cleared'
         /\ sock # NoSock => (Posted' <=> Posted)
<1>1. /\ Len(jobs) \in Nat /\ DOMAIN jobs = 1..Len(jobs)
      /\ \A j \in DOMAIN jobs : j \in DOMAIN jobs' /\ jobs'[j] = jobs[j]
      /\ \A j \in DOMAIN jobs' :
           \/ j \in DOMAIN jobs /\ jobs'[j] = jobs[j]
           \/ j - Len(jobs) \in DOMAIN t /\ jobs'[j] = t[j - Len(jobs)]
  BY Later DEF JobsGrow
<1>2. ASSUME NEW j \in DOMAIN jobs
      PROVE  NoneBefore(j)' <=> NoneBefore(j)
  <2>1. \A i \in 1..(j - 1) : i \in DOMAIN jobs
    BY <1>1
  <2> QED
    BY <1>1, <2>1 DEF NoneBefore
<1>3. Cleared => Cleared'
  BY <1>1, <1>2 DEF Cleared
<1>4. sock # NoSock => (Posted' <=> Posted)
  BY <1>1 DEF Posted, JobsGrow
<1> QED
  BY <1>2, <1>3, <1>4

-----------------------------------------------------------------------------
(* Most steps neither send nor run a job.                                  *)

\* The socket in use does not come to life but by being connected, and the server
\* does not get anything.
Calm ==
  /\ UNCHANGED <<sock, state, sendq>> /\ odd \subseteq odd'
  /\ hpc' = hpc \/ (hpc \in {"packet", "post"} /\ hpc' \in {"packet", "post", "idle"})
  /\ sock # NoSock =>
       /\ (Live(sock))' => Live(sock)
       /\ NotYet' => NotYet
       /\ Usable' => Usable \/ NotYet
       /\ lookups' \subseteq lookups
       /\ Answered' => Answered \/ lookups # {}
       /\ timer' = TRUE => timer = TRUE
  /\ \A s \in Socket : heard'[s] \in {heard[s], "in"}

LEMMA CalmStays ==
  ASSUME TypeOK, TypeOK', LoginInv, Calm, NEW t \in Seq(Jobs), JobsGrow(t)
  PROVE  LoginInv'
<1> SUFFICES ASSUME Plain'
             PROVE  Parts'
  BY DEF LoginInv
<1>0. Plain /\ Parts /\ sock' = sock
  BY PlainWas DEF LoginInv, Calm
<1>1. /\ Creates' <=> Creates
      /\ hpc' \in {"packet", "post"} => hpc \in {"packet", "post"}
      /\ hpc' \in {"offline", "dnr"} => hpc \in {"offline", "dnr"}
      /\ hpc = "idle" => hpc' = "idle"
  BY DEF Calm, Creates
<1>2. /\ Len(jobs) \in Nat /\ DOMAIN jobs = 1..Len(jobs)
      /\ \A j \in DOMAIN jobs : j \in DOMAIN jobs' /\ jobs'[j] = jobs[j]
      /\ \A j \in DOMAIN jobs' :
           \/ j \in DOMAIN jobs /\ jobs'[j] = jobs[j]
           \/ /\ j - Len(jobs) \in DOMAIN t /\ jobs'[j] = t[j - Len(jobs)]
              /\ j - Len(jobs) > 1 => jobs'[j - 1] = t[j - Len(jobs) - 1]
  BY Later DEF JobsGrow
<1>3. NotYet' => NotYet
  BY <1>0 DEF Calm, NotYet
<1>4. AloneInv'
  <2>1. sock # NoSock => ~Posted'
    BY <1>0, Growing DEF Parts, AloneInv
  <2>2. sock # NoSock => ~Answered'
    BY <1>0 DEF Parts, AloneInv, Calm
  <2>3. sock # NoSock => lookups' = {} /\ timer' = FALSE
    BY <1>0 DEF Parts, AloneInv, Calm, TypeOK
  <2> QED
    BY <1>0, <1>1, <2>1, <2>2, <2>3 DEF Parts, AloneInv
<1>5. StateInv'
  BY <1>0, <1>1, <1>3 DEF Parts, StateInv, Calm
<1>6. ClearInv'
  <2> SUFFICES ASSUME NEW j \in DOMAIN jobs', jobs'[j] = "ClearSendQ"
               PROVE  \/ j > 1 /\ jobs'[j - 1] = "end_socket"
                      \/ j = 1 /\ hpc' = "idle" /\ (sock # NoSock => ~(Live(sock))')
                      \/ sock = NoSock /\ NoneBefore(j)' /\ hpc' \notin {"offline", "dnr"}
    BY <1>0 DEF ClearInv
  <2>1. CASE j \in DOMAIN jobs /\ jobs'[j] = jobs[j]
    <3>1. j > 1 => j - 1 \in DOMAIN jobs
      BY <1>2, <2>1
    <3>2. j > 1 /\ jobs[j - 1] = "end_socket" => jobs'[j - 1] = "end_socket"
      BY <1>2, <3>1
    <3>3. \/ j > 1 /\ jobs[j - 1] = "end_socket"
          \/ j = 1 /\ hpc = "idle" /\ (sock # NoSock => ~Live(sock))
          \/ sock = NoSock /\ NoneBefore(j) /\ hpc \notin {"offline", "dnr"}
      BY <1>0, <2>1 DEF Parts, ClearInv
    <3>4. NoneBefore(j) => NoneBefore(j)'
      BY <2>1, Growing
    <3>5. sock # NoSock /\ ~Live(sock) => ~(Live(sock))'
      BY DEF Calm
    <3> QED
      BY <1>1, <3>2, <3>3, <3>4, <3>5
  <2>2. CASE /\ j - Len(jobs) \in DOMAIN t /\ jobs'[j] = t[j - Len(jobs)]
             /\ j - Len(jobs) > 1 => jobs'[j - 1] = t[j - Len(jobs) - 1]
    <3>1. j - Len(jobs) > 1 /\ t[j - Len(jobs) - 1] = "end_socket"
      BY <2>2 DEF JobsGrow
    <3>2. j \in Nat
      BY DEF TypeOK
    <3> QED
      BY <1>2, <2>2, <3>1, <3>2
  <2> QED
    BY <1>2, <2>1, <2>2
<1>7. LoginsInv'
  <2> SUFFICES ASSUME NEW j \in DOMAIN jobs', jobs'[j] = "send_login"
               PROVE  ~Creates' /\ ~NotYet' /\ NoneBefore(j)'
    BY DEF LoginsInv
  <2>1. CASE j \in DOMAIN jobs /\ jobs'[j] = jobs[j]
    <3>1. ~Creates /\ ~NotYet /\ NoneBefore(j)
      BY <1>0, <2>1 DEF Parts, LoginsInv
    <3>2. NoneBefore(j)'
      BY <2>1, <3>1, Growing
    <3> QED
      BY <1>1, <1>3, <3>1, <3>2
  <2>2. CASE j - Len(jobs) \in DOMAIN t /\ jobs'[j] = t[j - Len(jobs)]
    <3>1. j - Len(jobs) = 1 /\ ~Creates /\ ~NotYet /\ ~Posted
      BY <2>2 DEF JobsGrow
    <3>2. j \in Nat
      BY DEF TypeOK
    <3>3. j - 1 = Len(jobs)
      BY <1>2, <3>1, <3>2
    <3>4. NoneBefore(j)'
      BY <1>2, <3>1, <3>3 DEF NoneBefore, Posted
    <3> QED
      BY <1>1, <1>3, <3>1, <3>4
  <2> QED
    BY <1>2, <2>1, <2>2
<1>8. HeardInv'
  BY <1>0 DEF Parts, HeardInv, Calm
<1>9. QueueInv'
  <2>1. sock = NoSock /\ sendq # <<>> => Cleared'
    BY <1>0, Growing DEF Parts, QueueInv
  <2>2. state >= 2 => (ToLogin(sendq))'
    <3> SUFFICES ASSUME state >= 2, Usable', heard'[sock'] = "none"
                 PROVE  sendq' # <<>> /\ sendq'[1].what = "login"
      BY DEF ToLogin
    <3>1. ~NotYet
      BY <1>0 DEF Parts, StateInv, TypeOK
    <3>2. sock # NoSock /\ sock \in Socket
      BY <1>0 DEF Usable, TypeOK
    <3>3. Usable
      BY <3>1, <3>2 DEF Calm
    <3>4. heard[sock] = "none"
      BY <1>0, <3>2 DEF Calm
    <3> QED
      BY <1>0, <3>3, <3>4 DEF Parts, QueueInv, ToLogin, Calm
  <2>3. (Creates => sendq = <<>>) /\ (sock # NoSock /\ state < 2 => sendq = <<>>)
    BY <1>0 DEF Parts, QueueInv
  <2>4. UNCHANGED <<sock, state, sendq>>
    BY DEF Calm
  <2> QED
    BY <1>1, <2>1, <2>2, <2>3, <2>4 DEF QueueInv
<1> QED
  BY <1>4, <1>5, <1>6, <1>7, <1>8, <1>9 DEF Parts

LEMMA SocksShutCalm ==
  ASSUME TypeOK, UNCHANGED sock, socks' = socks \/ socks' = Shut(sock), sock # NoSock
  PROVE  /\ (Live(sock))' => Live(sock)
         /\ NotYet' => NotYet
         /\ Usable' => Usable
         /\ socks' = Shut(sock) => ~(Live(sock))' /\ ~Usable'
<1>1. socks' = Shut(sock) => socks'[sock] \notin {"open", "connecting", "up", "half"}
  BY Closing DEF TypeOK
<1> QED
  BY <1>1 DEF Live, NotYet, Usable

LEMMA KeysLogin ==
  ASSUME TypeOK, TypeOK', LoginInv,
         GREEN_BUTTON \/ ZeroKey \/ Disconnect \/ Says \/ do_reconnect \/ TurnsGprsOn
           \/ maincsm_onclose
  PROVE  LoginInv'
<1>1. /\ UNCHANGED <<sock, state, sendq, hpc, socks, heard, lookups>> /\ odd \subseteq odd'
  BY OddGrows DEF GREEN_BUTTON, ZeroKey, Disconnect, Says, do_reconnect, TurnsGprsOn,
     maincsm_onclose, phone, link
<1>2. /\ (Live(sock))' <=> Live(sock)
      /\ NotYet' <=> NotYet
      /\ Usable' <=> Usable
  BY <1>1 DEF Live, NotYet, Usable
<1>3. timer' = TRUE => timer = TRUE
  BY DEF GREEN_BUTTON, ZeroKey, Disconnect, Says, do_reconnect, TurnsGprsOn,
     maincsm_onclose, own
<1>4. Answered' => Answered
  <2>1. /\ Msg("LMAN_CONNECT", 0) \in Messages /\ Msg("LMAN_CONNECT", 0).ev # "DNR"
    BY MessageTypes DEF Msg, Events
  <2>2. \/ UNCHANGED inbox \/ inbox' = <<>>
        \/ inbox' = Append(inbox, Msg("LMAN_CONNECT", 0))
    BY DEF GREEN_BUTTON, ZeroKey, Disconnect, Says, do_reconnect, TurnsGprsOn,
       maincsm_onclose, Posts
  <2>3. inbox' = <<>> => ~Answered'
    BY DEF Answered
  <2> QED
    BY <2>1, <2>2, <2>3, Gains, Keeps
<1>5. Calm
  <2>1. \A s \in Socket : heard'[s] \in {heard[s], "in"}
    BY <1>1
  <2> QED
    BY <1>1, <1>2, <1>3, <1>4, <2>1 DEF Calm
<1>6. CASE ZeroKey
  BY <1>6 DEF ZeroKey, LoginInv, Plain
<1>7. CASE GREEN_BUTTON \/ Disconnect \/ Says \/ TurnsGprsOn
  <2>1. \/ UNCHANGED jobs
        \/ \E job \in Jobs \ {"ClearSendQ"} :
             /\ SUBPROC(job) /\ job # "send_login"
             /\ job = "create_connect" => sock = NoSock
    BY <1>7 DEF GREEN_BUTTON, Disconnect, Says, TurnsGprsOn, Jobs
  <2> QED
    BY <1>5, <2>1, NoJobs, OneMore, CalmStays
<1>8. CASE do_reconnect
  <2>1. timer = TRUE /\ (UNCHANGED jobs \/ SUBPROC("create_connect"))
    BY <1>8 DEF do_reconnect, TypeOK
  <2>2. CASE Plain'
    <3>1. sock = NoSock
      BY <1>1, <2>1, <2>2, PlainWas DEF LoginInv, Parts, AloneInv
    <3>2. "create_connect" \in Jobs \ {"ClearSendQ"}
      BY DEF Jobs
    <3> QED
      BY <1>5, <2>1, <3>1, <3>2, NoJobs, OneMore, CalmStays
  <2> QED
    BY <2>2 DEF LoginInv
<1>9. CASE maincsm_onclose
  <2> DEFINE t == <<"end_socket", "ClearSendQ", "ElfKiller">>
  <2>1. t \in Seq(Jobs)
    BY DEF Jobs
  <2>2. \A i \in DOMAIN t : i \in 1..3
    OBVIOUS
  <2>3. t[1] = "end_socket" /\ t[2] = "ClearSendQ" /\ t[3] = "ElfKiller"
    OBVIOUS
  <2>4. jobs' = jobs \o t
    BY <1>9 DEF maincsm_onclose
  <2> HIDE DEF t
  <2>5. ASSUME NEW i \in DOMAIN t
        PROVE  /\ t[i] = "ClearSendQ" => i > 1 /\ t[i - 1] = "end_socket"
               /\ t[i] # "send_login" /\ t[i] # "create_connect"
    <3>1. i = 1 \/ i = 2 \/ i = 3
      BY <2>2
    <3> QED
      BY <2>3, <3>1
  <2>6. JobsGrow(t)
    BY <2>4, <2>5 DEF JobsGrow
  <2> QED
    BY <1>5, <2>1, <2>6, CalmStays
<1> QED
  BY <1>6, <1>7, <1>8, <1>9

LEMMA ClosedLogin ==
  ASSUME TypeOK, TypeOK', OneInv, LoginInv, ENIP_SOCK_CLOSED
  PROVE  LoginInv'
<1>1. /\ Takes /\ Head(inbox).ev = "CLOSED"
      /\ Head(inbox).id = sock
      /\ state' = 0 /\ sock' = NoSock /\ jobs' = Append(jobs, "ClearSendQ")
      /\ UNCHANGED <<sendq, hpc, heard>> /\ odd \subseteq odd'
  BY OddGrows DEF ENIP_SOCK_CLOSED, HandlesOwn, Handles, Takes, phone,
     SUBPROC
<1>2. sock \in Socket /\ sock # NoSock /\ socks[sock] = "closed"
  BY <1>1, Loses, Sockets DEF OneInv, SocketInv
<1>3. /\ Len(jobs) \in Nat /\ DOMAIN jobs = 1..Len(jobs)
      /\ DOMAIN jobs' = 1..(Len(jobs) + 1)
      /\ \A j \in 1..Len(jobs) : jobs'[j] = jobs[j]
      /\ jobs'[Len(jobs) + 1] = "ClearSendQ"
  BY <1>1, Added DEF TypeOK, Jobs
<1>4. ASSUME NEW j \in DOMAIN jobs, NoneBefore(j)
      PROVE  NoneBefore(j)'
  BY <1>3, <1>4 DEF NoneBefore
<1> SUFFICES ASSUME Plain'
             PROVE  Parts'
  BY DEF LoginInv
<1>5. Plain /\ Parts
  BY <1>1, PlainWas DEF LoginInv
<1>6. ~Posted /\ hpc \notin {"offline", "dnr"}
  BY <1>2, <1>5 DEF Parts, AloneInv
<1>7. NoneBefore(Len(jobs) + 1)'
  <2>1. (Len(jobs) + 1) - 1 = Len(jobs)
    BY <1>3
  <2> QED
    BY <1>3, <1>6, <2>1 DEF NoneBefore, Posted
<1>8. ~NotYet' /\ (Creates' <=> Creates)
  BY <1>1 DEF NotYet, Creates
<1>9. AloneInv' /\ StateInv' /\ HeardInv'
  BY <1>1, <1>5, <1>8 DEF Parts, AloneInv, StateInv, HeardInv
<1>10. ClearInv'
  <2> SUFFICES ASSUME NEW j \in DOMAIN jobs', jobs'[j] = "ClearSendQ"
               PROVE  \/ j > 1 /\ jobs'[j - 1] = "end_socket"
                      \/ j = 1 /\ hpc' = "idle"
                      \/ NoneBefore(j)' /\ hpc' \notin {"offline", "dnr"}
    BY <1>1 DEF ClearInv
  <2>1. CASE j = Len(jobs) + 1
    BY <1>1, <1>6, <1>7, <2>1 DEF NoneBefore
  <2>2. CASE j \in DOMAIN jobs
    <3>1. jobs[j] = "ClearSendQ"
      BY <1>3, <2>2
    <3>2. \/ j > 1 /\ jobs[j - 1] = "end_socket"
          \/ j = 1 /\ hpc = "idle"
      BY <1>2, <1>5, <2>2, <3>1 DEF Parts, ClearInv
    <3>3. j > 1 => j - 1 \in 1..Len(jobs)
      BY <1>3, <2>2
    <3> QED
      BY <1>1, <1>3, <3>2, <3>3
  <2> QED
    BY <1>3, <2>1, <2>2
<1>11. LoginsInv'
  <2> SUFFICES ASSUME NEW j \in DOMAIN jobs', jobs'[j] = "send_login"
               PROVE  ~Creates' /\ NoneBefore(j)'
    BY <1>8 DEF LoginsInv
  <2>1. j \in DOMAIN jobs /\ jobs[j] = "send_login"
    BY <1>3
  <2> QED
    BY <1>4, <1>5, <1>8, <2>1 DEF Parts, LoginsInv
<1>12. QueueInv'
  <2>1. Cleared'
    <3>1. PICK j \in DOMAIN jobs' : j = Len(jobs) + 1
      BY <1>3
    <3>2. jobs'[j] = "ClearSendQ"
      BY <1>3, <3>1
    <3>3. NoneBefore(j)'
      BY <1>7, <3>1 DEF NoneBefore
    <3> QED
      BY <3>2, <3>3 DEF Cleared
  <2> QED
    BY <1>1, <1>5, <1>8, <2>1 DEF Parts, QueueInv
<1> QED
  BY <1>9, <1>10, <1>11, <1>12 DEF Parts

LEMMA MessagesLogin ==
  ASSUME TypeOK, TypeOK', OneInv, RisenInv, LoginInv, maincsm_onmessage
  PROVE  LoginInv'
<1>1. /\ Takes /\ alive
      /\ UNCHANGED <<hpc, socks, heard, lookups, sendq>> /\ odd \subseteq odd'
  BY OddGrows DEF maincsm_onmessage, LMAN_DISCONNECT_IND, LMAN_CONNECT_CNF,
     ENIP_DNR_HOST_BY_NAME, HandlesPacket, IPC_FREEMSG, ENIP_SOCK_CONNECTED,
     ENIP_SOCK_DATA_READ,
     ENIP_BUFFER_FREE, ENIP_SOCK_REMOTE_CLOSED, ENIP_SOCK_CLOSED, NotOurs, HandlesOwn,
     Handles, Takes, Round, phone, link
<1>2. /\ (Answered' => Answered) /\ (Head(inbox).ev = "DNR" => Answered)
  BY <1>1, Loses
<1>3. ASSUME UNCHANGED <<sock, state>>, sock # NoSock => (timer' = TRUE => timer = TRUE)
      PROVE  Calm
  <2>1. /\ (Live(sock))' <=> Live(sock)
        /\ NotYet' <=> NotYet
        /\ Usable' <=> Usable
    BY <1>1, <1>3 DEF Live, NotYet, Usable
  <2>2. \A s \in Socket : heard'[s] \in {heard[s], "in"}
    BY <1>1
  <2> QED
    BY <1>1, <1>2, <1>3, <2>1, <2>2 DEF Calm
<1> SUFFICES ASSUME Plain'
             PROVE  LoginInv'
  BY DEF LoginInv
<1>4. Plain /\ Parts
  BY <1>1, PlainWas DEF LoginInv
<1>5. CASE LMAN_CONNECT_CNF
  <2>1. /\ timer' = (timer \/ ~dis) /\ UNCHANGED <<sock, state, jobs>>
        /\ odd' = odd \cup (IF ~dis /\ (Making \/ sock # NoSock) THEN {"over"} ELSE {})
                      \cup (IF hpc = "offline" THEN {"offline"} ELSE {})
    BY <1>5 DEF LMAN_CONNECT_CNF, link
  <2>2. "over" \notin odd'
    BY DEF Plain
  <2>3. sock # NoSock => dis
    BY <2>1, <2>2
  <2>4. sock # NoSock => (timer' = TRUE => timer = TRUE)
    BY <2>1, <2>3 DEF TypeOK
  <2> QED
    BY <1>3, <2>1, <2>4, NoJobs, CalmStays
<1>6. CASE ENIP_DNR_HOST_BY_NAME
  <2>1. /\ Head(inbox).ev = "DNR" /\ (SUBPROC("create_connect") \/ UNCHANGED jobs)
        /\ UNCHANGED <<sock, state, timer>>
    BY <1>6 DEF ENIP_DNR_HOST_BY_NAME, Handles, link, own
  <2>2. sock = NoSock
    BY <1>2, <1>4, <2>1 DEF Parts, AloneInv
  <2>3. "create_connect" \in Jobs \ {"ClearSendQ"}
    BY DEF Jobs
  <2> QED
    BY <1>3, <2>1, <2>2, <2>3, NoJobs, OneMore, CalmStays
<1>7. CASE ENIP_SOCK_CONNECTED
  <2>1. /\ Head(inbox).ev = "CONNECTED" /\ Head(inbox).id = sock
        /\ (state = 1 /\ SUBPROC("send_login")) \/ UNCHANGED jobs
        /\ UNCHANGED <<sock, state, timer>>
    BY <1>7 DEF ENIP_SOCK_CONNECTED, HandlesOwn, Handles, link
  <2>2. 1 \in DOMAIN inbox /\ inbox[1] = Head(inbox)
    BY <1>1, TakesAre
  <2>3. sock \in Risen
    BY <2>1, <2>2 DEF RisenInv
  <2>4. sock # NoSock /\ ~NotYet /\ ~Posted
    BY <1>4, <2>3, Sockets DEF Risen, NotYet, Parts, AloneInv
  <2>5. state = 1 => ~Creates
    BY <1>4 DEF Parts, StateInv
  <2>6. "send_login" \in Jobs \ {"ClearSendQ"}
    BY DEF Jobs
  <2> QED
    BY <1>3, <2>1, <2>4, <2>5, <2>6, NoJobs, OneMore, CalmStays
<1>8. CASE ENIP_SOCK_CLOSED
  BY <1>8, ClosedLogin
<1>9. CASE \/ LMAN_DISCONNECT_IND \/ HandlesPacket \/ IPC_FREEMSG \/ ENIP_SOCK_DATA_READ
           \/ ENIP_BUFFER_FREE \/ ENIP_SOCK_REMOTE_CLOSED \/ NotOurs
  <2>1. UNCHANGED <<sock, state, timer>>
    BY <1>9 DEF LMAN_DISCONNECT_IND, HandlesPacket, IPC_FREEMSG, ENIP_SOCK_DATA_READ,
       ENIP_BUFFER_FREE, ENIP_SOCK_REMOTE_CLOSED, NotOurs, link, own
  <2>2. \/ UNCHANGED jobs
        \/ \E job \in Jobs \ {"ClearSendQ"} :
             SUBPROC(job) /\ job # "send_login" /\ job # "create_connect"
    BY <1>9 DEF LMAN_DISCONNECT_IND, HandlesPacket, IPC_FREEMSG, ENIP_SOCK_DATA_READ,
       ENIP_BUFFER_FREE, ENIP_SOCK_REMOTE_CLOSED, NotOurs, Jobs
  <2> QED
    BY <1>3, <2>1, <2>2, NoJobs, OneMore, CalmStays
<1> QED
  BY <1>5, <1>6, <1>7, <1>8, <1>9 DEF maincsm_onmessage

LEMMA PhoneLogin ==
  ASSUME TypeOK, TypeOK', LoginInv, Phone
  PROVE  LoginInv'
<1>1. /\ UNCHANGED <<sock, state, sendq, hpc, jobs, timer>> /\ odd \subseteq odd'
      /\ lookups' \subseteq lookups
  BY OddGrows DEF Phone, StackConnects, StackBreaks, ServerHangsUp, StackCloses, Soon,
     Changes, StackHasRoom, ServerSends, ResolverAnswers, GprsDown, GprsUp, link, phone
<1>2. ASSUME sock # NoSock
      PROVE  /\ (Live(sock))' => Live(sock)
             /\ NotYet' => NotYet
             /\ Usable' => Usable \/ NotYet
  <2>0. sock \in Socket /\ sock' = sock
    BY <1>1, <1>2 DEF TypeOK
  <2>1. CASE StackConnects \/ StackBreaks \/ ServerHangsUp \/ StackCloses
    <3>1. PICK s \in Socket, from \in SocketStates, to \in SocketStates :
            /\ socks[s] = from /\ socks' = [socks EXCEPT ![s] = to]
            /\ \/ from = "connecting" /\ to = "up"
               \/ from = "up" /\ to = "half"
               \/ to = "closed"
      BY <2>1 DEF StackConnects, StackBreaks, ServerHangsUp, StackCloses, Soon, Changes,
         SocketStates
    <3>2. socks'[sock] = socks[sock] \/ (s = sock /\ socks'[sock] = to)
      BY <2>0, <3>1 DEF TypeOK
    <3> QED
      BY <2>0, <3>1, <3>2 DEF Live, NotYet, Usable
  <2>2. CASE GprsDown
    <3>1. socks'[sock] \in {"none", "closed"}
      BY <2>0, <2>2 DEF GprsDown, Aborted
    <3> QED
      BY <2>0, <3>1 DEF Live, NotYet, Usable
  <2>3. CASE UNCHANGED socks
    BY <2>0, <2>3 DEF Live, NotYet, Usable
  <2> QED
    BY <2>1, <2>2, <2>3 DEF Phone, StackHasRoom, ServerSends, ResolverAnswers, GprsUp, phone
<1>3. \A s \in Socket : heard'[s] \in {heard[s], "in"}
  <2>1. UNCHANGED heard \/ heard' = [heard EXCEPT ![sock] = "in"]
    BY DEF Phone, StackConnects, StackBreaks, ServerHangsUp, StackCloses, Soon, Changes,
       StackHasRoom, ServerSends, ResolverAnswers, GprsDown, GprsUp, phone
  <2> QED
    BY <2>1 DEF TypeOK
<1>4. Calm
  BY <1>1, <1>2, <1>3, PhoneAnswers DEF Calm
<1> QED
  BY <1>1, <1>4, NoJobs, CalmStays

-----------------------------------------------------------------------------
(* A connection is made.                                                   *)

LEMMA BeginsLogin ==
  ASSUME TypeOK, TypeOK', LoginInv, CreateBegins
  PROVE  LoginInv'
<1>1. /\ Starts("create_connect") /\ hpc' \in {"offline", "dnr"} /\ state' = 0
      /\ UNCHANGED <<sock, sendq, socks, heard, odd>>
  BY DEF CreateBegins, phone
<1> SUFFICES ASSUME Plain'
             PROVE  Parts'
  BY DEF LoginInv
<1>2. Plain /\ Parts
  BY <1>1 DEF Plain, LoginInv
<1>3. 1 \in DOMAIN jobs /\ jobs[1] = "create_connect"
  BY <1>1, First
<1>4. sock = NoSock
  BY <1>2, <1>3 DEF Posted, Parts, AloneInv
<1>5. ASSUME NEW j \in DOMAIN jobs, NoneBefore(j)
      PROVE  j = 1
  <2>1. j \in Nat \ {0} /\ (j # 1 => 1 \in 1..(j - 1))
    BY DEF TypeOK
  <2> QED
    BY <1>3, <1>5, <2>1 DEF NoneBefore
<1>6. sendq = <<>>
  BY <1>2, <1>3, <1>4, <1>5 DEF Parts, QueueInv, Cleared
<1>7. ClearInv'
  <2> SUFFICES ASSUME NEW j \in DOMAIN jobs', jobs'[j] = "ClearSendQ"
               PROVE  j > 1 /\ jobs'[j - 1] = "end_socket"
    BY DEF ClearInv
  <2>1. j \in Nat \ {0} /\ j + 1 \in DOMAIN jobs /\ jobs[j + 1] = "ClearSendQ" /\ j + 1 # 1
    BY <1>1, First
  <2>2. ~NoneBefore(j + 1)
    BY <1>5, <2>1
  <2>3. jobs[j] = "end_socket"
    <3>1. (j + 1) - 1 = j
      BY <2>1
    <3> QED
      BY <1>2, <2>1, <2>2, <3>1 DEF Parts, ClearInv
  <2>4. j # 1 /\ j \in DOMAIN jobs
    BY <1>3, <2>1, <2>3 DEF TypeOK
  <2>5. jobs'[j - 1] = jobs[j]
    BY <1>1, <2>4, First
  <2> QED
    BY <2>1, <2>3, <2>4, <2>5
<1>8. LoginsInv'
  <2> SUFFICES ASSUME NEW j \in DOMAIN jobs', jobs'[j] = "send_login"
               PROVE  FALSE
    BY DEF LoginsInv
  <2>1. j \in Nat \ {0} /\ j + 1 \in DOMAIN jobs /\ jobs[j + 1] = "send_login" /\ j + 1 # 1
    BY <1>1, First
  <2> QED
    BY <1>2, <1>5, <2>1 DEF Parts, LoginsInv
<1>9. AloneInv' /\ StateInv' /\ HeardInv'
  BY <1>1, <1>2, <1>4 DEF AloneInv, StateInv, HeardInv, NotYet, Creates, Parts
<1>10. QueueInv'
  BY <1>1, <1>4, <1>6 DEF QueueInv
<1> QED
  BY <1>7, <1>8, <1>9, <1>10 DEF Parts

\* While it is made the queue is empty, and no login is asked for.
LEMMA MakingLogin ==
  ASSUME TypeOK, TypeOK', OneInv, LoginInv, Creates, UNCHANGED <<jobs, sendq, heard>>,
         state' < 2, odd \subseteq odd', Creates' => state' = 0,
         hpc' \in {"connect", "state", "idle"},
         sock' # NoSock =>
           (sock = NoSock => hpc = "dnr") /\ UNCHANGED <<lookups, timer, inbox>>
  PROVE  LoginInv'
<1> SUFFICES ASSUME Plain'
             PROVE  Parts'
  BY DEF LoginInv
<1>1. Plain /\ Parts /\ sendq' = <<>>
  BY PlainWas DEF LoginInv, Parts, QueueInv
<1>2. /\ ~Posted /\ lookups = {} /\ ~Answered
      /\ hpc = "dnr" => ~(timer = TRUE) /\ sock = NoSock
  BY <1>1 DEF OneInv, SingleInv, Plain, Parts, AloneInv
<1>3. AloneInv'
  <2> SUFFICES ASSUME sock' # NoSock
               PROVE  ~Posted' /\ lookups' = {} /\ ~Answered' /\ timer' = FALSE
    BY DEF AloneInv
  <2>1. UNCHANGED <<lookups, timer, inbox>>
    BY <1>2
  <2>2. ~Posted' /\ ~Answered' /\ lookups' = {}
    BY <1>2, <2>1, JobsKept, Keeps
  <2>3. timer = FALSE
    BY <1>1, <1>2 DEF Parts, AloneInv, TypeOK
  <2> QED
    BY <2>1, <2>2, <2>3
<1>4. StateInv'
  BY DEF StateInv, TypeOK
<1>5. ASSUME NEW j \in DOMAIN jobs
      PROVE  NoneBefore(j)' <=> NoneBefore(j)
  BY DEF NoneBefore
<1>6. ClearInv'
  <2> SUFFICES ASSUME NEW j \in DOMAIN jobs, jobs[j] = "ClearSendQ"
               PROVE  \/ j > 1 /\ jobs[j - 1] = "end_socket"
                      \/ sock' = NoSock /\ NoneBefore(j)'
    BY DEF ClearInv
  <2>1. \/ j > 1 /\ jobs[j - 1] = "end_socket"
        \/ sock = NoSock /\ NoneBefore(j) /\ hpc # "dnr"
    BY <1>1 DEF Parts, ClearInv, Creates
  <2> QED
    BY <1>5, <2>1
<1>7. LoginsInv'
  BY <1>1 DEF Parts, LoginsInv
<1>8. HeardInv'
  BY <1>1 DEF Parts, HeardInv
<1>9. QueueInv'
  <2>1. ~(state' >= 2)
    BY DEF TypeOK
  <2> QED
    BY <1>1, <2>1 DEF QueueInv
<1> QED
  BY <1>1, <1>3, <1>4, <1>6, <1>7, <1>8, <1>9 DEF Parts

LEMMA CreateLogin ==
  ASSUME TypeOK, TypeOK', OneInv, LoginInv, create_connect
  PROVE  LoginInv'
<1>1. CASE CreateBegins
  BY <1>1, BeginsLogin
<1>2. CASE ~CreateBegins
  <2>1. /\ Creates /\ UNCHANGED <<jobs, sendq, heard>> /\ odd \subseteq odd'
        /\ hpc' \in {"connect", "state", "idle"}
    BY <1>2, OddGrows DEF create_connect, GoesOffline, NamePending, NameError, NameNotFound,
       OpensSocket, NoSocketLeft, Connecting, CannotConnect, SetsState, Creates, phone, link
  <2>2. \/ state' = state
        \/ hpc' = "idle" /\ state' = 1
    BY <1>2 DEF create_connect, GoesOffline, NamePending, NameError, NameNotFound,
       OpensSocket, NoSocketLeft, Connecting, CannotConnect, SetsState, link
  <2>3. sock' # NoSock =>
          \/ hpc = "dnr" /\ UNCHANGED <<lookups, timer, inbox>>
          \/ sock' = sock /\ (hpc = "dnr" \/ UNCHANGED <<lookups, timer, inbox>>)
    BY <1>2 DEF create_connect, GoesOffline, NamePending, NameError, NameNotFound,
       OpensSocket, NoSocketLeft, Connecting, CannotConnect, SetsState, link, phone
  <2> SUFFICES ASSUME Plain
               PROVE  LoginInv'
    BY <2>1, PlainWas DEF LoginInv
  <2>4. state = 0 /\ (hpc = "dnr" => sock = NoSock)
    BY <2>1 DEF LoginInv, Parts, StateInv, AloneInv
  <2>5. state' < 2 /\ (Creates' => state' = 0)
    BY <2>2, <2>4 DEF Creates
  <2>6. sock' # NoSock => (sock = NoSock => hpc = "dnr") /\ UNCHANGED <<lookups, timer, inbox>>
    BY <2>3, <2>4
  <2> QED
    BY <2>1, <2>5, <2>6, MakingLogin
<1> QED
  BY <1>1, <1>2

-----------------------------------------------------------------------------
(* Jobs that send, clear or close.                                         *)

LEMMA FirstHeard ==
  ASSUME TypeOK, NEW q \in Seq(Packets), Sends(q), UNCHANGED sock, ToLogin(q), HeardInv
  PROVE  HeardInv' /\ (ToLogin(sendq))'
<1>1. CASE /\ Usable
           /\ \E n \in 0..Len(q), cut \in BOOLEAN :
                /\ IF n < Len(q) THEN Once("fault") ELSE ~cut /\ UNCHANGED used
                /\ LET rest == SubSeq(q, n + 1, Len(q))
                   IN  sendq' = IF cut THEN [rest EXCEPT ![1].what = "rest"] ELSE rest
                /\ heard' = [heard EXCEPT ![sock] = Hears(@, q, n, cut)]
                /\ acked' = acked \cup ({q[i].key : i \in 1..n} \ {0})
           /\ UNCHANGED socks
  <2>1. PICK n \in 0..Len(q), cut \in BOOLEAN :
                /\ sendq' = IF cut THEN [SubSeq(q, n + 1, Len(q)) EXCEPT ![1].what = "rest"]
                                   ELSE SubSeq(q, n + 1, Len(q))
                /\ heard' = [heard EXCEPT ![sock] = Hears(@, q, n, cut)]
    BY <1>1
  <2>2. sock \in Socket /\ heard[sock] \in Heard /\ heard[sock] # "other" /\ Usable
    BY <1>1 DEF Usable, TypeOK, HeardInv
  <2>3. heard[sock] = "none" => q # <<>> /\ q[1].what = "login"
    BY <2>2 DEF ToLogin
  <2>4. heard'[sock] = Hears(heard[sock], q, n, cut)
    BY <2>1, <2>2 DEF TypeOK
  <2>5. Hears(heard[sock], q, n, cut) # "other"
    BY <2>2, <2>3 DEF Hears, Heard
  <2>6. HeardInv'
    BY <2>1, <2>2, <2>4, <2>5 DEF HeardInv, TypeOK
  <2>7. ASSUME heard'[sock] = "none"
        PROVE  heard[sock] = "none" /\ n = 0 /\ cut = FALSE
    BY <2>2, <2>3, <2>4, <2>7 DEF Hears, Heard
  <2>8. ASSUME heard'[sock] = "none"
        PROVE  sendq' = q
    <3>1. heard[sock] = "none" /\ n = 0 /\ cut = FALSE
      BY <2>7, <2>8
    <3>2. sendq' = SubSeq(q, 1, Len(q))
      BY <2>1, <3>1
    <3> QED
      BY <3>2
  <2> QED
    BY <2>3, <2>6, <2>7, <2>8 DEF ToLogin
<1>2. CASE sendq' = q /\ socks' = Shut(sock) /\ UNCHANGED heard
  <2>1. ~Usable'
    BY <1>2, SocksShutCalm DEF Usable
  <2> QED
    BY <1>2, <2>1 DEF HeardInv, ToLogin
<1> QED
  BY <1>1, <1>2 DEF Sends

LEMMA FirstStays ==
  ASSUME NEW q \in Seq(Packets), NEW p \in Seq(Packets)
  PROVE  /\ q \o p \in Seq(Packets)
         /\ q # <<>> => q \o p # <<>> /\ (q \o p)[1] = q[1]
         /\ q = <<>> /\ p # <<>> => q \o p # <<>> /\ (q \o p)[1] = p[1]
         /\ ToLogin(q) => ToLogin(q \o p)
<1>1. /\ q \o p \in Seq(Packets) /\ Len(q \o p) = Len(q) + Len(p)
      /\ Len(q) \in Nat /\ Len(p) \in Nat
      /\ \A i \in 1..Len(q) : (q \o p)[i] = q[i]
      /\ \A i \in 1..(Len(q) + Len(p)) : i > Len(q) => (q \o p)[i] = p[i - Len(q)]
  OBVIOUS
<1>2. q # <<>> => q \o p # <<>> /\ (q \o p)[1] = q[1]
  <2>1. q # <<>> => Len(q) >= 1
    OBVIOUS
  <2> QED
    BY <1>1, <2>1
<1>3. q = <<>> /\ p # <<>> => q \o p # <<>> /\ (q \o p)[1] = p[1]
  OBVIOUS
<1> QED
  BY <1>1, <1>2, <1>3 DEF ToLogin

\* SendAnswer sends nothing but the login first.
LEMMA AnswerLogin ==
  ASSUME TypeOK, NEW st \in 0..3, NEW p \in Seq(Packets), SendAnswer(st, p), UNCHANGED sock,
         HeardInv, st >= 2 => ToLogin(sendq \o p)
  PROVE  /\ HeardInv'
         /\ st >= 2 => (ToLogin(sendq))'
         /\ st < 2 => UNCHANGED <<sendq, socks, heard>>
<1>1. sendq \o p \in Seq(Packets)
  BY FirstStays DEF TypeOK
<1>2. CASE st < 2
  BY <1>2 DEF SendAnswer, HeardInv
<1>3. CASE st >= 2 /\ sendq \o p = <<>>
  <2>1. UNCHANGED <<sendq, socks, heard>>
    BY <1>3 DEF SendAnswer
  <2>2. ~(Usable /\ heard[sock] = "none")
    BY <1>3 DEF ToLogin
  <2>3. ~(Usable' /\ heard'[sock] = "none")
    BY <2>1, <2>2 DEF Usable
  <2> QED
    BY <1>3, <2>1, <2>3 DEF HeardInv, ToLogin
<1>4. CASE st >= 2 /\ sendq' = sendq \o p /\ UNCHANGED <<socks, heard>>
  <2>1. Usable' <=> Usable
    BY <1>4 DEF Usable
  <2> QED
    BY <1>4, <2>1 DEF HeardInv, ToLogin
<1>5. CASE st >= 2 /\ Sends(sendq \o p)
  <2>1. ToLogin(sendq \o p)
    BY <1>5
  <2>2. HeardInv' /\ (ToLogin(sendq))'
    BY <1>1, <1>5, <2>1, FirstHeard
  <2> QED
    BY <1>5, <2>2
<1> QED
  BY <1>2, <1>3, <1>4, <1>5 DEF SendAnswer

\* The queue and what the server has heard stay as they are.
LEMMA QueueKept ==
  ASSUME QueueInv, HeardInv, UNCHANGED <<sock, sendq, heard>>, Usable' => Usable,
         state' >= 2 => state >= 2, state' < 2 => state < 2, Creates' => Creates,
         sock = NoSock => (Cleared => Cleared')
  PROVE  QueueInv' /\ HeardInv'
<1>1. state' >= 2 => (ToLogin(sendq))'
  BY DEF QueueInv, ToLogin
<1> QED
  BY <1>1 DEF QueueInv, HeardInv

LEMMA TakenLogin ==
  ASSUME TypeOK, TypeOK', Parts, NEW job \in Jobs \ {"create_connect"}, Starts(job),
         UNCHANGED <<sock, lookups, timer, inbox>>,
         hpc' \in {"idle", "packet", "killed"}, hpc' = "packet" => state >= 2,
         state' = state \/ (job = "send_login" /\ state' = 2 /\ sock # NoSock),
         socks' = socks \/ socks' = Shut(sock),
         job = "end_socket" => socks' = Shut(sock) /\ hpc' = "idle"
  PROVE  /\ AloneInv' /\ StateInv' /\ ClearInv' /\ LoginsInv'
         /\ job # "ClearSendQ" => (Cleared => Cleared')
<1>1. hpc = "idle" /\ ~Creates' /\ 1 \in DOMAIN jobs /\ jobs[1] = job
  BY First DEF Creates
<1>2. sock # NoSock => /\ (Live(sock))' => Live(sock)
                       /\ NotYet' => NotYet
                       /\ socks' = Shut(sock) => ~(Live(sock))'
  BY SocksShutCalm
<1>3. NotYet' => NotYet /\ sock # NoSock
  BY <1>2 DEF NotYet
<1>4. job = "send_login" => ~NotYet
  BY <1>1 DEF Parts, LoginsInv
<1>5. AloneInv'
  <2>1. (Posted' => Posted) /\ (Answered' <=> Answered)
    BY JobTaken, Keeps
  <2> QED
    BY <2>1 DEF Parts, AloneInv
<1>6. StateInv'
  <2>1. NotYet' => state' < 2
    BY <1>3, <1>4 DEF Parts, StateInv
  <2>2. sock = NoSock => state' < 2
    BY DEF Parts, StateInv
  <2>3. hpc' \in {"packet", "post"} => state' >= 2
    BY DEF TypeOK
  <2> QED
    BY <1>1, <2>1, <2>2, <2>3 DEF StateInv
<1>7. ClearInv'
  <2> SUFFICES ASSUME NEW j \in DOMAIN jobs', jobs'[j] = "ClearSendQ"
               PROVE  \/ j > 1 /\ jobs'[j - 1] = "end_socket"
                      \/ j = 1 /\ hpc' = "idle" /\ (sock # NoSock => ~(Live(sock))')
                      \/ sock = NoSock /\ NoneBefore(j)'
    BY DEF ClearInv
  <2>1. j \in Nat \ {0} /\ j + 1 \in DOMAIN jobs /\ jobs[j + 1] = "ClearSendQ" /\ j + 1 # 1
    BY First
  <2>2. (j + 1) - 1 = j
    BY <2>1
  <2>3. jobs[j] = "end_socket" \/ (sock = NoSock /\ NoneBefore(j + 1))
    BY <2>1, <2>2 DEF Parts, ClearInv
  <2>4. NoneBefore(j + 1) => NoneBefore(j)'
    BY BeforeMoves
  <2>5. CASE jobs[j] = "end_socket" /\ j = 1
    BY <1>1, <1>2, <2>5
  <2>6. CASE jobs[j] = "end_socket" /\ j # 1
    <3>1. j \in DOMAIN jobs
      BY <2>1 DEF TypeOK
    <3>2. jobs'[j - 1] = jobs[j]
      BY <2>6, <3>1, First
    <3> QED
      BY <2>1, <2>6, <3>2
  <2> QED
    BY <2>3, <2>4, <2>5, <2>6
<1>8. LoginsInv'
  <2> SUFFICES ASSUME NEW j \in DOMAIN jobs', jobs'[j] = "send_login"
               PROVE  ~NotYet' /\ NoneBefore(j)'
    BY <1>1 DEF LoginsInv
  <2>1. j + 1 \in DOMAIN jobs /\ jobs[j + 1] = "send_login"
    BY First
  <2>2. ~NotYet /\ NoneBefore(j + 1)
    BY <2>1 DEF Parts, LoginsInv
  <2> QED
    BY <1>3, <2>2, BeforeMoves
<1>9. ASSUME job # "ClearSendQ", Cleared
      PROVE  Cleared'
  <2>1. PICK j \in DOMAIN jobs : jobs[j] = "ClearSendQ" /\ NoneBefore(j)
    BY <1>9 DEF Cleared
  <2>2. j # 1
    BY <1>1, <1>9, <2>1
  <2>3. j - 1 \in DOMAIN jobs' /\ jobs'[j - 1] = jobs[j] /\ j \in Nat
    BY <2>2, First
  <2>4. PICK i \in DOMAIN jobs' : i = j - 1
    BY <2>3
  <2>5. i + 1 = j
    BY <2>3, <2>4
  <2>6. NoneBefore(i)'
    BY <2>1, <2>5, BeforeMoves
  <2> QED
    BY <2>1, <2>3, <2>4, <2>6 DEF Cleared
<1> QED
  BY <1>5, <1>6, <1>7, <1>8, <1>9

LEMMA SendingLogin ==
  ASSUME TypeOK, TypeOK', LoginInv,
         send_login \/ SendsOther \/ resend \/ ClearSendQ \/ end_socket \/ ElfKiller \/ Receives
  PROVE  LoginInv'
<1> DEFINE login == <<Packet("login", 0)>>
           other == <<Packet("other", 0)>>
<1>1. PICK job \in Jobs \ {"create_connect"} :
        /\ Starts(job)
        /\ send_login <=> job = "send_login"
        /\ ClearSendQ <=> job = "ClearSendQ"
        /\ end_socket <=> job = "end_socket"
  BY DEF send_login, SendsOther, resend, ClearSendQ, end_socket, ElfKiller, Receives, Jobs,
     Starts
<1>2. UNCHANGED <<sock, lookups, timer, inbox>> /\ odd \subseteq odd'
  BY OddGrows DEF send_login, SendsOther, resend, ClearSendQ, end_socket, ElfKiller, Receives,
     phone, link
<1>3. /\ login \in Seq(Packets) /\ login # <<>> /\ login[1].what = "login"
      /\ other \in Seq(Packets) /\ <<>> \in Seq(Packets)
  <2>1. Packet("login", 0) \in Packets /\ Packet("other", 0) \in Packets
        /\ Packet("login", 0).what = "login"
    BY DEF Packet, Packets
  <2> QED
    BY <2>1
<1>4. socks' = socks \/ socks' = Shut(sock)
  BY <1>3, AnswerTypes DEF send_login, SendsOther, resend, ClearSendQ, end_socket, ElfKiller,
     Receives, phone
<1> HIDE DEF login, other
<1> SUFFICES ASSUME Plain'
             PROVE  Parts'
  BY DEF LoginInv
<1>5. Plain /\ Parts
  BY <1>2, PlainWas DEF LoginInv
<1>6. send_login => sock # NoSock
  BY OddGrows DEF send_login, Plain
<1>7. /\ hpc' \in {"idle", "packet", "killed"}
      /\ hpc' = "packet" => state >= 2
      /\ state' = state \/ (job = "send_login" /\ state' = 2 /\ sock # NoSock)
      /\ job = "end_socket" => socks' = Shut(sock) /\ hpc' = "idle"
  <2>1. hpc = "idle"
    BY <1>1 DEF Starts
  <2>2. hpc' \in {"idle", "packet", "killed"} /\ (hpc' = "packet" => state >= 2)
    BY <2>1 DEF send_login, SendsOther, resend, ClearSendQ, end_socket, ElfKiller, Receives
  <2>3. send_login \/ state' = state
    BY DEF send_login, SendsOther, resend, ClearSendQ, end_socket, ElfKiller, Receives, link
  <2>4. send_login => state' = 2
    BY DEF send_login
  <2>5. end_socket => socks' = Shut(sock) /\ hpc' = hpc
    BY DEF end_socket
  <2> QED
    BY <1>1, <1>6, <2>1, <2>2, <2>3, <2>4, <2>5
<1>8. /\ AloneInv' /\ StateInv' /\ ClearInv' /\ LoginsInv'
      /\ job # "ClearSendQ" => (Cleared => Cleared')
  BY <1>1, <1>2, <1>4, <1>5, <1>7, TakenLogin
<1>9. ~Creates' /\ (Usable' => Usable)
  BY <1>2, <1>4, <1>7, SocksShutCalm DEF Creates, Usable
<1>10. QueueInv' /\ HeardInv'
  <2>0. QueueInv /\ HeardInv /\ StateInv /\ sendq \in Seq(Packets) /\ state \in 0..3
    BY <1>5 DEF Parts, TypeOK
  <2>1. CASE send_login
    <3>1. SendAnswer(2, login) /\ state' = 2
      BY <2>1 DEF send_login, login
    <3>2. ToLogin(sendq \o login)
      <4>1. CASE sendq = <<>>
        BY <1>3, <2>0, <4>1, FirstStays DEF ToLogin
      <4>2. CASE sendq # <<>>
        <5>1. ToLogin(sendq)
          BY <1>6, <2>0, <2>1, <4>2 DEF QueueInv
        <5> QED
          BY <1>3, <2>0, <5>1, FirstStays
      <4> QED
        BY <4>1, <4>2
    <3>3. HeardInv' /\ (ToLogin(sendq))'
      BY <1>2, <1>3, <2>0, <3>1, <3>2, AnswerLogin
    <3> QED
      BY <1>2, <1>6, <1>9, <2>1, <3>1, <3>3 DEF QueueInv
  <2>2. CASE SendsOther \/ resend
    <3>1. PICK p \in {other, <<>>} : SendAnswer(state, p)
      BY <2>2 DEF SendsOther, resend, other
    <3>2. state >= 2 => ToLogin(sendq \o p)
      BY <1>3, <2>0, <3>1, FirstStays DEF QueueInv
    <3>3. /\ HeardInv'
          /\ state >= 2 => (ToLogin(sendq))'
          /\ state < 2 => UNCHANGED sendq
      BY <1>2, <1>3, <2>0, <3>1, <3>2, AnswerLogin
    <3>4. state' = state
      BY <2>2 DEF SendsOther, resend
    <3>5. job # "ClearSendQ"
      BY <1>1, <2>2 DEF SendsOther, resend, ClearSendQ, Starts
    <3>6. sock = NoSock => state < 2
      BY <2>0 DEF StateInv
    <3>7. sock = NoSock /\ sendq # <<>> => Cleared'
      BY <1>8, <2>0, <3>5 DEF QueueInv
    <3>8. sock # NoSock /\ state < 2 => sendq = <<>>
      BY <2>0 DEF QueueInv
    <3> QED
      BY <1>2, <1>9, <3>3, <3>4, <3>6, <3>7, <3>8 DEF QueueInv
  <2>3. CASE ClearSendQ
    <3>1. sendq' = <<>> /\ UNCHANGED <<sock, state, socks, heard>>
      BY <2>3 DEF ClearSendQ, phone
    <3>2. 1 \in DOMAIN jobs /\ jobs[1] = "ClearSendQ"
      BY <1>1, <2>3, First
    <3>3. sock # NoSock => ~Live(sock)
      BY <1>5, <3>2 DEF Parts, ClearInv
    <3>4. ~Usable'
      BY <3>1, <3>3 DEF Usable, Live
    <3> QED
      BY <2>0, <3>1, <3>4 DEF QueueInv, HeardInv, ToLogin
  <2>4. CASE end_socket \/ ElfKiller \/ Receives
    <3>1. UNCHANGED <<sock, state, sendq, heard>>
      BY <2>4 DEF end_socket, ElfKiller, Receives, link, phone
    <3>2. job # "ClearSendQ"
      BY <1>1, <2>4 DEF end_socket, ElfKiller, Receives, ClearSendQ, Starts
    <3> QED
      BY <1>8, <1>9, <2>0, <3>1, <3>2, QueueKept
  <2> QED
    BY <2>1, <2>2, <2>3, <2>4
<1> QED
  BY <1>8, <1>10 DEF Parts

-----------------------------------------------------------------------------
(* Packets, and the whole.                                                 *)

\* While packets are looked at no connection is being made.
LEMMA PacketLogin ==
  ASSUME TypeOK, TypeOK', Parts, hpc \in {"packet", "post"},
         hpc' \in {"packet", "post", "idle"}, UNCHANGED <<sock, lookups, timer, inbox, jobs>>,
         state' = state \/ (state' = 3 /\ sock # NoSock),
         socks' = socks \/ socks' = Shut(sock), QueueInv', HeardInv'
  PROVE  Parts'
<1>1. ~Creates' /\ (NotYet' => NotYet)
  BY SocksShutCalm DEF Creates, NotYet
<1>2. AloneInv'
  BY JobsKept, Keeps DEF Parts, AloneInv
<1>3. StateInv'
  <2>1. sock # NoSock => state >= 2 /\ ~NotYet
    BY DEF Parts, StateInv, TypeOK
  <2>2. sock = NoSock => state < 2
    BY DEF Parts, StateInv
  <2> QED
    BY <1>1, <2>1, <2>2 DEF StateInv, NotYet
<1>4. ASSUME NEW j \in DOMAIN jobs
      PROVE  NoneBefore(j)' <=> NoneBefore(j)
  BY DEF NoneBefore
<1>5. ClearInv'
  BY <1>4 DEF Parts, ClearInv
<1>6. LoginsInv'
  BY <1>1, <1>4 DEF Parts, LoginsInv
<1> QED
  BY <1>2, <1>3, <1>5, <1>6 DEF Parts

LEMMA AnsweringLogin ==
  ASSUME TypeOK, TypeOK', LoginInv,
         T_LOGIN \/ T_ERROR \/ BadPacket \/ SendMSGACK \/ HandsOver
  PROVE  LoginInv'
<1>1. /\ hpc \in {"packet", "post"} /\ hpc' \in {"packet", "post", "idle"}
      /\ UNCHANGED <<sock, lookups, timer, jobs>> /\ odd \subseteq odd'
  BY OddGrows DEF T_LOGIN, T_ERROR, BadPacket, SendMSGACK, HandsOver, Sees, GoesOn, phone, link
<1>2. CASE T_ERROR \/ BadPacket \/ HandsOver
  <2>1. UNCHANGED <<state, sendq, heard>> /\ (socks' = socks \/ socks' = Shut(sock))
    BY <1>2 DEF T_ERROR, BadPacket, HandsOver, phone, link
  <2>2. Answered' => Answered
    <3>1. CASE UNCHANGED inbox
      BY <3>1, Keeps
    <3>2. CASE HandsOver /\ alive
      <4> DEFINE m == [ev |-> "PACKET", id |-> sock, key |-> Head(rb).key]
      <4>1. Head(rb) \in Packets
        BY <3>2, Taken DEF HandsOver, TypeOK
      <4>2. Head(rb).key \in Nat /\ sock \in Int
        BY <4>1, Sockets DEF Packets, TypeOK
      <4>3. m \in Messages /\ m.ev # "DNR"
        BY <4>2 DEF Messages, Events
      <4>4. inbox' = Append(inbox, m)
        BY <3>2 DEF HandsOver
      <4> HIDE DEF m
      <4> QED
        BY <4>3, <4>4, Gains
    <3> QED
      BY <1>2, <3>1, <3>2 DEF T_ERROR, BadPacket, HandsOver
  <2>3. sock # NoSock => /\ (Live(sock))' => Live(sock)
                         /\ NotYet' => NotYet
                         /\ Usable' => Usable
    BY <1>1, <2>1, SocksShutCalm
  <2>4. Calm
    BY <1>1, <2>1, <2>2, <2>3 DEF Calm
  <2> QED
    BY <1>1, <2>4, NoJobs, CalmStays
<1> SUFFICES ASSUME Plain'
             PROVE  T_LOGIN \/ SendMSGACK => Parts'
  BY <1>2 DEF LoginInv
<1>3. /\ Parts /\ QueueInv /\ HeardInv /\ StateInv
      /\ sendq \in Seq(Packets) /\ state \in 0..3
  BY <1>1, PlainWas DEF LoginInv, Parts, TypeOK
<1>4. ~Creates'
  BY <1>1 DEF Creates
<1>5. CASE T_LOGIN
  <2>1. state' = 3 /\ UNCHANGED <<sendq, socks, heard, inbox>> /\ Notes("wrong", sock = NoSock)
    BY <1>5 DEF T_LOGIN, phone
  <2>2. sock # NoSock
    BY <2>1, OddGrows DEF Plain
  <2>3. state >= 2
    BY <1>1, <1>3, <2>2 DEF StateInv
  <2>4. Usable' <=> Usable
    BY <1>1, <2>1 DEF Usable
  <2>5. (ToLogin(sendq))'
    BY <1>1, <1>3, <2>1, <2>3, <2>4 DEF QueueInv, ToLogin
  <2>6. QueueInv' /\ HeardInv'
    BY <1>1, <1>3, <1>4, <2>1, <2>2, <2>5 DEF QueueInv, HeardInv
  <2> QED
    BY <1>1, <1>3, <2>1, <2>2, <2>6, PacketLogin
<1>6. CASE SendMSGACK
  <2> DEFINE ack == <<Packet("ack", Head(rb).key)>>
  <2>1. ack \in Seq(Packets)
    <3>1. Head(rb) \in Packets
      BY <1>6, Taken DEF SendMSGACK, Sees, TypeOK
    <3>2. Packet("ack", Head(rb).key) \in Packets
      BY <3>1 DEF Packet, Packets
    <3> QED
      BY <3>2
  <2>2. SendAnswer(state, ack) /\ UNCHANGED <<state, inbox>>
    BY <1>6 DEF SendMSGACK
  <2> HIDE DEF ack
  <2>3. state >= 2 => ToLogin(sendq \o ack)
    BY <1>3, <2>1, FirstStays DEF QueueInv
  <2>4. /\ HeardInv'
        /\ state >= 2 => (ToLogin(sendq))'
        /\ state < 2 => UNCHANGED sendq
    BY <1>1, <1>3, <2>1, <2>2, <2>3, AnswerLogin
  <2>5. socks' = socks \/ socks' = Shut(sock)
    BY <2>1, <2>2, AnswerTypes
  <2>6. sock = NoSock => state < 2
    BY <1>3 DEF StateInv
  <2>7. Cleared' <=> Cleared
    BY <1>1 DEF Cleared, NoneBefore
  <2>8. /\ sock = NoSock /\ sendq # <<>> => Cleared
        /\ sock # NoSock /\ state < 2 => sendq = <<>>
    BY <1>3 DEF QueueInv
  <2>9. QueueInv'
    BY <1>1, <1>4, <2>2, <2>4, <2>6, <2>7, <2>8 DEF QueueInv
  <2> QED
    BY <1>1, <1>3, <2>2, <2>4, <2>5, <2>9, PacketLogin
<1> QED
  BY <1>5, <1>6

\* A socket that was connected stays one that was.
LEMMA RisenStay ==
  ASSUME TypeOK, TypeOK', [Next]_vars, NEW s \in Risen
  PROVE  s \in Risen'
<1>1. s \in Socket /\ socks[s] \in SocketStates
  BY DEF TypeOK, Risen
<1>2. CASE UNCHANGED socks
  BY <1>1, <1>2 DEF Risen
<1>3. CASE socks' = Shut(sock)
  BY <1>1, <1>3 DEF Risen, Shut, TypeOK
<1>4. CASE socks' = Aborted
  BY <1>1, <1>4 DEF Risen, Aborted
<1>5. CASE create_connect
  <2>1. CASE OpensSocket
    <3>1. PICK r \in Socket : /\ \A old \in Socket : socks[old] = "none" <=> old >= r
                              /\ socks' = [socks EXCEPT ![r] = "open"]
      BY <2>1 DEF OpensSocket
    <3>2. r >= r
      BY Sockets
    <3>3. socks[r] = "none"
      BY <3>1, <3>2
    <3> QED
      BY <1>1, <3>1, <3>3 DEF Risen, TypeOK
  <2>2. CASE Connecting
    BY <1>1, <2>2 DEF Connecting, CanConnect, Risen, TypeOK
  <2>3. CASE CannotConnect
    BY <1>1, <2>3 DEF CannotConnect, Risen, TypeOK
  <2>4. CASE NoSocketLeft
    BY <1>4, <2>4 DEF NoSocketLeft
  <2> QED
    BY <1>2, <1>5, <2>1, <2>2, <2>3, <2>4 DEF create_connect, CreateBegins, GoesOffline,
       NamePending, NameError, NameNotFound, SetsState, phone
<1>6. CASE Phone
  <2>1. CASE StackConnects \/ StackBreaks \/ ServerHangsUp \/ StackCloses
    <3>1. PICK r \in Socket, to \in {"up", "half", "closed"} :
            socks' = [socks EXCEPT ![r] = to]
      BY <2>1 DEF StackConnects, StackBreaks, ServerHangsUp, StackCloses, Soon, Changes
    <3> QED
      BY <1>1, <3>1 DEF Risen, TypeOK
  <2> QED
    BY <1>2, <1>4, <1>6, <2>1 DEF Phone, StackHasRoom, ServerSends, ResolverAnswers,
       GprsDown, GprsUp, phone
<1>7. CASE HELPER /\ ~create_connect
  <2>1. <<Packet("login", 0)>> \in Seq(Packets) /\ <<Packet("other", 0)>> \in Seq(Packets)
        /\ <<>> \in Seq(Packets)
    <3>1. Packet("login", 0) \in Packets /\ Packet("other", 0) \in Packets
      BY DEF Packet, Packets
    <3> QED
      BY <3>1
  <2>2. CASE SendMSGACK
    <3>1. Head(rb) \in Packets
      BY <2>2, Taken DEF SendMSGACK, Sees, TypeOK
    <3>2. Packet("ack", Head(rb).key) \in Packets
      BY <3>1 DEF Packet, Packets
    <3>3. <<Packet("ack", Head(rb).key)>> \in Seq(Packets)
      BY <3>2
    <3> QED
      BY <1>2, <1>3, <2>2, <3>3, AnswerTypes DEF SendMSGACK
  <2>3. CASE ~SendMSGACK
    <3>1. socks' = socks \/ socks' = Shut(sock)
      BY <1>7, <2>1, <2>3, AnswerTypes DEF HELPER, send_login, SendsOther, resend, ClearSendQ,
         end_socket, ElfKiller, get_answer, Receives, T_LOGIN, T_ERROR, BadPacket, HandsOver,
         phone
    <3> QED
      BY <1>2, <1>3, <3>1
  <2> QED
    BY <2>2, <2>3
<1>8. CASE ~HELPER /\ ~Phone
  <2>1. UNCHANGED socks
    BY <1>8 DEF Next, vars, maincsm_onmessage, LMAN_DISCONNECT_IND, LMAN_CONNECT_CNF,
       ENIP_DNR_HOST_BY_NAME, HandlesPacket, IPC_FREEMSG, ENIP_SOCK_CONNECTED,
     ENIP_SOCK_DATA_READ,
       ENIP_BUFFER_FREE, ENIP_SOCK_REMOTE_CLOSED, ENIP_SOCK_CLOSED, NotOurs, GREEN_BUTTON,
       ZeroKey, Disconnect, Says, do_reconnect, TurnsGprsOn, maincsm_onclose, phone
  <2> QED
    BY <1>2, <2>1
<1> QED
  BY <1>5, <1>6, <1>7, <1>8 DEF HELPER

\* What comes into the inbox is no report of a connection, or a true one.
LEMMA RisenGains ==
  ASSUME TypeOK, NEW m \in Messages, inbox' = Append(inbox, m), RisenInv, Risen \subseteq Risen',
         m.ev = "CONNECTED" => m.id \in Risen'
  PROVE  RisenInv'
<1>1. /\ Len(inbox) \in Nat /\ Len(inbox') = Len(inbox) + 1
      /\ \A i \in 1..Len(inbox) : inbox'[i] = inbox[i]
      /\ inbox'[Len(inbox) + 1] = m
      /\ DOMAIN inbox = 1..Len(inbox) /\ DOMAIN inbox' = 1..(Len(inbox) + 1)
  BY Added DEF TypeOK
<1> QED
  BY <1>1 DEF RisenInv

LEMMA RisenLoses ==
  ASSUME TypeOK, Takes, RisenInv, Risen \subseteq Risen'
  PROVE  RisenInv'
<1>1. \A i \in DOMAIN inbox' :
        \/ i + 1 \in DOMAIN inbox /\ inbox'[i] = inbox[i + 1]
        \/ inbox'[i].ev = "FREEMSG"
  BY TakesAre
<1> QED
  BY <1>1 DEF RisenInv

LEMMA RisenStays ==
  ASSUME TypeOK, TypeOK', [Next]_vars, RisenInv
  PROVE  RisenInv'
<1>1. Risen \subseteq Risen'
  BY RisenStay
<1>2. CASE UNCHANGED inbox \/ inbox' = <<>>
  BY <1>1, <1>2 DEF RisenInv
<1>3. CASE Takes
  BY <1>1, <1>3, RisenLoses
<1>4. ASSUME NEW ev \in Events \ {"CONNECTED"}, NEW id \in Int, NEW s, Posts(s, Msg(ev, id))
      PROVE  RisenInv'
  <2>1. Msg(ev, id) \in Messages /\ Msg(ev, id).ev # "CONNECTED"
    BY MessageTypes DEF Msg
  <2> QED
    BY <1>1, <1>2, <1>4, <2>1, RisenGains DEF Posts
<1>5. CASE create_connect
  <2>1. CASE NoSocketLeft
    <3>1. /\ Msg("LMAN_DISCONNECT", 0) \in Messages
          /\ Msg("LMAN_DISCONNECT", 0).ev # "CONNECTED"
      BY MessageTypes DEF Msg, Events
    <3> QED
      BY <1>1, <1>2, <2>1, <3>1, RisenGains DEF NoSocketLeft
  <2> QED
    BY <1>2, <1>5, <2>1 DEF create_connect, CreateBegins, GoesOffline, NamePending, NameError,
       NameNotFound, OpensSocket, Connecting, CannotConnect, SetsState
<1>6. CASE HELPER /\ ~create_connect
  <2>1. CASE HandsOver /\ alive
    <3> DEFINE m == [ev |-> "PACKET", id |-> sock, key |-> Head(rb).key]
    <3>1. Head(rb) \in Packets
      BY <2>1, Taken DEF HandsOver, TypeOK
    <3>2. Head(rb).key \in Nat /\ sock \in Int
      BY <3>1, Sockets DEF Packets, TypeOK
    <3>3. m \in Messages /\ m.ev # "CONNECTED"
      BY <3>2 DEF Messages, Events
    <3>4. inbox' = Append(inbox, m)
      BY <2>1 DEF HandsOver
    <3> HIDE DEF m
    <3> QED
      BY <1>1, <3>3, <3>4, RisenGains
  <2> QED
    BY <1>2, <1>6, <2>1 DEF HELPER, send_login, SendsOther, resend, ClearSendQ, end_socket,
       ElfKiller, get_answer, Receives, T_LOGIN, T_ERROR, BadPacket, SendMSGACK, HandsOver
<1>7. CASE maincsm_onmessage
  BY <1>3, <1>7 DEF maincsm_onmessage, LMAN_DISCONNECT_IND, LMAN_CONNECT_CNF,
     ENIP_DNR_HOST_BY_NAME, HandlesPacket, IPC_FREEMSG, ENIP_SOCK_CONNECTED,
     ENIP_SOCK_DATA_READ,
     ENIP_BUFFER_FREE, ENIP_SOCK_REMOTE_CLOSED, ENIP_SOCK_CLOSED, NotOurs, HandlesOwn,
     Handles, Takes, Round
<1>8. CASE GREEN_BUTTON \/ ZeroKey \/ Disconnect \/ Says \/ do_reconnect \/ TurnsGprsOn
           \/ maincsm_onclose
  <2>1. CASE Posts(0, Msg("LMAN_CONNECT", 0))
    BY <1>4, <2>1 DEF Events
  <2> QED
    BY <1>2, <1>8, <2>1 DEF GREEN_BUTTON, ZeroKey, Disconnect, Says, do_reconnect,
       TurnsGprsOn, maincsm_onclose
<1>9. CASE Phone
  <2>1. CASE StackConnects
    <3>1. PICK s \in Socket : /\ socks' = [socks EXCEPT ![s] = "up"]
                              /\ Posts(s, Msg("CONNECTED", s))
      BY <2>1 DEF StackConnects, Soon, Changes
    <3>2. s \in Risen'
      BY <3>1 DEF Risen, TypeOK
    <3>3. Msg("CONNECTED", s) \in Messages /\ Msg("CONNECTED", s).id = s
      BY MessageTypes, Sockets DEF Msg, Events
    <3> QED
      BY <1>1, <1>2, <3>1, <3>2, <3>3, RisenGains DEF Posts
  <2>2. CASE GprsDown
    <3> DEFINE r == inbox'
               a == Msg("LMAN_DISCONNECT", 0)
               b == Msg("CLOSED", sock)
    <3>1. /\ inbox \in Seq(Messages) /\ a \in Messages /\ b \in Messages
          /\ a.ev # "CONNECTED" /\ b.ev # "CONNECTED"
      BY MessageTypes, Sockets DEF Events, TypeOK, Msg
    <3>2. r = Append(inbox, a) \/ r = Append(inbox, a) \o <<b>>
      BY <2>2, <3>1 DEF GprsDown
    <3> HIDE DEF r, a, b
    <3>3. \A i \in DOMAIN r : \/ i \in DOMAIN inbox /\ r[i] = inbox[i]
                              \/ r[i] = a
                              \/ r[i] = b
      BY <3>1, <3>2, TwoAdded
    <3> QED
      BY <1>1, <3>1, <3>3 DEF r, RisenInv
  <2>3. CASE Phone /\ ~StackConnects /\ ~GprsDown
    <3>1. PICK ev \in Events \ {"CONNECTED"}, id \in Nat \cup {sock} :
            \E s : Posts(s, Msg(ev, id))
      BY <2>3, Sockets DEF Phone, StackBreaks, ServerHangsUp, StackCloses, Soon,
         Changes, StackHasRoom, ServerSends, ResolverAnswers, GprsUp, Events, TypeOK
    <3>2. id \in Int
      BY Sockets DEF TypeOK
    <3> QED
      BY <1>4, <3>1, <3>2
  <2> QED
    BY <1>9, <2>1, <2>2, <2>3
<1>10. CASE UNCHANGED vars
  BY <1>2, <1>10 DEF vars
<1> QED
  BY <1>5, <1>6, <1>7, <1>8, <1>9, <1>10 DEF Next

LEMMA LoginStays ==
  ASSUME TypeOK, TypeOK', OneInv, RisenInv, LoginInv, [Next]_vars
  PROVE  LoginInv'
<1>1. CASE HELPER
  BY <1>1, CreateLogin, SendingLogin, AnsweringLogin DEF HELPER, get_answer
<1>2. CASE UNCHANGED vars
  BY <1>2 DEF vars, link, phone, LoginInv, Plain, Parts, AloneInv, Posted, Answered, StateInv,
     NotYet, Creates, ClearInv, Live, NoneBefore, LoginsInv, QueueInv, Cleared, ToLogin, Usable,
     HeardInv
<1> QED
  BY <1>1, <1>2, KeysLogin, MessagesLogin, PhoneLogin DEF Next

LEMMA LoginStarts == Init => RisenInv /\ LoginInv
<1> SUFFICES ASSUME Init
             PROVE  RisenInv /\ LoginInv
  OBVIOUS
<1>1. /\ sock = NoSock /\ state = 0 /\ sendq = <<>> /\ inbox = <<>> /\ hpc = "idle"
      /\ jobs = <<"create_connect">> /\ heard = [s \in Socket |-> "none"]
  BY DEF Init
<1>2. AloneInv /\ StateInv /\ HeardInv /\ QueueInv
  BY <1>1 DEF AloneInv, StateInv, HeardInv, QueueInv, NotYet, Creates
<1>3. ClearInv /\ LoginsInv
  BY <1>1 DEF ClearInv, LoginsInv
<1> QED
  BY <1>1, <1>2, <1>3 DEF RisenInv, LoginInv, Parts

\* However many connections are made and lost, and whatever is said while there is
\* none, the first thing that the server gets on a connection is the login, unless a
\* connection is made while there is one, or connect_state is set after it has gone
\* (main.c:1486, 1516, 1584, 3057).
THEOREM LoginFirstAlways == Spec => []LoginFirst
<1>1. Init => TypeOK /\ OneInv /\ RisenInv /\ LoginInv
  BY TypesStart, OneStarts, LoginStarts
<1>2. TypeOK /\ OneInv /\ RisenInv /\ LoginInv /\ [Next]_vars
        => (TypeOK /\ OneInv /\ RisenInv /\ LoginInv)'
  BY TypesStay, OneStays, RisenStays, LoginStays
<1>3. LoginInv => LoginFirst
  BY DEF LoginInv, Plain, Parts, HeardInv, LoginFirst
<1> QED
  BY <1>1, <1>2, <1>3, PTL DEF Spec

-----------------------------------------------------------------------------
(* What has been acknowledged comes to the chat.                           *)

Steady == alive /\ odd \cap {"late", "over", "zero"} = {}

\* The first n messages do not end our connection.
NoEnd(n)      == \A j \in 1..n : inbox[j].ev = "CLOSED" => inbox[j].id # sock
AtPost(k)     == hpc = "post" /\ Head(rb).key = k
Carried(i, k) == inbox[i].ev = "PACKET" /\ inbox[i].key = k /\ inbox[i].id = sock

\* Message k is in the chat, or on its second round.
Passed(i, k) == inbox[i].ev = "FREEMSG" /\ inbox[i].key = k
Come(k) == k \in got \/ \E i \in DOMAIN inbox : Passed(i, k)

\* Message k has come to the chat, or will before the connection ends.
Arrives(k) ==
  \/ Come(k)
  \/ sock # NoSock /\ AtPost(k) /\ NoEnd(Len(inbox))
  \/ sock # NoSock /\ \E i \in DOMAIN inbox : Carried(i, k) /\ NoEnd(i - 1)

\* Message k is still on its way, whatever ends before it is there.
Due(k) ==
  \/ k = 0 \/ Come(k)
  \/ sock # NoSock /\ (AtPost(k) \/ \E i \in DOMAIN inbox : Carried(i, k))

AckedInv == \A k \in acked : Arrives(k)

\* A step leaves message k on its way.
OnWay(k) == (Come(k) => Come(k)') /\ (Arrives(k) => Arrives(k)') /\ (Due(k) => Due(k)')

\* What is queued is due, or is thrown away with the connection that it is of.
QueuedInv == \A i \in DOMAIN sendq : Due(sendq[i].key) \/ (sock = NoSock /\ Cleared)

\* get_answer goes on after its connection; what it queues is thrown away, too.
OrphanInv == hpc \in {"packet", "post"} /\ sock = NoSock => Cleared

\* The queue is cleared before a connection is made.
ClearsInv == \A j \in DOMAIN jobs : jobs[j] = "ClearSendQ" => NoneBefore(j)

\* While a connection is made nothing is on its way.
Settled == /\ \A k \in acked : Come(k)
           /\ \A i \in DOMAIN sendq : sendq[i].key = 0 \/ Come(sendq[i].key)
MadeInv == hpc \in {"dnr", "connect"} => Settled

ArriveParts == AloneInv /\ AckedInv /\ QueuedInv /\ OrphanInv /\ ClearsInv /\ MadeInv
ArriveInv   == Steady => ArriveParts

LEMMA SteadyWas == TypeOK /\ [Next]_vars /\ Steady' => Steady
<1> SUFFICES ASSUME TypeOK, [Next]_vars, Steady'
             PROVE  Steady
  OBVIOUS
<1>1. odd \subseteq odd'
  <2>1. CASE HELPER
    BY <2>1, OddGrows DEF HELPER, create_connect, CreateBegins, GoesOffline, NamePending,
       NameError, NameNotFound,
       OpensSocket, NoSocketLeft, Connecting, CannotConnect, SetsState, send_login,
       SendsOther, resend, ClearSendQ, end_socket,
       ElfKiller, get_answer, Receives, T_LOGIN, T_ERROR, BadPacket, SendMSGACK, HandsOver
  <2>2. CASE maincsm_onmessage
    BY <2>2, OddGrows DEF maincsm_onmessage, LMAN_DISCONNECT_IND, LMAN_CONNECT_CNF,
     ENIP_DNR_HOST_BY_NAME, HandlesPacket, IPC_FREEMSG, ENIP_SOCK_CONNECTED,
     ENIP_SOCK_DATA_READ,
     ENIP_BUFFER_FREE, ENIP_SOCK_REMOTE_CLOSED, ENIP_SOCK_CLOSED, NotOurs
  <2>3. CASE GREEN_BUTTON \/ ZeroKey \/ Disconnect \/ Says \/ do_reconnect \/ TurnsGprsOn
           \/ maincsm_onclose
    BY <2>3, OddGrows DEF GREEN_BUTTON, ZeroKey, Disconnect, Says, do_reconnect,
       TurnsGprsOn,
     maincsm_onclose
  <2>4. CASE Phone
    BY <2>4, OddGrows DEF Phone, StackConnects, StackBreaks, ServerHangsUp, StackCloses,
       Soon,
     Changes, StackHasRoom, ServerSends, ResolverAnswers, GprsDown, GprsUp
  <2>5. CASE UNCHANGED vars
    BY <2>5 DEF vars
  <2> QED
    BY <2>1, <2>2, <2>3, <2>4, <2>5 DEF Next
<1>2. alive' => alive
  <2>1. CASE HELPER
    BY <2>1 DEF HELPER, create_connect, CreateBegins, GoesOffline, NamePending, NameError,
       NameNotFound,
       OpensSocket, NoSocketLeft, Connecting, CannotConnect, SetsState, send_login,
       SendsOther, resend, ClearSendQ, end_socket,
       ElfKiller, get_answer, Receives, T_LOGIN, T_ERROR, BadPacket, SendMSGACK,
       HandsOver, own
  <2>2. CASE maincsm_onmessage
    BY <2>2 DEF maincsm_onmessage, LMAN_DISCONNECT_IND, LMAN_CONNECT_CNF,
     ENIP_DNR_HOST_BY_NAME, HandlesPacket, IPC_FREEMSG, ENIP_SOCK_CONNECTED,
     ENIP_SOCK_DATA_READ,
     ENIP_BUFFER_FREE, ENIP_SOCK_REMOTE_CLOSED, ENIP_SOCK_CLOSED, NotOurs, HandlesOwn,
     Handles, Takes, Round
  <2>3. CASE GREEN_BUTTON \/ ZeroKey \/ Disconnect \/ Says \/ do_reconnect \/ TurnsGprsOn
           \/ maincsm_onclose
    BY <2>3 DEF GREEN_BUTTON, ZeroKey, Disconnect, Says, do_reconnect, TurnsGprsOn,
     maincsm_onclose
  <2>4. CASE Phone
    BY <2>4 DEF Phone, StackConnects, StackBreaks, ServerHangsUp, StackCloses, Soon,
     Changes, StackHasRoom, ServerSends, ResolverAnswers, GprsDown, GprsUp, own
  <2>5. CASE UNCHANGED vars
    BY <2>5 DEF vars, own
  <2> QED
    BY <2>1, <2>2, <2>3, <2>4, <2>5 DEF Next
<1> QED
  BY <1>1, <1>2 DEF Steady

-----------------------------------------------------------------------------
(* A message on its way.                                                   *)

LEMMA OneAsSeq ==
  ASSUME NEW S, NEW q \in Seq(S), NEW e \in S
  PROVE  /\ <<e>> \in Seq(S) /\ Append(q, e) = q \o <<e>>
         /\ \A i \in DOMAIN <<e>> : <<e>>[i] = e
<1>1. <<e>> \in Seq(S) /\ \A i \in DOMAIN <<e>> : <<e>>[i] = e
  OBVIOUS
<1>2. /\ Append(q, e) \in Seq(S) /\ q \o <<e>> \in Seq(S)
      /\ Len(Append(q, e)) = Len(q) + 1 /\ Len(q \o <<e>>) = Len(q) + 1 /\ Len(q) \in Nat
  BY <1>1
<1>3. \A i \in 1..(Len(q) + 1) : Append(q, e)[i] = (q \o <<e>>)[i]
  OBVIOUS
<1> QED
  BY <1>1, <1>2, <1>3, SeqEqual

LEMMA TwoAsSeq ==
  ASSUME NEW S, NEW q \in Seq(S), NEW a \in S, NEW b \in S
  PROVE  <<a, b>> \in Seq(S) /\ Append(q, a) \o <<b>> = q \o <<a, b>>
<1>1. /\ <<a, b>> \in Seq(S) /\ Append(q, a) \in Seq(S) /\ <<b>> \in Seq(S)
      /\ Len(Append(q, a)) = Len(q) + 1 /\ Len(<<b>>) = 1 /\ Len(<<a, b>>) = 2
      /\ Len(q) \in Nat
  OBVIOUS
<1>2. /\ Append(q, a) \o <<b>> \in Seq(S) /\ q \o <<a, b>> \in Seq(S)
      /\ Len(Append(q, a) \o <<b>>) = Len(q) + 2 /\ Len(q \o <<a, b>>) = Len(q) + 2
  BY <1>1
<1>3. \A i \in 1..(Len(q) + 2) : (Append(q, a) \o <<b>>)[i] = (q \o <<a, b>>)[i]
  OBVIOUS
<1> QED
  BY <1>1, <1>2, <1>3, SeqEqual

LEMMA WayKept ==
  ASSUME UNCHANGED <<sock, inbox>>, got \subseteq got', NEW k, AtPost(k) => AtPost(k)'
  PROVE  OnWay(k)
<1>1. \A n : NoEnd(n) => NoEnd(n)'
  BY DEF NoEnd
<1>2. \A i : (Carried(i, k) => Carried(i, k)') /\ (Passed(i, k) => Passed(i, k)')
  BY DEF Carried, Passed
<1>3. Come(k) => Come(k)'
  BY <1>2 DEF Come
<1> QED
  BY <1>1, <1>2, <1>3 DEF Arrives, Due, OnWay

LEMMA WayGrows ==
  ASSUME TypeOK, NEW t \in Seq(Messages), inbox' = inbox \o t,
         UNCHANGED <<sock, got, hpc, rb>>, NEW k,
         hpc = "post" => \A i \in DOMAIN t : t[i].ev # "CLOSED"
  PROVE  OnWay(k)
<1>1. /\ inbox \in Seq(Messages) /\ Len(inbox) \in Nat /\ Len(t) \in Nat
      /\ Len(inbox') = Len(inbox) + Len(t)
      /\ \A i \in 1..Len(inbox) : inbox'[i] = inbox[i]
      /\ \A i \in 1..(Len(inbox) + Len(t)) : i > Len(inbox) =>
           inbox'[i] = t[i - Len(inbox)] /\ i - Len(inbox) \in DOMAIN t
      /\ DOMAIN inbox = 1..Len(inbox) /\ DOMAIN inbox' = 1..(Len(inbox) + Len(t))
  BY DEF TypeOK
<1>2. ASSUME NEW i \in DOMAIN inbox, NoEnd(i - 1)
      PROVE  NoEnd(i - 1)'
  <2>1. \A j \in 1..(i - 1) : j \in 1..Len(inbox)
    BY <1>1
  <2> QED
    BY <1>1, <1>2, <2>1 DEF NoEnd
<1>3. ASSUME NEW i \in DOMAIN inbox, Carried(i, k)
      PROVE  i \in DOMAIN inbox' /\ Carried(i, k)'
  BY <1>1, <1>3 DEF Carried
<1>4. hpc = "post" /\ NoEnd(Len(inbox)) => NoEnd(Len(inbox))'
  <2> SUFFICES ASSUME hpc = "post", NoEnd(Len(inbox)), NEW j \in 1..Len(inbox'),
                      inbox'[j].ev = "CLOSED"
               PROVE  inbox'[j].id # sock
    BY DEF NoEnd
  <2>1. j \in 1..Len(inbox)
    BY <1>1
  <2> QED
    BY <1>1, <2>1 DEF NoEnd
<1>5. AtPost(k) => AtPost(k)'
  BY DEF AtPost
<1>6. Come(k) => Come(k)'
  BY <1>1 DEF Come, Passed
<1> QED
  BY <1>2, <1>3, <1>4, <1>5, <1>6 DEF Arrives, Due, AtPost, OnWay

LEMMA ComeTaken ==
  ASSUME TypeOK, Takes, got \subseteq got', NEW k,
         Head(inbox).ev = "FREEMSG" => Head(inbox).key \in got'
  PROVE  Come(k) => Come(k)'
<1>1. /\ Head(inbox) = inbox[1]
      /\ \A i \in DOMAIN inbox : i # 1 =>
           i - 1 \in DOMAIN inbox' /\ inbox'[i - 1] = inbox[i]
  BY TakesAre
<1>2. CASE k \in got
  BY <1>2 DEF Come
<1>3. ASSUME NEW i \in DOMAIN inbox, Passed(i, k)
      PROVE  Come(k)'
  <2>1. CASE i = 1
    BY <1>1, <1>3, <2>1 DEF Passed, Come
  <2>2. CASE i # 1
    <3>1. PICK h : h = i - 1
      OBVIOUS
    <3>2. h \in DOMAIN inbox' /\ inbox'[h] = inbox[i]
      BY <1>1, <2>2, <3>1
    <3>3. Passed(h, k)'
      BY <1>3, <3>2 DEF Passed
    <3> QED
      BY <3>2, <3>3 DEF Come
  <2> QED
    BY <2>1, <2>2
<1> QED
  BY <1>2, <1>3 DEF Come

LEMMA WayTaken ==
  ASSUME TypeOK, Takes, got \subseteq got', UNCHANGED <<sock, hpc, rb>>, NEW k,
         Head(inbox).ev = "PACKET" /\ Head(inbox).id = sock => inbox' # Tail(inbox),
         Head(inbox).ev = "FREEMSG" => Head(inbox).key \in got'
  PROVE  OnWay(k)
<1>1. /\ Len(inbox) \in Nat \ {0} /\ DOMAIN inbox = 1..Len(inbox)
      /\ Head(inbox) = inbox[1] /\ DOMAIN inbox' = 1..Len(inbox')
      /\ Len(inbox') \in Nat /\ Len(inbox') <= Len(inbox)
      /\ \A i \in DOMAIN inbox' :
           \/ i # Len(inbox) /\ i + 1 \in DOMAIN inbox /\ inbox'[i] = inbox[i + 1]
           \/ /\ i = Len(inbox)
              /\ inbox'[i].ev = "FREEMSG" /\ inbox'[i].key = Head(inbox).key
      /\ \A i \in DOMAIN inbox : i # 1 =>
           i - 1 \in DOMAIN inbox' /\ inbox'[i - 1] = inbox[i]
      /\ inbox' # Tail(inbox) => Len(inbox) \in DOMAIN inbox'
  BY TakesAre
<1>2. ASSUME NEW n \in Nat, n + 1 \in 0..Len(inbox), NoEnd(n + 1)
      PROVE  NoEnd(n)'
  <2>a. PICK l \in Nat : l = Len(inbox) /\ DOMAIN inbox = 1..l
    BY <1>1
  <2>0. l = Len(inbox) /\ n + 1 <= l /\ DOMAIN inbox = 1..l
    BY <1>2, <2>a
  <2>1. \A j \in 1..n : /\ j \in Nat /\ j + 1 \in 1..(n + 1) /\ j + 1 \in 1..l
                        /\ j + 1 # 1 /\ (j + 1) - 1 = j
    BY <2>0
  <2>2. \A j \in 1..n : inbox'[j] = inbox[j + 1]
    BY <1>1, <2>0, <2>1
  <2> QED
    BY <1>2, <2>1, <2>2 DEF NoEnd
<1>3. ASSUME NEW i \in DOMAIN inbox, i # 1, Carried(i, k)
      PROVE  i - 1 \in DOMAIN inbox' /\ Carried(i - 1, k)'
  BY <1>1, <1>3 DEF Carried
<1>4. ASSUME Carried(1, k)
      PROVE  Come(k)'
  <2>1. PICK l \in Nat : /\ l = Len(inbox) /\ Head(inbox).key = k
                        /\ l \in DOMAIN inbox' /\ DOMAIN inbox = 1..l
    BY <1>1, <1>4 DEF Carried
  <2>2. Passed(l, k)'
    <3>1. l + 1 \notin DOMAIN inbox
      BY <2>1
    <3> QED
      BY <1>1, <2>1, <3>1 DEF Passed
  <2> QED
    BY <2>1, <2>2 DEF Come
<1>5. ASSUME NEW i \in DOMAIN inbox, i # 1, NoEnd(i - 1)
      PROVE  NoEnd((i - 1) - 1)'
  <2>0. PICK l \in Nat : l = Len(inbox) /\ i \in 1..l
    BY <1>1
  <2>1. /\ i - 2 \in Nat /\ (i - 2) + 1 = i - 1
        /\ i - 1 \in 0..Len(inbox) /\ (i - 1) - 1 = i - 2
    BY <1>5, <2>0
  <2> QED
    BY <1>2, <1>5, <2>1
<1>6. NoEnd(Len(inbox)) => NoEnd(Len(inbox))'
  <2>1. \A j \in 1..Len(inbox') : j \in DOMAIN inbox'
    BY <1>1
  <2> QED
    BY <1>1, <2>1 DEF NoEnd
<1>7. AtPost(k) => AtPost(k)'
  BY DEF AtPost
<1>8. ASSUME NEW i \in DOMAIN inbox, Carried(i, k), NoEnd(i - 1), sock # NoSock
      PROVE  Arrives(k)'
  <2>1. CASE i = 1
    BY <1>4, <1>8, <2>1 DEF Arrives
  <2>2. CASE i # 1
    <3>1. PICK h : h = i - 1
      OBVIOUS
    <3>2. h \in DOMAIN inbox' /\ Carried(h, k)' /\ NoEnd(h - 1)'
      BY <1>3, <1>5, <1>8, <2>2, <3>1
    <3> QED
      BY <1>8, <3>2 DEF Arrives
  <2> QED
    BY <2>1, <2>2
<1>9. ASSUME NEW i \in DOMAIN inbox, Carried(i, k), sock # NoSock
      PROVE  Due(k)'
  <2>1. CASE i = 1
    BY <1>4, <1>9, <2>1 DEF Due
  <2>2. CASE i # 1
    <3>1. PICK h : h = i - 1
      OBVIOUS
    <3>2. h \in DOMAIN inbox' /\ Carried(h, k)'
      BY <1>3, <1>9, <2>2, <3>1
    <3> QED
      BY <1>9, <3>2 DEF Due
  <2> QED
    BY <2>1, <2>2
<1>10. Come(k) => Come(k)'
  BY ComeTaken
<1>11. Arrives(k) => Arrives(k)'
  BY <1>6, <1>7, <1>8, <1>10 DEF Arrives
<1>12. Due(k) => Due(k)'
  BY <1>7, <1>9, <1>10 DEF Due
<1> QED
  BY <1>10, <1>11, <1>12 DEF OnWay

LEMMA WayHandsOver ==
  ASSUME TypeOK, HandsOver, alive = TRUE, NEW k
  PROVE  OnWay(k)
<1> DEFINE m == [ev |-> "PACKET", id |-> sock, key |-> Head(rb).key]
<1>1. Head(rb).key \in Nat /\ sock \in Int
  <2>1. Head(rb) \in Packets
    BY Taken DEF HandsOver, TypeOK
  <2> QED
    BY <2>1, Sockets DEF Packets, TypeOK
<1>2. m \in Messages /\ m.ev = "PACKET" /\ m.id = sock /\ m.key = Head(rb).key
  BY <1>1 DEF Messages, Events
<1>3. /\ inbox' = Append(inbox, m) /\ UNCHANGED <<sock, got>> /\ hpc = "post"
      /\ hpc' # "post"
  BY DEF HandsOver, GoesOn, link
<1> HIDE DEF m
<1>4. /\ Len(inbox) \in Nat /\ DOMAIN inbox = 1..Len(inbox)
      /\ DOMAIN inbox' = 1..(Len(inbox) + 1)
      /\ \A i \in 1..Len(inbox) : inbox'[i] = inbox[i]
      /\ inbox'[Len(inbox) + 1] = m
  BY <1>2, <1>3, Added DEF TypeOK
<1>5. PICK n : n = Len(inbox)
  OBVIOUS
<1>6. AtPost(k) => Carried(n + 1, k)'
  BY <1>2, <1>3, <1>4, <1>5 DEF AtPost, Carried
<1>7. ASSUME NEW i \in 1..(n + 1), NoEnd(i - 1)
      PROVE  NoEnd(i - 1)'
  <2>1. \A j \in 1..(i - 1) : j \in 1..Len(inbox)
    BY <1>4, <1>5
  <2> QED
    BY <1>3, <1>4, <1>7, <2>1 DEF NoEnd
<1>8. ASSUME NEW i \in DOMAIN inbox, Carried(i, k)
      PROVE  i \in DOMAIN inbox' /\ Carried(i, k)'
  BY <1>3, <1>4, <1>8 DEF Carried
<1>9. n + 1 \in DOMAIN inbox' /\ n + 1 \in 1..(n + 1) /\ (n + 1) - 1 = n
  BY <1>4, <1>5
<1>10. NoEnd(Len(inbox)) => NoEnd((n + 1) - 1)'
  BY <1>5, <1>7, <1>9
<1>11. \A i \in DOMAIN inbox : i \in 1..(n + 1)
  BY <1>4, <1>5
<1>12. Come(k) => Come(k)'
  BY <1>3, <1>4 DEF Come, Passed
<1>13. Arrives(k) => Arrives(k)'
  BY <1>3, <1>6, <1>7, <1>8, <1>9, <1>10, <1>11, <1>12 DEF Arrives
<1>14. Due(k) => Due(k)'
  BY <1>3, <1>6, <1>8, <1>9, <1>12 DEF Due
<1> QED
  BY <1>12, <1>13, <1>14 DEF OnWay

-----------------------------------------------------------------------------
(* The jobs that throw the queue away.                                     *)

LEMMA ClearsGrow ==
  ASSUME TypeOK, NEW t \in Seq(Jobs), jobs' = jobs \o t,
         \A i \in DOMAIN t : t[i] # "ClearSendQ"
  PROVE  (Cleared => Cleared') /\ (ClearsInv => ClearsInv')
<1>1. /\ Len(jobs) \in Nat /\ DOMAIN jobs = 1..Len(jobs)
      /\ \A j \in DOMAIN jobs : j \in DOMAIN jobs' /\ jobs'[j] = jobs[j]
      /\ \A j \in DOMAIN jobs' :
           \/ j \in DOMAIN jobs /\ jobs'[j] = jobs[j]
           \/ j - Len(jobs) \in DOMAIN t /\ jobs'[j] = t[j - Len(jobs)]
  BY Later
<1>2. ASSUME NEW j \in DOMAIN jobs, NoneBefore(j)
      PROVE  NoneBefore(j)'
  <2>1. \A i \in 1..(j - 1) : i \in DOMAIN jobs
    BY <1>1
  <2> QED
    BY <1>1, <1>2, <2>1 DEF NoneBefore
<1>3. Cleared => Cleared'
  BY <1>1, <1>2 DEF Cleared
<1>4. ClearsInv => ClearsInv'
  BY <1>1, <1>2 DEF ClearsInv
<1> QED
  BY <1>3, <1>4

LEMMA ClearsMore ==
  ASSUME TypeOK, NEW job \in Jobs \ {"ClearSendQ"}, SUBPROC(job)
  PROVE  (Cleared => Cleared') /\ (ClearsInv => ClearsInv')
<1>1. PICK t : t = <<job>>
  OBVIOUS
<1>2. t \in Seq(Jobs) /\ jobs' = jobs \o t /\ \A i \in DOMAIN t : t[i] # "ClearSendQ"
  BY <1>1, OneAsSeq DEF TypeOK, SUBPROC
<1> QED
  BY <1>2, ClearsGrow

LEMMA ClearsTaken ==
  ASSUME TypeOK, NEW job, Starts(job)
  PROVE  /\ Cleared /\ job # "ClearSendQ" => Cleared'
         /\ ClearsInv => ClearsInv'
<1>1. /\ 1 \in DOMAIN jobs /\ jobs[1] = job
      /\ \A j \in DOMAIN jobs' : /\ j \in Nat \ {0} /\ j + 1 \in DOMAIN jobs
                                 /\ jobs'[j] = jobs[j + 1]
      /\ \A j \in DOMAIN jobs : j # 1 =>
           j - 1 \in DOMAIN jobs' /\ jobs'[j - 1] = jobs[j] /\ j \in Nat
  BY First
<1>2. ASSUME Cleared, job # "ClearSendQ"
      PROVE  Cleared'
  <2>1. PICK j \in DOMAIN jobs : jobs[j] = "ClearSendQ" /\ NoneBefore(j)
    BY <1>2 DEF Cleared
  <2>2. j # 1
    BY <1>1, <1>2, <2>1
  <2>3. PICK h : h = j - 1
    OBVIOUS
  <2>4. h \in DOMAIN jobs' /\ jobs'[h] = "ClearSendQ" /\ h + 1 = j
    BY <1>1, <2>1, <2>2, <2>3
  <2>5. NoneBefore(h)'
    BY <2>1, <2>4, BeforeMoves
  <2> QED
    BY <2>4, <2>5 DEF Cleared
<1>3. ASSUME ClearsInv, NEW j \in DOMAIN jobs', jobs'[j] = "ClearSendQ"
      PROVE  NoneBefore(j)'
  <2>1. j + 1 \in DOMAIN jobs /\ jobs[j + 1] = "ClearSendQ"
    BY <1>1, <1>3
  <2>2. NoneBefore(j + 1)
    BY <1>3, <2>1 DEF ClearsInv
  <2> QED
    BY <2>2, BeforeMoves
<1>4. ClearsInv => ClearsInv'
  BY <1>3 DEF ClearsInv
<1> QED
  BY <1>2, <1>4

LEMMA ClearsKept ==
  ASSUME UNCHANGED jobs
  PROVE  (Cleared => Cleared') /\ (ClearsInv => ClearsInv')
<1>1. \A j : NoneBefore(j) => NoneBefore(j)'
  BY DEF NoneBefore
<1> QED
  BY <1>1 DEF Cleared, ClearsInv

-----------------------------------------------------------------------------
(* A step that does not send, on a connection that stays.                  *)

LEMMA WayFollows ==
  ASSUME TypeOK, ArriveParts, AloneInv', UNCHANGED <<sock, sendq, acked>>,
         \A k : OnWay(k),
         (Cleared => Cleared') /\ (ClearsInv => ClearsInv'),
         hpc' \in {"dnr", "connect"} => hpc' = hpc,
         hpc' \in {"packet", "post"} => hpc \in {"packet", "post"} \/ sock # NoSock
  PROVE  ArriveParts'
<1>1. AckedInv'
  BY DEF ArriveParts, AckedInv, OnWay
<1>2. QueuedInv'
  BY DEF ArriveParts, QueuedInv, OnWay
<1>3. OrphanInv'
  BY DEF ArriveParts, OrphanInv
<1>4. ClearsInv'
  BY DEF ArriveParts
<1>5. MadeInv'
  BY DEF ArriveParts, MadeInv, Settled, OnWay
<1> QED
  BY <1>1, <1>2, <1>3, <1>4, <1>5 DEF ArriveParts

LEMMA ComeKept ==
  ASSUME TypeOK, UNCHANGED got, NEW k,
         UNCHANGED inbox \/ \E m \in Messages : inbox' = Append(inbox, m)
  PROVE  Come(k) => Come(k)'
<1>1. \A i \in DOMAIN inbox : i \in DOMAIN inbox' /\ inbox'[i] = inbox[i]
  <2>1. CASE UNCHANGED inbox
    BY <2>1
  <2>2. ASSUME NEW m \in Messages, inbox' = Append(inbox, m)
        PROVE  \A i \in DOMAIN inbox : i \in DOMAIN inbox' /\ inbox'[i] = inbox[i]
    <3>1. /\ Len(inbox) \in Nat /\ Len(inbox') = Len(inbox) + 1
          /\ DOMAIN inbox = 1..Len(inbox) /\ DOMAIN inbox' = 1..(Len(inbox) + 1)
          /\ \A i \in 1..Len(inbox) : inbox'[i] = inbox[i]
      BY <2>2, Added DEF TypeOK
    <3> QED
      BY <3>1
  <2> QED
    BY <2>1, <2>2
<1> QED
  BY <1>1 DEF Come, Passed

\* Nothing is on its way.
LEMMA WaySettled ==
  ASSUME Settled, AloneInv', UNCHANGED <<sendq, acked>>, \A k : Come(k) => Come(k)',
         OrphanInv', ClearsInv'
  PROVE  ArriveParts'
<1>1. Settled'
  BY DEF Settled
<1>2. AckedInv' /\ QueuedInv' /\ MadeInv'
  BY <1>1 DEF Settled, AckedInv, QueuedInv, MadeInv, Arrives, Due
<1> QED
  BY <1>2 DEF ArriveParts

-----------------------------------------------------------------------------
(* What is sent.                                                           *)

LEMMA SentKeys ==
  ASSUME TypeOK, NEW q \in Seq(Packets), Sends(q)
  PROVE  /\ \A i \in DOMAIN sendq' : \E j \in DOMAIN q : sendq'[i].key = q[j].key
         /\ \A k \in acked' :
              k \in acked \/ (Usable /\ k # 0 /\ \E j \in DOMAIN q : q[j].key = k)
<1>1. CASE /\ Usable
           /\ \E n \in 0..Len(q), cut \in BOOLEAN :
                /\ IF n < Len(q) THEN Once("fault") ELSE ~cut /\ UNCHANGED used
                /\ LET rest == SubSeq(q, n + 1, Len(q))
                   IN  sendq' = IF cut THEN [rest EXCEPT ![1].what = "rest"] ELSE rest
                /\ heard' = [heard EXCEPT ![sock] = Hears(@, q, n, cut)]
                /\ acked' = acked \cup ({q[i].key : i \in 1..n} \ {0})
           /\ UNCHANGED socks
  <2>1. PICK n \in 0..Len(q), cut \in BOOLEAN :
          /\ IF n < Len(q) THEN Once("fault") ELSE ~cut /\ UNCHANGED used
          /\ sendq' = IF cut THEN [SubSeq(q, n + 1, Len(q)) EXCEPT ![1].what = "rest"]
                             ELSE SubSeq(q, n + 1, Len(q))
          /\ acked' = acked \cup ({q[i].key : i \in 1..n} \ {0})
    BY <1>1
  <2>2. Len(q) \in Nat /\ DOMAIN q = 1..Len(q) /\ \A i \in 1..n : i \in DOMAIN q
    OBVIOUS
  <2>3. \A k \in acked' :
          k \in acked \/ (Usable /\ k # 0 /\ \E j \in DOMAIN q : q[j].key = k)
    BY <1>1, <2>1, <2>2
  <2>4. PICK rest : rest = SubSeq(q, n + 1, Len(q))
    OBVIOUS
  <2>5. /\ rest \in Seq(Packets) /\ Len(rest) = Len(q) - n
        /\ \A i \in 1..(Len(q) - n) : rest[i] = q[n + i] /\ n + i \in DOMAIN q
    BY <2>4
  <2>6. \A i \in DOMAIN rest :
          n + i \in DOMAIN q /\ rest[i] = q[n + i] /\ rest[i] \in Packets
    BY <2>2, <2>5
  <2>7. \A i \in DOMAIN sendq' : i \in DOMAIN rest /\ sendq'[i].key = rest[i].key
    <3>1. CASE ~cut
      BY <3>1, <2>1, <2>4
    <3>2. CASE cut
      <4>1. sendq' = [rest EXCEPT ![1].what = "rest"]
        BY <3>2, <2>1, <2>4
      <4>2. \A i \in DOMAIN sendq' : /\ i \in DOMAIN rest
                                     /\ \/ sendq'[i] = rest[i]
                                        \/ sendq'[i] = [rest[i] EXCEPT !.what = "rest"]
        BY <4>1, <2>5
      <4> QED
        BY <4>2, <2>6 DEF Packets
    <3> QED
      BY <3>1, <3>2
  <2> QED
    BY <2>3, <2>6, <2>7
<1>2. CASE sendq' = q /\ UNCHANGED acked
  BY <1>2
<1> QED
  BY <1>1, <1>2 DEF Sends

LEMMA AnswerKeys ==
  ASSUME TypeOK, NEW st, NEW p \in Seq(Packets), SendAnswer(st, p)
  PROVE  /\ \A i \in DOMAIN sendq' :
              \/ \E j \in DOMAIN sendq : sendq'[i].key = sendq[j].key
              \/ \E j \in DOMAIN p : sendq'[i].key = p[j].key
         /\ \A k \in acked' : \/ k \in acked
                              \/ /\ Usable /\ k # 0
                                 /\ \/ \E j \in DOMAIN sendq : sendq[j].key = k
                                    \/ \E j \in DOMAIN p : p[j].key = k
<1>1. PICK q : q = sendq \o p
  OBVIOUS
<1>2. /\ q \in Seq(Packets) /\ sendq \in Seq(Packets) /\ Len(q) = Len(sendq) + Len(p)
      /\ Len(sendq) \in Nat /\ Len(p) \in Nat
      /\ \A j \in 1..Len(sendq) : q[j] = sendq[j]
      /\ \A j \in 1..(Len(sendq) + Len(p)) : j > Len(sendq) => q[j] = p[j - Len(sendq)]
  BY <1>1 DEF TypeOK
<1>3. \A j \in DOMAIN q : \/ j \in DOMAIN sendq /\ q[j] = sendq[j]
                          \/ j - Len(sendq) \in DOMAIN p /\ q[j] = p[j - Len(sendq)]
  BY <1>2
<1>4. CASE UNCHANGED <<sendq, acked>>
  BY <1>4
<1>5. CASE sendq' = q /\ UNCHANGED acked
  BY <1>3, <1>5
<1>6. CASE Sends(q)
  <2>1. /\ \A i \in DOMAIN sendq' : \E j \in DOMAIN q : sendq'[i].key = q[j].key
        /\ \A k \in acked' :
             k \in acked \/ (Usable /\ k # 0 /\ \E j \in DOMAIN q : q[j].key = k)
    BY <1>2, <1>6, SentKeys
  <2> QED
    BY <1>3, <2>1
<1> QED
  BY <1>1, <1>4, <1>5, <1>6 DEF SendAnswer

\* Nothing has ended a connection that can be used.
LEMMA UsableStands ==
  ASSUME TypeOK, OneInv, Usable
  PROVE  sock # NoSock /\ \A n \in Nat : n \in 0..Len(inbox) => NoEnd(n)
<1>1. sock \in Socket /\ sock # NoSock /\ socks[sock] # "closed"
  BY DEF Usable, TypeOK
<1>2. \A i \in DOMAIN inbox : inbox[i].ev = "CLOSED" => inbox[i].id # sock
  BY <1>1 DEF OneInv, SocketInv, ClosedIs
<1>3. \A n \in Nat : n \in 0..Len(inbox) => \A i \in 1..n : i \in DOMAIN inbox
  BY DEF TypeOK
<1> QED
  BY <1>1, <1>2, <1>3 DEF NoEnd

\* What is sent is no message, or the acknowledgement of the one that is to be
\* handed over.
LEMMA WaySends ==
  ASSUME TypeOK, OneInv, ArriveParts, AloneInv', UNCHANGED <<sock, inbox, got>>,
         NEW st, NEW p \in Seq(Packets), SendAnswer(st, p),
         \A j \in DOMAIN p : p[j].key = 0 \/ AtPost(p[j].key)',
         \A k : AtPost(k) => AtPost(k)', Cleared => Cleared', ClearsInv',
         hpc' \notin {"dnr", "connect"},
         hpc' = "post" => hpc = "packet", hpc' # "packet"
  PROVE  ArriveParts'
<1>1. \A k : OnWay(k)
  BY WayKept
<1>2. OrphanInv'
  BY DEF ArriveParts, OrphanInv
<1>3. MadeInv'
  BY DEF MadeInv
<1>4. ASSUME NEW j \in DOMAIN p, sock = NoSock
      PROVE  p[j].key = 0 \/ Cleared'
  BY <1>4, <1>2 DEF AtPost, OrphanInv
<1>5. QueuedInv'
  <2> SUFFICES ASSUME NEW i \in DOMAIN sendq'
               PROVE  Due(sendq[i].key)' \/ (sock = NoSock /\ Cleared')
    BY DEF QueuedInv
  <2>0. PICK k : k = sendq'[i].key
    OBVIOUS
  <2>1. \/ \E j \in DOMAIN sendq : k = sendq[j].key
        \/ \E j \in DOMAIN p : k = p[j].key
    BY <2>0, AnswerKeys
  <2>2. CASE \E j \in DOMAIN sendq : k = sendq[j].key
    <3>1. Due(k) \/ (sock = NoSock /\ Cleared)
      BY <2>2 DEF ArriveParts, QueuedInv
    <3> QED
      BY <1>1, <2>0, <3>1 DEF OnWay
  <2>3. CASE \E j \in DOMAIN p : k = p[j].key
    <3>1. PICK j \in DOMAIN p : k = p[j].key
      BY <2>3
    <3>2. k = 0 \/ AtPost(k)'
      BY <3>1
    <3>3. k = 0 \/ sock # NoSock \/ Cleared'
      BY <1>4, <3>1
    <3>4. Due(k)' \/ (sock = NoSock /\ Cleared')
      BY <3>2, <3>3 DEF Due
    <3> QED
      BY <2>0, <3>4
  <2> QED
    BY <2>1, <2>2, <2>3
<1>6. AckedInv'
  <2> SUFFICES ASSUME NEW k, k \in acked'
               PROVE  Arrives(k)'
    BY DEF AckedInv
  <2>1. CASE k \in acked
    BY <1>1, <2>1 DEF ArriveParts, AckedInv, OnWay
  <2>2. CASE k \notin acked
    <3>1. /\ Usable /\ k # 0
          /\ \/ \E j \in DOMAIN sendq : sendq[j].key = k
             \/ \E j \in DOMAIN p : p[j].key = k
      BY <2>2, AnswerKeys
    <3>2. sock # NoSock /\ (\A n \in Nat : n \in 0..Len(inbox) => NoEnd(n))
      BY <3>1, UsableStands
    <3>3. (\E j \in DOMAIN sendq : sendq[j].key = k) => Due(k)
      BY <3>2 DEF ArriveParts, QueuedInv
    <3>4. Due(k)' \/ AtPost(k)'
      BY <1>1, <3>1, <3>3 DEF Due, OnWay
    <3>6. Come(k)' \/ AtPost(k)' \/ \E i \in DOMAIN inbox : Carried(i, k)'
      BY <3>1, <3>4 DEF Due
    <3>7. \A n : NoEnd(n) => NoEnd(n)'
      BY DEF NoEnd
    <3>8. Len(inbox) \in Nat /\ Len(inbox) \in 0..Len(inbox)
          /\ \A i \in DOMAIN inbox : i - 1 \in Nat /\ i - 1 \in 0..Len(inbox)
      BY DEF TypeOK
    <3>9. NoEnd(Len(inbox))' /\ \A i \in DOMAIN inbox : NoEnd(i - 1)'
      BY <3>2, <3>7, <3>8
    <3> QED
      BY <3>2, <3>6, <3>9 DEF Arrives
  <2> QED
    BY <2>1, <2>2
<1> QED
  BY <1>2, <1>3, <1>5, <1>6 DEF ArriveParts

-----------------------------------------------------------------------------
(* While there is a socket nothing makes another one, even where           *)
(* connect_state is wrong.                                                 *)

LEMMA AloneInboxes ==
  ASSUME TypeOK, AloneInv, sock # NoSock,
         \/ UNCHANGED inbox
         \/ Takes
         \/ inbox' = <<>>
         \/ \E m \in Messages : m.ev # "DNR" /\ inbox' = Append(inbox, m)
  PROVE  ~Answered'
<1>1. ~Answered
  BY DEF AloneInv
<1>2. inbox' = <<>> => ~Answered'
  BY DEF Answered
<1> QED
  BY <1>1, <1>2, Gains, Loses, Keeps

LEMMA AloneHELPER ==
  ASSUME TypeOK, TypeOK', OneInv, OneInv', AloneInv, Steady', HELPER
  PROVE  AloneInv'
<1> SUFFICES ASSUME sock' # NoSock
             PROVE  /\ hpc' \notin {"offline", "dnr"} /\ ~Posted' /\ lookups' = {}
                    /\ ~Answered' /\ timer' = FALSE
  BY DEF AloneInv
<1>1. CASE OpensSocket
  <2>1. hpc = "dnr" /\ hpc' = "connect" /\ UNCHANGED <<timer, odd>>
    BY <1>1 DEF OpensSocket
  <2>2. SingleInv /\ SingleInv'
    BY <2>1 DEF OneInv, Steady
  <2> QED
    BY <2>1, <2>2 DEF SingleInv, Creates, TypeOK
<1>2. CASE CreateBegins
  <2>1. Posted
    BY <1>2, First DEF CreateBegins, Posted
  <2> QED
    BY <1>2, <2>1 DEF AloneInv, CreateBegins
<1>3. CASE ~OpensSocket /\ ~CreateBegins
  <2>1. /\ sock' = sock
        /\ hpc' \in {"offline", "dnr"} => hpc' = hpc
        /\ timer' = timer \/ hpc = "dnr"
        /\ lookups' = lookups \/ hpc = "dnr"
    BY <1>3 DEF HELPER, create_connect, GoesOffline, NamePending, NameError, NameNotFound,
       NoSocketLeft, Connecting, CannotConnect, SetsState, send_login, SendsOther, resend,
       ClearSendQ, end_socket, ElfKiller, get_answer, Receives, T_LOGIN, T_ERROR,
       BadPacket,
       SendMSGACK, HandsOver, Starts, GoesOn, link, own, phone
  <2>2. /\ hpc \notin {"offline", "dnr"} /\ ~Posted /\ lookups = {} /\ timer = FALSE
    BY <2>1 DEF AloneInv
  <2>3. ~Posted'
    <3>1. UNCHANGED jobs \/ \E job : Starts(job)
      BY <1>3 DEF HELPER, create_connect, GoesOffline, NamePending, NameError,
         NameNotFound,
         NoSocketLeft, Connecting, CannotConnect, SetsState, send_login, SendsOther,
         resend,
         ClearSendQ, end_socket, ElfKiller, get_answer, Receives, T_LOGIN, T_ERROR,
         BadPacket, SendMSGACK, HandsOver
    <3>2. CASE UNCHANGED jobs
      BY <2>2, <3>2, JobsKept
    <3>3. CASE \E job : Starts(job)
      BY <2>2, <3>3, First DEF Posted
    <3> QED
      BY <3>1, <3>2, <3>3
  <2>4. ~Answered'
    <3>1. CASE HandsOver
      <4> DEFINE m == [ev |-> "PACKET", id |-> sock, key |-> Head(rb).key]
      <4>1. Head(rb) \in Packets
        BY <3>1, Taken DEF HandsOver, TypeOK
      <4>2. Head(rb).key \in Nat /\ sock \in Int
        BY <4>1, Sockets DEF Packets, TypeOK
      <4>3. m \in Messages /\ m.ev # "DNR"
        BY <4>2 DEF Messages, Events
      <4>4. inbox' = Append(inbox, m) \/ UNCHANGED inbox
        BY <3>1 DEF HandsOver
      <4> HIDE DEF m
      <4> QED
        BY <2>1, <4>3, <4>4, AloneInboxes
    <3>2. CASE ~HandsOver
      <4>1. UNCHANGED inbox
        BY <1>3, <2>1, <2>2, <3>2 DEF HELPER, create_connect, GoesOffline, NamePending,
           NameError, NameNotFound, NoSocketLeft, Connecting, CannotConnect, SetsState,
           send_login, SendsOther, resend, ClearSendQ, end_socket, ElfKiller, get_answer,
           Receives, T_LOGIN, T_ERROR, BadPacket, SendMSGACK
      <4> QED
        BY <2>1, <4>1, AloneInboxes
    <3> QED
      BY <3>1, <3>2
  <2> QED
    BY <2>1, <2>2, <2>3, <2>4
<1> QED
  BY <1>1, <1>2, <1>3

LEMMA AloneMessages ==
  ASSUME TypeOK, TypeOK', AloneInv, Steady', maincsm_onmessage
  PROVE  AloneInv'
<1> SUFFICES ASSUME sock' # NoSock
             PROVE  /\ hpc' \notin {"offline", "dnr"} /\ ~Posted' /\ lookups' = {}
                    /\ ~Answered' /\ timer' = FALSE
  BY DEF AloneInv
<1>1. /\ Takes /\ UNCHANGED <<hpc, lookups>>
      /\ sock' = sock /\ ~ENIP_SOCK_CLOSED
  BY DEF maincsm_onmessage, LMAN_DISCONNECT_IND, LMAN_CONNECT_CNF,
     ENIP_DNR_HOST_BY_NAME, HandlesPacket, IPC_FREEMSG, ENIP_SOCK_CONNECTED,
     ENIP_SOCK_DATA_READ,
     ENIP_BUFFER_FREE, ENIP_SOCK_REMOTE_CLOSED, ENIP_SOCK_CLOSED, NotOurs, HandlesOwn,
     Handles, Takes, Round, phone, link
<1>2. /\ hpc \notin {"offline", "dnr"} /\ ~Posted /\ lookups = {} /\ ~Answered
      /\ timer = FALSE
  BY <1>1 DEF AloneInv
<1>3. ~Answered' /\ Head(inbox).ev # "DNR"
  BY <1>1, <1>2, Loses
<1>4. ~Posted'
  <2>1. \/ UNCHANGED jobs
        \/ \E job \in Jobs \ {"create_connect"} : SUBPROC(job)
    BY <1>1, <1>3 DEF maincsm_onmessage, LMAN_DISCONNECT_IND, LMAN_CONNECT_CNF,
       ENIP_DNR_HOST_BY_NAME, HandlesPacket, IPC_FREEMSG, ENIP_SOCK_CONNECTED,
     ENIP_SOCK_DATA_READ,
       ENIP_BUFFER_FREE, ENIP_SOCK_REMOTE_CLOSED, NotOurs, Handles, Jobs
  <2> QED
    BY <1>2, <2>1, JobAdded, JobsKept
<1>5. timer' = FALSE
  <2>1. CASE LMAN_CONNECT_CNF
    BY <1>1, <1>2, <2>1 DEF LMAN_CONNECT_CNF, Steady, TypeOK
  <2>2. CASE ~LMAN_CONNECT_CNF
    BY <1>1, <1>2, <2>2 DEF maincsm_onmessage, LMAN_DISCONNECT_IND,
       ENIP_DNR_HOST_BY_NAME, HandlesPacket, IPC_FREEMSG, ENIP_SOCK_CONNECTED,
     ENIP_SOCK_DATA_READ,
       ENIP_BUFFER_FREE, ENIP_SOCK_REMOTE_CLOSED, NotOurs, own
  <2> QED
    BY <2>1, <2>2
<1> QED
  BY <1>1, <1>2, <1>3, <1>4, <1>5

LEMMA AloneKeys ==
  ASSUME TypeOK, TypeOK', AloneInv, Steady',
         GREEN_BUTTON \/ ZeroKey \/ Disconnect \/ Says \/ do_reconnect \/ TurnsGprsOn
           \/ maincsm_onclose
  PROVE  AloneInv'
<1> SUFFICES ASSUME sock' # NoSock
             PROVE  /\ hpc' \notin {"offline", "dnr"} /\ ~Posted' /\ lookups' = {}
                    /\ ~Answered' /\ timer' = FALSE
  BY DEF AloneInv
<1>1. /\ sock' = sock /\ UNCHANGED <<hpc, lookups>> /\ ~ZeroKey /\ ~maincsm_onclose
      /\ timer' \in {timer, FALSE}
  BY DEF GREEN_BUTTON, ZeroKey, Disconnect, Says, do_reconnect, TurnsGprsOn,
     maincsm_onclose, link, phone, own, Steady
<1>2. /\ hpc \notin {"offline", "dnr"} /\ ~Posted /\ lookups = {} /\ ~Answered
      /\ timer = FALSE
  BY <1>1 DEF AloneInv
<1>3. ~Answered'
  <2>1. Msg("LMAN_CONNECT", 0) \in Messages /\ Msg("LMAN_CONNECT", 0).ev # "DNR"
    BY MessageTypes DEF Msg, Events
  <2>2. UNCHANGED inbox \/ inbox' = Append(inbox, Msg("LMAN_CONNECT", 0))
    BY <1>1 DEF GREEN_BUTTON, Disconnect, Says, do_reconnect, TurnsGprsOn, Posts
  <2> QED
    BY <1>1, <2>1, <2>2, AloneInboxes
<1>4. ~Posted'
  <2>1. \/ UNCHANGED jobs
        \/ \E job \in Jobs \ {"create_connect"} : SUBPROC(job)
    BY <1>1, <1>2 DEF GREEN_BUTTON, Disconnect, Says, do_reconnect, TurnsGprsOn, Jobs
  <2> QED
    BY <1>2, <2>1, JobAdded, JobsKept
<1> QED
  BY <1>1, <1>2, <1>3, <1>4

LEMMA AlonePhone ==
  ASSUME TypeOK, TypeOK', AloneInv, Phone
  PROVE  AloneInv'
<1>1. /\ UNCHANGED <<sock, hpc, jobs, timer>> /\ lookups' \subseteq lookups
  BY DEF Phone, StackConnects, StackBreaks, ServerHangsUp, StackCloses, Soon,
     Changes, StackHasRoom, ServerSends, ResolverAnswers, GprsDown, GprsUp, link, phone
<1> QED
  BY <1>1, PhoneAnswers, JobsKept DEF AloneInv

-----------------------------------------------------------------------------
(* HELPER.                                                                 *)

LEMMA ArriveBegins ==
  ASSUME TypeOK, ArriveParts, AloneInv', CreateBegins
  PROVE  ArriveParts'
<1>1. /\ Starts("create_connect") /\ hpc' \in {"offline", "dnr"}
      /\ UNCHANGED <<sock, sendq, inbox, rb, acked, got>>
  BY DEF CreateBegins
<1>2. 1 \in DOMAIN jobs /\ jobs[1] = "create_connect" /\ hpc = "idle"
  BY <1>1, First
<1>3. sock = NoSock
  BY <1>2 DEF Posted, ArriveParts, AloneInv
<1>4. ~Cleared
  <2> SUFFICES ASSUME NEW j \in DOMAIN jobs, jobs[j] = "ClearSendQ"
               PROVE  ~NoneBefore(j)
    BY DEF Cleared
  <2>1. j # 1 /\ j \in Nat \ {0}
    BY <1>2 DEF TypeOK
  <2>2. 1 \in 1..(j - 1)
    BY <2>1
  <2> QED
    BY <1>2, <2>2 DEF NoneBefore
<1>5. Settled
  <2>1. \A k \in acked : Come(k)
    BY <1>3 DEF ArriveParts, AckedInv, Arrives
  <2>2. \A i \in DOMAIN sendq : sendq[i].key = 0 \/ Come(sendq[i].key)
    BY <1>3, <1>4 DEF ArriveParts, QueuedInv, Due
  <2> QED
    BY <2>1, <2>2 DEF Settled
<1>6. OrphanInv'
  BY <1>1 DEF OrphanInv
<1>7. ClearsInv'
  BY <1>1, ClearsTaken DEF ArriveParts
<1> QED
  BY <1>1, <1>5, <1>6, <1>7, ComeKept, WaySettled

LEMMA ArriveCreates ==
  ASSUME TypeOK, ArriveParts, AloneInv', create_connect
  PROVE  ArriveParts'
<1>1. CASE CreateBegins
  BY <1>1, ArriveBegins
<1>2. CASE ~CreateBegins
  <2>1. /\ UNCHANGED <<sendq, acked, got, rb, jobs>>
        /\ hpc' \in {"connect", "state", "idle"}
        /\ hpc \in {"offline", "dnr", "connect", "state"}
        /\ hpc' = "connect" => hpc = "dnr"
        /\ hpc \in {"offline", "state"} => UNCHANGED <<sock, inbox>> /\ hpc' = "idle"
        /\ UNCHANGED inbox \/ inbox' = Append(inbox, Msg("LMAN_DISCONNECT", 0))
    BY <1>2 DEF create_connect, GoesOffline, NamePending, NameError, NameNotFound,
       OpensSocket, NoSocketLeft, Connecting, CannotConnect, SetsState, link
  <2>2. ClearsInv' /\ OrphanInv' /\ (Cleared => Cleared')
    BY <2>1, ClearsKept DEF ArriveParts, OrphanInv
  <2>3. CASE hpc \in {"dnr", "connect"}
    <3>1. Msg("LMAN_DISCONNECT", 0) \in Messages
      BY MessageTypes DEF Events
    <3>2. \A k : Come(k) => Come(k)'
      BY <2>1, <3>1, ComeKept
    <3> QED
      BY <2>1, <2>2, <2>3, <3>2, WaySettled DEF ArriveParts, MadeInv
  <2>4. CASE hpc \in {"offline", "state"}
    <3>1. \A k : ~AtPost(k)
      BY <2>4 DEF AtPost
    <3>2. \A k : OnWay(k)
      BY <2>1, <2>4, <3>1, WayKept
    <3>3. ClearsInv => ClearsInv'
      BY <2>2
    <3>4. UNCHANGED <<sock, sendq, acked>>
      BY <2>1, <2>4
    <3>5. hpc' = "idle"
      BY <2>1, <2>4
    <3> QED
      BY <2>2, <3>2, <3>3, <3>4, <3>5, WayFollows
  <2> QED
    BY <2>1, <2>3, <2>4
<1> QED
  BY <1>1, <1>2

LEMMA ArriveSent ==
  ASSUME TypeOK, OneInv, ArriveParts, AloneInv', NEW job \in Jobs \ {"ClearSendQ"},
         Starts(job), NEW st, NEW p \in Seq(Packets), SendAnswer(st, p),
         \A j \in DOMAIN p : p[j].key = 0, UNCHANGED <<sock, inbox, got, hpc, rb>>
  PROVE  ArriveParts'
<1>1. hpc = "idle"
  BY DEF Starts
<1>2. (Cleared => Cleared') /\ ClearsInv'
  BY ClearsTaken DEF ArriveParts
<1>3. \A k : AtPost(k) => AtPost(k)'
  BY DEF AtPost
<1> QED
  BY <1>1, <1>2, <1>3, WaySends

LEMMA ArriveSends ==
  ASSUME TypeOK, OneInv, ArriveParts, AloneInv', send_login \/ SendsOther \/ resend
  PROVE  ArriveParts'
<1>1. UNCHANGED <<sock, inbox, got, hpc, rb>>
  BY DEF send_login, SendsOther, resend, Starts
<1>2. {"send_login", "other", "resend"} \subseteq Jobs \ {"ClearSendQ"}
  BY DEF Jobs
<1>3. ASSUME NEW m \in {Packet("login", 0), Packet("other", 0)}
      PROVE  <<m>> \in Seq(Packets) /\ \A j \in DOMAIN <<m>> : <<m>>[j].key = 0
  <2>1. m \in Packets /\ m.key = 0
    BY DEF Packet, Packets
  <2> QED
    BY <2>1
<1>4. CASE send_login
  <2>1. PICK p : p = <<Packet("login", 0)>>
    OBVIOUS
  <2>2. p \in Seq(Packets) /\ \A j \in DOMAIN p : p[j].key = 0
    BY <1>3, <2>1
  <2>3. Starts("send_login") /\ SendAnswer(2, p)
    BY <1>4, <2>1 DEF send_login
  <2> QED
    BY <1>1, <1>2, <2>2, <2>3, ArriveSent
<1>5. CASE SendsOther
  <2>1. PICK p : p = <<Packet("other", 0)>>
    OBVIOUS
  <2>2. p \in Seq(Packets) /\ \A j \in DOMAIN p : p[j].key = 0
    BY <1>3, <2>1
  <2>3. Starts("other") /\ SendAnswer(state, p)
    BY <1>5, <2>1 DEF SendsOther
  <2> QED
    BY <1>1, <1>2, <2>2, <2>3, ArriveSent
<1>6. CASE resend
  <2>1. PICK p : p = <<>>
    OBVIOUS
  <2>2. p \in Seq(Packets) /\ \A j \in DOMAIN p : p[j].key = 0
    BY <2>1
  <2>3. Starts("resend") /\ SendAnswer(state, p)
    BY <1>6, <2>1 DEF resend
  <2> QED
    BY <1>1, <1>2, <2>2, <2>3, ArriveSent
<1> QED
  BY <1>4, <1>5, <1>6

LEMMA ArriveClears ==
  ASSUME TypeOK, ArriveParts, AloneInv', ClearSendQ
  PROVE  ArriveParts'
<1>1. /\ Starts("ClearSendQ") /\ sendq' = <<>> /\ hpc = "idle"
      /\ UNCHANGED <<sock, inbox, rb, hpc, acked, got>>
  BY DEF ClearSendQ, Starts
<1>2. \A k : Arrives(k) => Arrives(k)'
  BY <1>1, WayKept DEF AtPost, OnWay
<1>3. AckedInv'
  BY <1>1, <1>2 DEF ArriveParts, AckedInv
<1>4. QueuedInv' /\ OrphanInv' /\ MadeInv'
  BY <1>1 DEF QueuedInv, OrphanInv, MadeInv
<1>5. ClearsInv'
  BY <1>1, ClearsTaken DEF ArriveParts
<1> QED
  BY <1>3, <1>4, <1>5 DEF ArriveParts

LEMMA ArriveStarts ==
  ASSUME TypeOK, ArriveParts, AloneInv', end_socket \/ ElfKiller \/ Receives
  PROVE  ArriveParts'
<1>1. PICK job \in Jobs \ {"ClearSendQ"} : Starts(job)
  BY DEF end_socket, ElfKiller, Receives, Jobs
<1>2. /\ UNCHANGED <<sock, sendq, inbox, acked, got>> /\ hpc = "idle"
      /\ hpc' \in {"idle", "killed", "packet"} /\ (hpc' = "packet" => sock # NoSock)
  BY DEF end_socket, ElfKiller, Receives, Starts, link, Usable
<1>3. \A k : ~AtPost(k)
  BY <1>2 DEF AtPost
<1>4. \A k : OnWay(k)
  BY <1>2, <1>3, WayKept
<1>5. (Cleared => Cleared') /\ (ClearsInv => ClearsInv')
  BY <1>1, ClearsTaken
<1> QED
  BY <1>2, <1>4, <1>5, WayFollows

LEMMA ArriveAnswers ==
  ASSUME TypeOK, OneInv, ArriveParts, AloneInv', alive = TRUE, get_answer
  PROVE  ArriveParts'
<1>1. CASE Receives
  BY <1>1, ArriveStarts
<1>2. CASE T_LOGIN \/ T_ERROR \/ BadPacket
  <2>1. /\ UNCHANGED <<sock, sendq, inbox, jobs, acked, got>> /\ hpc = "packet"
        /\ hpc' \in {"idle", "packet"}
    BY <1>2 DEF T_LOGIN, T_ERROR, BadPacket, Sees, GoesOn
  <2>2. \A k : ~AtPost(k)
    BY <2>1 DEF AtPost
  <2>3. \A k : OnWay(k)
    BY <2>1, <2>2, WayKept
  <2> QED
    BY <2>1, <2>3, ClearsKept, WayFollows
<1>3. CASE SendMSGACK
  <2>1. /\ hpc = "packet" /\ hpc' = "post" /\ UNCHANGED <<sock, inbox, rb, jobs, got>>
        /\ SendAnswer(state, <<Packet("ack", Head(rb).key)>>)
    BY <1>3 DEF SendMSGACK, Sees
  <2>2. PICK k : k = Head(rb).key
    OBVIOUS
  <2>3. Head(rb) \in Packets
    BY <2>1, Taken DEF TypeOK
  <2>4. Packet("ack", k) \in Packets /\ Packet("ack", k).key = k
    BY <2>2, <2>3 DEF Packet, Packets
  <2>5. PICK p : p = <<Packet("ack", k)>>
    OBVIOUS
  <2>6. p \in Seq(Packets) /\ \A j \in DOMAIN p : p[j].key = k
    BY <2>4, <2>5
  <2>7. AtPost(k)'
    BY <2>1, <2>2 DEF AtPost
  <2>8. \A l : AtPost(l) => AtPost(l)'
    BY <2>1 DEF AtPost
  <2>9. (Cleared => Cleared') /\ ClearsInv'
    BY <2>1, ClearsKept DEF ArriveParts
  <2>10. SendAnswer(state, p) /\ \A j \in DOMAIN p : p[j].key = 0 \/ AtPost(p[j].key)'
    BY <2>1, <2>2, <2>5, <2>6, <2>7
  <2> QED
    BY <2>1, <2>6, <2>8, <2>9, <2>10, WaySends
<1>4. CASE HandsOver
  <2>1. /\ UNCHANGED <<sock, sendq, jobs, acked, got>> /\ hpc = "post"
        /\ hpc' \in {"idle", "packet"}
    BY <1>4 DEF HandsOver, GoesOn, link
  <2>2. \A k : OnWay(k)
    BY <1>4, WayHandsOver
  <2> QED
    BY <2>1, <2>2, ClearsKept, WayFollows
<1> QED
  BY <1>1, <1>2, <1>3, <1>4 DEF get_answer

-----------------------------------------------------------------------------
(* The MMI process and the phone.                                          *)

LEMMA ArriveKeys ==
  ASSUME TypeOK, ArriveParts, AloneInv', Steady',
         GREEN_BUTTON \/ ZeroKey \/ Disconnect \/ Says \/ do_reconnect \/ TurnsGprsOn
           \/ maincsm_onclose
  PROVE  ArriveParts'
<1>1. /\ ~ZeroKey /\ ~maincsm_onclose
      /\ UNCHANGED <<sock, sendq, hpc, rb, acked, got>>
  BY DEF GREEN_BUTTON, ZeroKey, Disconnect, Says, do_reconnect, TurnsGprsOn,
     maincsm_onclose, link, Steady
<1>2. \A k : OnWay(k)
  <2>1. UNCHANGED inbox \/ inbox' = Append(inbox, Msg("LMAN_CONNECT", 0))
    BY <1>1 DEF GREEN_BUTTON, Disconnect, Says, do_reconnect, TurnsGprsOn, Posts
  <2>2. CASE UNCHANGED inbox
    BY <1>1, <2>2, WayKept DEF AtPost
  <2>3. CASE inbox' = Append(inbox, Msg("LMAN_CONNECT", 0))
    <3>1. Msg("LMAN_CONNECT", 0) \in Messages /\ Msg("LMAN_CONNECT", 0).ev # "CLOSED"
      BY MessageTypes DEF Msg, Events
    <3>2. PICK t : t = <<Msg("LMAN_CONNECT", 0)>>
      OBVIOUS
    <3>3. /\ t \in Seq(Messages) /\ inbox' = inbox \o t
          /\ \A i \in DOMAIN t : t[i].ev # "CLOSED"
      BY <2>3, <3>1, <3>2, OneAsSeq DEF TypeOK
    <3> QED
      BY <1>1, <3>3, WayGrows
  <2> QED
    BY <2>1, <2>2, <2>3
<1>3. (Cleared => Cleared') /\ (ClearsInv => ClearsInv')
  <2>1. UNCHANGED jobs \/ \E job \in Jobs \ {"ClearSendQ"} : SUBPROC(job)
    BY <1>1 DEF GREEN_BUTTON, Disconnect, Says, do_reconnect, TurnsGprsOn, Jobs
  <2> QED
    BY <2>1, ClearsKept, ClearsMore
<1> QED
  BY <1>1, <1>2, <1>3, WayFollows

LEMMA ArriveEnds ==
  ASSUME TypeOK, OneInv, ArriveParts, AloneInv', ENIP_SOCK_CLOSED
  PROVE  ArriveParts'
<1>1. /\ Takes /\ Head(inbox).ev = "CLOSED"
      /\ Head(inbox).id = sock /\ sock' = NoSock /\ SUBPROC("ClearSendQ")
      /\ UNCHANGED <<sendq, hpc, acked, got>>
  BY DEF ENIP_SOCK_CLOSED, HandlesOwn, Handles, Takes
<1>2. sock # NoSock
  BY <1>1, Loses, Sockets DEF OneInv, SocketInv
<1>3. /\ Len(jobs) \in Nat /\ DOMAIN jobs = 1..Len(jobs)
      /\ DOMAIN jobs' = 1..(Len(jobs) + 1)
      /\ \A j \in 1..Len(jobs) : jobs'[j] = jobs[j]
      /\ jobs'[Len(jobs) + 1] = "ClearSendQ"
  BY <1>1, Added DEF TypeOK, Jobs, SUBPROC
<1>4. \A j \in DOMAIN jobs' : jobs'[j] # "create_connect"
  BY <1>2, <1>3 DEF ArriveParts, AloneInv, Posted
<1>5. \A j \in DOMAIN jobs' : NoneBefore(j)'
  BY <1>3, <1>4 DEF NoneBefore
<1>6. Cleared' /\ ClearsInv'
  <2>1. Len(jobs) + 1 \in DOMAIN jobs'
    BY <1>3
  <2> QED
    BY <1>3, <1>5, <2>1 DEF Cleared, ClearsInv
<1>7. QueuedInv' /\ OrphanInv'
  BY <1>1, <1>6 DEF QueuedInv, OrphanInv
<1>8. \A k \in acked : Come(k)
  <2> SUFFICES ASSUME NEW k \in acked
               PROVE  Come(k)
    OBVIOUS
  <2>1. /\ Len(inbox) \in Nat \ {0} /\ DOMAIN inbox = 1..Len(inbox)
        /\ inbox[1].ev = "CLOSED" /\ inbox[1].id = sock
    BY <1>1, TakesAre
  <2>2. ~NoEnd(Len(inbox))
    BY <2>1 DEF NoEnd
  <2>3. ASSUME NEW i \in DOMAIN inbox, Carried(i, k)
        PROVE  ~NoEnd(i - 1)
    <3>1. i # 1
      BY <2>1, <2>3 DEF Carried
    <3>2. 1 \in 1..(i - 1)
      BY <2>1, <3>1
    <3> QED
      BY <2>1, <3>2 DEF NoEnd
  <2> QED
    BY <2>2, <2>3 DEF ArriveParts, AckedInv, Arrives
<1>9. \A k : Come(k) => Come(k)'
  BY <1>1, ComeTaken
<1>10. AckedInv'
  BY <1>1, <1>8, <1>9 DEF AckedInv, Arrives
<1>11. MadeInv'
  <2>1. hpc' \in {"dnr", "connect"} => Settled
    BY <1>1 DEF ArriveParts, MadeInv
  <2> QED
    BY <1>1, <1>9, <2>1 DEF MadeInv, Settled
<1> QED
  BY <1>6, <1>7, <1>10, <1>11 DEF ArriveParts

LEMMA ArriveMessages ==
  ASSUME TypeOK, OneInv, ArriveParts, AloneInv', maincsm_onmessage
  PROVE  ArriveParts'
<1>1. CASE ENIP_SOCK_CLOSED
  BY <1>1, ArriveEnds
<1>2. CASE ~ENIP_SOCK_CLOSED
  <2>1. /\ Takes /\ got \subseteq got'
        /\ UNCHANGED <<sock, sendq, hpc, rb, acked>>
    BY <1>2 DEF maincsm_onmessage, LMAN_DISCONNECT_IND, LMAN_CONNECT_CNF,
       ENIP_DNR_HOST_BY_NAME, HandlesPacket, IPC_FREEMSG, ENIP_SOCK_CONNECTED,
     ENIP_SOCK_DATA_READ,
       ENIP_BUFFER_FREE, ENIP_SOCK_REMOTE_CLOSED, NotOurs, HandlesOwn, Handles, Takes,
       Round, link
  <2>2. /\ Head(inbox).ev = "PACKET" /\ Head(inbox).id = sock => inbox' # Tail(inbox)
        /\ Head(inbox).ev = "FREEMSG" => Head(inbox).key \in got'
    BY <1>2 DEF maincsm_onmessage, LMAN_DISCONNECT_IND, LMAN_CONNECT_CNF,
       ENIP_DNR_HOST_BY_NAME, HandlesPacket, IPC_FREEMSG, ENIP_SOCK_CONNECTED,
     ENIP_SOCK_DATA_READ,
       ENIP_BUFFER_FREE, ENIP_SOCK_REMOTE_CLOSED, NotOurs, HandlesOwn, Handles
  <2>3. \A k : OnWay(k)
    BY <2>1, <2>2, WayTaken
  <2>4. (Cleared => Cleared') /\ (ClearsInv => ClearsInv')
    <3>1. UNCHANGED jobs \/ \E job \in Jobs \ {"ClearSendQ"} : SUBPROC(job)
      BY <1>2 DEF maincsm_onmessage, LMAN_DISCONNECT_IND, LMAN_CONNECT_CNF,
         ENIP_DNR_HOST_BY_NAME, HandlesPacket, IPC_FREEMSG, ENIP_SOCK_CONNECTED,
     ENIP_SOCK_DATA_READ,
         ENIP_BUFFER_FREE, ENIP_SOCK_REMOTE_CLOSED, NotOurs, Jobs
    <3> QED
      BY <3>1, ClearsKept, ClearsMore
  <2> QED
    BY <2>1, <2>3, <2>4, WayFollows
<1> QED
  BY <1>1, <1>2

LEMMA ArrivePhone ==
  ASSUME TypeOK, ArriveParts, AloneInv', Steady', Phone
  PROVE  ArriveParts'
<1>1. UNCHANGED <<sock, sendq, hpc, rb, jobs, acked, got>>
  BY DEF Phone, StackConnects, StackBreaks, ServerHangsUp, StackCloses, Soon,
     Changes, StackHasRoom, ServerSends, ResolverAnswers, GprsDown, GprsUp, link
<1>2. ASSUME NEW ev \in Events, NEW id \in Int, NEW s, Posts(s, Msg(ev, id)),
             hpc = "post" => inbox' = inbox \/ ev # "CLOSED", NEW k
      PROVE  OnWay(k)
  <2>1. Msg(ev, id) \in Messages /\ Msg(ev, id).ev = ev
    BY MessageTypes DEF Msg
  <2>2. CASE UNCHANGED inbox
    BY <1>1, <2>2, WayKept DEF AtPost
  <2>3. CASE inbox' = Append(inbox, Msg(ev, id)) /\ inbox' # inbox
    <3>1. PICK t : t = <<Msg(ev, id)>>
      OBVIOUS
    <3>2. /\ t \in Seq(Messages) /\ inbox' = inbox \o t
          /\ \A i \in DOMAIN t : t[i].ev = ev
      BY <2>1, <2>3, <3>1 DEF TypeOK
    <3> QED
      BY <1>1, <1>2, <2>3, <3>2, WayGrows
  <2> QED
    BY <1>2, <2>2, <2>3 DEF Posts
<1>3. \A k : OnWay(k)
  <2>1. CASE StackCloses \/ StackBreaks
    <3>1. PICK s \in Socket :
            Posts(s, Msg("CLOSED", s)) /\ Notes("late", hpc = "post" /\ s = sock)
      BY <2>1 DEF StackCloses, StackBreaks, Soon, Changes
    <3>2. hpc = "post" => s # sock
      BY <3>1 DEF Notes, Steady
    <3>3. s # 0 /\ s \in Int
      BY Sockets
    <3>4. hpc = "post" => inbox' = inbox
      BY <3>1, <3>2, <3>3 DEF Posts
    <3>5. "CLOSED" \in Events
      BY DEF Events
    <3> QED
      BY <1>2, <3>1, <3>3, <3>4, <3>5
  <2>2. CASE GprsDown
    <3>1. hpc # "post"
      BY <2>2 DEF GprsDown, Notes, Steady
    <3>2. Msg("LMAN_DISCONNECT", 0) \in Messages /\ Msg("CLOSED", sock) \in Messages
      BY MessageTypes, Sockets DEF Events, TypeOK
    <3>3. \E t \in Seq(Messages) : inbox' = inbox \o t
      <4>1. PICK a, b : a = Msg("LMAN_DISCONNECT", 0) /\ b = Msg("CLOSED", sock)
        OBVIOUS
      <4>2. inbox' = Append(inbox, a) \o <<b>> \/ inbox' = Append(inbox, a) \o <<>>
        BY <2>2, <4>1 DEF GprsDown
      <4>3. a \in Messages /\ b \in Messages /\ inbox \in Seq(Messages)
        BY <3>2, <4>1 DEF TypeOK
      <4>4. Append(inbox, a) \in Seq(Messages)
            /\ Append(inbox, a) \o <<>> = Append(inbox, a)
        BY <4>3
      <4>5. <<a, b>> \in Seq(Messages) /\ Append(inbox, a) \o <<b>> = inbox \o <<a, b>>
        BY <4>3, TwoAsSeq
      <4>6. <<a>> \in Seq(Messages) /\ Append(inbox, a) = inbox \o <<a>>
        BY <4>3, OneAsSeq
      <4> QED
        BY <4>2, <4>4, <4>5, <4>6
    <3> QED
      BY <1>1, <3>1, <3>3, WayGrows
  <2>3. CASE ~StackCloses /\ ~StackBreaks /\ ~GprsDown
    <3>1. PICK ev \in Events \ {"CLOSED"}, id \in Nat \cup {sock} :
            \E s : Posts(s, Msg(ev, id))
      BY <2>3, Sockets DEF Phone, StackConnects, ServerHangsUp, Soon,
         Changes, StackHasRoom, ServerSends, ResolverAnswers, GprsUp, Events, TypeOK
    <3>2. id \in Int
      BY Sockets DEF TypeOK
    <3> QED
      BY <1>2, <3>1, <3>2
  <2> QED
    BY <2>1, <2>2, <2>3
<1> QED
  BY <1>1, <1>3, ClearsKept, WayFollows

-----------------------------------------------------------------------------
LEMMA ArriveStays ==
  ASSUME TypeOK, TypeOK', OneInv, OneInv', ArriveInv, [Next]_vars
  PROVE  ArriveInv'
<1> SUFFICES ASSUME Steady'
             PROVE  ArriveParts'
  BY DEF ArriveInv
<1>1. ArriveParts /\ alive = TRUE
  BY SteadyWas DEF ArriveInv, Steady, TypeOK
<1>2. CASE UNCHANGED vars
  <2>1. /\ AloneInv' /\ UNCHANGED <<sock, inbox, got, hpc, rb, jobs, sendq, acked>>
    BY <1>1, <1>2 DEF ArriveParts, AloneInv, Posted, Answered, vars, link, phone
  <2>2. \A k : OnWay(k)
    BY <2>1, WayKept DEF AtPost
  <2> QED
    BY <1>1, <2>1, <2>2, ClearsKept, WayFollows
<1>3. CASE Next
  <2>1. AloneInv'
    BY <1>1, <1>3, AloneHELPER, AloneMessages, AloneKeys, AlonePhone DEF Next, ArriveParts
  <2>2. CASE HELPER
    BY <1>1, <2>1, <2>2, ArriveCreates, ArriveSends, ArriveClears, ArriveStarts,
       ArriveAnswers DEF HELPER
  <2> QED
    BY <1>1, <1>3, <2>1, <2>2, ArriveMessages, ArriveKeys, ArrivePhone DEF Next
<1> QED
  BY <1>2, <1>3

LEMMA ArriveBegan == Init => ArriveInv
<1> SUFFICES ASSUME Init
             PROVE  ArriveParts
  BY DEF ArriveInv
<1>1. /\ sock = NoSock /\ sendq = <<>> /\ acked = {} /\ hpc = "idle"
      /\ jobs = <<"create_connect">>
  BY DEF Init
<1>2. ClearsInv
  BY <1>1 DEF ClearsInv
<1> QED
  BY <1>1, <1>2 DEF ArriveParts, AloneInv, AckedInv, QueuedInv, OrphanInv, MadeInv

\* A message that the server has been told to have arrived comes to the chat, however
\* many connections are made and lost, unless its own one ends between the
\* acknowledgement and its message to the MMI process (main.c:1743-1745, 2936-2962,
\* 2849-2866).
THEOREM AckedArrivesAlways == Spec => []AckedArrives
<1>1. Init => TypeOK /\ OneInv /\ ArriveInv
  BY TypesStart, OneStarts, ArriveBegan
<1>2. TypeOK /\ OneInv /\ ArriveInv /\ [Next]_vars => (TypeOK /\ OneInv /\ ArriveInv)'
  BY TypesStay, OneStays, ArriveStays
<1>3. ArriveInv => AckedArrives
  BY DEF ArriveInv, ArriveParts, Steady, AckedInv, Arrives, AtPost, Carried, Come, Passed,
     AckedArrives
<1> QED
  BY <1>1, <1>2, <1>3, PTL DEF Spec
=============================================================================
