------------------------------ MODULE MailPop3 ------------------------------
(***************************************************************************)
(* The POP3 dialogue of ARM/MailClient/MailDaemon: process_line, the mail  *)
(* list it keeps in memory, its copy in mails.db, the .eml files, and the  *)
(* mailbox at the other end of the connection.                             *)
(*                                                                         *)
(* process_line runs in the phone's HELPER process, one line of the server *)
(* at a time; hpc says where in it the process is, so that the connection, *)
(* the server, the user and a power cut can interleave with the loops of   *)
(* write_mail_DB and of the list traversal.  The list is a sequence,       *)
(* cur_ml an index into it (0 is the list head, Dangling freed memory).    *)
(*                                                                         *)
(* The server is external: what the daemon relies on is that it answers    *)
(* commands in order, that message numbers are those of the session, and   *)
(* that DELE takes effect when QUIT arrives and not otherwise.             *)
(***************************************************************************)
EXTENDS Integers, Sequences, FiniteSets, SequencesExt

CONSTANTS
  Uidl,            \* the unique ids the server gives to mails
  Junk,            \* the words after "+OK" or "-ERR", when taken for a uidl
  Torn,            \* what InitMailDB reads for a uidl that was not written
  Size,            \* Size[u]: octets of mail u
  DEFAULT_ACTION,  \* 0: headers only, 1: headers and text
  LOAD_IF_LESS,    \* with action 1: headers only for mails above this, 0: off
  IF_DEL_AUX,      \* mail gone from the server: 0 delete on the phone, 1 keep
  DEL_AFTER_LOAD,  \* 1: delete on the server what was loaded in full
  FaultKinds,      \* which of "drop", "err", "crash", "torn" and "fopen" can
                   \*   happen
  MaxFaults,       \* bound: how many of them in one behaviour
  MaxUser          \* bound: how many interventions of the user

ASSUME UidlAssumption ==
  /\ Junk \notin Uidl /\ Torn \notin Uidl /\ Junk # Torn
  /\ Size \in [Uidl -> Nat]
ASSUME ConfigAssumption ==
  /\ DEFAULT_ACTION \in {0, 1}
  /\ LOAD_IF_LESS \in Nat
  /\ IF_DEL_AUX \in {0, 1}
  /\ DEL_AFTER_LOAD \in {0, 1}
ASSUME FaultAssumption ==
  /\ FaultKinds \subseteq {"drop", "err", "crash", "torn", "fopen"}
  /\ MaxFaults \in Nat /\ MaxUser \in Nat

VARIABLES
  \* the daemon's memory
  mails,     \* mails: the list, records of uidl, state, num (num_in_list)
  cur,       \* cur_ml
  popState,  \* pop_stat.pop_state
  mesRec,    \* mes_rec: inside a multi-line reply
  fhandler,  \* fhandler: "none" is -1, "open" a stream, "stale" a closed one
  part,      \* recived_line between two lines: "none", or a fragment that
             \*   begins with "+OK" ("ok") or does not ("other")
  buf,       \* lines of msg_buf that get_answer has still to process
  hpc,       \* where HELPER is: "line" is between two calls of process_line
  after,     \* where process_line goes on after write_mail_DB
  \* the phone's file system
  disk,      \* mails.db
  eml,       \* eml[u]: u.eml is missing, begun, the headers, the whole mail
  \* the connection and the server
  sock,      \* "closed" (sock=-1), "open", "closing" (end_socket was called)
  c2s, s2c,  \* commands and lines on their way
  srvUp,     \* the server has a session
  sess,      \* the mails of the session, by message number
  dele,      \* message numbers marked by DELE
  box,       \* the mailbox
  fresh,     \* unique ids the server has not given out yet
  \* the viewer
  prev,      \* prev_state of its list; empty when the list is not that of disk
  \* history and bound
  asked,     \* mails that the user wants deleted
  nfault,    \* faults so far
  nuser      \* interventions of the user so far

memory == <<mails, cur, popState, mesRec, fhandler, part, buf, hpc, after>>
files  == <<disk, eml>>
net    == <<sock, c2s, s2c>>
server == <<srvUp, sess, dele, box, fresh>>
user   == <<prev, asked>>
counts == <<nfault, nuser>>
vars   == <<memory, files, net, server, user, counts>>

-----------------------------------------------------------------------------
Names    == Uidl \cup {Junk, Torn}
Dangling == -1

LoadStates == {"LOAD_HEADER", "LOAD_FULL"}
DoneStates == {"HEADERS_LOADED", "FULL_LOADED"}
\* "BIG" is M_IS_BIG_LETTER, "ODD" what an unsigned char keeps of it.
MailStates == LoadStates \cup DoneStates \cup {"DELETE", "BIG", "ODD"}

Entry  == [uidl : Names, state : MailStates, num : Nat \cup {-1}]
Record == [uidl : Names, state : MailStates \ {"BIG"}]

PopStates == {"GREETING", "VER_LOGIN", "VER_PASS", "GET_STAT",
              "GET_UIDL_LIST", "GET_LIST", "PROCESS_LIST",
              "RECEIVE_HEADERS", "RECEIVE_MESSAGE", "DELETE_MESSAGE"}
Receiving == {"RECEIVE_HEADERS", "RECEIVE_MESSAGE"}
MultiLine == Receiving \cup {"GET_UIDL_LIST", "GET_LIST"}

Line    == [k : {"entry"}, n : Nat, u : Uidl]
           \cup [k : {"ok", "err", "text", "dot"}, n : Nat, u : {Junk}]
Status(k)  == [k |-> k, n |-> 0, u |-> Junk]
Ok         == Status("ok")
Dot        == Status("dot")
Count(n)   == [Ok EXCEPT !.n = n]
Command == [c : {"USER", "PASS", "STAT", "UIDL", "LIST", "TOP", "RETR",
                 "DELE", "QUIT"}, n : Nat]
Cmd(c)     == [c |-> c, n |-> 0]

Fault(kind) == /\ kind \in FaultKinds
               /\ nfault < MaxFaults
               /\ nfault' = nfault + 1
               /\ UNCHANGED nuser

Intervention == /\ nuser < MaxUser
                /\ nuser' = nuser + 1
                /\ UNCHANGED nfault

\* send_str: on an open socket the command is on its way, otherwise it is lost.
Sent(cmd) == c2s' = IF sock = "open" THEN Append(c2s, cmd) ELSE c2s

-----------------------------------------------------------------------------
(* The list and its copy in mails.db.                                      *)

\* One record as InitMailDB reads it: no entry has a number yet.
FromRecord(r) == [uidl |-> r.uidl, state |-> r.state, num |-> -1]

\* One record as write_mail_DB writes it: the state becomes an unsigned char.
ToRecord(e) == [uidl  |-> e.uidl,
                state |-> IF e.state = "BIG" THEN "ODD" ELSE e.state]

InitialState ==
  IF DEFAULT_ACTION = 1
  THEN IF LOAD_IF_LESS # 0 THEN "BIG" ELSE "LOAD_FULL"
  ELSE "LOAD_HEADER"

\* The list after the line "num uidl": a known mail gets its number, another
\* one is appended.
add_uidl_if_exist(num, u) ==
  IF \E i \in 1..Len(mails) : mails[i].uidl = u
  THEN [i \in 1..Len(mails) |->
          IF mails[i].uidl = u THEN [mails[i] EXCEPT !.num = num]
                               ELSE mails[i]]
  ELSE Append(mails, [uidl |-> u, state |-> InitialState, num |-> num])

\* Broken: a letter that is not too big is left undecided.
set_mes_size_if_big(num, size) ==
  [i \in 1..Len(mails) |->
     IF mails[i].num = num /\ mails[i].state = "BIG" /\ size > LOAD_IF_LESS
     THEN [mails[i] EXCEPT !.state = "LOAD_HEADER"]
     ELSE mails[i]]

\* The list after the line "num size": a big letter gets headers only.
set_mes_size(num, size) ==
  [i \in 1..Len(mails) |->
     IF /\ mails[i].num = num /\ mails[i].state = "BIG"
        /\ \A j \in 1..(i - 1) : mails[j].num # num
     THEN [mails[i] EXCEPT !.state =
             IF size > LOAD_IF_LESS THEN "LOAD_HEADER" ELSE "LOAD_FULL"]
     ELSE mails[i]]

\* remove_cur_from_list at entry i: the entry and its .eml file go, and
\* cur_ml steps back to the entry before it.
remove_cur_from_list(i) ==
  /\ mails' = RemoveAt(mails, i)
  /\ eml' = [eml EXCEPT ![mails[i].uidl] = "none"]
  /\ cur' = i - 1

\* Broken: IF_DEL_AUX is not looked at.
LostedAlways(e) == TRUE

\* do_losted_mes decides so for an entry the server has not listed.
Losted(e) == IF_DEL_AUX = 0 \/ e.state = "DELETE"

\* end_connect: QUIT, close the socket, forget the partial line; and close the
\* stream, if there is one (the variable keeps its handle).
EndSession ==
  /\ Sent(Cmd("QUIT"))
  /\ sock' = IF sock = "open" THEN "closing" ELSE sock
  /\ s2c' = <<>>
  /\ part' = "none"
EndConnect ==
  /\ EndSession
  /\ fhandler' = IF fhandler = "none" THEN "none" ELSE "stale"

-----------------------------------------------------------------------------
(* process_line, for the line at the head of buf.                          *)

line == Head(buf)

\* A fragment left in recived_line comes before the line.
RespOk == IF part = "none" THEN line.k = "ok" ELSE part = "ok"

\* What every line step does: HELPER takes the line out of the buffer.
TakeLine ==
  /\ hpc = "line"
  /\ buf # <<>>
  /\ buf' = Tail(buf)
  /\ UNCHANGED <<server, disk, user>>

\* Where a status line is expected and another one comes, the session ends.
Refused ==
  /\ TakeLine
  /\ popState \in MultiLine => ~mesRec
  /\ popState # "PROCESS_LIST"
  /\ ~RespOk
  /\ EndConnect
  /\ UNCHANGED <<mails, cur, popState, mesRec, hpc, after, eml, counts>>

\* POP_GREETING, POP_VER_LOGIN, POP_VER_PASS: the next command goes out.
Accepted(state, cmd, next) ==
  /\ TakeLine
  /\ popState = state
  /\ RespOk
  /\ Sent(Cmd(cmd))
  /\ popState' = next
  /\ part' = "none"
  /\ UNCHANGED <<mails, cur, mesRec, fhandler, hpc, after, eml, sock, s2c,
                 counts>>

Greeting == Accepted("GREETING", "USER", "VER_LOGIN")
VerLogin == Accepted("VER_LOGIN", "PASS", "VER_PASS")
VerPass  == Accepted("VER_PASS", "STAT", "GET_STAT")

\* POP_GET_STAT: an empty mailbox ends the session.
GetStat ==
  \/ /\ Accepted("GET_STAT", "UIDL", "GET_UIDL_LIST")
     /\ line.n # 0
  \/ /\ TakeLine
     /\ popState = "GET_STAT"
     /\ RespOk
     /\ line.n = 0
     /\ EndConnect
     /\ popState' = "GREETING"
     /\ UNCHANGED <<mails, cur, mesRec, hpc, after, eml, counts>>

\* The status line of a multi-line reply; the stream is for mails only.
ReplyBegins(states) ==
  /\ TakeLine
  /\ popState \in states
  /\ ~mesRec
  /\ RespOk
  /\ mesRec' = TRUE
  /\ part' = "none"
  /\ UNCHANGED <<mails, cur, popState, hpc, after, net>>

ListBegins ==
  /\ ReplyBegins({"GET_UIDL_LIST", "GET_LIST"})
  /\ UNCHANGED <<fhandler, eml, counts>>

\* A line inside a multi-line reply.
InReply(state) ==
  /\ TakeLine
  /\ popState = state
  /\ mesRec
  /\ part' = "none"
  /\ UNCHANGED <<net, counts>>

\* POP_GET_UIDL_LIST: whatever is not the final dot is an entry, a status
\* line of the next session included; strtoul reads 0 from that.  Without a second
\* word its uidl is what stands behind NULL, unless the phone goes off (Crashes).
UidlEntry ==
  /\ InReply("GET_UIDL_LIST")
  /\ line.k # "dot"
  /\ mails' = add_uidl_if_exist(IF line.k = "entry" THEN line.n ELSE 0, line.u)
  /\ UNCHANGED <<cur, popState, mesRec, fhandler, hpc, after, eml>>

\* Broken: LIST is forgotten.
UidlEndsSilent ==
  /\ InReply("GET_UIDL_LIST")
  /\ line.k = "dot"
  /\ mesRec' = FALSE
  /\ popState' = "GET_LIST"
  /\ UNCHANGED <<mails, cur, fhandler, hpc, after, eml>>

UidlEnds ==
  /\ TakeLine
  /\ popState = "GET_UIDL_LIST"
  /\ mesRec
  /\ line.k = "dot"
  /\ mesRec' = FALSE
  /\ Sent(Cmd("LIST"))
  /\ popState' = "GET_LIST"
  /\ part' = "none"
  /\ UNCHANGED <<mails, cur, fhandler, hpc, after, eml, sock, s2c, counts>>

\* POP_GET_LIST; at the final dot the list is saved and then traversed.
ListEntry ==
  /\ InReply("GET_LIST")
  /\ line.k = "entry"
  /\ mails' = set_mes_size(line.n, Size[line.u])
  /\ UNCHANGED <<cur, popState, mesRec, fhandler, hpc, after, eml>>

ListEnds ==
  /\ InReply("GET_LIST")
  /\ line.k = "dot"
  /\ mesRec' = FALSE
  /\ cur' = 0
  /\ popState' = "PROCESS_LIST"
  /\ hpc' = "open"
  /\ after' = "walk"
  /\ UNCHANGED <<mails, fhandler, eml>>

\* POP_RECEIVE_HEADERS, POP_RECEIVE_MESSAGE: the stream of the .eml file.
MailBegins ==
  /\ ReplyBegins(Receiving)
  /\ fhandler' = "open"
  /\ eml' = [eml EXCEPT ![mails[cur].uidl] = "begun"]
  /\ UNCHANGED counts

MailCannotOpen ==
  /\ TakeLine
  /\ popState \in Receiving
  /\ ~mesRec
  /\ RespOk
  /\ Fault("fopen")
  /\ EndSession
  /\ fhandler' = "none"
  /\ UNCHANGED <<mails, cur, popState, mesRec, hpc, after, eml>>

MailText ==
  /\ \E s \in Receiving : InReply(s)
  /\ line.k # "dot"
  /\ UNCHANGED <<mails, cur, popState, mesRec, fhandler, hpc, after, eml>>

\* Broken: headers are taken for the whole mail; and deleted like it.
LoadedStateFull(full) == "FULL_LOADED"
AfterLoadDele(full) == IF DEL_AFTER_LOAD = 1 THEN "dele" ELSE "walk"

LoadedState(full) == IF full THEN "FULL_LOADED" ELSE "HEADERS_LOADED"
AfterLoad(full) == IF full /\ DEL_AFTER_LOAD = 1 THEN "dele" ELSE "walk"

MailEnds ==
  /\ \E s \in Receiving : InReply(s)
  /\ line.k = "dot"
  /\ LET full == popState = "RECEIVE_MESSAGE"
         u    == mails[cur].uidl
     IN  /\ mails' = [mails EXCEPT ![cur].state = LoadedState(full)]
         /\ eml' = [eml EXCEPT ![u] = IF full THEN "full" ELSE "head"]
         /\ after' = AfterLoad(full)
  /\ fhandler' = "none"
  /\ mesRec' = FALSE
  /\ hpc' = "open"
  /\ UNCHANGED <<cur, popState>>

\* POP_DELETE_MESSAGE
\* Broken: after the answer to DELE the list is not followed further.
DeletedStops ==
  /\ TakeLine
  /\ popState = "DELETE_MESSAGE"
  /\ RespOk
  /\ popState' = "PROCESS_LIST"
  /\ part' = "none"
  /\ UNCHANGED <<mails, cur, mesRec, fhandler, hpc, after, eml, net, counts>>

Deleted ==
  /\ TakeLine
  /\ popState = "DELETE_MESSAGE"
  /\ RespOk
  /\ popState' = "PROCESS_LIST"
  /\ hpc' = "walk"
  /\ part' = "none"
  /\ UNCHANGED <<mails, cur, mesRec, fhandler, after, eml, net, counts>>

-----------------------------------------------------------------------------
(* HELPER between two lines: write_mail_DB, which truncates the file and   *)
(* writes one record after the other, and the loop over the list.          *)

WriteOpens ==
  /\ hpc = "open"
  /\ disk' = <<>>
  /\ hpc' = "fill"
  /\ UNCHANGED <<mails, cur, popState, mesRec, fhandler, part, buf, after, eml,
                 net, server, user, counts>>

\* A record is two writes, its header and its uidl; only a power cut (Crashes)
\* can tell what stands in the file between them.
WriteRecord ==
  /\ hpc = "fill"
  /\ Len(disk) < Len(mails)
  /\ disk' = Append(disk, ToRecord(mails[Len(disk) + 1]))
  /\ UNCHANGED <<memory, eml, net, server, user, counts>>

WriteCloses ==
  /\ hpc = "fill"
  /\ Len(disk) = Len(mails)
  /\ hpc' = after
  /\ UNCHANGED <<mails, cur, popState, mesRec, fhandler, part, buf, after,
                 files, net, server, user, counts>>

\* fopen fails: the list is not saved and nobody is told.
WriteFails ==
  /\ hpc = "open"
  /\ Fault("fopen")
  /\ hpc' = after
  /\ UNCHANGED <<mails, cur, popState, mesRec, fhandler, part, buf, after,
                 files, net, server, user>>

\* Broken: the place in the list stands in for the number of the mail.
DeleteByIndex ==
  /\ hpc = "dele"
  /\ Sent([c |-> "DELE", n |-> cur])
  /\ popState' = "DELETE_MESSAGE"
  /\ hpc' = "line"
  /\ UNCHANGED <<mails, cur, mesRec, fhandler, part, buf, after, files, sock,
                 s2c, server, user, counts>>

\* After a mail was loaded in full and saved as such: DELE.
DeleteLoaded ==
  /\ hpc = "dele"
  /\ Sent([c |-> "DELE", n |-> mails[cur].num])
  /\ popState' = "DELETE_MESSAGE"
  /\ hpc' = "line"
  /\ UNCHANGED <<mails, cur, mesRec, fhandler, part, buf, after, files, sock,
                 s2c, server, user, counts>>

\* One round of while ((cur_ml=cur_ml->next)) ...
next == mails[cur + 1]

Walking ==
  /\ hpc = "walk"
  /\ cur < Len(mails)
  /\ UNCHANGED <<mesRec, fhandler, part, buf, after, disk, sock, s2c, server,
                 user, counts>>

\* ... an entry the server has not listed is removed,
WalkLosted ==
  /\ Walking
  /\ next.num = -1
  /\ Losted(next)
  /\ remove_cur_from_list(cur + 1)
  /\ UNCHANGED <<popState, hpc, c2s>>

\* or kept, as is one that is loaded already,
WalkKept ==
  /\ Walking
  /\ IF next.num = -1 THEN ~Losted(next)
                      ELSE next.state \notin LoadStates \cup {"DELETE"}
  /\ cur' = cur + 1
  /\ UNCHANGED <<mails, eml, popState, hpc, c2s>>

\* one to load is asked for,
WalkLoads ==
  /\ Walking
  /\ next.num # -1
  /\ next.state \in LoadStates
  /\ LET full == next.state = "LOAD_FULL"
     IN  /\ Sent([c |-> IF full THEN "RETR" ELSE "TOP", n |-> next.num])
         /\ popState' = IF full THEN "RECEIVE_MESSAGE" ELSE "RECEIVE_HEADERS"
  /\ cur' = cur + 1
  /\ hpc' = "line"
  /\ UNCHANGED <<mails, eml>>

\* one to delete is deleted on the server and, at once, here,
WalkDeletes ==
  /\ Walking
  /\ next.num # -1
  /\ next.state = "DELETE"
  /\ Sent([c |-> "DELE", n |-> next.num])
  /\ remove_cur_from_list(cur + 1)
  /\ popState' = "DELETE_MESSAGE"
  /\ hpc' = "line"

\* and at the end of the list it is saved and the session ends.
WalkEnds ==
  /\ hpc = "walk"
  /\ cur = Len(mails)
  /\ popState' = "GREETING"
  /\ hpc' = "open"
  /\ after' = "quit"
  /\ UNCHANGED <<mails, cur, mesRec, fhandler, part, buf, files, net, server,
                 user, counts>>

Done ==
  /\ hpc = "quit"
  /\ EndConnect
  /\ hpc' = "line"
  /\ UNCHANGED <<mails, cur, popState, mesRec, buf, after, files, server, user,
                 counts>>

-----------------------------------------------------------------------------
(* get_answer and the connection.                                          *)

Idle == hpc = "line" /\ buf = <<>>

\* recv returns the first line that has arrived, or as much as there is.
Receives ==
  /\ Idle
  /\ sock = "open"
  /\ s2c # <<>>
  /\ \E n \in {1, Len(s2c)} :
       /\ buf' = SubSeq(s2c, 1, n)
       /\ s2c' = SubSeq(s2c, n + 1, Len(s2c))
  /\ UNCHANGED <<mails, cur, popState, mesRec, fhandler, part, hpc, after, files,
                 sock, c2s, server, user, counts>>

\* create_connect zeroes pop_stat, and when the connection is there
\* InitMailDB replaces the list: nothing else of the last session is reset.
\* A mailbox has one session at a time.
Connects ==
  /\ Idle
  /\ sock = "closed"
  /\ ~srvUp
  /\ cur' = IF cur = 0 THEN 0 ELSE Dangling
  /\ popState' = "GREETING"
  /\ sock' = "open"
  /\ c2s' = <<>>
  /\ srvUp' = TRUE
  /\ sess' \in SetToSeqs(box)
  /\ LET saved == [i \in 1..Len(disk) |-> FromRecord(disk[i])]
     IN \/ mails' = saved /\ s2c' = <<Ok>> /\ UNCHANGED counts
        \/ mails' = saved /\ s2c' = <<Status("err")>> /\ Fault("err")
        \/ mails' = <<>> /\ s2c' = <<Ok>> /\ Fault("fopen")
  /\ prev' = <<>>
  /\ UNCHANGED <<mesRec, fhandler, part, buf, hpc, after, files, dele, box,
                 fresh, asked>>

\* ENIP_SOCK_CLOSED after end_socket.
SockClosed ==
  /\ sock = "closing"
  /\ sock' = "closed"
  /\ UNCHANGED <<memory, files, c2s, s2c, server, user, counts>>

\* ENIP_SOCK_CLOSED out of the blue: the lines not yet received are gone, but
\* recived_line may hold the beginning of one.
Drops ==
  /\ Fault("drop")
  /\ sock = "open"
  /\ sock' = "closed"
  /\ s2c' = <<>>
  /\ part' \in {part} \cup
       (IF Idle /\ s2c # <<>>
        THEN {"other"} \cup (IF Head(s2c).k = "ok" THEN {"ok"} ELSE {})
        ELSE {})
  /\ UNCHANGED <<mails, cur, popState, mesRec, fhandler, buf, hpc, after, files,
                 c2s, server, user>>

\* IPC_STOP_CHECKING: end_connect("Manually stopped") in HELPER.
Stops ==
  /\ Idle
  /\ Intervention
  /\ EndConnect
  /\ UNCHANGED <<mails, cur, popState, mesRec, buf, hpc, after, files, server,
                 user>>

\* The record whose header is written and whose uidl is not: InitMailDB does not
\* look at what fread returns, and takes the memory it asked for as it is.
HalfRecord ==
  /\ hpc = "fill"
  /\ Len(disk) < Len(mails)
  /\ disk' = Append(disk, [ToRecord(mails[Len(disk) + 1]) EXCEPT !.uidl = Torn])

\* A status line that is taken for an entry and has nothing behind its first word:
\* add_uidl_if_exist writes to the address behind the NULL of strchr.
WritesToNull ==
  /\ hpc = "line" /\ buf # <<>>
  /\ popState = "GET_UIDL_LIST" /\ mesRec /\ line.k \in {"ok", "err"}
  /\ UNCHANGED counts

\* The phone goes off, at any point or by that, and the daemon starts again.
Crashes ==
  /\ \/ (Fault("crash") \/ WritesToNull) /\ disk' = disk
     \/ Fault("torn") /\ HalfRecord
  /\ mails' = <<>> /\ cur' = Dangling
  /\ popState' = "GREETING" /\ mesRec' = FALSE
  /\ fhandler' = "none" /\ part' = "none" /\ buf' = <<>>
  /\ hpc' = "line" /\ after' = "walk"
  /\ sock' = "closed" /\ s2c' = <<>>
  /\ prev' = <<>>
  /\ UNCHANGED <<eml, c2s, server, asked>>

-----------------------------------------------------------------------------
(* The server.                                                             *)

Listing == [i \in 1..Len(sess) |-> [k |-> "entry", n |-> i, u |-> sess[i]]]

Valid(n) == n \in 1..Len(sess) /\ n \notin dele

Reply(cmd) ==
  CASE cmd.c \in {"USER", "PASS"} -> <<Ok>>
    [] cmd.c = "STAT"             -> <<Count(Len(sess))>>
    [] cmd.c \in {"UIDL", "LIST"} -> <<Ok>> \o Listing \o <<Dot>>
    [] cmd.c \in {"TOP", "RETR"} /\ Valid(cmd.n) -> <<Ok, Status("text"), Dot>>
    [] cmd.c = "DELE" /\ Valid(cmd.n) -> <<Ok>>
    [] OTHER -> <<Status("err")>>

Answers(cmd, reply) ==
  /\ srvUp
  /\ Head(c2s) = cmd
  /\ c2s' = Tail(c2s)
  /\ s2c' = IF sock = "open" THEN s2c \o reply ELSE s2c
  /\ UNCHANGED <<memory, files, sock, user>>

ServerReplies ==
  /\ c2s # <<>> /\ Head(c2s).c # "QUIT"
  /\ Answers(Head(c2s), Reply(Head(c2s)))
  /\ dele' = IF Head(c2s).c = "DELE" /\ Valid(Head(c2s).n)
             THEN dele \cup {Head(c2s).n} ELSE dele
  /\ UNCHANGED <<srvUp, sess, box, fresh, counts>>

ServerRefuses ==
  /\ c2s # <<>> /\ Head(c2s).c # "QUIT"
  /\ Answers(Head(c2s), <<Status("err")>>)
  /\ Fault("err")
  /\ UNCHANGED server

\* The update: the mails marked go for good.
ServerQuits ==
  /\ c2s # <<>>
  /\ Answers(Cmd("QUIT"), <<>>)
  /\ box' = box \ {sess[n] : n \in dele}
  /\ srvUp' = FALSE /\ sess' = <<>> /\ dele' = {}
  /\ UNCHANGED <<fresh, counts>>

\* The connection is gone without QUIT: nothing is deleted.
ServerGivesUp ==
  /\ srvUp
  /\ sock # "open"
  /\ srvUp' = FALSE /\ sess' = <<>> /\ dele' = {} /\ c2s' = <<>>
  /\ UNCHANGED <<memory, files, sock, s2c, box, fresh, user, counts>>

\* Somebody else's doing: mail comes in, or is deleted from another computer.
MailArrives ==
  \E u \in fresh :
    /\ box' = box \cup {u}
    /\ fresh' = fresh \ {u}
    /\ UNCHANGED <<memory, files, net, srvUp, sess, dele, user, counts>>

MailVanishes ==
  /\ ~srvUp
  /\ \E u \in box : box' = box \ {u}
  /\ UNCHANGED <<memory, files, net, srvUp, sess, dele, fresh, user, counts>>

-----------------------------------------------------------------------------
(* The user, through MailViewer: its write_mail_DB is a job of HELPER too, *)
(* and its list is here the one just read from mails.db.                   *)

MayMark(i, state) ==
  CASE state = "LOAD_FULL" -> disk[i].state \notin {"FULL_LOADED", "LOAD_FULL", "DELETE"}
    [] state = "DELETE"    -> disk[i].state # "DELETE"

UserMarks ==
  /\ Idle
  /\ Intervention
  /\ \E state \in {"LOAD_FULL", "DELETE"}, S \in SUBSET (1..Len(disk)) :
       /\ \/ S = 1..Len(disk) /\ Len(disk) > 1
          \/ \E i \in 1..Len(disk) : S = {i} /\ MayMark(i, state)
       /\ disk' = [i \in 1..Len(disk) |->
                     IF i \in S THEN [disk[i] EXCEPT !.state = state] ELSE disk[i]]
       /\ prev' = IF sock = "closed"
                  THEN [i \in 1..Len(disk) |->
                          IF i \in S \/ prev = <<>> THEN disk[i].state ELSE prev[i]]
                  ELSE <<>>
       /\ asked' = IF state = "DELETE" THEN asked \cup {disk[i].uidl : i \in S}
                                       ELSE asked
  /\ UNCHANGED <<memory, eml, net, server>>

\* "Do not load", "do not delete", as long as no session has begun since the list
\* was read.  While the server has still a session the wish may have been followed.
UserWithdraws ==
  /\ Idle
  /\ \E i \in 1..Len(prev) :
       /\ disk[i].state \in {"LOAD_FULL", "DELETE"}
       /\ disk' = [disk EXCEPT ![i].state = prev[i]]
       /\ asked' = IF disk[i].state = "DELETE" /\ prev[i] # "DELETE" /\ ~srvUp
                   THEN asked \ {disk[i].uidl} ELSE asked
  /\ UNCHANGED <<memory, eml, net, server, prev, counts>>

UserForgets ==
  /\ Idle
  /\ Intervention
  /\ \/ \E i \in 1..Len(disk) :
          /\ disk' = RemoveAt(disk, i)
          /\ prev' = IF prev = <<>> THEN <<>> ELSE RemoveAt(prev, i)
     \/ Len(disk) > 1 /\ disk' = <<>> /\ prev' = <<>>
  /\ UNCHANGED <<memory, eml, net, server, asked>>

-----------------------------------------------------------------------------
Init ==
  /\ mails = <<>> /\ cur = Dangling
  /\ popState = "GREETING" /\ mesRec = FALSE
  /\ fhandler = "none" /\ part = "none" /\ buf = <<>>
  /\ hpc = "line" /\ after = "walk"
  /\ disk = <<>> /\ eml = [u \in Names |-> "none"]
  /\ sock = "closed" /\ c2s = <<>> /\ s2c = <<>>
  /\ srvUp = FALSE /\ sess = <<>> /\ dele = {}
  /\ box = {} /\ fresh = Uidl
  /\ prev = <<>> /\ asked = {} /\ nfault = 0 /\ nuser = 0

ProcessLine ==
  \/ Refused \/ Greeting \/ VerLogin \/ VerPass \/ GetStat
  \/ ListBegins \/ UidlEntry \/ UidlEnds \/ ListEntry \/ ListEnds
  \/ MailBegins \/ MailCannotOpen \/ MailText \/ MailEnds \/ Deleted

HelperLoop ==
  \/ WriteOpens \/ WriteRecord \/ WriteCloses \/ WriteFails \/ DeleteLoaded
  \/ WalkLosted \/ WalkKept \/ WalkLoads \/ WalkDeletes \/ WalkEnds \/ Done

Connection == Receives \/ Connects \/ SockClosed \/ Drops \/ Stops \/ Crashes

Server == ServerReplies \/ ServerRefuses \/ ServerQuits \/ ServerGivesUp
          \/ MailArrives \/ MailVanishes

User == UserMarks \/ UserWithdraws \/ UserForgets

Next == ProcessLine \/ HelperLoop \/ Connection \/ Server \/ User

Spec == Init /\ [][Next]_vars

\* HELPER runs its jobs, socket events are delivered, and the server answers
\* what it has received: a session does not stop by itself.
SessionFairness ==
  /\ WF_vars(ProcessLine) /\ WF_vars(HelperLoop) /\ WF_vars(Receives)
  /\ WF_vars(SockClosed)
  /\ WF_vars(ServerReplies) /\ WF_vars(ServerQuits \/ ServerGivesUp)

SessionSpec == Spec /\ SessionFairness

\* In addition someone (the user, the SMS service, the timer after GPRS has
\* come up) keeps asking for the mailbox to be checked.
CheckingSpec == SessionSpec /\ WF_vars(Connects)

-----------------------------------------------------------------------------
TypeOK ==
  /\ mails \in Seq(Entry) /\ cur \in Nat \cup {Dangling}
  /\ popState \in PopStates /\ mesRec \in BOOLEAN
  /\ fhandler \in {"none", "open", "stale"} /\ part \in {"none", "ok", "other"}
  /\ buf \in Seq(Line)
  /\ hpc \in {"line", "open", "fill", "walk", "dele", "quit"}
  /\ after \in {"walk", "dele", "quit"}
  /\ disk \in Seq(Record) /\ eml \in [Names -> {"none", "begun", "head", "full"}]
  /\ sock \in {"closed", "open", "closing"}
  /\ c2s \in Seq(Command) /\ s2c \in Seq(Line)
  /\ srvUp \in BOOLEAN /\ sess \in Seq(Uidl) /\ dele \subseteq Nat
  /\ box \subseteq Uidl /\ IsFiniteSet(box) /\ fresh \subseteq Uidl
  /\ prev \in Seq(MailStates \ {"BIG"})
  /\ asked \subseteq Names /\ nfault \in Nat /\ nuser \in Nat

\* What a DELE has marked on the server is what the user asked to delete, and has
\* not taken back in time, or is in its .eml file to the last line: when the server
\* expunges a mail it is not the only copy.
DeletesOnlyKept ==
  \A n \in dele : sess[n] \in asked \/ eml[sess[n]] = "full"

\* mails.db does not claim more of a mail than its .eml file holds, as long as
\* the mail is on the server, and the record of a mail has no state that its one
\* byte cannot hold.  A record of something else has: a status line that a stale
\* mes_rec takes for an entry stays M_IS_BIG_LETTER, because LIST does not name it,
\* and is saved so (main.c:171-178, 141).
DbHonest ==
  \A i \in 1..Len(disk) :
    /\ disk[i].uidl \in box /\ disk[i].state = "FULL_LOADED" =>
         eml[disk[i].uidl] = "full"
    /\ disk[i].uidl \in box /\ disk[i].state = "HEADERS_LOADED" =>
         eml[disk[i].uidl] \in {"head", "full"}
    /\ disk[i].uidl \in Uidl => disk[i].state # "ODD"

\* Torn stands for as many names as there are records without one.
UniqueUidl(list) ==
  \A i, j \in 1..Len(list) : list[i].uidl = list[j].uidl => i = j \/ list[i].uidl = Torn

\* remove_cur_from_list looks the entry up by its uidl and unlinks cur_ml: both
\* are the same entry only while no uidl is twice in the list.
NoDuplicates == UniqueUidl(mails) /\ UniqueUidl(disk)

\* cur_ml is never used after InitMailDB has freed what it points to.
CurValid ==
  hpc \in {"walk", "dele"} \/ (buf # <<>> /\ popState \in Receiving) =>
    cur \in 0..Len(mails)

\* Once the mail is gone from the server and the phone has it in full, nothing
\* but a wish of the user takes the .eml file away.
Saved(u, states) ==
  \E i \in 1..Len(disk) : disk[i].uidl = u /\ disk[i].state \in states

OnlyCopyKept ==
  [][\A u \in Uidl \ (box \cup asked) :
       Saved(u, {"FULL_LOADED"}) /\ eml[u] = "full" => eml'[u] = "full"]_vars

\* While the connection is up and process_line waits, something is on its way.
NoSilentWait ==
  sock = "open" /\ hpc = "line" => c2s # <<>> \/ buf # <<>> \/ s2c # <<>>

\* A session that was begun comes to its end.
SessionEnds == sock = "open" ~> sock = "closed"

\* What is in the mailbox is loaded, whatever happened to earlier sessions.
MailLoads ==
  \A u \in Uidl : u \in box ~> u \notin box \/ Saved(u, DoneStates)

-----------------------------------------------------------------------------
(* The inductive invariant behind DeletesOnlyKept, in parts.               *)

\* The numbers of the list and of the lines on their way are the session's.
Listed(n, u) == n \in 1..Len(sess) /\ sess[n] = u

NumbersInv ==
  /\ sock = "open" =>
       /\ srvUp
       /\ \A i \in 1..Len(mails) :
            mails[i].num >= 1 => Listed(mails[i].num, mails[i].uidl)
       /\ \A j \in 1..Len(buf) : buf[j].k = "entry" => Listed(buf[j].n, buf[j].u)
       /\ \A j \in 1..Len(s2c) : s2c[j].k = "entry" => Listed(s2c[j].n, s2c[j].u)
  /\ \A m, n \in 1..Len(sess) : sess[m] = sess[n] => m = n
  /\ dele \subseteq 1..Len(sess)
  /\ ~srvUp => sess = <<>>

\* Command and answer alternate: the dot that ends a reply is the last line on
\* its way, and a one-line reply is one line.
LockStepInv ==
  /\ \A j \in 1..Len(buf) : buf[j].k = "dot" => j = Len(buf) /\ s2c = <<>>
  /\ \A j \in 1..Len(s2c) : s2c[j].k = "dot" => j = Len(s2c)
  /\ hpc # "line" => buf = <<>>
  /\ sock # "open" \/ hpc # "line" => s2c = <<>>
  /\ popState \notin MultiLine => Len(buf) + Len(s2c) <= 1
  /\ sock = "open" /\ c2s # <<>> =>
       /\ hpc = "line" /\ Len(c2s) = 1 /\ buf = <<>> /\ s2c = <<>>
       /\ c2s[1].c # "QUIT"
       /\ c2s[1].c \in {"UIDL", "LIST", "TOP", "RETR"} => popState \in MultiLine

\* cur_ml is an entry of the list wherever it is used; one being received is
\* still to be loaded, one about to be deleted is loaded.
Writing(next_step) == hpc \in {"open", "fill"} /\ after = next_step
Waiting == hpc = "line" /\ (buf # <<>> \/ sock = "open")

CursorInv ==
  /\ hpc = "walk" \/ Writing("walk") \/ (Waiting /\ popState = "DELETE_MESSAGE")
       => cur \in 0..Len(mails)
  /\ hpc = "dele" \/ Writing("dele")
       => /\ cur \in 1..Len(mails)
          /\ mails[cur].num # -1
          /\ mails[cur].state = "FULL_LOADED"
          /\ eml[mails[cur].uidl] = "full"
  /\ Waiting /\ popState \in Receiving
       => /\ cur \in 1..Len(mails)
          /\ mails[cur].num # -1
          /\ mails[cur].state \in LoadStates

\* The file being written is the beginning of the list.
SavedInv ==
  hpc = "fill" =>
    /\ Len(disk) <= Len(mails)
    /\ \A i \in 1..Len(disk) : disk[i].uidl = mails[i].uidl

\* Who is to be deleted is wanted so: in the list as long as it is used, on the
\* disk, and in what a mark may be taken back to.
Wished(u, state) == u \in Uidl /\ state = "DELETE" => u \in asked
InUse == hpc # "line" \/ buf # <<>> \/ sock = "open"

AskedInv ==
  /\ InUse => \A i \in 1..Len(mails) : Wished(mails[i].uidl, mails[i].state)
  /\ \A i \in 1..Len(disk) : Wished(disk[i].uidl, disk[i].state)
  /\ prev # <<>> =>
       /\ ~InUse /\ sock = "closed" /\ Len(prev) = Len(disk)
       /\ \A i \in 1..Len(disk) : Wished(disk[i].uidl, prev[i])

\* A message number with a DELE done or on its way.
Marked(n) ==
  /\ n \in 1..Len(sess)
  /\ n \in dele \/ \E j \in 1..Len(c2s) : c2s[j] = [c |-> "DELE", n |-> n]

Deleting ==
  \/ popState \in Receiving \cup {"PROCESS_LIST", "DELETE_MESSAGE"}
  \/ popState = "GREETING" /\ (hpc # "line" \/ (sock # "open" /\ buf = <<>>))

MarkedInv ==
  \A n \in 1..Len(sess) : Marked(n) =>
    /\ Deleting
    /\ sess[n] \in asked \/ eml[sess[n]] = "full"
    /\ \A i \in 1..Len(mails) : mails[i].uidl = sess[n] =>
         mails[i].state = "FULL_LOADED" /\ mails[i].num # -1

DialogueInv ==
  /\ TypeOK /\ NumbersInv /\ LockStepInv /\ CursorInv /\ SavedInv /\ AskedInv
  /\ NoDuplicates /\ MarkedInv
=============================================================================
