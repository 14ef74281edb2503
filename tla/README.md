# MailClient and NATICQ, in TLA+

This directory holds TLA+ modules, TLC configurations and machine-checked proofs
for the programs in this repository. The repository is a collection of programs
for Siemens (and some Sony Ericsson) phones. The largest part with logic of its
own that does not live in a vendored library or in the phone's firmware is the
mail client, `src/ARM/MailClient`: two programs that run side by side, share a
file and each other's memory, speak POP3 over a socket whose events arrive as
messages, and keep on a small phone what may be the only copy of a mail. Next to it
stands `src/ARM/NATICQ`, an ICQ client over a gateway, of which most other network
programs of the repository are relatives. These two are the systems modelled here.

1. [The system](#1-the-system)
2. [Modules](#2-modules)
3. [Runs](#3-runs)
4. [Fairness](#4-fairness)
5. [Proofs](#5-proofs)
6. [Where the code disagrees with its own text](#6-where-the-code-disagrees-with-its-own-text)
7. [What the models leave out](#7-what-the-models-leave-out)
8. [Plan](#8-plan)

File names below are relative to `src/ARM`; `daemon:N` is
`MailClient/MailDaemon/main.c:N`, `viewer:N` is `MailClient/MailViewer/main.c:N`,
`naticq:N` is `NATICQ/main.c:N`.

## 1. The system

### The two processes

The firmware runs two processes that matter here. **MMI** delivers messages and
keys, one at a time, to every program (CSM) that is open, and runs timer
procedures. **HELPER** runs the jobs that MMI gives it with `SUBPROC`, one after
the other; everything that may block (file access, name lookup, sending) is a job.
There is no lock between the two. That HELPER can be preempted by MMI in the
middle of a job is visible in the code: `LockSched` is taken around `ShowMSG`
wherever HELPER calls it.

### MailDaemon

| part | state | operations |
|---|---|---|
| dialogue | `mails` (list), `cur_ml`, `pop_stat.pop_state`, `mes_rec`, `fhandler`, `recived_line`; `mails.db`, `*.eml` | `process_line`, `get_answer`, `write_mail_DB`, `InitMailDB`, `add_uidl_if_exist`, `set_mes_size`, `do_losted_mes`, `remove_cur_from_list`, `end_connect` |
| connection | `sock`, `pop_stat.connect_state`, `is_gprs_online`, `DNR_ID`, `DNR_TRIES`, `reconnect_tmr` | `create_connect`, `end_socket`, `do_reconnect`, `maincsm_onmessage`, `maincsm_onclose` |
| send queue | `sendq_p`, `sendq_l` | `send_str`, `ClearSendQ`, resumption by `ENIP_BUFFER_FREE` |
| presence | `viewer_present`, `gipc` | `CheckDoubleRun`, `IPC_..._LOGON/LOGOFF/CHECK_DOUBLERUN` |

The dialogue is a turn-taking protocol: greeting, USER, PASS, STAT, UIDL (every
mail is looked up in the list by its unique id or appended), LIST (a big mail is
reduced to its headers), then a traversal of the list that sends TOP, RETR or
DELE for each mail, writing the text of a mail to its `.eml` file as it comes, and
finally QUIT. The list is written to `mails.db`, whole, after LIST, after each mail
and at the end.

What makes it correct: DELE takes effect for good at QUIT, so the phone must
have the whole mail (or the user's word for it) before; message numbers hold in
one session only; `mails.db` must not claim more than the `.eml` files hold even
after the phone went off in between; the two sides must never both wait.

What makes it hard: a connection may break at any point and almost none of the
dialogue's variables is reset when it does; the user edits `mails.db` between
sessions; `cur_ml` survives a reconnection that frees the list; the power may go.

### MailViewer

| part | state | operations |
|---|---|---|
| list and statistics | its own `mails` list with `state` and `prev_state`, the stack of screens, `at` (the record of the options menu) | options menu items, `write_mail_DB`, `InitMailDB`, messages of closing screens, `IPC_CHECK_MAILBOX`, `IPC_STOP_CHECKING`, `IPC_LOADING_FINISHED` |
| headers and order | `time` and `next` of each record | `InitHeaders`, `get_received_date`, `get_date_from_str`, `tdiff`, `PrintTimeDate` |
| presence | `daemon_present`, `pop_stat` (a pointer **into the daemon**), `gipc` | as in the daemon |
| MIME | – (pure) | `decode.cpp`: base64, quoted-printable, character sets, header words |
| view of a mail | `ParseMailBody`'s list of parts | multipart parser, save dialogs |

What makes it correct: the viewer's list is a copy of `mails.db` that is written
back whole, so it must never be behind a session of the daemon; the options menu
must not keep a record that has been freed; `pop_stat` must not outlive the daemon;
the list is sorted without losing a record; dates come out right across time zones.

What makes it hard: there is no lock or version in `mails.db`. What separates the
two writers is the user interface: the statistics screen covers the list while
a session goes on, and when it goes the list is read again.

### NATICQ

| part | state | operations |
|---|---|---|
| connection and packets | `sock`, `connect_state`, `disautorecconect`, `RXstate`, `sendq_p`, `is_gprs_online`, `DNR_ID`, `DNR_TRIES`, `gprsdown`, `reconnect_tmr` | `create_connect`, `SendAnswer`, `send_login`, `get_answer`, `end_socket`, `ClearSendQ`, `do_reconnect`, `maincsm_onmessage`, the keys green and 0, "Disconnect" |
| logs, unread messages, the chat | the contacts with their `log`, `last_log`, `isunread`, `unreaded`, `req_add`, `req_drawack`; `messages_unread`; the window of the chat; `SENDMSGCOUNT` | `AddStringToLog`, `AddMsgToChat`, `DrawAck`, `ProcessPacket`, `FillAllOffline`, `CreateEditChat`, `edchat_onkey`, `edchat_ghook`, `ClearLog` |
| order of the contacts | `cltop`, `prev`, `next` | `AddContactOrGroup`, `ChangeContactPos`, `ResortCL` |
| the rest | files, pictures, settings | history, statuses, smiles, menus |

What makes it correct: each session begins with its login, and nothing of an earlier
one is sent in it; a message that the server was told has arrived is in a log; one
connection at a time; the program connects again unless it was told not to, and stays
off when it was; the counters of unread messages agree with each other, the window
with its log, and an acknowledgement with its message.

What makes it hard: `connect_state`, `sock` and `disautorecconect` are written by MMI and
HELPER without a lock; closing, connecting, timers and keys meet in any order; a message
comes while its window is open, covered by another one, or being written in, and then
has to wait; the numbers that acknowledgements name begin anew with each connection.

### How they interact

* **Calls by message.** `GBS_SendMessage(MMI_CEPID, MSG_IPC, …, &gipc)` passes the
  *address* of a static structure of the sender.
* **Shared file.** `mails.db`, read and rewritten whole by both.
* **Shared memory.** The viewer reads the daemon's `pop_stat` at each redraw.
* **Shared HELPER.** Jobs of all programs run in one queue.
* **Between NATICQ's processes.** `get_answer` (HELPER) takes a packet to pieces and posts it
  to MMI with the number of the socket; `ProcessPacket` (MMI) runs only if that socket is
  still the one in use. `NatConn` ends where `ProcessPacket` begins, `NatChat` begins there.

## 2. Modules

| module | models | code |
|---|---|---|
| `MailPop3` | dialogue, list, `mails.db`, `.eml`, mailbox | daemon:57–643, 929–1004; viewer:2244–2445 (marks) |
| `MCMailPop3` | two mails, one small and one big | – |
| `MailPop3_proofs` | theorems about `MailPop3` | – |
| `ByteStream` | abstract: an ordered stream of bytes | what the dialogue relies on |
| `MailSend` | send queue and its resumption | daemon:237–300, 359–369, 763–770, 959–1004 |
| `MailSend_proofs` | theorems about `MailSend`, refinement of `ByteStream` | – |
| `MailConn` | connection: HELPER against MMI, stack, resolver, GPRS, timer | daemon:359–384, 650–770, 823–1038 |
| `MailConn_proofs` | theorems about `MailConn` | – |
| `MailPresence` | logon, logoff, second copies, the shared `gipc` | daemon:803–884, 1012–1038; viewer:2660–2746 |
| `MailPresence_proofs` | theorems about `MailPresence` | – |
| `MailView` | list, options, statistics, `mails.db` against sessions | viewer:219–294, 1396–1425, 2214–2818; statscreen.c; daemon's session |
| `MailView_proofs` | theorems about `MailView` | – |
| `MailMime`, `MCMailMime` | the multipart parser, encoded words of headers | viewer:904–980, 1571–1920; decode.cpp:545–683 |
| `NatConn` | NATICQ's connection, send queue and packets: HELPER against MMI | naticq:1361–1798, 2621–2636, 2686–3064; mainmenu.c:72–79 |
| `NatConn_proofs` | theorems about `NatConn` | – |
| `NatChat_proofs` | theorems about `NatChat` | – |
| `NatChat`, `MCNatChat` | logs, counters, the window of the chat, acknowledgements | naticq:802–930, 1800–2503, 3700–4143, 4202–4398; cl_work.c:40–67, 258–345 |
| `MailHeaders` | reading of headers, sort, dates to timestamps and back | viewer:338–358, 474–746, 2016–2130 |
| `MCMailHeaders` | dates for the longer lists | – |
| `MailViewer_proofs` | theorems about `MailHeaders` and `MailMime` | – |

`PROJECT.json` maps each definition to its lines. Each module keeps the names of
the source for its actions and variables. Each module also contains, directly
before some definitions, *broken variants* of them (their comments say what is
broken): no specification uses them; they record for each property a change
of the code that would violate it.

### `MailPop3`

`hpc` says where HELPER is in `process_line`: `"line"` between two calls,
`"open"`/`"fill"` inside `write_mail_DB`, `"walk"` in the list traversal, `"dele"` and
`"quit"` at what follows. So a lost connection, the server and a power cut can come
between two records of `mails.db`. Lines are records of a kind, a number and a mail;
the text of a mail is one line. `part` is what a broken connection left in
`recived_line`: it is put before the first line of the next session, as in the code.
`Junk` is what the code takes for a unique id when it meets a status line in
`POP_GET_UIDL_LIST`, which happens after a connection was lost inside that reply
because `mes_rec` is not reset; the model keeps that behaviour, and the properties
hold with it.

Freed memory is the cursor `Dangling`; the model has no way to go on from a use of
it, so `CurValid`, which is a part of `DialogueInv`, is what shows there is none. The server is external: it answers
in order, numbers are the session's, marked mails go at QUIT only, other computers
may add and remove mails between sessions.

Two things that the daemon does with what it reads go beyond the data of the model. A status
line of one word, taken for an entry, has nothing behind the first space: `strchr` gives NULL, and
what is then read and written is at the address behind it (daemon:155–157). Either the phone goes off by
that (`WritesToNull`), or the entry has whatever stands there for a unique id, like any other
status line (`Junk`). A record of `mails.db` is two writes; a power cut between them (`HalfRecord`) leaves a
header without its unique id, and `InitMailDB`, which does not look at what `fread` returns, takes
what the memory it has asked for happens to hold: `Torn`, the name of no mail. The same cut in
the viewer's write is not modelled.

`UserMarks`, `UserWithdraws` and `UserForgets` are the viewer with a list just read from the
file: how far that is true is the subject of `MailView`. `prev` is the `prev_state` of that list; a mark is
taken back to it as long as no session has begun since the list was read. `asked` has what the user
wants deleted: a wish taken back leaves it, unless the server still has the session in which it may
have been followed. (What is taken back during a session is in `MailView` only.)

### `MailSend` and `ByteStream`

`ByteStream` is the promise that `MailPop3` makes use of in `Sent`: bytes arrive in
order, none twice, none left out, until the connection is over. `MailSend` is how
`send_str` keeps it: chunks of at most `Chunk` bytes, a stack that takes all, some
or none, the queue, and the `ENIP_BUFFER_FREE` reports that MMI turns into a job. A
byte is its number in the stream, so every reordering, loss and duplication shows.

### `MailConn`

`create_connect` is cut wherever it reads or writes a variable that MMI writes or
reads (`hpc` = `"gprs"`, `"offline"`, `"dnr"`, `"socket"`, `"connect"`, `"state"`), and the
two processes interleave there freely. Sockets are numbered as they are created. The
history variable `odd` keeps what has happened that the code has no answer to:
`"over"`, a connection was asked for while one was being made or stood; `"early"`, the
stack reported something of the socket before `connect_state=1`; `"offline"`, GPRS came
up between the question and the note that it is down. The properties say for each of
these what still holds. The two-minute timer is taken to be slow: it fires when
earlier messages and lookups are done.

### `MailPresence`

A program is loaded anew each time it is started, so an instance is a *start*. `gipc`
maps an instance to the contents of its static structure; a message holds only a
reference to it, and the answer overwrites what it answers, as in the code. Messages
go to all programs in turn (`todo`).

### `MailView`

One record per mail, its state and `prev_state`; the stack of screens; messages
`MSG_GUI_DESTROYED` with the flag the screens close with. The session of the daemon is
an abbreviation of `MailPop3` (`Lists`, `Loads`, `Removes`, `Done`, `Fails`, `Lost`).
`haste` counts keys pressed before the phone has dealt with the last one, `trouble`
lost connections and checks nobody in the viewer asked for. A screen that is closed is
gone from the stack at once; its `MSG_GUI_DESTROYED` comes later, and until then its identifier is
not 0 (`HasStat`: no second statistics are opened meanwhile). A closing screen that is closed once more
stays as it is. A hasty key can open a screen anew while the message of the old one is still
on its way; the model then takes that message for the new one's. Most properties are about
`Orderly` behaviours, where both are 0; both are nevertheless explored, since
`RecordLives` and `StatCloses` hold in part of those cases too.

### `MailMime`

A mail is a sequence of lines, generated from a tree of parts in which no boundary is
used twice and the texts are numbered (`IsTree`, `BodiesAssumption`); `ParseMailBody` is the
code's, with the list of parts that it appends to while it walks it, and its searches
for a boundary by name, anywhere from a line on (`Boundary`). `off` is that a search has
found nothing and the code goes on with the null pointer. `unmime_header` goes through a
header of words, spaces and other text, with the test for spaces as it is in the code:
`is_space` gives 0 for a space.

### `NatConn`

Built as `MailConn`, for a connection that is to stay. A packet is the unit of what is
received; of what is sent, the stack may take some packets and a part (`"rest"`) of the
next. `get_answer` is cut before each packet and between the acknowledgement of a message
and its posting to MMI (`hpc` = `"packet"`, `"post"`). MMI drops a packet of another socket; a
message it sends round once more for other programs (`"FREEMSG"`), and that comes back whatever has become
of the socket (`IPC_FREEMSG`). `heard` is what the server has got of
each socket. `odd` is as in `MailConn`: `"over"`, `"offline"`, and `"zero"` (the key 0, which
ends a connection and begins one in one go), `"wrong"` (`connect_state` set with no socket),
`"late"` (the connection ended between an acknowledgement and its message), `"off"`
("Disconnect" with a connection already on its way), `"notfound"`.

### `NatChat`

All of it runs in MMI. A log is a sequence of records with the key of a message, its
number (`ID`) and the acknowledgement; the window has copies of keys and colours. `busy`
is `EDIT_IsBusy`: the user is inside a word, and what arrives waits in `req_add`,
`req_drawack` and `last_log` until the window is redrawn. A log is cut to `MAXLOGMSG`
messages, or to fewer when their texts are long. A connection may take the place of one that
stands, as in `NatConn`: then `ENIP_SOCK_CLOSED` of the old one is not handled, and numbers of
its messages stay in the logs. Numbers are below `Numbers`, 0x8000 in the code. `odd` notes the events
after which the window, the counters or an acknowledgement may be wrong, see [6](#6-where-the-code-disagrees-with-its-own-text) and
[7](#7-what-the-models-leave-out).

### `MailHeaders`

The sort is the code's, pointer by pointer: passes over `next` with the list head as
the first `prev`. Where the code reads the `next` of a null pointer (viewer:731 with an
empty list, viewer:744 after a swap with the last mail) the model reads *any* pointer.
The first half of the module is a calendar, written as a reference; the arithmetic
of the code (`tdiff`, `Eastern`, `Western`, `Civil`) is checked against it by `DatesTrue`.

## 3. Runs

Bounds are named constants or history variables. `CHECK_DEADLOCK FALSE` is given
where the system may stop: the user and the faults are bounded, and a phone whose
user does nothing more does nothing more; in `pop3` a refused greeting may also be
taken for an entry (see `Junk` above), and then both sides wait until the user
stops the check or the server hangs up; the sort ends.

| run | module, specification | checks |
|---|---|---|
| `pop3` | `MCMailPop3`, `Spec` | `DialogueInv` `DeletesOnlyKept` `DbHonest` `OnlyCopyKept` |
| `pop3_live` | `MCMailPop3`, `CheckingSpec` | `NoSilentWait` `SessionEnds` `MailLoads` |
| `send` | `MailSend`, `FairSpec` | `RoomIsWaitedFor` `Implements` `Flushed` |
| `conn` | `MailConn`, `FairSpec` | `ConnectedIsSocket` `NothingLeftOpen` `AbandonsOnlyClosed` `FreshSession` `GprsResumes` `ReadyAgain` |
| `presence` | `MailPresence`, `FairSpec` | `PresenceOfOne` `PopStatAlive` `NoDangling` `OneStays` `GreetingsEnd` |
| `view` | `MailView`, `FairSpec` | `ListFresh` `RecordLives` `LoadedStays` `MarksReach` `StatCloses` |
| `view_undo` | `MailView`, `Spec` | `NotDeleted` – violated |
| `headers` | `MCMailHeaders`, `Spec` | `NothingLost` `Sorted` `SortEnds` `DatesTrue` |
| `mime` | `MCMailMime`, `MimeSpec` | `LeavesShown` `Unmimed` |
| `natconn` | `NatConn`, `FairSpec` | `LoginFirst` `AckedArrives` `OneConnection` `StaysOff` `KeepsTrying` |
| `nat_state` | `NatConn`, `Spec` | `StateTrue` – violated |
| `natchat` | `MCNatChat`, `Spec` | `MessagesCounted` `AckTrue` `ViewOfLog` |

**`pop3`** (4.8 million states). Two mails, one below and one above `LOAD_IF_LESS`, the
configuration with the most branches (`DEFAULT_ACTION = 1`, `DEL_AFTER_LOAD = 1`,
`IF_DEL_AUX = 1`), one intervention of the user and two faults out of a lost connection,
a refusal of the server and a power cut. Two mails are the least with which numbers
can shift between sessions and the cursor can be at the wrong entry; two faults are the
least with which a fault can hit the recovery from another one. It shows that
no DELE goes out for a mail that is not whole on the phone or given up by the user,
that `mails.db` never claims more than the `.eml` files hold (for mails still on the
server, so that it can be loaded again), that the cursor never points into a freed
list, that the record of a *mail* never has to hold `M_IS_BIG_LETTER` in the one byte kept of
its state (a part of `DbHonest`), and that a mail which the server no longer has is not removed from the
phone. The record of something that is no mail does hold it: when a connection was lost inside UIDL,
the status line of the next session becomes an entry with that state (daemon:171–178), LIST does not name
it, and it is saved so (daemon:141); it comes back as a state that nobody knows. `DbHonest` exempts it,
and the model has it (`"ODD"`).
Failing file opens are left to `pop3_live`: when the read of `mails.db` fails at connect
time and a later write fails as well, `DbHonest` is lost for a mail that was loaded
before, because the daemon starts over with an empty list.

**`pop3_live`** (0.9 million states, deadlock checked). One fault out of a lost
connection, a power cut between two writes or inside a record (for which `DialogueInv` is proved), a
failing `fopen`. Every session ends, something is always on
its way while one lasts, and every mail in the box is loaded in the end as long as
somebody keeps asking for checks. `NoSilentWait` needs a server that refuses nothing:
with `mes_rec` left over from a lost connection, `-ERR` to UIDL is taken for an
entry of the list and answered by nothing.

**`send`**. Two connections of six bytes in commands of any length, chunks of two: three
chunks are the least with a first, a middle and a last one; the second connection shows
that nothing of the first one's queue is sent on it.

**`conn`** (2.0 million states). Two sockets, and any three out of two checks, one stop, one
loss of GPRS, one arrival of data and two calls that fail or are put off; MMI may run
in the middle of `create_connect`. Three is the least with which a check, a fault in it
and what then tries to go on can meet. No socket is let go while it is connected, none
is left open when the daemon is gone, the state and the socket agree, and the daemon gets
ready for the next check; a check that waits for GPRS is taken up. `FreshSession` is what
`MailPop3` starts from in `Connects`: when MMI reads "connected", no job and no queue of an
earlier session is left that the new one could meet. A job `end_connect` may be, since the user
may stop a session that has not begun; then the QUIT it queues meets a socket that is shut.

**`presence`** (0.5 million states). Three starts of the daemon and two of the viewer, up
to four closings by the user, two of the starts as second copies. That covers each
program leaving and returning while the other runs, both at once, and messages crossing.

**`view`** (0.65 million states). Two mails, two changes by the user, two sessions, one
key too early or one lost connection or one check of the timer. The same run with
`IF_DEL_AUX = FALSE` or `Default = "header"` passes too (1.7 and 0.7 million states).

**`mime`** (0.46 million states). Mails of one or two parts, each a leaf with or without a
header and with one paragraph or two, or a multipart of one or two such leaves; text
behind the end or not; names of boundaries of which one begins another. Two parts in two
levels are the least with which a part has one before it, behind it and around it. Where parts have
headers and no boundary begins another (`Usual`), every part is found once and whole. That includes
multiparts whose boundary is declared in the last line of their header: there the search for the end of
that header goes on behind the one of the first part, so that the text of the declaration ends
before it begins. When the first part is a text, its type makes the code copy that text, and the
negative length goes to `malloc` and `strncpy` (viewer:1806–1819, 1727–1729): `off`. `LeavesShown` says that
this is the only way for such a mail to stop the program, and that no part is lost otherwise. Headers
of up to six words: a word, two things, a word and one more on either side.

**`natconn`** (1.6 million states). Two sockets, and any two out of one key, one loss of
GPRS, one packet besides the answer to a login, one message of ours and two faults. The
second connection is what shows what the first one leaves behind. The safety properties also hold
with three sockets, two keys and two faults (10.7 million states), and are proved for all bounds.

**`natchat`** (4.1 million states). Two contacts, logs of two messages, three messages, two
connections, of which the second may come with the end of the first unseen, three numbers,
and one of the kinds of events that try the bookkeeping. Three messages are
the least with which a log of two is cut while its window shows the first.

**`headers`** (0.33 million states). A list of one mail with any of the dates around the
ends of months, years and leap days in any of five time zones, shown in any of them;
lists of up to four mails with equal, different and missing dates. Four mails are
the least with which a pass has a swap, a step and a swap again.

## 4. Fairness

* `MailPop3!SessionFairness`: HELPER runs its jobs, socket events are delivered, the
  server answers what it has received. `CheckingSpec` adds that somebody keeps asking
  for checks: the SMS service and the user do; only `MailLoads` needs it.
* `MailConn!PhoneFairness`: HELPER, messages, the stack closes what it is told to close,
  a connection attempt and a lookup come to an end, and a POP3 server hangs up on a
  client that says nothing (its autologout timer). `FairSpec` adds the timer procedure.
* `MailSend!FairSpec`: HELPER and messages are weakly fair; *strong* fairness of
  `TakesAll`, because the stack may put off a send any number of times but not for ever.
* `MailPresence`, `MailView`: weak fairness of messages, jobs, and of the session's own
  progress; nothing is assumed of the user.
* `NatConn!Fairness`: as in `MailConn`; the server need not answer nor hang up, and a
  key need not be pressed. The ten-second beat that turns GPRS on again is a timer.
* `MailHeaders`: weak fairness of the only process. `MailMime` and `NatChat` have none.

## 5. Proofs

TLAPS checks these for every value of the constants that meets the named assumptions
(`UidlAssumption`, `ConfigAssumption`, `FaultAssumption`; `ChunkAssumption`, `FlagAssumption`,
`LogAssumption`, `ContactAssumption`; `MailsAssumption`, `DateAssumption`, `ZoneAssumption`,
`SampleAssumption`: dates are dates that the phone can show; `BodiesAssumption`: no boundary twice in
a mail; and the `BoundAssumption` of each module, that bounds are numbers): any number of
mails, parts, sockets, contacts, faults and interventions, any chunk, any length of the logs. The theorems
are about `Spec`; the runs with fairness are of `FairSpec`, which implies it.

**`MailPop3_proofs`.** `DeletesOnlyKept` is not inductive: that a DELE on its way is
justified depends on what the list, the file and the wishes of the user said when it was
sent. The inductive invariant is `DialogueInv`, the conjunction of

* `TypeOK`;
* `NumbersInv`: while a connection lasts the numbers in the list and on the lines
  are the server's, so the mail marked is the mail meant;
* `LockStepInv`: command and answer alternate, so at most one line is on its way outside of
  a multi-line reply and nothing follows the final dot: `get_answer` going on with its
  buffer after `process_line` has ended the session finds nothing there;
* `CursorInv`: `cur_ml` is an entry of the list wherever it is used, one still to be
  loaded while receiving, one in full before DELE;
* `SavedInv`: a half-written `mails.db` is the beginning of the list;
* `AskedInv`: what is marked for deletion, in memory, in the file, or in what a mark can be taken
  back to, the user asked for;
* `NoDuplicates`: no unique id twice: the entry that is found by its id and the one
  under the cursor are the same;
* `MarkedInv`: for a number with a DELE done or on its way the whole mail is on the phone
  or the user asked for it, and its entry is not loaded again in this session.

There is a lemma for each group of actions; `DialogueInvariant` puts them together, and
`TypeCorrect`, `DeletesOnlyKeptAlways`, `CurValidAlways` and `NoDuplicatesAlways`
follow. The history variable `asked` occurs in no guard.

Three more properties of the dialogue stand on `DialogueInv` and on invariants of that module.
`DbHonestAlways` and `OnlyCopyKeptAlways` assume that `fopen` does not fail (with two failures
`DbHonest` is lost, see `pop3`), and the second one that `IF_DEL_AUX` is 1; connections, power and
server may fail. Their `HonestInv` adds

* `CommandInv`, `HeadInv`: the command on its way belongs to `pop_state`, a status line stands in
  front of what it announces, and a list is traversed only after it has been numbered;
* `NumberingInv`, `FreshInv`: the numbers on their way and in the list name one mail each, also when
  their connection is gone; a unique id not given out yet is nowhere;
* `KnownInv`: of a mail in the box that has an entry, the number has come or comes before the dot,
  so what `do_losted_mes` removes for want of a number is not on the server any more;
* `SizesInv`: a letter that the server has listed gets its size before the list is saved, so
  its record is never `M_IS_BIG_LETTER` (an entry made of a status line is, see `pop3`);
* `DiskInv`: what `mails.db` says is loaded is loaded in the list too, so that no entry
  `MailBegins` truncates has its only copy there. While the list is still being completed
  nothing of the file is missing in it; this is where a failing `fopen` in `InitMailDB` would break it;
* `EmlInv`: `DbHonest` for the list, from which `write_mail_DB` makes the file.

`NoSilentWaitAlways` assumes a server that refuses nothing, but allows every other fault. `WaitInv`
says that what process_line waits for is there to its end: of a multi-line reply the dot too.

**`MailSend_proofs`.** `StreamInv` is `TypeOK`, `QueueInv` (what was taken and what is
queued are consecutive pieces of the stream) and `RoomInv` (at most one report of
room or one `send_str(0)` is pending, and only while there is a queue). From it
`RoomIsWaitedForAlways` (the branch "Illegal ENIP_BUFFER_FREE!" of daemon:963 never ends
a connection in order) and `StreamImplements`: every step of `MailSend` is a step of
`ByteStream`, or a stutter, under `over <- sock # "up"`.

**`MailConn_proofs`.** Four properties of a connection, none of them inductive:
`AbandonsOnlyClosed` (`sock` is overwritten only when its socket is closed or never was connected),
`ConnectedIsSocket`, `NothingLeftOpen` and `FreshSession`. `create_connect` may write `sock` because nobody
else is about to: there is one job `create_connect`, one lookup, one answer of the resolver or
the timer at a time, and none of them while there is a socket (`SingleInv`), so that the only socket
alive is `sock` (`OnlyOurs`). This is lost for good once a check has been asked for while one was
being prepared (`"over"`), and what does not depend on it is stated apart (`SocketInv`: what
the stack reports closed is closed). The end of the daemon rests on the order of the jobs (`KillInv`):
in front of `ElfKiller` stands an `end_socket` with no `create_connect` behind it, or nothing is
open and nothing will be. `StateInv` ties the steps of `create_connect` to `connect_state`.

`FreshSession` follows the jobs over the boundary of two sessions (`FreshInv`). A job is posted for a
socket only by a message of that socket while it is `sock`, and then no `create_connect` is asked
for (`SingleInv`); so whatever a session leaves stands in front of the next `create_connect`
(`Behind`), and HELPER has run it when it makes the socket. From there to "connected" nothing can be added:
the stack says nothing of a socket before it is connected (`Untold`), and says that first
(`Ordered`). The queue is emptied by `create_connect` (daemon:663), and only a Stop fills it
before there is a session, shutting the socket in the same job.

**`NatConn_proofs`.** `OneConnectionAlways`: the same argument, but a connection may now be asked for
while one stands, since the key ends the old one first; so `LiveInv` has `EndsFirst` (in front of a
`create_connect` stands an `end_socket`, or nothing lives) in place of "none while there is a
socket". `StaysOffAlways` rests on `OffInv`: while `disautorecconect` is set there is no timer, job,
lookup or answer that would connect. `"over"`, `"off"` and `"zero"` are the histories in which the code
connects nevertheless (see 6); `"over"` includes that `ENIP_SOCK_CLOSED` is handled while
a name is being looked up, when `do_reconnect` (naticq:2630) starts a second attempt beside the
first. The run of two sockets has no room for what follows from it; three sockets have.

In the second half of the module, `LoginFirstAlways`. What is queued waits for `connect_state >= 2`, which
`send_login` sets as it queues the login, so the login is first if the queue is empty then. That needs
a chain through several connections (`LoginInv`): nothing connects while there is a socket
(`AloneInv`); the login is not sent before its connection stands (`LoginsInv`, `StateInv`; `RisenInv`:
what is reported connected has been); what an earlier connection has left is thrown away before the
next `create_connect` (`QueueInv`), by a `ClearSendQ` that never stands where it would throw away what
a standing connection is to send (`ClearInv`). Excluded are `"over"`, `"zero"` and `"wrong"`, where
`connect_state` is set for a connection that is gone.

`AckedArrivesAlways`: `SendMSGACK` acknowledges a message before `get_answer` hands it to MMI, and the
acknowledgement may wait in the queue, and be sent, at any time later. `QueuedInv` follows its key:
while it is in the queue its message has come, or is to be handed over, or is in MMI's messages, as one
of this very connection or on its way round (`Come`). If it is sent, the connection stands, so that its end is not yet
among MMI's messages and stands behind the message when it comes (`AckedInv`); if it is not, the
connection has ended, and a `ClearSendQ` throws it away before the next (`ClearsInv`), also when
`get_answer` queues it after the end of its connection (`OrphanInv`). Nothing is on its way while a
connection is made (`MadeInv`). Excluded are `"over"` and `"zero"`, and `"late"`: the connection
breaks in between acknowledging and handing over. A `connect_state` set wrongly does no harm here, so `AloneInv`
is shown again without excluding it.

**`NatChat_proofs`.** `AckTrueAlways`. The code looks an acknowledgement up by its number in the log
of a contact, where messages of earlier connections may still be, and `SENDMSGCOUNT` begins
anew with each. `NumberInv` is why this is right: a number in a log is that of a message of this
connection, under which the server has just that message, because `ENIP_SOCK_CLOSED` takes the
numbers out of all logs (cl_work.c:47); numbers also survive that a log is cut at the front. Excluded
are `"over"`, a connection that takes the place of another whose end is then not looked at
(naticq:2630–2635, 1437, 2936), and `"wrap"`, a connection with more messages than there are numbers.

`MessagesCountedAlways`: `CountInv` says of each contact that its mark and its number agree, and that
`messages_unread` is their sum. The sum is a fold over a finite set (`ContactAssumption`: a contact is
known by an unsigned int); that it changes as one of its terms does is `TotalChanges`, by induction on
the size of the set, which well-foundedness (`WFMin`) gives without a theorem that takes an operator.

`ViewOfLogAlways`: which lines the window has is decided message by message as they come, some
of them while the user writes, when they wait; meanwhile the log is cut at the front and
acknowledgements colour lines by their place from the end. `ViewInv` has the keys of a log in order and
no key twice (`OrderInv`), so that `last_log` names one place of it, and says up to where the window
is true (`ShowInv`): everything if nothing waits; else the messages in front of `last_log`, which are
the last lines of the window, and then `req_add` and the mark of the contact are set, so that the
end of the word adds the rest. Colours are promised of messages drawn, of the others when
`req_drawack` is not set.

**`MailPresence_proofs`.** `NoDanglingAlways` rests on the order of what HELPER does (`MemInv`): a
program is given back only when no message is left, and no job of it is behind its `ElfKiller`; it
holds whether or not programs are closed while their `gipc` is in use. `PopStatAliveAlways`
needs that they are not (`Lasts`): a message whose text changes under its readers can make a viewer
miss a LOGOFF. Then `LastsInv` is a chain: each start asks once for other copies (`AskedInv`) and
counts them once, while it runs (`CountedInv`), so a program that was closed
says goodbye and nothing else (`FarewellInv`); a LOGON that still names a closed daemon is in front of
its LOGOFF (`StatInv`); so a viewer that looks at the `pop_stat` of a closed daemon has a
LOGOFF to come, and the memory is not given back before that has been read (`PopInv`).

`PresenceOfOneAlways` and `OneStaysAlways` need `Lasts` too, and stand on `LastsInv`.
`PresenceOfOne` speaks of the end of an exchange in which each answer overwrites the `gipc` that
the message before it was read from. `OneInv` says what holds in the middle, while no second copy was
started: a `gipc` says what the last message in it says, and a message it no longer fits has been
heard by whom it was for (`SaysInv`); of one program LOGON comes before LOGOFF, and after the LOGOFF
of an earlier start (`AfterInv`); who believes in a partner that is gone has its LOGOFF to come
(`GoneInv`); and of two partners that run one knows the other, or a LOGON that tells it is on its way,
or one of them has yet to ask for copies and to log on; whoever is known knows, or is going to
(`KnownInv`).

`OneStays` needs to say when a copy has counted whom. Two copies never ask at the same time, and the
one that was started later has one reason more to count than it has heard (`TwoInv`: its
`data` is at least the number of the two that have heard the question); what a program has
counted beyond itself is a copy that stays (`OtherInv`), since the only one that could end itself is
the one that asks. The bound of `Starts`, that a second copy is started when all is quiet, is essential.

**`MailView_proofs`.** `RecordLivesAlways` needs only that the user waits for the phone: the options
stand in front of the list, which is then neither read anew nor closed (`ShapeInv`, `OptionsInv`).
The other three are of an orderly phone (`Orderly`: nobody presses a key before the last is
dealt with, every session is asked for in the viewer and ends with `end_connect`), and are about two
writers of one file, `mails.db`. `PhoneInv` is the order of messages: one check at a time, accepted
before its connection is reported, with nothing of an earlier end on its way, closed after. `CoverInv` is why the viewer and a session do not
write against each other: while a session goes on with the list open, the statistics cover it, or
their coming or going is on its way, so nothing that the user has changed is still to be
written (`ActiveInv`, `SaveInv`) and the daemon works with what the file says (`DaemonInv`).
`FreshInv` then has the list equal to `mails.db` whenever nothing that would make it so is
pending; `ListFreshAlways`, `LoadedStaysAlways` and `MarksReachAlways` follow.

**`MailViewer_proofs`.** The arithmetic of dates first, without any state, for every date of
2000–2099 and every time zone. What `tdiff` counts is what the calendar of `MailHeaders` counts:
the days before a year (`DaysToIs`, from the least year at which they would differ) and before
a month (`MonthsToIs`). An hour, day, month or year that `get_date_from_str` borrows or carries leaves
the hours before the date as they are but for the time zone (`EasternTrue`, `WesternTrue`, case by
case; hour 24 of `Western` is no valid hour, and is right all the same), so a timestamp is the moment
that the text names (`SecondsTrue`). `CivilTrue`: what `PrintTimeDate` takes apart is that date again,
with the 29th of February that its table does not have. `DatesTrueAlways` says both of the states.

`NothingLostAlways` and `SortedAlways` are about pointers, and neither is inductive. `HeadersInv` has
an order of the mails that the links stand for, in every state (`IsList`: each mail once,
the last one ends the list), and says of it where a pass is: `prev` and `ml_cur` are neighbours in it
(`Stands`), what is behind the pass is in order if it has not swapped (`Falls`), and mails of the same
moment are in the order of the server (`IsStable`). A swap of three links exchanges two neighbours of the
order and nothing else (`ExchangeLists`), also at the beginning of the list, where `prev` is its head; after
it the pass is two places on, which is why the next comparison leaves one mail out. What the code
reads of a null pointer does not matter: the loop ends before it is used. That `Shown`, which follows
the links, is this order is `ShownIs`, from the least place at which they would differ.

`UnmimedAlways` is about `unmime_header` of `MailMime`. A step decodes the next encoded word and keeps or drops
what is in front of it. `UnmimeInv` has that what is read ends with a word and, in headers where every text
behind a word or a text has a space after it (`Spaced`), that `outbuf` is the decoded header up to there.
The step rests on `GapKept`: a gap between two words that has no space in it is empty in such a header, so
what the code drops is nothing.

`LeavesShownAlways` is about `ParseMailBody`, for mails of any number of parts and of multiparts in
them, under `BodiesAssumption` (the boundaries of one mail differ, as do its texts, which are numbers
to tell parts apart). Three steps. The lines that `MailLines` puts together with `FlattenSeq` are laid
out as the tree says (`MailLaid`: where each delimiter, declaration and end is, and that no other
line names a boundary). `MailIs` then forgets the tree: a *place* is a delimiter or a declaration;
behind it is a leaf, an inner multipart, or the header of the latter; a boundary has one end, which is its
last line. `Cut(l)` is what the code cuts out behind place `l` (`LeafCut`, `InnerCut`, and `DeclCut`:
behind a declaration, which the search takes for a delimiter, it is a text without a line), with
the condition of `Usual` that no name of a boundary begins another one; when the declaration ends its header,
what is cut out behind it has the type of the first leaf and a negative length. Last, the walk. That each leaf
has been found so far is not inductive; `ParseInv` has the list of parts as the mail itself and
the `Cut` of exactly those places that have been come by (`Taken`: in a part of the list before the
one looked at, or in that one above the line come to), none of them twice, since no boundary is walked
through twice (`MultiOnce`). At the end of the list every place has been come by (`AllTaken`), and
bijections count the parts (`CountParts`: one, one for each leaf, two for each inner multipart).

**Model-checked only.** The liveness properties: TLAPS does not reason about fairness
and `ENABLED` here.

## 6. Where the code disagrees with its own text

* `view_undo`: "Не удалять" (viewer:2360, *do not delete*) restores `prev_state`; once the
  list has been read from `mails.db` again after the mark, `prev_state` is `M_DELETE` itself.
* `nat_state`: "3 - Установлено соединение с сервером ICQ, нормальный режим работы" (NATICQ.txt:116,
  *connected with the ICQ server*). `get_answer`, in HELPER, sets the state to 3 when it comes to
  the answer to the login (naticq:1695), though MMI may have handled `ENIP_SOCK_CLOSED` in
  between: the state then says 3 with no socket. `send_login` (naticq:1586) does the same with 2.
  What is sent in that state waits in the queue, in front of the next login.

Met on the way, and part of the models (the properties say what holds nevertheless):

* "Закроем поток если некорректно вышли" (daemon:372, *close the stream if we left the wrong
  way*) is in `end_connect` only: a connection closed from the other side leaves the stream of
  the `.eml` file open until the next mail.
* "Wait for GPRS up!" (daemon:667, and the same in naticq:1373–1379): `create_connect` asks
  `IsGPRSEnabled()` and clears `is_gprs_online` afterwards. If GPRS comes up between the two, its
  report is wiped out and the program waits for one that has already come.
* A second daemon that ends itself sends `IPC_DAEMON_LOGOFF` from `maincsm_onclose`, and the
  viewer takes the first daemon for gone.
* NATICQ acknowledges a message and then posts it to the other process, which drops it when the
  connection has ended in between (naticq:1745, 2936).
* "Disconnect" of NATICQ leaves a timer or a lookup that is under way, which connect again.
* `is_space` of `decode.cpp:12` is the wrong way round: between encoded words spaces are kept
  and text without a space is lost. The comment at `decode.cpp:623` says "ignore spaces".
* A part of a multipart mail without a header loses its first paragraph (viewer:1807). A boundary
  declared in the last line of a header, with a text part behind it, has a text of negative length
  copied (viewer:1806–1819, 1727–1729).
* Key 0 of NATICQ puts a new socket in the place of the old one (naticq:2630–2635, 1437), whose
  `ENIP_SOCK_CLOSED` is then taken for a foreign one (2936): `FillAllOffline` does not run, the numbers of
  messages begin anew (2978–2998), and the acknowledgement of message 1 may be shown at the message 1
  of before.
* After a connection was lost inside UIDL the mail daemon saves the status line of the next session as
  an entry of `mails.db`, with a state that the file cannot hold (daemon:141, 171–178).

## 7. What the models leave out

`MailPop3`: how the bytes of a reply are cut into lines (`get_answer`, daemon:603–643)
but for the fragment that a lost connection leaves; the texts of errors; passwords and
the reply to them beyond accepted or refused; a full file system in the middle of a write.

`MailConn`: after the events kept in `odd` the code does go wrong, and the properties make no
promise: a check accepted while another is being prepared (the second `create_connect`
clears `connect_state` under the first one's socket, and the stack's report is met as an
illegal message); the timer armed by `LMAN_CONNECT_CNF` (daemon:918) running
`create_connect` over a session that was begun in the meantime; `ENIP_SOCK_CLOSED` between
`connect()` and `connect_state=1` (daemon:722), after which the state is 1 without a socket.
`REMOTE_CLOSED` at state 0 is ignored by the code, and so here. Nothing says that a timer armed
after `GBS_DelTimer` in `maincsm_onclose` does not fire into memory given back.

`MailPresence`: `Lasts` keeps the user from closing a program whose `gipc` is in a
message or whose `CheckDoubleRun` has not run. Without it a logon is delivered with what
`maincsm_onclose` has put into the structure since. `MaxSecond` bounds second copies, each
started when all is quiet: two copies started in the same moment each count two and both
close. MMI is taken to go first: HELPER runs when there is no message.

`MailView`: outside of `Orderly` the list in front does fall behind `mails.db`, and no text of
the repository promises otherwise: "Close" on the statistics while the name is still
looked up (`connect_state` is 0 then); "Stop" before the connection is made, which does not
cancel it; a session that breaks without `IPC_LOADING_FINISHED`; a check by SMS or timer
while the list is open; reopening the list before the queued `write_mail_DB` has run;
leaving the viewer with that job queued, which then writes an empty list; opening the
options between the closing of the statistics and its `MSG_GUI_DESTROYED`. The properties of
an `Orderly` phone are not about these, and `RecordLives` is not about the hasty keys among them.
`write_mail_DB` of the viewer is one step; MMI changing the list under it is not modelled.

`MailMime`: the decoding of words and texts (base64, quoted-printable, character sets, HTML):
pure functions of bytes; the edit controls that the parts become; the "--" in front of a
delimiter, which the code leaves at the end of a part. `Usual` and the conditions of `Unmimed` name
the mails and headers about which nothing is promised, because the code loses something of them.

`NatConn`: how the bytes that arrive are cut into packets; the secure login, of which the two
packets are one; a list of several hosts (`host_counter`), of which the next is taken with the
next attempt; the wait of `send_tmr` after a failed send is the same event as the report of room.
The time that GPRS stays off after a socket could not be had is not modelled, nor that the
program may be closed during it and then leaves GPRS off.

`NatChat`: texts, colours but for those of acknowledgements, `total_unread`, which is counted and
never read, the history (`HISTORY_BUFFER` is 0), statuses, the order of the contacts, and that
HELPER walks a log to choose the sound of an acknowledgement (naticq:1757). `ViewOfLog` promises
nothing after the window came on top with messages waiting (naticq:3914), an acknowledgement was
drawn with messages waiting (naticq:2057), or the log was cleared with messages waiting
(naticq:4353); `MessagesCounted` nothing of the sum after an unread contact was removed; `AckTrue`
nothing after `"over"` and `"wrap"`. `edchat_id` is cleared with the window, not a message later
(naticq:2907–2910): what `ReqAddMsgToChat` does with a window that is going away (2154–2157) is left out.

`MailHeaders`: the scanning of the text of a date, minutes and seconds, the half hours of
some time zones (the code ignores them), dates outside of 2000–2099, the date format
without letters. In these years the timestamps fit 32 unsigned bits until 2106.

Not modelled at all:

| part | why |
|---|---|
| save dialogs of MailViewer | they lay out edit controls |
| configuration of MailClient, `GetSMSNumber` | one block read and written; comparison of a phone number |
| leak detector of MailViewer | a debugging aid |
| NATICQ: order of the contacts, history, statuses, smiles, menus | in the plan, but for what only draws or appends to a file |
| `SieJC`, `SieJC_BR`, `sieGet` | Jabber clients and a download manager of the same kind |
| ARM: clients of one request (`NRSS`, `LastFM`, `BalletMini`, `Weather*`, `InetTime`) | one HTTP request at a time, then display |
| ARM: daemons of one file (`GprsD`, `cpumon`, `AkkuD`, `ExtD`, `ScrD` and two dozen more) | a hook, a filter of messages or a timer; a flag or two of state |
| ARM: calls and messages (`CallCenter`, `CallRecs`, `CallsList`, `GSMS`, `MegaDial`) | one record of a file of the firmware at a time |
| ARM: menus, editors, file managers (`XTASK3`, `mc`, `TED`, `alarm`, `IMC` and others) | screens over files of the firmware |
| ARM: satellite navigation (`GPSLogger`, `GPView`, `MiniGPS`, `microGPS`) | positions logged or drawn |
| ARM: loaders, patches, library tests (`elfloader`, `PngExt`, `SerialLib`, `AppEx`, `CPPtest` and others) | assembler and addresses of each phone |
| `zlib`, `7zlib`, `jpeglib`, `inc` | vendored, or declarations only |
| `SE`, `SL45` | programs for other phones, each on its own |

## 8. Plan

The order was, and is, by what is lost when a part is wrong.

1. *Done.* `MailPop3` with its proofs (mails), `MailSend` refining `ByteStream` (what the
   dialogue stands on), `MailConn` (who may touch the socket), `MailPresence` (memory of
   another program), `MailView` (the other writer of `mails.db`), `MailHeaders`.
2. *Done.* `MailConn` without restrictions on what interleaves; `MailMime`; `NatConn` and `NatChat`.
3. The contact list of NATICQ (`cl_work.c`): the order of groups and contacts under insertions,
   changes of status and `ResortCL`, and that `cltop` reaches all of them.
4. `get_answer` line by line: fragments of a reply in `msg_buf` of any length against
   the abstract sequence of lines that `MailPop3` reads. Refinement of a line stream.
5. Composition: `MailPop3`'s `sock` implemented by `MailConn` (closing, lost connection and
   the jobs queued behind each other) with `send_str` of `MailSend` in between.

Theorems to come: a state of `MailPop3`'s `sock` implemented by `MailConn`.
