------------------------------- MODULE MailView -------------------------------
(***************************************************************************)
(* The list of mails of ARM/MailClient/MailViewer beside the sessions of   *)
(* the daemon.                                                             *)
(*                                                                         *)
(* mails.db is shared: the viewer reads it when the list is opened, and    *)
(* writes its whole list when the user has changed something; the daemon   *)
(* reads it when it is connected, and writes its own whole list during the *)
(* session.  Neither looks at what the other has written since.  What      *)
(* keeps the two apart is the screen: while a session goes on the          *)
(* statistics cover the list, and when they are closed it is read again.   *)
(*                                                                         *)
(* MMI handles keys and messages, HELPER the jobs of both programs, one    *)
(* after the other.  The dialogue of the session is in MailPop3, the       *)
(* connection in MailConn, who knows of whom in MailPresence; the viewer   *)
(* is taken to know the daemon here.                                       *)
(***************************************************************************)
EXTENDS Integers, Sequences, SequencesExt

CONSTANTS
  Mail, NoMail,
  IF_DEL_AUX,    \* a mail that the server no longer has is kept
  Default,       \* DEFAULT_ACTION: what a new mail is marked for
  MaxOdd,        \* bound: keys pressed before the phone is done with the last one,
                 \*   connections lost, and checks that nobody has asked for
  MaxKeys,       \* bound: changes to the list, and checks asked for
  MaxSess        \* bound: checks accepted

ASSUME ConfigAssumption ==
  /\ IF_DEL_AUX \in BOOLEAN
  /\ Default \in {"header", "full"} /\ NoMail \notin Mail
ASSUME BoundAssumption == {MaxOdd, MaxKeys, MaxSess} \subseteq Nat

VARIABLES
  \* the viewer
  mails,    \* its list: the state of each mail, "none" if it is not in it
  prev,     \* prev_state of each mail
  guis,     \* the screens above the main menu, the last one in front
  at,       \* the mail whose options are open
  freed,    \* the record of that mail has been freed
  \* the file and the daemon
  db,       \* mails.db
  daemon,   \* the daemon's list
  stage,    \* its connect_state: 0 "idle" and "asked", 1 "connecting",
            \*   2 "session", "listed" (its list is up to date) and "quit"
  \* between them
  inbox,    \* messages for the MMI process
  jobs,     \* SUBPROC: jobs for HELPER
  \* history
  touched,  \* the mails whose state the user has changed
  keys, sessions,   \* keys that ask for something, checks accepted
  haste, trouble    \* what MaxOdd bounds

viewer == <<mails, prev, guis, at, freed>>
server == <<daemon, stage>>
count  == <<touched, keys, sessions>>
vars   == <<viewer, db, server, inbox, jobs, count, haste, trouble>>

-----------------------------------------------------------------------------
States == {"none", "header", "full", "hloaded", "loaded", "delete"}
Listed == {m \in Mail : mails[m] # "none"}
Empty  == [m \in Mail |-> "none"]

Open(gui) == gui \in Range(guis)
Top == IF guis = <<>> THEN "main" ELSE Last(guis)
\* A screen is open once.
Without(gui) ==
  IF Open(gui) THEN RemoveAt(guis, CHOOSE n \in DOMAIN guis : guis[n] = gui) ELSE guis
Destroyed(gui, flag) == [what |-> "DESTROYED", gui |-> gui, flag |-> flag]
Ipc(what) == [what |-> what, gui |-> "", flag |-> 0]

\* FreeMailDB, then the records of the file.
InitMailDB ==
  /\ mails' = db /\ prev' = db
  /\ freed' = (freed \/ Open("options"))

ConnectState == CASE stage \in {"idle", "asked"} -> 0
                  [] stage = "connecting" -> 1
                  [] OTHER -> 2

-----------------------------------------------------------------------------
(* Keys.                                                                   *)

\* A hasty user does not wait for what is on its way.
KeyBefore(gui, done) ==
  /\ Top = gui
  /\ haste' = IF inbox = <<>> /\ jobs = <<>> /\ done THEN haste ELSE haste + 1
  /\ haste' + trouble <= MaxOdd

Key(gui) == KeyBefore(gui, TRUE)

\* "Incoming" is opened with what the list was before.
IncomingNotRead ==
  /\ Key("main")
  /\ guis' = IF ConnectState # 0 THEN <<"list", "stat">> ELSE <<"list">>
  /\ UNCHANGED <<mails, prev, freed, at, db, server, inbox, jobs, count>>

\* "Incoming" of the main menu.
Incoming ==
  /\ Key("main")
  /\ InitMailDB
  /\ guis' = IF ConnectState # 0 THEN <<"list", "stat">> ELSE <<"list">>
  /\ UNCHANGED <<at, db, server, inbox, jobs, count>>

CloseList ==
  /\ Key("list")
  /\ guis' = Front(guis)
  /\ UNCHANGED <<mails, prev, at, freed, db, server, inbox, jobs, count>>

create_options_menu ==
  /\ Key("list")
  /\ at' \in IF Listed = {} THEN {NoMail} ELSE Listed
  /\ guis' = Append(guis, "options") /\ freed' = FALSE
  /\ UNCHANGED <<mails, prev, db, server, inbox, jobs, count>>

\* The text is copied.  A loaded mail that has not been read yet is marked so,
\* and the list saved.
create_view ==
  /\ Key("list") /\ Listed # {}
  /\ guis' = Append(guis, "view")
  /\ \/ UNCHANGED jobs
     \/ (\E m \in Mail : mails[m] = "loaded") /\ jobs' = Append(jobs, "write_mail_DB")
  /\ UNCHANGED <<mails, prev, at, freed, db, server, inbox, count>>

CloseView ==
  /\ Key("view")
  /\ guis' = Front(guis)
  /\ UNCHANGED <<mails, prev, at, freed, db, server, inbox, jobs, count>>

\* "Statistics" of the main menu.
StatScr ==
  /\ Key("main")
  /\ guis' = <<"stat">>
  /\ UNCHANGED <<mails, prev, at, freed, db, server, inbox, jobs, count>>

\* "Exit", and the viewer is started again: what the old one has still to write
\* is the list that maincsm_onclose has emptied.
Exit ==
  /\ Key("main")
  /\ mails' = Empty /\ prev' = Empty
  /\ jobs' = [n \in DOMAIN jobs |->
                IF jobs[n] = "write_mail_DB" THEN "write_empty" ELSE jobs[n]]
  /\ UNCHANGED <<guis, at, freed, db, server, inbox, count>>

\* GeneralFuncF1(flag) in the options menu.
ClosesOptions(flag) ==
  /\ guis' = Front(guis) /\ at' = NoMail /\ freed' = FALSE
  /\ inbox' = Append(inbox, Destroyed("options", flag))

back ==
  /\ Key("options")
  /\ ClosesOptions(1)
  /\ UNCHANGED <<mails, prev, db, server, jobs, count>>

\* A text in place of the options; the list is saved as if it had changed.
show_info ==
  /\ Key("options") /\ at # NoMail /\ ~freed
  /\ guis' = Append(Front(guis), "view") /\ at' = NoMail /\ freed' = FALSE
  /\ inbox' = Append(inbox, Destroyed("options", 2))
  /\ UNCHANGED <<mails, prev, db, server, jobs, count>>

\* An item that changes the mails in "these", and has the list saved.
Changes(these) ==
  /\ Key("options") /\ at # NoMail /\ ~freed /\ keys < MaxKeys
  /\ ClosesOptions(2)
  /\ touched' = touched \cup these /\ keys' = keys + 1
  /\ UNCHANGED <<db, server, jobs, sessions>>

Sets(these, state) ==
  /\ prev'  = [m \in Mail |-> IF m \in these THEN mails[m] ELSE prev[m]]
  /\ mails' = [m \in Mail |-> IF m \in these THEN state ELSE mails[m]]

set_state_download ==
  /\ Changes({at}) /\ mails[at] \notin {"loaded", "full", "delete"}
  /\ Sets({at}, "full")

set_state_delete == Changes({at}) /\ mails[at] # "delete" /\ Sets({at}, "delete")

Undoes(state) ==
  /\ Changes({at}) /\ mails[at] = state
  /\ mails' = [mails EXCEPT ![at] = prev[at]]
  /\ UNCHANGED prev

set_state_not_download == Undoes("full")
set_state_not_delete   == Undoes("delete")

\* get_mlist_N() # 1.
Several == \E m, n \in Listed : m # n

set_state_download_all == Changes(Listed) /\ Several /\ Sets(Listed, "full")
set_state_delete_all   == Changes(Listed) /\ Several /\ Sets(Listed, "delete")

Drops(these) ==
  /\ mails' = [m \in Mail |-> IF m \in these THEN "none" ELSE mails[m]]
  /\ prev'  = [m \in Mail |-> IF m \in these THEN "none" ELSE prev[m]]

delete_record      == Changes({at}) /\ Drops({at})
delete_all_records == Changes(Listed) /\ Several /\ Drops(Listed)

\* From the options, which stay open, and with the green key.
send_req_checkmailbox ==
  /\ Key("options") \/ Key("stat")
  /\ keys < MaxKeys /\ keys' = keys + 1
  /\ inbox' = Append(inbox, Ipc("CHECK"))
  /\ UNCHANGED <<viewer, db, server, jobs, touched, sessions>>

send_req_stopcheck ==
  /\ KeyBefore("stat", stage # "asked")
  /\ keys < MaxKeys /\ keys' = keys + 1
  /\ inbox' = Append(inbox, Ipc("STOP"))
  /\ UNCHANGED <<viewer, db, server, jobs, touched, sessions>>

\* "Close", which closes the list as well while the daemon is connected.
CloseStat ==
  /\ KeyBefore("stat", stage # "asked")
  /\ guis' = Front(guis)
  /\ inbox' = Append(inbox, Destroyed("stat", IF ConnectState = 0 THEN 1 ELSE 3))
  /\ UNCHANGED <<mails, prev, at, freed, db, server, jobs, count>>

Keys ==
  /\ UNCHANGED trouble
  /\ \/ Incoming \/ StatScr \/ Exit
     \/ CloseList \/ create_options_menu \/ create_view \/ CloseView
     \/ back \/ show_info \/ set_state_download \/ set_state_delete
     \/ set_state_not_download \/ set_state_not_delete
     \/ set_state_download_all \/ set_state_delete_all
     \/ delete_record \/ delete_all_records
     \/ send_req_checkmailbox \/ send_req_stopcheck \/ CloseStat

-----------------------------------------------------------------------------
(* Messages.                                                               *)

Handles(m) == inbox # <<>> /\ Head(inbox) = m
Reads(m)   == Handles(m) /\ inbox' = Tail(inbox)

\* The daemon: refused while it is connected.
CheckMailbox ==
  /\ Handles(Ipc("CHECK"))
  /\ IF ConnectState = 0 /\ sessions < MaxSess
     THEN /\ stage' = "asked" /\ sessions' = sessions + 1
          /\ jobs' = Append(jobs, "create_connect")
          /\ inbox' = Append(Tail(inbox), Ipc("ACCEPTED"))
     ELSE /\ inbox' = Append(Tail(inbox), Ipc("REFUSED"))
          /\ UNCHANGED <<stage, sessions, jobs>>
  /\ UNCHANGED <<viewer, db, daemon, touched, keys>>

\* ENIP_SOCK_CONNECTED: the daemon's InitMailDB.
Connected ==
  /\ Reads(Ipc("CONNECTED"))
  /\ IF stage = "connecting" THEN stage' = "session" /\ daemon' = db
                             ELSE UNCHANGED server
  /\ UNCHANGED <<viewer, db, jobs, count>>

\* ENIP_SOCK_CLOSED.
Closed ==
  /\ Reads(Ipc("CLOSED"))
  /\ stage' = "idle"
  /\ UNCHANGED <<viewer, db, daemon, jobs, count>>

StopChecking ==
  /\ Reads(Ipc("STOP"))
  /\ jobs' = Append(jobs, "end_connect")
  /\ UNCHANGED <<viewer, db, server, count>>

\* stat_gui_id: of the statistics until they are destroyed.
HasStat ==
  Open("stat") \/ \E n \in DOMAIN inbox : /\ inbox[n].what = "DESTROYED"
                                        /\ inbox[n].gui = "stat"

\* The options are left open below.
CoversOptions ==
  /\ Reads(Ipc("ACCEPTED"))
  /\ guis' = IF HasStat THEN guis ELSE Append(guis, "stat")
  /\ UNCHANGED <<mails, prev, at, freed, db, server, jobs, count>>

\* create_gui, which closes the options.
Accepted ==
  /\ Handles(Ipc("ACCEPTED"))
  /\ IF HasStat
     THEN inbox' = Tail(inbox) /\ UNCHANGED <<guis, at, freed>>
     ELSE /\ guis' = Append(Without("options"), "stat")
          /\ IF Open("options")
             THEN /\ at' = NoMail /\ freed' = FALSE
                  /\ inbox' = Append(Tail(inbox), Destroyed("options", 1))
             ELSE inbox' = Tail(inbox) /\ UNCHANGED <<at, freed>>
  /\ UNCHANGED <<mails, prev, db, server, jobs, count>>

Refused == Reads(Ipc("REFUSED")) /\ UNCHANGED <<viewer, db, server, jobs, count>>

\* The statistics are closed as with "Close".
FinishedAsClosed ==
  /\ Handles(Ipc("FINISHED"))
  /\ IF Open("list") /\ Open("stat")
     THEN guis' = Without("stat") /\ inbox' = Append(Tail(inbox), Destroyed("stat", 1))
     ELSE inbox' = Tail(inbox) /\ UNCHANGED guis
  /\ UNCHANGED <<mails, prev, at, freed, db, server, jobs, count>>

FinishedUnseen ==
  Reads(Ipc("FINISHED")) /\ UNCHANGED <<viewer, db, server, jobs, count>>

\* IPC_LOADING_FINISHED: statistics that are being closed stay so.
Finished ==
  /\ Handles(Ipc("FINISHED"))
  /\ IF Open("list") /\ Open("stat")
     THEN guis' = Without("stat") /\ inbox' = Append(Tail(inbox), Destroyed("stat", 2))
     ELSE inbox' = Tail(inbox) /\ UNCHANGED guis
  /\ UNCHANGED <<mails, prev, at, freed, db, server, jobs, count>>

\* The list is not saved.
OptionsNotSaved ==
  /\ \E flag \in {1, 2} : Reads(Destroyed("options", flag))
  /\ UNCHANGED <<viewer, db, server, jobs, count>>

OptionsDestroyed ==
  \E flag \in {1, 2} :
    /\ Reads(Destroyed("options", flag))
    /\ jobs' = IF flag = 2 THEN Append(jobs, "write_mail_DB") ELSE jobs
    /\ UNCHANGED <<viewer, db, server, count>>

StatDestroyed ==
  \E flag \in {1, 2, 3} :
    /\ Reads(Destroyed("stat", flag))
    /\ IF flag = 2 /\ Open("list") THEN InitMailDB ELSE UNCHANGED <<mails, prev, freed>>
    /\ guis' = IF flag = 3 THEN Without("list") ELSE guis
    /\ UNCHANGED <<at, db, server, jobs, count>>

Messages ==
  /\ UNCHANGED <<haste, trouble>>
  /\ \/ CheckMailbox \/ StopChecking \/ Accepted \/ Refused \/ Finished
     \/ OptionsDestroyed \/ StatDestroyed \/ Connected \/ Closed

-----------------------------------------------------------------------------
(* HELPER, and the sessions of the daemon.                                 *)

Runs(job) == jobs # <<>> /\ Head(jobs) = job /\ jobs' = Tail(jobs)

write_mail_DB ==
  /\ \/ Runs("write_mail_DB") /\ db' = mails
     \/ Runs("write_empty") /\ db' = Empty
  /\ UNCHANGED <<viewer, server, inbox, count>>

\* The name may have to be looked up first, and none of it need succeed.
create_connect ==
  /\ Runs("create_connect")
  /\ stage' \in IF stage = "asked" THEN {"asked", "connecting", "idle"} ELSE {stage}
  /\ UNCHANGED <<viewer, db, daemon, inbox, count>>

NameFound ==
  /\ stage = "asked" /\ jobs = <<>>
  /\ stage' \in {"connecting", "idle"}
  /\ UNCHANGED <<viewer, db, daemon, inbox, jobs, count>>

Told(what) == Ipc(what) \in Range(inbox)

\* The stack connects the socket, or gives up.
Connects ==
  /\ stage = "connecting" /\ ~Told("CONNECTED") /\ ~Told("CLOSED")
  /\ \E what \in {"CONNECTED", "CLOSED"} : inbox' = Append(inbox, Ipc(what))
  /\ UNCHANGED <<viewer, db, server, jobs, count>>

InSession(s) == stage = s /\ jobs = <<>> /\ ~Told("CLOSED")

\* The list of the server: new mails are added, and mails.db is written.
Lists ==
  /\ InSession("session")
  /\ \E new \in SUBSET {m \in Mail : daemon[m] = "none"} :
       daemon' = [m \in Mail |-> IF m \in new THEN Default ELSE daemon[m]]
  /\ db' = daemon' /\ stage' = "listed"
  /\ UNCHANGED <<viewer, inbox, jobs, count>>

Loads ==
  /\ InSession("listed")
  /\ \E m \in Mail :
       /\ daemon[m] \in {"header", "full"}
       /\ daemon' = [daemon EXCEPT ![m] = IF @ = "full" THEN "loaded" ELSE "hloaded"]
  /\ db' = daemon'
  /\ UNCHANGED <<viewer, stage, inbox, jobs, count>>

\* Marked for it, or no longer on the server.  Written with the next mail.
Removes ==
  /\ InSession("listed")
  /\ \E m \in Mail :
       /\ daemon[m] = "delete" \/ (daemon[m] # "none" /\ ~IF_DEL_AUX)
       /\ daemon' = [daemon EXCEPT ![m] = "none"]
  /\ UNCHANGED <<viewer, db, stage, inbox, jobs, count>>

EndConnect == inbox' = Append(inbox, Ipc("FINISHED"))

Done ==
  /\ InSession("listed")
  /\ \A m \in Mail : daemon[m] \notin {"header", "full", "delete"}
  /\ db' = daemon /\ stage' = "quit" /\ EndConnect
  /\ UNCHANGED <<viewer, daemon, jobs, count>>

\* Something is refused: end_connect, and nothing more is written.
Fails ==
  /\ InSession("session") \/ InSession("listed")
  /\ stage' = "quit" /\ EndConnect
  /\ UNCHANGED <<viewer, db, daemon, jobs, count>>

\* "Manually stopped": what is only being prepared goes on.
end_connect ==
  /\ Runs("end_connect") /\ EndConnect
  /\ stage' = IF ConnectState = 0 THEN stage ELSE "quit"
  /\ UNCHANGED <<viewer, db, daemon, count>>

\* The stack closes the socket of a session that has ended.
Closes ==
  /\ stage = "quit" /\ ~Told("CLOSED")
  /\ inbox' = Append(inbox, Ipc("CLOSED"))
  /\ UNCHANGED <<viewer, db, server, jobs, count>>

\* The connection is lost: no end_connect.
Lost ==
  /\ stage \in {"session", "listed"} /\ ~Told("CLOSED")
  /\ inbox' = Append(inbox, Ipc("CLOSED"))
  /\ UNCHANGED <<viewer, db, server, jobs, count>>

\* An SMS, or the timer.
ChecksItself ==
  /\ stage = "idle" /\ sessions < MaxSess
  /\ stage' = "asked" /\ sessions' = sessions + 1
  /\ jobs' = Append(jobs, "create_connect")
  /\ UNCHANGED <<viewer, db, daemon, inbox, touched, keys>>

Session == (Lists \/ Loads \/ Removes \/ Done) /\ UNCHANGED <<haste, trouble>>
Jobs    == (write_mail_DB \/ create_connect \/ end_connect) /\ UNCHANGED <<haste, trouble>>
Network == (NameFound \/ Connects \/ Closes \/ Fails) /\ UNCHANGED <<haste, trouble>>

Trouble ==
  /\ Lost \/ ChecksItself
  /\ haste + trouble < MaxOdd /\ trouble' = trouble + 1 /\ UNCHANGED haste

-----------------------------------------------------------------------------
Init ==
  /\ db \in [Mail -> {"none", "hloaded", "loaded"}] /\ daemon = Empty
  /\ mails = Empty /\ prev = Empty /\ guis = <<>> /\ at = NoMail /\ freed = FALSE
  /\ stage = "idle" /\ inbox = <<>> /\ jobs = <<>>
  /\ touched = {} /\ keys = 0 /\ sessions = 0
  /\ haste = 0 /\ trouble = 0

Next ==
  \/ Keys \/ Messages \/ Jobs
  \/ Session \/ Network \/ Trouble

Spec == Init /\ [][Next]_vars

\* Messages are read, jobs are run, the server answers, and a connection comes
\* about or does not.
FairSpec == Spec /\ WF_vars(Messages) /\ WF_vars(Jobs) /\ WF_vars(Session)

-----------------------------------------------------------------------------
\* The user waits for the phone, and every session is asked for in the viewer and
\* ends with end_connect.
Orderly == haste = 0 /\ trouble = 0

\* What the user is shown, and will save, is what mails.db says: a list that is
\* in front, with nothing on its way, is not behind the sessions of the daemon.
ListFresh ==
  Orderly /\ Top = "list" /\ inbox = <<>> /\ jobs = <<>> => mails = db

\* A mail that is loaded stays so in mails.db unless the user changes it: the
\* viewer does not write over what a session has written (main.c:269-294).
LoadedStays ==
  [][Orderly' /\ IF_DEL_AUX =>
       \A m \in Mail \ touched' : db[m] = "loaded" => db'[m] = "loaded"]_vars

\* The daemon begins a session with the marks that the user sees in the list.
MarksReach ==
  [][Orderly /\ stage = "connecting" /\ stage' = "session" /\ Open("list") =>
       daemon' = mails]_vars

\* The options are not open for a record that has been freed: the statistics
\* close them first (main.c:2444, 2808, statscreen.c:150), however the session
\* has come about and has ended.
RecordLives == haste = 0 /\ Open("options") /\ at # NoMail => ~freed

\* The statistics over a list close by themselves when the session ends, whatever
\* the user is doing.
StatCloses ==
  Open("list") /\ stage \in {"session", "listed"} ~>
    ~Open("list") \/ ~Open("stat") \/ trouble # 0

\* "Do not delete" (the item of main.c:2360): the mail is not marked any more.
NotDeleted == [][set_state_not_delete => mails'[at] # "delete"]_vars
=============================================================================
