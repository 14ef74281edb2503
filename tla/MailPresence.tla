---------------------------- MODULE MailPresence ----------------------------
(***************************************************************************)
(* How the daemon and the viewer of ARM/MailClient learn of each other,    *)
(* and how a second copy of one of them notices that it is one.            *)
(*                                                                         *)
(* A message carries the address of an IPC_REQ, not its contents: the      *)
(* static gipc of the program that began the exchange, which the partner   *)
(* fills in again for its answer, and which its owner uses for the next    *)
(* message whether the last one has been read or not.  Every message is    *)
(* handed to all programs that run, one after the other.                   *)
(*                                                                         *)
(* A program is loaded anew each time it is started, so every start is an  *)
(* instance of its own.  The MMI process is taken to go first: HELPER runs *)
(* its jobs when MMI has nothing to do.                                    *)
(***************************************************************************)
EXTENDS Integers, Sequences, FiniteSets, SequencesExt

CONSTANTS
  Daemons, Viewers,  \* instances: starts of MailDaemon, and of MailViewer
  None,              \* no instance
  Lasts,             \* no program is closed while its gipc is in use
  MaxClose,          \* bound: programs closed by the user
  MaxSecond          \* bound: starts of a program of which a copy runs

ASSUME InstanceAssumption == Daemons \cap Viewers = {} /\ None \notin Daemons \cup Viewers
ASSUME BoundAssumption == Lasts \in BOOLEAN /\ {MaxClose, MaxSecond} \subseteq Nat

VARIABLES
  run,      \* "off", "on" with its CSM, "closed" without, "gone" from memory
  present,  \* viewer_present of a daemon, daemon_present of a viewer
  popStat,  \* the daemon whose pop_stat a viewer looks at
  gipc,     \* the static IPC_REQ of each instance
  queue,    \* messages for the MMI process
  todo,     \* instances the first message has still to be handed to
  jobs,     \* SUBPROC: jobs for HELPER
  closes,   \* programs closed by the user so far
  seconds   \* second copies started so far

vars == <<run, present, popStat, gipc, queue, todo, jobs, closes, seconds>>

Inst == Daemons \cup Viewers
Copies(i) == IF i \in Daemons THEN Daemons ELSE Viewers
Partners(i) == Inst \ Copies(i)

\* name_to is a name, so any copy; name_from an address, so one instance.
Request(to, from, data, stat) == [to |-> to, from |-> from, data |-> data, stat |-> stat]
Msg(sub, by, ref) == [sub |-> sub, by |-> by, ref |-> ref]

On(insts) == {i \in insts : run[i] = "on"}
Busy == todo # {} \/ queue # <<>>
Quiet == ~Busy /\ jobs = <<>>

\* &pop_stat, which only a daemon has.
OwnStat(i) == IF i \in Daemons THEN i ELSE None

-----------------------------------------------------------------------------
(* CreateCSM and maincsm_oncreate.                                         *)

\* The gipc of i is in a message, or is about to be used for one.
InUse(i) == \/ \E m \in Range(queue) : m.ref = i
            \/ [what |-> "CheckDoubleRun", who |-> i] \in Range(jobs)

\* A second copy is started when nothing else is going on.
Starts(i) ==
  /\ run[i] = "off" /\ todo = {}
  /\ IF On(Copies(i)) = {}
     THEN UNCHANGED seconds
     ELSE Quiet /\ seconds < MaxSecond /\ seconds' = seconds + 1
  /\ run' = [run EXCEPT ![i] = "on"]
  /\ gipc' = [gipc EXCEPT ![i] = Request(Copies(i), i, 0, None)]
  /\ queue' = Append(queue, Msg("CHECK_DOUBLERUN", i, i))
  /\ UNCHANGED <<present, popStat, todo, jobs, closes>>

\* The memory of the program is given back in maincsm_onclose itself.
ClosesAndGoes(i) ==
  /\ run' = [run EXCEPT ![i] = "gone"]
  /\ gipc' = [gipc EXCEPT ![i] = Request(Partners(i), i, 0, None)]
  /\ queue' = Append(queue, Msg("LOGOFF", i, i))

\* maincsm_onclose.
maincsm_onclose(i) ==
  /\ run' = [run EXCEPT ![i] = "closed"]
  /\ gipc' = [gipc EXCEPT ![i] = Request(Partners(i), i, 0, None)]
  /\ queue' = Append(queue, Msg("LOGOFF", i, i))

ElfKillerAsked(i) == Append(jobs, [what |-> "ElfKiller", who |-> i])

UserCloses(i) ==
  /\ run[i] = "on" /\ todo = {} /\ closes < MaxClose
  /\ Lasts => ~InUse(i)
  /\ maincsm_onclose(i)
  /\ jobs' = ElfKillerAsked(i)
  /\ closes' = closes + 1
  /\ UNCHANGED <<present, popStat, todo, seconds>>

-----------------------------------------------------------------------------
(* HELPER.                                                                 *)

HelperRuns(what, i) ==
  /\ ~Busy /\ jobs # <<>> /\ Head(jobs) = [what |-> what, who |-> i]

\* "already started!", CloseCSM: a CSM that is gone already is not closed.
SecondCopy(i) ==
  /\ HelperRuns("CheckDoubleRun", i) /\ gipc[i].data > 1
  /\ IF run[i] = "on"
     THEN /\ maincsm_onclose(i)
          /\ jobs' = Append(Tail(jobs), [what |-> "ElfKiller", who |-> i])
     ELSE jobs' = Tail(jobs) /\ UNCHANGED <<run, gipc, queue>>
  /\ UNCHANGED <<present, popStat, todo, closes, seconds>>

LogsOn(i) ==
  /\ HelperRuns("CheckDoubleRun", i) /\ gipc[i].data <= 1
  /\ gipc' = [gipc EXCEPT ![i] = Request(Partners(i), i, 0, OwnStat(i))]
  /\ queue' = Append(queue, Msg("LOGON", i, i))
  /\ jobs' = Tail(jobs)
  /\ UNCHANGED <<run, present, popStat, todo, closes, seconds>>

CheckDoubleRun(i) == SecondCopy(i) \/ LogsOn(i)

ElfKiller(i) ==
  /\ HelperRuns("ElfKiller", i)
  /\ run' = [run EXCEPT ![i] = "gone"]
  /\ jobs' = Tail(jobs)
  /\ UNCHANGED <<present, popStat, gipc, queue, todo, closes, seconds>>

-----------------------------------------------------------------------------
(* maincsm_onmessage of instance i.                                        *)

TakesMessage ==
  /\ todo = {} /\ queue # <<>>
  /\ IF On(Inst) = {} THEN queue' = Tail(queue) /\ UNCHANGED todo
                      ELSE todo' = On(Inst) /\ UNCHANGED queue
  /\ UNCHANGED <<run, present, popStat, gipc, jobs, closes, seconds>>

Ref == Head(queue).ref
Req == gipc[Ref]

Handles(i, sub) == i \in todo /\ Head(queue).sub = sub /\ i \in Req.to

\* The message goes to the next CSM, or is done with; answer follows it.
Passes(i, answer) ==
  /\ todo' = todo \ {i}
  /\ queue' = (IF todo = {i} THEN Tail(queue) ELSE queue) \o answer

\* Every LOGON is answered, the one that is an answer too.
LogonAnswersAlways(i) ==
  /\ Handles(i, "LOGON") /\ Head(queue).by \in Partners(i)
  /\ present' = [present EXCEPT ![i] = TRUE]
  /\ popStat' = [popStat EXCEPT ![i] = Req.stat]
  /\ gipc' = [gipc EXCEPT ![Ref] = Request(Copies(Req.from), i, 0, OwnStat(i))]
  /\ Passes(i, <<Msg("LOGON", i, Ref)>>)
  /\ UNCHANGED <<run, jobs, closes, seconds>>

\* The partner is not told that it was heard.
LogonSilent(i) ==
  /\ Handles(i, "LOGON") /\ Head(queue).by \in Partners(i) /\ ~present[i]
  /\ present' = [present EXCEPT ![i] = TRUE]
  /\ popStat' = [popStat EXCEPT ![i] = Req.stat]
  /\ Passes(i, <<>>)
  /\ UNCHANGED <<run, gipc, jobs, closes, seconds>>

\* A partner is taken for new only when none was known.
Logon(i) ==
  /\ Handles(i, "LOGON") /\ Head(queue).by \in Partners(i) /\ ~present[i]
  /\ present' = [present EXCEPT ![i] = TRUE]
  /\ popStat' = [popStat EXCEPT ![i] = Req.stat]
  /\ gipc' = [gipc EXCEPT ![Ref] = Request(Copies(Req.from), i, 0, OwnStat(i))]
  /\ Passes(i, <<Msg("LOGON", i, Ref)>>)
  /\ UNCHANGED <<run, jobs, closes, seconds>>

\* The address of pop_stat is kept.
LogoffKeepsStat(i) ==
  /\ Handles(i, "LOGOFF") /\ Head(queue).by \in Partners(i) /\ present[i]
  /\ present' = [present EXCEPT ![i] = FALSE]
  /\ Passes(i, <<>>)
  /\ UNCHANGED <<run, popStat, gipc, jobs, closes, seconds>>

Logoff(i) ==
  /\ Handles(i, "LOGOFF") /\ Head(queue).by \in Partners(i) /\ present[i]
  /\ present' = [present EXCEPT ![i] = FALSE]
  /\ popStat' = [popStat EXCEPT ![i] = None]
  /\ Passes(i, <<>>)
  /\ UNCHANGED <<run, gipc, jobs, closes, seconds>>

\* Only the instance that asks is counted.
CountsItself(i) ==
  /\ Handles(i, "CHECK_DOUBLERUN")
  /\ gipc' = [gipc EXCEPT ![Ref].data = IF Req.from = i THEN @ + 1 ELSE @]
  /\ jobs' = IF Req.from = i THEN Append(jobs, [what |-> "CheckDoubleRun", who |-> i])
                             ELSE jobs
  /\ Passes(i, <<>>)
  /\ UNCHANGED <<run, present, popStat, closes, seconds>>

\* Each copy adds one; the one that has asked has the sum looked at.
CountsCopies(i) ==
  /\ Handles(i, "CHECK_DOUBLERUN")
  /\ gipc' = [gipc EXCEPT ![Ref].data = @ + 1]
  /\ jobs' = IF Req.from = i THEN Append(jobs, [what |-> "CheckDoubleRun", who |-> i])
                             ELSE jobs
  /\ Passes(i, <<>>)
  /\ UNCHANGED <<run, present, popStat, closes, seconds>>

\* Not for this program, or nothing new to it.
Ignores(i) ==
  /\ i \in todo
  /\ ~Handles(i, "CHECK_DOUBLERUN")
  /\ ~(Handles(i, "LOGON") /\ Head(queue).by \in Partners(i) /\ ~present[i])
  /\ ~(Handles(i, "LOGOFF") /\ Head(queue).by \in Partners(i) /\ present[i])
  /\ Passes(i, <<>>)
  /\ UNCHANGED <<run, present, popStat, gipc, jobs, closes, seconds>>

-----------------------------------------------------------------------------
Init ==
  /\ run = [i \in Inst |-> "off"] /\ present = [i \in Inst |-> FALSE]
  /\ popStat = [i \in Inst |-> None]
  /\ gipc = [i \in Inst |-> Request({}, i, 0, None)]
  /\ queue = <<>> /\ todo = {} /\ jobs = <<>>
  /\ closes = 0 /\ seconds = 0

maincsm_onmessage(i) == Logon(i) \/ Logoff(i) \/ CountsCopies(i) \/ Ignores(i)

Next ==
  \/ TakesMessage
  \/ \E i \in Inst :
       \/ Starts(i) \/ UserCloses(i) \/ CheckDoubleRun(i) \/ ElfKiller(i)
       \/ maincsm_onmessage(i)

Spec == Init /\ [][Next]_vars

\* Messages are read, and handed to every program.
FairSpec == Spec /\ WF_vars(TakesMessage \/ \E i \in Inst : maincsm_onmessage(i))

-----------------------------------------------------------------------------
\* "Is the daemon active" (MailViewer/main.c:162), "is the viewer active"
\* (MailDaemon/main.c:12): when all has been said, a program that runs believes
\* that its partner is there exactly when it is, and the viewer looks at the
\* pop_stat of the daemon that runs.
PresenceTrue ==
  Quiet => \A i \in On(Inst) :
    /\ present[i] <=> On(Partners(i)) # {}
    /\ i \in Viewers /\ present[i] => popStat[i] \in On(Daemons)

\* That is so as long as no second copy is started, which would log off for the
\* first one (MailDaemon/main.c:805-821, 1026).
PresenceOfOne == seconds = 0 => PresenceTrue

\* The viewer never looks at the pop_stat of a daemon whose memory has been
\* given back, not even while messages are on their way.
PopStatAlive ==
  \A v \in On(Viewers) : popStat[v] # None => run[popStat[v]] # "gone"

\* No message is read from the memory of a program that is gone.
NoDangling == todo # {} => run[Ref] # "gone"

\* A second copy ends itself, and the first one stays (main.c:805-821): when
\* all has been said one copy of each program that was started is left.
OneStays ==
  Quiet => \A insts \in {Daemons, Viewers} :
    /\ Cardinality(On(insts)) <= 1
    /\ closes = 0 /\ (\E i \in insts : run[i] # "off") => On(insts) # {}

\* The two programs stop greeting each other: an answer to a LOGON is itself a
\* LOGON (MailDaemon/main.c:842-851, MailViewer/main.c:2728-2738).
GreetingsEnd == <>[](todo = {} /\ queue = <<>>)
=============================================================================
