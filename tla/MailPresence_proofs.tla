------------------------ MODULE MailPresence_proofs ------------------------
(***************************************************************************)
(* What the daemon and the viewer read and believe of each other, for any  *)
(* number of starts, closings and second copies: no message is read from a *)
(* program that is gone, and no viewer looks at the pop_stat of one; what  *)
(* each believes of the other comes true; one copy of each stays.          *)
(*                                                                         *)
(* The first rests on the order of what HELPER does (MemInv): a program is *)
(* given back only when all messages have been read, and has then nothing  *)
(* left to do.  The second holds if no program is closed while its gipc is *)
(* in use (Lasts).  Then there is one question for copies of each start    *)
(* (AskedInv, CountedInv), the gipc of a closed program says goodbye and   *)
(* nothing else (FarewellInv), and a LOGON that names a closed daemon is   *)
(* in front of its LOGOFF (StatInv), so that a viewer that looks at a      *)
(* closed daemon is still going to hear of it (PopInv).                    *)
(*                                                                         *)
(* While there is one copy of each, every gipc says what the last message  *)
(* in it says (SaysInv), and what a program does not know of its partner   *)
(* is on its way or will be (OneInv).  Of two copies the one started later *)
(* counts the other, which stays (CopyInv).                                *)
(***************************************************************************)
EXTENDS MailPresence, SequenceTheorems, FiniteSetTheorems, TLAPS

-----------------------------------------------------------------------------
Requests == [to : SUBSET Inst, from : Inst, data : Nat, stat : Daemons \cup {None}]
Messages == [sub : {"CHECK_DOUBLERUN", "LOGON", "LOGOFF"}, by : Inst, ref : Inst]
Jobs     == [what : {"CheckDoubleRun", "ElfKiller"}, who : Inst]

TypeOK ==
  /\ run \in [Inst -> {"off", "on", "closed", "gone"}] /\ present \in [Inst -> BOOLEAN]
  /\ popStat \in [Inst -> Daemons \cup {None}] /\ gipc \in [Inst -> Requests]
  /\ queue \in Seq(Messages) /\ todo \subseteq Inst /\ jobs \in Seq(Jobs)
  /\ closes \in Nat /\ seconds \in Nat

Here(i) == run[i] \in {"on", "closed"}

Refs == \A k \in DOMAIN queue : Here(queue[k].ref)

\* Jobs q are of programs that r has in memory, and no job of a program is behind the
\* one that gives it back.
InOrder(q, r) ==
  /\ \A k \in DOMAIN q : r[q[k].who] \in {"on", "closed"}
  /\ \A k \in DOMAIN q : q[k].what = "ElfKiller" => r[q[k].who] = "closed"
  /\ \A k, l \in DOMAIN q : q[k].what = "ElfKiller" /\ q[l].who = q[k].who => l <= k

\* The programs that a message is handed to and those that it is read from are
\* in memory.
MemInv ==
  /\ todo # {} => queue # <<>>
  /\ \A i \in todo : run[i] = "on"
  /\ Refs
  /\ InOrder(jobs, run)

-----------------------------------------------------------------------------
(* Sequences.                                                              *)

LEMMA Added ==
  ASSUME NEW S, NEW q \in Seq(S), NEW e \in S
  PROVE  /\ Append(q, e) \in Seq(S) /\ Len(Append(q, e)) = Len(q) + 1 /\ Len(q) \in Nat
         /\ DOMAIN q = 1..Len(q) /\ DOMAIN Append(q, e) = 1..(Len(q) + 1)
         /\ \A i \in 1..Len(q) : Append(q, e)[i] = q[i] /\ q[i] \in S
         /\ Append(q, e)[Len(q) + 1] = e
  OBVIOUS

LEMMA Taken ==
  ASSUME NEW S, NEW q \in Seq(S), q # <<>>
  PROVE  /\ Tail(q) \in Seq(S) /\ Len(Tail(q)) = Len(q) - 1
         /\ Len(q) \in Nat \ {0} /\ Head(q) = q[1] /\ Head(q) \in S
         /\ DOMAIN q = 1..Len(q) /\ DOMAIN Tail(q) = 1..(Len(q) - 1)
         /\ \A i \in 1..(Len(q) - 1) : Tail(q)[i] = q[i + 1]
         /\ \A i \in 1..Len(q) : q[i] \in S
  OBVIOUS

\* The messages move up if all programs have had the first one.
Moves(s) ==
  /\ s = 0 <=> todo' # {}
  /\ \A k \in 1..(Len(queue) - s) : queue'[k] = queue[k + s]

QueueIs ==
  /\ queue \in Seq(Messages) /\ Len(queue) \in Nat \ {0} /\ Head(queue) = queue[1]
  /\ DOMAIN queue = 1..Len(queue) /\ \A k \in DOMAIN queue : queue[k] \in Messages

LEMMA QueueIsSeq ==
  ASSUME TypeOK, queue # <<>>
  PROVE  QueueIs
  BY Taken DEF TypeOK, QueueIs

LEMMA Moved ==
  ASSUME TypeOK, queue # <<>>, NEW i \in todo
  PROVE  LET s == IF todo = {i} THEN 1 ELSE 0
             q == IF todo = {i} THEN Tail(queue) ELSE queue
         IN  /\ s \in {0, 1} /\ (s = 0 <=> todo \ {i} # {})
             /\ q \in Seq(Messages) /\ Len(q) = Len(queue) - s /\ DOMAIN q = 1..Len(q)
             /\ \A k \in 1..(Len(queue) - s) : q[k] = queue[k + s]
  BY Taken DEF TypeOK

\* One program after the other gets the first message, without an answer.
LEMMA Passed ==
  ASSUME TypeOK, queue # <<>>, NEW i \in todo, Passes(i, <<>>)
  PROVE  /\ todo' = todo \ {i} /\ queue' \in Seq(Messages) /\ QueueIs
         /\ DOMAIN queue' = 1..Len(queue')
         /\ \E s \in {0, 1} : Moves(s) /\ Len(queue') = Len(queue) - s
<1> DEFINE q == IF todo = {i} THEN Tail(queue) ELSE queue
           s == IF todo = {i} THEN 1 ELSE 0
<1>1. /\ s \in {0, 1} /\ (s = 0 <=> todo \ {i} # {})
      /\ q \in Seq(Messages) /\ Len(q) = Len(queue) - s /\ DOMAIN q = 1..Len(q)
      /\ \A k \in 1..(Len(queue) - s) : q[k] = queue[k + s]
  BY Moved
<1>2. queue' = q \o <<>> /\ todo' = todo \ {i}
  BY DEF Passes
<1> HIDE DEF q, s
<1>3. queue' = q
  BY <1>1, <1>2
<1>4. Moves(s)
  BY <1>1, <1>2, <1>3 DEF Moves
<1>5. /\ queue' \in Seq(Messages) /\ Len(queue') = Len(queue) - s
      /\ DOMAIN queue' = 1..Len(queue')
  BY <1>1, <1>3
<1> QED
  BY <1>1, <1>2, <1>4, <1>5, QueueIsSeq

\* With an answer, which is put at the end.
LEMMA PassedWith ==
  ASSUME TypeOK, queue # <<>>, NEW i \in todo, NEW m \in Messages, Passes(i, <<m>>)
  PROVE  /\ todo' = todo \ {i} /\ queue' \in Seq(Messages) /\ QueueIs
         /\ DOMAIN queue' = 1..Len(queue')
         /\ \E s \in {0, 1} : /\ Moves(s) /\ Len(queue') = Len(queue) - s + 1
                              /\ queue'[Len(queue')] = m
<1> DEFINE q == IF todo = {i} THEN Tail(queue) ELSE queue
           s == IF todo = {i} THEN 1 ELSE 0
<1>1. /\ s \in {0, 1} /\ (s = 0 <=> todo \ {i} # {})
      /\ q \in Seq(Messages) /\ Len(q) = Len(queue) - s /\ DOMAIN q = 1..Len(q)
      /\ \A k \in 1..(Len(queue) - s) : q[k] = queue[k + s]
  BY Moved
<1>2. queue' = q \o <<m>> /\ todo' = todo \ {i}
  BY DEF Passes
<1> HIDE DEF q, s
<1>3. queue' = Append(q, m)
  BY <1>1, <1>2
<1>4. /\ queue' \in Seq(Messages) /\ Len(queue') = Len(queue) - s + 1
      /\ \A k \in 1..(Len(queue) - s) : queue'[k] = queue[k + s]
      /\ queue'[Len(queue')] = m /\ DOMAIN queue' = 1..Len(queue')
  BY <1>1, <1>3, Added
<1>5. Moves(s)
  BY <1>1, <1>2, <1>4 DEF Moves
<1> QED
  BY <1>1, <1>2, <1>4, <1>5, QueueIsSeq

-----------------------------------------------------------------------------
(* Types.                                                                  *)

LEMMA OwnStatIs == \A i \in Inst : OwnStat(i) \in Daemons \cup {None}
  BY DEF OwnStat

LEMMA RequestIs ==
  ASSUME NEW i \in Inst, NEW to \in SUBSET Inst, NEW stat \in Daemons \cup {None}
  PROVE  Request(to, i, 0, stat) \in Requests
  BY DEF Request, Requests

LEMMA CopiesAre == \A i \in Inst : Copies(i) \in SUBSET Inst /\ Partners(i) \in SUBSET Inst
  BY DEF Copies, Partners, Inst

LEMMA MessageIs ==
  ASSUME NEW sub \in {"CHECK_DOUBLERUN", "LOGON", "LOGOFF"}, NEW i \in Inst, NEW r \in Inst
  PROVE  Msg(sub, i, r) \in Messages /\ Msg(sub, i, r) = [sub |-> sub, by |-> i, ref |-> r]
  BY DEF Msg, Messages

LEMMA RefIs ==
  ASSUME TypeOK, queue # <<>>
  PROVE  Ref \in Inst /\ Req \in Requests /\ Req.from \in Inst
<1>1. Head(queue) \in Messages
  BY Taken DEF TypeOK
<1>2. Ref \in Inst
  BY <1>1 DEF Ref, Messages
<1>3. Req \in Requests
  BY <1>2 DEF Req, TypeOK
<1> QED
  BY <1>2, <1>3 DEF Requests

LEMMA InitTypes == Init => TypeOK
<1> SUFFICES ASSUME Init PROVE TypeOK
  OBVIOUS
<1>1. gipc \in [Inst -> Requests]
  BY RequestIs DEF Init
<1> QED
  BY <1>1 DEF Init, TypeOK

LEMMA ClosesTypes ==
  ASSUME TypeOK, NEW i \in Inst, maincsm_onclose(i)
  PROVE  /\ run' \in [Inst -> {"off", "on", "closed", "gone"}]
         /\ gipc' \in [Inst -> Requests] /\ queue' \in Seq(Messages)
<1>1. Request(Partners(i), i, 0, None) \in Requests
  BY RequestIs, CopiesAre
<1>2. queue' \in Seq(Messages)
  BY MessageIs, Added DEF maincsm_onclose, TypeOK
<1> QED
  BY <1>1, <1>2 DEF maincsm_onclose, TypeOK

LEMMA JobIs ==
  ASSUME NEW what \in {"CheckDoubleRun", "ElfKiller"}, NEW i \in Inst
  PROVE  [what |-> what, who |-> i] \in Jobs
  BY DEF Jobs

LEMMA WhoIs ==
  ASSUME NEW q \in Seq(Jobs)
  PROVE  \A k \in DOMAIN q : q[k].who \in Inst
<1>1. \A k \in DOMAIN q : q[k] \in Jobs
  OBVIOUS
<1> QED
  BY <1>1 DEF Jobs

LEMMA StepTypes ==
  ASSUME TypeOK, todo # {} => queue # <<>>, [Next]_vars
  PROVE  TypeOK'
<1>1. CASE TakesMessage
  <2>1. Tail(queue) \in Seq(Messages) /\ On(Inst) \subseteq Inst
    BY <1>1, Taken DEF TakesMessage, TypeOK, On
  <2> QED
    BY <1>1, <2>1 DEF TakesMessage, TypeOK
<1>2. ASSUME NEW i \in Inst, Starts(i)
      PROVE  TypeOK'
  <2>1. gipc' \in [Inst -> Requests]
    BY <1>2, RequestIs, CopiesAre DEF Starts, TypeOK
  <2>2. queue' \in Seq(Messages)
    BY <1>2, MessageIs, Added DEF Starts, TypeOK
  <2>3. seconds' \in Nat /\ run' \in [Inst -> {"off", "on", "closed", "gone"}]
    BY <1>2 DEF Starts, TypeOK
  <2> QED
    BY <1>2, <2>1, <2>2, <2>3 DEF Starts, TypeOK
<1>3. ASSUME NEW i \in Inst, UserCloses(i)
      PROVE  TypeOK'
  <2>1. jobs' \in Seq(Jobs)
    BY <1>3, JobIs, Added DEF UserCloses, ElfKillerAsked, TypeOK
  <2>2. closes' \in Nat
    BY <1>3 DEF UserCloses, TypeOK
  <2> QED
    BY <1>3, <2>1, <2>2, ClosesTypes DEF UserCloses, TypeOK
<1>4. ASSUME NEW i \in Inst, SecondCopy(i)
      PROVE  TypeOK'
  <2>1. Tail(jobs) \in Seq(Jobs)
    BY <1>4, Taken DEF SecondCopy, HelperRuns, TypeOK
  <2>2. CASE run[i] = "on"
    <3>1. jobs' \in Seq(Jobs)
      BY <1>4, <2>1, <2>2, JobIs, Added DEF SecondCopy
    <3>2. maincsm_onclose(i)
      BY <1>4, <2>2 DEF SecondCopy
    <3> QED
      BY <1>4, <3>1, <3>2, ClosesTypes DEF SecondCopy, TypeOK
  <2>3. CASE run[i] # "on"
    BY <1>4, <2>1, <2>3 DEF SecondCopy, TypeOK
  <2> QED
    BY <2>2, <2>3
<1>5. ASSUME NEW i \in Inst, LogsOn(i)
      PROVE  TypeOK'
  <2>1. Tail(jobs) \in Seq(Jobs)
    BY <1>5, Taken DEF LogsOn, HelperRuns, TypeOK
  <2>2. gipc' \in [Inst -> Requests]
    BY <1>5, RequestIs, CopiesAre, OwnStatIs DEF LogsOn, TypeOK
  <2>3. queue' \in Seq(Messages)
    BY <1>5, MessageIs, Added DEF LogsOn, TypeOK
  <2> QED
    BY <1>5, <2>1, <2>2, <2>3 DEF LogsOn, TypeOK
<1>6. ASSUME NEW i \in Inst, ElfKiller(i)
      PROVE  TypeOK'
  BY <1>6, Taken DEF ElfKiller, HelperRuns, TypeOK
<1>7. ASSUME NEW i \in Inst, Logon(i)
      PROVE  TypeOK'
  <2>1. i \in todo /\ queue # <<>>
    BY <1>7 DEF Logon, Handles
  <2>2. Msg("LOGON", i, Ref) \in Messages
    BY <2>1, MessageIs, RefIs
  <2>3. queue' \in Seq(Messages) /\ todo' = todo \ {i}
    BY <1>7, <2>1, <2>2, PassedWith DEF Logon
  <2>4. /\ gipc' \in [Inst -> Requests] /\ popStat' \in [Inst -> Daemons \cup {None}]
        /\ present' \in [Inst -> BOOLEAN]
    <3>1. Request(Copies(Req.from), i, 0, OwnStat(i)) \in Requests
      BY <2>1, RefIs, RequestIs, CopiesAre, OwnStatIs
    <3>2. Req.stat \in Daemons \cup {None}
      BY <2>1, RefIs DEF Requests
    <3> QED
      BY <1>7, <3>1, <3>2 DEF Logon, TypeOK
  <2> QED
    BY <1>7, <2>3, <2>4 DEF Logon, TypeOK
<1>8. ASSUME NEW i \in Inst, Logoff(i)
      PROVE  TypeOK'
  <2>1. i \in todo /\ queue # <<>>
    BY <1>8 DEF Logoff, Handles
  <2>2. queue' \in Seq(Messages) /\ todo' = todo \ {i}
    BY <1>8, <2>1, Passed DEF Logoff
  <2>3. popStat' \in [Inst -> Daemons \cup {None}] /\ present' \in [Inst -> BOOLEAN]
    BY <1>8 DEF Logoff, TypeOK
  <2> QED
    BY <1>8, <2>2, <2>3 DEF Logoff, TypeOK
<1>9. ASSUME NEW i \in Inst, CountsCopies(i)
      PROVE  TypeOK'
  <2>1. i \in todo /\ queue # <<>>
    BY <1>9 DEF CountsCopies, Handles
  <2>2. queue' \in Seq(Messages) /\ todo' = todo \ {i}
    BY <1>9, <2>1, Passed DEF CountsCopies
  <2>3. gipc' \in [Inst -> Requests]
    <3>1. [gipc[Ref] EXCEPT !.data = @ + 1] \in Requests
      BY <2>1, RefIs DEF Req, Requests
    <3> QED
      BY <1>9, <3>1 DEF CountsCopies, TypeOK
  <2>4. jobs' \in Seq(Jobs)
    BY <1>9, JobIs, Added DEF CountsCopies, TypeOK
  <2> QED
    BY <1>9, <2>2, <2>3, <2>4 DEF CountsCopies, TypeOK
<1>10. ASSUME NEW i \in Inst, Ignores(i)
       PROVE  TypeOK'
  <2>1. i \in todo /\ queue # <<>>
    BY <1>10 DEF Ignores
  <2>2. queue' \in Seq(Messages) /\ todo' = todo \ {i}
    BY <1>10, <2>1, Passed DEF Ignores
  <2> QED
    BY <1>10, <2>2 DEF Ignores, TypeOK
<1>11. CASE UNCHANGED vars
  BY <1>11 DEF vars, TypeOK
<1> QED
  BY <1>1, <1>2, <1>3, <1>4, <1>5, <1>6, <1>7, <1>8, <1>9, <1>10, <1>11
     DEF Next, CheckDoubleRun, maincsm_onmessage

-----------------------------------------------------------------------------
(* Messages and jobs are of programs in memory.                            *)

LEMMA JobTaken ==
  ASSUME NEW q \in Seq(Jobs), NEW r, q # <<>>, InOrder(q, r)
  PROVE  /\ InOrder(Tail(q), r) /\ Tail(q) \in Seq(Jobs)
         /\ r[Head(q).who] \in {"on", "closed"}
         /\ Head(q).what = "ElfKiller" =>
              \A k \in DOMAIN Tail(q) : Tail(q)[k].who # Head(q).who
<1>1. /\ Tail(q) \in Seq(Jobs) /\ Len(q) \in Nat \ {0} /\ Head(q) = q[1]
      /\ DOMAIN q = 1..Len(q) /\ DOMAIN Tail(q) = 1..(Len(q) - 1)
      /\ \A i \in 1..(Len(q) - 1) : Tail(q)[i] = q[i + 1]
  BY Taken
<1>2. \A k \in DOMAIN Tail(q) : /\ Tail(q)[k] = q[k + 1]
                                /\ k + 1 \in DOMAIN q /\ k \in Nat /\ ~(k + 1 <= 1)
  BY <1>1
<1>3. 1 \in DOMAIN q
  BY <1>1
<1>4. InOrder(Tail(q), r)
  BY <1>1, <1>2 DEF InOrder
<1>5. Head(q).what = "ElfKiller" => \A k \in DOMAIN Tail(q) : Tail(q)[k].who # Head(q).who
  BY <1>1, <1>2, <1>3 DEF InOrder
<1> QED
  BY <1>1, <1>3, <1>4, <1>5 DEF InOrder

LEMMA CheckAppended ==
  ASSUME NEW q \in Seq(Jobs), NEW r, InOrder(q, r), NEW i \in Inst, r[i] = "on"
  PROVE  InOrder(Append(q, [what |-> "CheckDoubleRun", who |-> i]), r)
<1> DEFINE e == [what |-> "CheckDoubleRun", who |-> i]
           p == Append(q, e)
<1>1. e \in Jobs /\ e.what = "CheckDoubleRun" /\ e.who = i
  BY JobIs
<1> HIDE DEF e
<1>2. /\ DOMAIN q = 1..Len(q) /\ DOMAIN p = 1..(Len(q) + 1) /\ Len(q) \in Nat
      /\ \A k \in 1..Len(q) : p[k] = q[k]
      /\ p[Len(q) + 1] = e
  BY <1>1, Added
<1> HIDE DEF p
<1> QED
  <2>1. InOrder(p, r)
    BY <1>1, <1>2 DEF InOrder
  <2> QED
    BY <2>1 DEF p, e

LEMMA KillerAppended ==
  ASSUME NEW q \in Seq(Jobs), NEW r \in [Inst -> {"off", "on", "closed", "gone"}],
         InOrder(q, r), NEW i \in Inst, r[i] = "on"
  PROVE  InOrder(Append(q, [what |-> "ElfKiller", who |-> i]), [r EXCEPT ![i] = "closed"])
<1> DEFINE e == [what |-> "ElfKiller", who |-> i]
           p == Append(q, e)
           s == [r EXCEPT ![i] = "closed"]
<1>1. e \in Jobs /\ e.what = "ElfKiller" /\ e.who = i
  BY JobIs
<1>2. s[i] = "closed" /\ \A j \in Inst : j # i => s[j] = r[j]
  OBVIOUS
<1> HIDE DEF e, s
<1>3. /\ DOMAIN q = 1..Len(q) /\ DOMAIN p = 1..(Len(q) + 1) /\ Len(q) \in Nat
      /\ \A k \in 1..Len(q) : p[k] = q[k] /\ q[k].who \in Inst
      /\ p[Len(q) + 1] = e
  BY <1>1, Added, WhoIs
<1> HIDE DEF p
<1>4. \A k \in 1..Len(q) : /\ r[q[k].who] \in {"on", "closed"}
                           /\ q[k].what = "ElfKiller" => r[q[k].who] = "closed"
                           /\ s[q[k].who] \in {"on", "closed"}
                           /\ r[q[k].who] = "closed" => s[q[k].who] = "closed"
  BY <1>2, <1>3 DEF InOrder
<1>5. \A k \in 1..Len(q) : q[k].what = "ElfKiller" => q[k].who # i
  BY <1>4
<1>6. InOrder(p, s)
  <2>1. \A k \in DOMAIN p : s[p[k].who] \in {"on", "closed"}
    BY <1>1, <1>2, <1>3, <1>4
  <2>2. \A k \in DOMAIN p : p[k].what = "ElfKiller" => s[p[k].who] = "closed"
    BY <1>1, <1>2, <1>3, <1>4
  <2>3. \A k, l \in DOMAIN p : p[k].what = "ElfKiller" /\ p[l].who = p[k].who => l <= k
    BY <1>1, <1>3, <1>5 DEF InOrder
  <2> QED
    BY <2>1, <2>2, <2>3 DEF InOrder
<1> QED
  BY <1>6 DEF p, e, s

\* A message by i, whose program is in memory.
LEMMA MessageAppended ==
  ASSUME TypeOK, MemInv, NEW sub \in {"CHECK_DOUBLERUN", "LOGON", "LOGOFF"}, NEW i \in Inst,
         queue' = Append(queue, Msg(sub, i, i)), run'[i] \in {"on", "closed"},
         \A j \in Inst : Here(j) => Here(j)'
  PROVE  Refs' /\ queue' # <<>>
<1>1. Msg(sub, i, i) \in Messages /\ Msg(sub, i, i).ref = i
  BY MessageIs
<1>2. /\ DOMAIN queue = 1..Len(queue) /\ DOMAIN queue' = 1..(Len(queue) + 1)
      /\ Len(queue') = Len(queue) + 1 /\ Len(queue) \in Nat
      /\ \A k \in 1..Len(queue) : queue'[k] = queue[k] /\ queue[k] \in Messages
      /\ queue'[Len(queue) + 1] = Msg(sub, i, i)
  BY <1>1, Added DEF TypeOK
<1>3. \A k \in 1..Len(queue) : Here(queue[k].ref)'
  <2>1. \A k \in 1..Len(queue) : Here(queue[k].ref) /\ queue[k].ref \in Inst
    BY <1>2 DEF MemInv, Refs, Messages
  <2> QED
    BY <2>1
<1>4. Refs'
  BY <1>1, <1>2, <1>3 DEF Here, Refs
<1> QED
  BY <1>2, <1>4

LEMMA PassedMem ==
  ASSUME TypeOK, MemInv, NEW i \in todo, UNCHANGED run,
         \/ Passes(i, <<>>)
         \/ \E m \in Messages : Passes(i, <<m>>) /\ Here(m.ref)
  PROVE  (todo' # {} => queue' # <<>>) /\ (\A j \in todo' : run'[j] = "on") /\ Refs'
<1>1. queue # <<>>
  BY DEF MemInv
<1>2. /\ todo' = todo \ {i} /\ queue' \in Seq(Messages) /\ QueueIs
      /\ DOMAIN queue' = 1..Len(queue')
      /\ \E s \in {0, 1} :
           /\ Moves(s) /\ Len(queue') >= Len(queue) - s
           /\ \A k \in DOMAIN queue' : k > Len(queue) - s => Here(queue'[k].ref)
  <2>1. CASE Passes(i, <<>>)
    <3>1. /\ todo' = todo \ {i} /\ queue' \in Seq(Messages) /\ QueueIs
          /\ DOMAIN queue' = 1..Len(queue')
          /\ \E s \in {0, 1} : Moves(s) /\ Len(queue') = Len(queue) - s
      BY <1>1, <2>1, Passed
    <3> QED
      BY <3>1 DEF QueueIs
  <2>2. ASSUME NEW m \in Messages, Passes(i, <<m>>), Here(m.ref)
        PROVE  <1>2!:
    <3>1. /\ todo' = todo \ {i} /\ queue' \in Seq(Messages) /\ QueueIs
          /\ DOMAIN queue' = 1..Len(queue')
          /\ \E s \in {0, 1} : /\ Moves(s) /\ Len(queue') = Len(queue) - s + 1
                               /\ queue'[Len(queue')] = m
      BY <1>1, <2>2, PassedWith
    <3> QED
      BY <2>2, <3>1 DEF QueueIs
  <2> QED
    BY <2>1, <2>2
<1>3. PICK s \in {0, 1} :
        /\ Moves(s) /\ Len(queue') >= Len(queue) - s
        /\ \A k \in DOMAIN queue' : k > Len(queue) - s => Here(queue'[k].ref)
  BY <1>2
<1>4. todo' # {} => queue' # <<>>
  BY <1>2, <1>3 DEF Moves, QueueIs
<1>5. \A j \in todo' : run'[j] = "on"
  BY <1>2 DEF MemInv
<1>6. ASSUME NEW k \in DOMAIN queue'
      PROVE  Here(queue'[k].ref)
  <2>1. CASE k <= Len(queue) - s
    <3>1. k + s \in DOMAIN queue /\ queue'[k] = queue[k + s]
      BY <1>2, <1>3, <2>1 DEF Moves, QueueIs
    <3> QED
      BY <3>1 DEF MemInv, Refs
  <2>2. CASE k > Len(queue) - s
    BY <1>3, <2>2
  <2> QED
    BY <1>2, <2>1, <2>2 DEF QueueIs
<1>7. Refs'
  BY <1>6 DEF Refs, Here
<1> QED
  BY <1>4, <1>5, <1>7

LEMMA StepMem ==
  ASSUME TypeOK, MemInv, [Next]_vars
  PROVE  MemInv'
<1>1. CASE TakesMessage
  <2>1. CASE On(Inst) = {}
    <3>1. \A k \in DOMAIN queue' : \E l \in DOMAIN queue : queue'[k] = queue[l]
      <4>1. /\ queue' = Tail(queue) /\ queue # <<>>
        BY <1>1, <2>1 DEF TakesMessage
      <4>2. /\ Len(queue) \in Nat \ {0} /\ DOMAIN queue = 1..Len(queue)
            /\ DOMAIN queue' = 1..(Len(queue) - 1)
            /\ \A k \in 1..(Len(queue) - 1) : queue'[k] = queue[k + 1]
        BY <4>1, Taken DEF TypeOK
      <4> QED
        BY <4>2
    <3> QED
      BY <1>1, <2>1, <3>1 DEF TakesMessage, MemInv, Refs, Here
  <2>2. CASE On(Inst) # {}
    BY <1>1, <2>2 DEF TakesMessage, MemInv, Refs, Here, On
  <2> QED
    BY <2>1, <2>2
<1>2. ASSUME NEW i \in Inst, Starts(i)
      PROVE  MemInv'
  <2>1. /\ run[i] = "off" /\ run'[i] = "on" /\ todo = {} /\ todo' = todo /\ jobs' = jobs
        /\ \A j \in Inst : j # i => run'[j] = run[j]
        /\ queue' = Append(queue, Msg("CHECK_DOUBLERUN", i, i))
    BY <1>2 DEF Starts, TypeOK
  <2>2. Refs' /\ queue' # <<>>
    <3>1. \A j \in Inst : Here(j) => Here(j)'
      BY <2>1 DEF Here
    <3> QED
      BY <2>1, <3>1, MessageAppended
  <2>3. InOrder(jobs', run')
    <3>1. \A k \in DOMAIN jobs : jobs[k].who \in Inst
      BY WhoIs DEF TypeOK
    <3> QED
      BY <2>1, <3>1 DEF MemInv, InOrder
  <2> QED
    BY <2>1, <2>2, <2>3 DEF MemInv
<1>3. ASSUME NEW i \in Inst, UserCloses(i)
      PROVE  MemInv'
  <2>1. /\ run[i] = "on" /\ run' = [run EXCEPT ![i] = "closed"] /\ todo = {} /\ todo' = todo
        /\ jobs' = Append(jobs, [what |-> "ElfKiller", who |-> i])
        /\ queue' = Append(queue, Msg("LOGOFF", i, i))
    BY <1>3 DEF UserCloses, maincsm_onclose, ElfKillerAsked
  <2>2. Refs' /\ queue' # <<>>
    <3>1. (\A j \in Inst : Here(j) => Here(j)') /\ run'[i] = "closed"
      BY <2>1 DEF Here, TypeOK
    <3> QED
      BY <2>1, <3>1, MessageAppended
  <2>3. InOrder(jobs', run')
    BY <2>1, KillerAppended DEF MemInv, TypeOK
  <2> QED
    BY <2>1, <2>2, <2>3 DEF MemInv
<1>4. ASSUME NEW i \in Inst, SecondCopy(i)
      PROVE  MemInv'
  <2>1. todo = {} /\ todo' = {} /\ jobs # <<>>
    BY <1>4 DEF SecondCopy, HelperRuns, Busy
  <2>2. InOrder(Tail(jobs), run) /\ Tail(jobs) \in Seq(Jobs)
    BY <2>1, JobTaken DEF MemInv, TypeOK
  <2>3. CASE run[i] = "on"
    <3>1. /\ run' = [run EXCEPT ![i] = "closed"]
          /\ jobs' = Append(Tail(jobs), [what |-> "ElfKiller", who |-> i])
          /\ queue' = Append(queue, Msg("LOGOFF", i, i))
      BY <1>4, <2>3 DEF SecondCopy, maincsm_onclose
    <3>2. Refs' /\ queue' # <<>>
      <4>1. (\A j \in Inst : Here(j) => Here(j)') /\ run'[i] = "closed"
        BY <2>3, <3>1 DEF Here, TypeOK
      <4> QED
        BY <3>1, <4>1, MessageAppended
    <3>3. InOrder(jobs', run')
      BY <2>2, <2>3, <3>1, KillerAppended DEF TypeOK
    <3> QED
      BY <2>1, <3>2, <3>3 DEF MemInv
  <2>4. CASE run[i] # "on"
    <3>1. UNCHANGED <<run, queue>> /\ jobs' = Tail(jobs)
      BY <1>4, <2>4 DEF SecondCopy
    <3> QED
      BY <2>1, <2>2, <3>1 DEF MemInv, Refs, Here
  <2> QED
    BY <2>3, <2>4
<1>5. ASSUME NEW i \in Inst, LogsOn(i)
      PROVE  MemInv'
  <2>1. /\ todo = {} /\ todo' = {} /\ jobs # <<>> /\ jobs' = Tail(jobs) /\ run' = run
        /\ Head(jobs).who = i /\ queue' = Append(queue, Msg("LOGON", i, i))
    BY <1>5 DEF LogsOn, HelperRuns, Busy
  <2>2. InOrder(jobs', run') /\ run[i] \in {"on", "closed"}
    BY <2>1, JobTaken DEF MemInv, TypeOK
  <2>3. Refs' /\ queue' # <<>>
    <3>1. \A j \in Inst : Here(j) => Here(j)'
      BY <2>1 DEF Here
    <3> QED
      BY <2>1, <2>2, <3>1, MessageAppended
  <2> QED
    BY <2>1, <2>2, <2>3 DEF MemInv
<1>6. ASSUME NEW i \in Inst, ElfKiller(i)
      PROVE  MemInv'
  <2>1. /\ todo = {} /\ queue = <<>> /\ todo' = {} /\ queue' = <<>> /\ jobs # <<>>
        /\ jobs' = Tail(jobs) /\ Head(jobs).what = "ElfKiller" /\ Head(jobs).who = i
        /\ \A j \in Inst : j # i => run'[j] = run[j]
    BY <1>6 DEF ElfKiller, HelperRuns, Busy, TypeOK
  <2>2. /\ InOrder(jobs', run) /\ \A k \in DOMAIN jobs' : jobs'[k].who # i
        /\ jobs' \in Seq(Jobs)
    BY <2>1, JobTaken DEF MemInv, TypeOK
  <2>3. InOrder(jobs', run')
    <3>1. \A k \in DOMAIN jobs' : jobs'[k].who \in Inst
      BY <2>2, WhoIs
    <3> QED
      BY <2>1, <2>2, <3>1 DEF InOrder
  <2>4. Refs'
    BY <2>1 DEF Refs
  <2> QED
    BY <2>1, <2>3, <2>4 DEF MemInv
<1>7. ASSUME NEW i \in Inst, Logon(i)
      PROVE  MemInv'
  <2>1. i \in todo /\ queue # <<>> /\ UNCHANGED <<run, jobs>>
    BY <1>7 DEF Logon, Handles, MemInv
  <2>2. Msg("LOGON", i, Ref) \in Messages /\ Here(Msg("LOGON", i, Ref).ref)
    <3>1. Msg("LOGON", i, Ref) \in Messages /\ Msg("LOGON", i, Ref).ref = Ref
      BY <2>1, MessageIs, RefIs
    <3>2. Here(Ref)
      BY <2>1, Taken DEF MemInv, Refs, Ref, TypeOK
    <3> QED
      BY <3>1, <3>2
  <2> QED
    BY <1>7, <2>1, <2>2, PassedMem DEF Logon, MemInv
<1>8. ASSUME NEW i \in todo, Passes(i, <<>>), UNCHANGED run,
             jobs' = jobs \/ jobs' = Append(jobs, [what |-> "CheckDoubleRun", who |-> i])
      PROVE  MemInv'
  <2>1. (todo' # {} => queue' # <<>>) /\ (\A j \in todo' : run'[j] = "on") /\ Refs'
    BY <1>8, PassedMem
  <2>2. InOrder(jobs', run')
    BY <1>8, CheckAppended DEF MemInv, TypeOK
  <2> QED
    BY <2>1, <2>2 DEF MemInv
<1>9. CASE UNCHANGED vars
  BY <1>9 DEF vars, MemInv, Refs, Here
<1> QED
  BY <1>1, <1>2, <1>3, <1>4, <1>5, <1>6, <1>7, <1>8, <1>9
     DEF Next, CheckDoubleRun, maincsm_onmessage, Logoff, CountsCopies, Ignores, Handles

LEMMA InitMem == Init => MemInv
  BY DEF Init, MemInv, Refs, InOrder

LEMMA MemInvariant == Spec => [](TypeOK /\ MemInv)
<1>1. Init => TypeOK /\ MemInv
  BY InitTypes, InitMem
<1>2. TypeOK /\ MemInv /\ [Next]_vars => (TypeOK /\ MemInv)'
  <2> SUFFICES ASSUME TypeOK, MemInv, [Next]_vars
               PROVE  TypeOK' /\ MemInv'
    OBVIOUS
  <2>1. todo # {} => queue # <<>>
    BY DEF MemInv
  <2> QED
    BY <2>1, StepTypes, StepMem
<1> QED
  BY <1>1, <1>2, PTL DEF Spec

\* No message is read from the memory of a program that has been given back
\* (MailDaemon/main.c:1012-1038, MailViewer/main.c:2660-2746), whether or not
\* programs are closed while their gipc is in use.
THEOREM NoDanglingAlways == Spec => []NoDangling
<1>1. TypeOK /\ MemInv => NoDangling
  <2> SUFFICES ASSUME TypeOK, MemInv, todo # {} PROVE run[Ref] # "gone"
    BY DEF NoDangling
  <2>1. queue # <<>>
    BY DEF MemInv
  <2> QED
    BY <2>1, Taken DEF MemInv, Refs, Ref, Here, TypeOK
<1> QED
  BY <1>1, MemInvariant, PTL

-----------------------------------------------------------------------------
(* No program is closed while its gipc is in use.                          *)

Check(i) == [what |-> "CheckDoubleRun", who |-> i]
Asks(k)  == queue[k].sub = "CHECK_DOUBLERUN"
Bye(k, d) == queue[k].sub = "LOGOFF" /\ queue[k].ref = d

\* The copies of a program that runs are asked for once, and counted once.
AskedInv ==
  /\ \A k \in DOMAIN queue : Asks(k) =>
       run[queue[k].ref] = "on" /\ gipc[queue[k].ref].from = queue[k].ref
  /\ \A k, l \in DOMAIN queue : Asks(k) /\ queue[l].ref = queue[k].ref => k = l
CountedInv ==
  /\ \A k \in DOMAIN jobs : jobs[k].what = "CheckDoubleRun" => run[jobs[k].who] = "on"
  /\ \A k, l \in DOMAIN jobs : jobs[k].what = "CheckDoubleRun" /\ jobs[l] = jobs[k] => k = l
  /\ \A k \in DOMAIN queue, l \in DOMAIN jobs :
       Asks(k) /\ jobs[l] = Check(queue[k].ref) =>
         k = 1 /\ todo # {} /\ queue[k].ref \notin todo

\* What a program that has been closed still says is LOGOFF, to its partners.
FarewellInv ==
  \A k \in DOMAIN queue :
    /\ queue[k].sub = "LOGOFF" => queue[k].by = queue[k].ref /\ run[queue[k].ref] = "closed"
    /\ run[queue[k].ref] = "closed" =>
         queue[k].sub = "LOGOFF" /\ gipc[queue[k].ref].to = Partners(queue[k].ref)

\* A LOGON that names a daemon is in front of the LOGOFF of that daemon.
Announced(k, d) ==
  run[d] = "on" \/ (run[d] = "closed" /\ \E l \in DOMAIN queue : l > k /\ Bye(l, d))
StatInv ==
  \A k \in DOMAIN queue : queue[k].sub = "LOGON" =>
    LET d == gipc[queue[k].ref].stat IN d # None => Announced(k, d)

\* A viewer that looks at a daemon that has been closed is going to hear of it.
Hears(v, d) ==
  \E k \in DOMAIN queue : Bye(k, d) /\ (k = 1 => todo = {} \/ v \in todo)
Looks(v, d) ==
  present[v] = TRUE /\ (run[v] = "on" => run[d] = "on" \/ (run[d] = "closed" /\ Hears(v, d)))
PopInv ==
  \A v \in Viewers :
    /\ run[v] = "off" => popStat[v] = None
    /\ popStat[v] # None => Looks(v, popStat[v])

LastsInv == AskedInv /\ CountedInv /\ FarewellInv /\ StatInv /\ PopInv

LEMMA Kinds ==
  /\ \A i \in Daemons : i \in Inst /\ OwnStat(i) = i /\ i # None
  /\ \A i \in Viewers : i \in Inst /\ OwnStat(i) = None /\ i \notin Daemons
  /\ \A i \in Inst : OwnStat(i) # None => OwnStat(i) = i
  /\ \A v \in Viewers, d \in Daemons : v \in Partners(d) /\ d \in Partners(v)
  BY InstanceAssumption DEF Inst, OwnStat, Partners, Copies

\* Program i says something of its own: its gipc is not in use, and is filled with g.
LEMMA SaysOwn ==
  ASSUME TypeOK, MemInv, AskedInv, FarewellInv, StatInv, PopInv, TypeOK',
         todo = {}, todo' = {}, UNCHANGED <<popStat, present>>,
         NEW i \in Inst, NEW sub \in {"CHECK_DOUBLERUN", "LOGON", "LOGOFF"},
         queue' = Append(queue, Msg(sub, i, i)),
         NEW g, gipc' = [gipc EXCEPT ![i] = g],
         \A k \in DOMAIN queue : queue[k].ref # i,
         \A j \in Inst : j # i => run'[j] = run[j],
         \/ sub = "LOGOFF" /\ run[i] = "on" /\ run'[i] = "closed" /\ g.to = Partners(i)
         \/ /\ sub # "LOGOFF" /\ run[i] \in {"off", "on"} /\ run'[i] = "on"
            /\ sub = "LOGON" => g.stat = OwnStat(i)
            /\ sub = "CHECK_DOUBLERUN" => g.from = i
  PROVE  AskedInv' /\ FarewellInv' /\ StatInv' /\ PopInv'
<1> DEFINE n == Len(queue) + 1
           m == Msg(sub, i, i)
<1>1. m \in Messages /\ m.sub = sub /\ m.by = i /\ m.ref = i
  BY MessageIs
<1> HIDE DEF m
<1>2. /\ DOMAIN queue = 1..Len(queue) /\ DOMAIN queue' = 1..n /\ Len(queue) \in Nat
      /\ \A k \in 1..Len(queue) : queue'[k] = queue[k] /\ queue[k] \in Messages
      /\ queue'[n] = m
  BY <1>1, Added DEF TypeOK, m
<1> HIDE DEF n
<1>3. /\ n \in DOMAIN queue' /\ DOMAIN queue \subseteq DOMAIN queue'
      /\ \A k \in DOMAIN queue' : k = n \/ k \in DOMAIN queue
      /\ \A k \in DOMAIN queue : n > k /\ k # n
      /\ \A k \in DOMAIN queue : queue'[k] = queue[k] /\ queue[k].ref \in Inst
  BY <1>2 DEF n, Messages
<1>4. /\ \A j \in Inst : j # i => gipc'[j] = gipc[j]
      /\ gipc'[i] = g
  BY DEF TypeOK
<1>5. \A k \in DOMAIN queue : /\ run'[queue[k].ref] = run[queue[k].ref]
                              /\ gipc'[queue[k].ref] = gipc[queue[k].ref]
  BY <1>3, <1>4
<1>6. AskedInv'
  BY <1>1, <1>2, <1>3, <1>4, <1>5 DEF AskedInv, Asks
<1>7. FarewellInv'
  BY <1>1, <1>2, <1>3, <1>4, <1>5 DEF FarewellInv
<1>8. \A k \in DOMAIN queue, d \in Daemons : Announced(k, d) => Announced(k, d)'
  <2> SUFFICES ASSUME NEW k \in DOMAIN queue, NEW d \in Daemons, Announced(k, d)
               PROVE  Announced(k, d)'
    OBVIOUS
  <2>1. CASE d = i
    <3>1. run[i] # "closed"
      OBVIOUS
    <3> QED
      BY <1>1, <1>2, <1>3, <2>1, <3>1 DEF Announced, Bye
  <2>2. CASE d # i
    BY <1>3, <2>2, Kinds DEF Announced, Bye
  <2> QED
    BY <2>1, <2>2
<1>9. StatInv'
  <2> SUFFICES ASSUME NEW k \in DOMAIN queue', queue'[k].sub = "LOGON",
                      gipc'[queue'[k].ref].stat # None
               PROVE  Announced(k, gipc[queue[k].ref].stat)'
    BY DEF StatInv
  <2>1. CASE k = n
    BY <1>1, <1>2, <1>4, <2>1, Kinds DEF Announced
  <2>2. CASE k \in DOMAIN queue
    <3> DEFINE d == gipc[queue[k].ref].stat
    <3>1. d \in Daemons /\ gipc'[queue'[k].ref].stat = d
      BY <1>3, <1>5, <2>2 DEF TypeOK, Requests
    <3>2. Announced(k, d)
      BY <1>3, <2>2, <3>1, Kinds DEF StatInv
    <3> HIDE DEF d
    <3> QED
      BY <1>8, <2>2, <3>1, <3>2
  <2> QED
    BY <1>3, <2>1, <2>2
<1>10. PopInv'
  <2> SUFFICES ASSUME NEW v \in Viewers
               PROVE  /\ run'[v] = "off" => popStat'[v] = None
                      /\ popStat'[v] # None => Looks(v, popStat[v])'
    BY DEF PopInv
  <2>1. run'[v] = "off" => popStat'[v] = None
    BY Kinds DEF PopInv
  <2>2. ASSUME popStat[v] # None
        PROVE  Looks(v, popStat[v])'
    <3>1. PICK d \in Daemons : d = popStat[v]
      BY <2>2, Kinds DEF TypeOK
    <3>2. popStat'[v] = d /\ Looks(v, d) /\ run[v] # "off" /\ v \in Inst
      BY <2>2, <3>1, Kinds DEF PopInv
    <3>3. Hears(v, d) => Hears(v, d)'
      BY <1>3 DEF Hears, Bye
    <3>4. CASE d = i
      <4>1. run[i] # "closed"
        OBVIOUS
      <4>2. run'[i] = "closed" => Hears(v, d)'
        BY <1>1, <1>2, <1>3, <3>4 DEF Hears, Bye
      <4> QED
        BY <3>2, <3>4, <4>1, <4>2, Kinds DEF Looks
    <3>5. CASE d # i
      BY <3>2, <3>3, <3>5, Kinds DEF Looks
    <3> QED
      BY <3>4, <3>5
  <2> QED
    BY <2>1, <2>2
<1> QED
  BY <1>6, <1>7, <1>9, <1>10

\* The queue after a message has been handed to i: what was in it moves up by s, and
\* the answer, if there is one, is behind it.
Shifted(s, i, answered) ==
  /\ todo' = todo \ {i}
  /\ s = 0 <=> todo' # {}
  /\ \A k \in DOMAIN queue' :
       \/ k + s \in DOMAIN queue /\ queue'[k] = queue[k + s]
       \/ /\ answered = TRUE /\ queue'[k] = Msg("LOGON", i, Ref)
          /\ (\A l \in DOMAIN queue : l < k + s) /\ \A l \in DOMAIN queue' : l <= k
  /\ answered = TRUE => \E k \in DOMAIN queue' :
       queue'[k] = Msg("LOGON", i, Ref) /\ \A l \in DOMAIN queue : l < k + s
  /\ \A k \in DOMAIN queue : k > s => k - s \in DOMAIN queue' /\ queue'[k - s] = queue[k]
  /\ 1 \in DOMAIN queue /\ Head(queue) = queue[1]
  /\ DOMAIN queue \subseteq Nat \ {0} /\ DOMAIN queue' \subseteq Nat \ {0}
  /\ \A k \in DOMAIN queue : queue[k] \in Messages /\ queue[k].ref \in Inst

LEMMA PassesShifts ==
  ASSUME TypeOK, MemInv, NEW i \in todo, NEW answered \in BOOLEAN,
         answered = FALSE => Passes(i, <<>>),
         answered = TRUE => Passes(i, <<Msg("LOGON", i, Ref)>>)
  PROVE  \E s \in {0, 1} : Shifted(s, i, answered)
<1>1. queue # <<>> /\ i \in Inst
  BY DEF MemInv, TypeOK
<1>2. QueueIs /\ \A k \in DOMAIN queue : queue[k].ref \in Inst
  BY <1>1, QueueIsSeq DEF QueueIs, Messages
<1>3. CASE answered = FALSE
  <2>1. /\ todo' = todo \ {i} /\ queue' \in Seq(Messages) /\ DOMAIN queue' = 1..Len(queue')
        /\ \E s \in {0, 1} : Moves(s) /\ Len(queue') = Len(queue) - s
    BY <1>1, <1>3, Passed
  <2>2. PICK s \in {0, 1} : Moves(s) /\ Len(queue') = Len(queue) - s
    BY <2>1
  <2>3. Shifted(s, i, answered)
    <3>1. /\ s = 0 <=> todo' # {}
          /\ 1 \in DOMAIN queue /\ Head(queue) = queue[1]
          /\ DOMAIN queue \subseteq Nat \ {0} /\ DOMAIN queue' \subseteq Nat \ {0}
          /\ \A k \in DOMAIN queue : queue[k] \in Messages /\ queue[k].ref \in Inst
      BY <1>2, <2>1, <2>2 DEF Moves, QueueIs
    <3>2. /\ \A k \in DOMAIN queue' : k + s \in DOMAIN queue /\ queue'[k] = queue[k + s]
          /\ \A k \in DOMAIN queue :
               k > s => k - s \in DOMAIN queue' /\ queue'[k - s] = queue[k]
      BY <1>2, <2>1, <2>2 DEF Moves, QueueIs
    <3> QED
      BY <1>3, <2>1, <3>1, <3>2 DEF Shifted
  <2> QED
    BY <2>3
<1>4. CASE answered = TRUE
  <2>1. Msg("LOGON", i, Ref) \in Messages
    BY <1>1, MessageIs, RefIs
  <2>2. /\ todo' = todo \ {i} /\ queue' \in Seq(Messages) /\ DOMAIN queue' = 1..Len(queue')
        /\ \E s \in {0, 1} : /\ Moves(s) /\ Len(queue') = Len(queue) - s + 1
                             /\ queue'[Len(queue')] = Msg("LOGON", i, Ref)
    BY <1>1, <1>4, <2>1, PassedWith
  <2>3. PICK s \in {0, 1} : /\ Moves(s) /\ Len(queue') = Len(queue) - s + 1
                            /\ queue'[Len(queue')] = Msg("LOGON", i, Ref)
    BY <2>2
  <2>4. \A k \in DOMAIN queue' :
          \/ k + s \in DOMAIN queue /\ queue'[k] = queue[k + s]
          \/ /\ queue'[k] = Msg("LOGON", i, Ref)
             /\ (\A l \in DOMAIN queue : l < k + s) /\ \A l \in DOMAIN queue' : l <= k
    <3> SUFFICES ASSUME NEW k \in DOMAIN queue'
                 PROVE  \/ k + s \in DOMAIN queue /\ queue'[k] = queue[k + s]
                        \/ /\ queue'[k] = Msg("LOGON", i, Ref)
                           /\ \A l \in DOMAIN queue : l < k + s
                           /\ \A l \in DOMAIN queue' : l <= k
      OBVIOUS
    <3>1. CASE k = Len(queue')
      BY <1>2, <2>2, <2>3, <3>1 DEF QueueIs
    <3>2. CASE k # Len(queue')
      <4>1. k \in 1..(Len(queue) - s)
        BY <1>2, <2>2, <2>3, <3>2 DEF QueueIs
      <4>2. k + s \in DOMAIN queue
        BY <1>2, <4>1 DEF QueueIs
      <4> QED
        BY <2>3, <4>1, <4>2 DEF Moves
    <3> QED
      BY <3>1, <3>2
  <2>5. \E k \in DOMAIN queue' :
          queue'[k] = Msg("LOGON", i, Ref) /\ \A l \in DOMAIN queue : l < k + s
    <3>1. Len(queue') \in DOMAIN queue'
      BY <1>2, <2>2, <2>3 DEF QueueIs
    <3>2. \A l \in DOMAIN queue : l < Len(queue') + s
      BY <1>2, <2>3 DEF QueueIs
    <3> QED
      BY <2>3, <3>1, <3>2
  <2>6. Shifted(s, i, answered)
    <3>1. /\ todo' = todo \ {i} /\ (s = 0 <=> todo' # {})
          /\ 1 \in DOMAIN queue /\ Head(queue) = queue[1]
          /\ DOMAIN queue \subseteq Nat \ {0} /\ DOMAIN queue' \subseteq Nat \ {0}
          /\ \A k \in DOMAIN queue : queue[k] \in Messages /\ queue[k].ref \in Inst
      BY <1>2, <2>2, <2>3 DEF Moves, QueueIs
    <3>2. \A k \in DOMAIN queue :
            k > s => k - s \in DOMAIN queue' /\ queue'[k - s] = queue[k]
      BY <1>2, <2>2, <2>3 DEF Moves, QueueIs
    <3> QED
      BY <1>4, <2>4, <2>5, <3>1, <3>2 DEF Shifted
  <2> QED
    BY <2>6
<1> QED
  BY <1>3, <1>4

\* The first message is handed to program i, which may answer a LOGON.
LEMMA PassesOwn ==
  ASSUME TypeOK, MemInv, AskedInv, FarewellInv, StatInv, TypeOK', UNCHANGED run,
         NEW i \in todo, NEW answered \in BOOLEAN,
         answered = FALSE => Passes(i, <<>>),
         answered = TRUE => /\ Passes(i, <<Msg("LOGON", i, Ref)>>)
                            /\ Head(queue).sub = "LOGON"
                            /\ gipc'[Ref].stat = OwnStat(i),
         \A r \in Inst : \/ answered = TRUE /\ r = Ref
                         \/ /\ gipc'[r].to = gipc[r].to /\ gipc'[r].from = gipc[r].from
                            /\ gipc'[r].stat = gipc[r].stat
  PROVE  /\ AskedInv' /\ FarewellInv' /\ StatInv'
         /\ \A v \in Inst, d \in Inst :
              Hears(v, d) /\ (v = i => ~Bye(1, d)) => Hears(v, d)'
         /\ \A v \in Inst, d \in Inst : run[d] = "closed" /\ Announced(1, d) => Hears(v, d)'
<1>1. PICK s \in {0, 1} : Shifted(s, i, answered)
  BY PassesShifts
<1>2. /\ i \in Inst /\ run[i] = "on" /\ Ref = queue[1].ref /\ Head(queue) = queue[1]
      /\ Ref \in Inst
  BY <1>1 DEF Shifted, Ref, MemInv, TypeOK
<1>3. Msg("LOGON", i, Ref) = [sub |-> "LOGON", by |-> i, ref |-> Ref]
  BY DEF Msg
<1>4. \A k \in DOMAIN queue : Asks(k) => answered = FALSE \/ queue[k].ref # Ref
  BY <1>1, <1>2 DEF AskedInv, Asks, Shifted
<1>5. AskedInv'
  BY <1>1, <1>2, <1>3, <1>4 DEF AskedInv, Asks, Shifted
<1>6. run[Ref] = "closed" => answered = FALSE
  BY <1>1, <1>2 DEF FarewellInv, Shifted
<1>7. FarewellInv'
  BY <1>1, <1>2, <1>3, <1>6 DEF FarewellInv, Shifted
<1>8. \A k \in DOMAIN queue, l \in DOMAIN queue', d \in Inst :
        Announced(k, d) /\ l + s = k => Announced(l, d)'
  BY <1>1 DEF Announced, Bye, Shifted
<1>9. StatInv'
  <2> SUFFICES ASSUME NEW k \in DOMAIN queue', queue'[k].sub = "LOGON",
                      gipc'[queue'[k].ref].stat # None
               PROVE  Announced(k, gipc[queue[k].ref].stat)'
    BY DEF StatInv
  <2>1. CASE answered = TRUE /\ queue'[k].ref = Ref
    BY <1>2, <2>1, Kinds DEF Announced
  <2>2. CASE ~(answered = TRUE /\ queue'[k].ref = Ref)
    <3>1. k + s \in DOMAIN queue /\ queue'[k] = queue[k + s] /\ queue'[k].ref \in Inst
      BY <1>1, <1>3, <2>2 DEF Shifted
    <3>2. PICK d \in Daemons : d = gipc[queue[k + s].ref].stat
      BY <2>2, <3>1 DEF TypeOK, Requests
    <3>3. Announced(k + s, d)
      BY <3>1, <3>2, Kinds DEF StatInv
    <3>4. gipc'[queue'[k].ref].stat = d
      BY <2>2, <3>1, <3>2
    <3>5. Announced(k, d)'
      BY <1>8, <3>1, <3>3, Kinds
    <3> QED
      BY <3>4, <3>5
  <2> QED
    BY <2>1, <2>2
<1>10. ASSUME NEW v \in Inst, NEW d \in Inst, Hears(v, d), v = i => ~Bye(1, d)
       PROVE  Hears(v, d)'
  <2>1. PICK k \in DOMAIN queue : Bye(k, d) /\ (k = 1 => todo = {} \/ v \in todo)
    BY <1>10 DEF Hears
  <2>2. k > s
    <3>1. k = 1 => v # i /\ v \in todo
      BY <1>10, <2>1
    <3>2. k = 1 => s = 0
      BY <1>1, <3>1 DEF Shifted
    <3> QED
      BY <1>1, <3>2 DEF Shifted
  <2>3. k - s \in DOMAIN queue' /\ queue'[k - s] = queue[k]
    BY <1>1, <2>2 DEF Shifted
  <2>4. k - s = 1 => todo' = {} \/ v \in todo'
    BY <1>1, <1>10, <2>1 DEF Shifted
  <2> QED
    BY <2>1, <2>3, <2>4 DEF Hears, Bye
<1>11. ASSUME NEW v \in Inst, NEW d \in Inst, run[d] = "closed", Announced(1, d)
       PROVE  Hears(v, d)'
  <2>1. PICK k \in DOMAIN queue : k > 1 /\ Bye(k, d)
    BY <1>11 DEF Announced
  <2>2. k > s /\ k - s \in DOMAIN queue' /\ queue'[k - s] = queue[k]
    BY <1>1, <2>1 DEF Shifted
  <2>3. k - s = 1 => todo' = {}
    BY <1>1, <2>1 DEF Shifted
  <2> QED
    BY <2>1, <2>2, <2>3 DEF Hears, Bye
<1> QED
  BY <1>5, <1>7, <1>9, <1>10, <1>11

\* A job of HELPER is done.
LEMMA JobDone ==
  ASSUME TypeOK, jobs # <<>>, jobs' = Tail(jobs), CountedInv, queue = <<>>
  PROVE  /\ \A k \in DOMAIN jobs' : /\ jobs'[k].what = "CheckDoubleRun" => run[jobs'[k].who] = "on"
                                    /\ jobs'[k].what = "CheckDoubleRun" => jobs'[k] # Head(jobs)
         /\ \A k, l \in DOMAIN jobs' :
              jobs'[k].what = "CheckDoubleRun" /\ jobs'[l] = jobs'[k] => k = l
         /\ Head(jobs).what = "CheckDoubleRun" => run[Head(jobs).who] = "on"
<1>1. /\ Len(jobs) \in Nat \ {0} /\ Head(jobs) = jobs[1]
      /\ DOMAIN jobs = 1..Len(jobs) /\ DOMAIN jobs' = 1..(Len(jobs) - 1)
      /\ \A i \in 1..(Len(jobs) - 1) : jobs'[i] = jobs[i + 1]
  BY Taken DEF TypeOK
<1>2. \A k \in DOMAIN jobs' : k + 1 \in DOMAIN jobs /\ jobs'[k] = jobs[k + 1] /\ k + 1 # 1
  BY <1>1
<1>3. 1 \in DOMAIN jobs
  BY <1>1
<1>4. \A k, l \in DOMAIN jobs' : k + 1 = l + 1 => k = l
  BY <1>1
<1> QED
  BY <1>1, <1>2, <1>3, <1>4 DEF CountedInv

LEMMA StepLasts ==
  ASSUME Lasts, TypeOK, TypeOK', MemInv, LastsInv, [Next]_vars
  PROVE  LastsInv'
<1> USE DEF LastsInv
<1>1. CASE TakesMessage
  <2>1. CASE On(Inst) = {}
    <3>1. /\ queue # <<>> /\ queue' = Tail(queue) /\ todo = {} /\ todo' = {}
          /\ UNCHANGED <<run, present, popStat, gipc, jobs>>
          /\ \A v \in Inst : run[v] # "on"
      BY <1>1, <2>1 DEF TakesMessage, On
    <3>2. /\ \A k \in DOMAIN queue' : /\ k + 1 \in DOMAIN queue /\ queue'[k] = queue[k + 1]
                                      /\ k \in Nat
          /\ \A k \in DOMAIN queue : k > 1 => k - 1 \in DOMAIN queue' /\ queue'[k - 1] = queue[k]
          /\ DOMAIN queue \subseteq Nat
          /\ \A k \in DOMAIN queue : queue[k].ref \in Inst
      <4>1. /\ Len(queue) \in Nat \ {0} /\ DOMAIN queue = 1..Len(queue)
            /\ DOMAIN queue' = 1..(Len(queue) - 1)
            /\ \A k \in 1..(Len(queue) - 1) : queue'[k] = queue[k + 1]
            /\ \A k \in 1..Len(queue) : queue[k] \in Messages
        BY <3>1, Taken DEF TypeOK
      <4> QED
        BY <4>1 DEF Messages
    <3>3. AskedInv' /\ CountedInv'
      BY <3>1, <3>2 DEF AskedInv, CountedInv, Asks
    <3>4. FarewellInv'
      BY <3>1, <3>2 DEF FarewellInv
    <3>5. StatInv'
      <4>1. \A k \in DOMAIN queue', d \in Inst : Announced(k + 1, d) => Announced(k, d)'
        <5> SUFFICES ASSUME NEW k \in DOMAIN queue', NEW d \in Inst, run[d] = "closed",
                            NEW l \in DOMAIN queue, l > k + 1, Bye(l, d)
                     PROVE  \E j \in DOMAIN queue' : j > k /\ Bye(j, d)'
          BY <3>1 DEF Announced
        <5>1. l > 1 /\ l \in Nat /\ k \in Nat
          BY <3>2
        <5>2. l - 1 \in DOMAIN queue' /\ queue'[l - 1] = queue[l] /\ l - 1 > k
          BY <3>2, <5>1
        <5> QED
          BY <5>2 DEF Bye
      <4> SUFFICES ASSUME NEW k \in DOMAIN queue', queue'[k].sub = "LOGON",
                          gipc'[queue'[k].ref].stat # None
                   PROVE  Announced(k, gipc[queue[k].ref].stat)'
        BY DEF StatInv
      <4>2. PICK d \in Daemons : d = gipc[queue[k + 1].ref].stat
        BY <3>1, <3>2 DEF TypeOK, Requests
      <4>3. Announced(k + 1, d)
        BY <3>2, <4>2, Kinds DEF StatInv
      <4> QED
        BY <3>1, <3>2, <4>1, <4>2, <4>3, Kinds
    <3>6. PopInv'
      BY <3>1, Kinds DEF PopInv, Looks
    <3> QED
      BY <3>3, <3>4, <3>5, <3>6
  <2>2. CASE On(Inst) # {}
    <3>1. /\ UNCHANGED <<run, present, popStat, gipc, jobs, queue>> /\ todo = {}
          /\ \A v \in Inst : run[v] = "on" => v \in todo'
      BY <1>1, <2>2 DEF TakesMessage, On
    <3>2. AskedInv' /\ FarewellInv' /\ StatInv'
      BY <3>1 DEF AskedInv, FarewellInv, StatInv, Asks, Announced, Bye
    <3>3. CountedInv'
      BY <3>1 DEF CountedInv, Asks
    <3>4. PopInv'
      BY <3>1, Kinds DEF PopInv, Looks, Hears, Bye
    <3> QED
      BY <3>2, <3>3, <3>4
  <2> QED
    BY <2>1, <2>2
<1>2. ASSUME NEW i \in Inst, Starts(i)
      PROVE  LastsInv'
  <2>1. /\ run[i] = "off" /\ run'[i] = "on" /\ todo = {} /\ todo' = {}
        /\ UNCHANGED <<popStat, present, jobs>>
        /\ \A j \in Inst : j # i => run'[j] = run[j]
        /\ queue' = Append(queue, Msg("CHECK_DOUBLERUN", i, i))
        /\ gipc' = [gipc EXCEPT ![i] = Request(Copies(i), i, 0, None)]
        /\ Request(Copies(i), i, 0, None).from = i
    BY <1>2 DEF Starts, TypeOK, Request
  <2>2. \A k \in DOMAIN queue : queue[k].ref # i
    BY <2>1 DEF MemInv, Refs, Here
  <2>3. \A k \in DOMAIN jobs : jobs[k].who # i /\ jobs[k].who \in Inst
    BY <2>1, WhoIs DEF MemInv, InOrder, TypeOK
  <2>4. AskedInv' /\ FarewellInv' /\ StatInv' /\ PopInv'
    BY <2>1, <2>2, SaysOwn
  <2>5. CountedInv'
    <3>1. /\ DOMAIN queue' = 1..(Len(queue) + 1) /\ DOMAIN queue = 1..Len(queue)
          /\ \A k \in 1..Len(queue) : queue'[k] = queue[k]
          /\ queue'[Len(queue) + 1].ref = i
          /\ Len(queue) \in Nat
      BY <2>1, MessageIs, Added DEF TypeOK
    <3>2. \A k \in DOMAIN queue' : k \in DOMAIN queue \/ queue'[k].ref = i
      BY <3>1
    <3> QED
      BY <2>1, <2>3, <3>1, <3>2 DEF CountedInv, Asks, Check
  <2> QED
    BY <2>4, <2>5
<1>3. ASSUME NEW i \in Inst, UserCloses(i)
      PROVE  LastsInv'
  <2>1. /\ run[i] = "on" /\ run'[i] = "closed" /\ todo = {} /\ todo' = {}
        /\ UNCHANGED <<popStat, present>>
        /\ \A j \in Inst : j # i => run'[j] = run[j]
        /\ queue' = Append(queue, Msg("LOGOFF", i, i))
        /\ jobs' = Append(jobs, [what |-> "ElfKiller", who |-> i])
        /\ gipc' = [gipc EXCEPT ![i] = Request(Partners(i), i, 0, None)]
        /\ Request(Partners(i), i, 0, None).to = Partners(i)
    BY <1>3 DEF UserCloses, maincsm_onclose, ElfKillerAsked, TypeOK, Request
  <2>2. /\ \A k \in DOMAIN queue : queue[k].ref # i
        /\ \A k \in DOMAIN jobs : jobs[k] # Check(i)
    BY <1>3 DEF UserCloses, InUse, Range, Check
  <2>3. AskedInv' /\ FarewellInv' /\ StatInv' /\ PopInv'
    BY <2>1, <2>2, SaysOwn
  <2>4. CountedInv'
    <3>1. /\ DOMAIN queue' = 1..(Len(queue) + 1) /\ DOMAIN queue = 1..Len(queue)
          /\ \A k \in 1..Len(queue) : queue'[k] = queue[k]
          /\ queue'[Len(queue) + 1].sub = "LOGOFF"
          /\ Len(queue) \in Nat
      BY <2>1, MessageIs, Added DEF TypeOK
    <3>2. \A k \in DOMAIN queue' : k \in DOMAIN queue \/ queue'[k].sub = "LOGOFF"
      BY <3>1
    <3>3. /\ DOMAIN jobs' = 1..(Len(jobs) + 1) /\ DOMAIN jobs = 1..Len(jobs)
          /\ \A k \in 1..Len(jobs) : jobs'[k] = jobs[k] /\ jobs[k] \in Jobs
          /\ jobs'[Len(jobs) + 1].what = "ElfKiller"
          /\ Len(jobs) \in Nat
      BY <2>1, JobIs, Added DEF TypeOK
    <3>4. \A k \in DOMAIN jobs' : k \in DOMAIN jobs \/ jobs'[k].what = "ElfKiller"
      BY <3>3
    <3>5. \A k \in DOMAIN jobs : /\ jobs'[k] = jobs[k] /\ jobs[k].who \in Inst
                                 /\ jobs[k].what = "CheckDoubleRun" => jobs[k].who # i
      <4>1. \A k \in DOMAIN jobs : jobs[k] = [what |-> jobs[k].what, who |-> jobs[k].who]
        BY <3>3 DEF Jobs
      <4> QED
        BY <2>2, <3>3, <4>1, WhoIs DEF Check, TypeOK
    <3>6. \A k \in DOMAIN jobs' : jobs'[k].what = "CheckDoubleRun" => run'[jobs'[k].who] = "on"
      BY <2>1, <3>4, <3>5 DEF CountedInv
    <3>7. \A k, l \in DOMAIN jobs' :
            jobs'[k].what = "CheckDoubleRun" /\ jobs'[l] = jobs'[k] => k = l
      BY <3>4, <3>5 DEF CountedInv
    <3>8. ASSUME NEW k \in DOMAIN queue', NEW l \in DOMAIN jobs',
                 Asks(k)', jobs'[l] = Check(queue'[k].ref)
          PROVE  FALSE
      <4>1. k \in DOMAIN queue /\ queue'[k] = queue[k]
        BY <3>1, <3>2, <3>8 DEF Asks
      <4>2. l \in DOMAIN jobs /\ jobs'[l] = jobs[l]
        BY <3>4, <3>5, <3>8 DEF Check
      <4> QED
        BY <2>1, <3>8, <4>1, <4>2 DEF CountedInv, Asks
    <3> QED
      BY <3>6, <3>7, <3>8 DEF CountedInv
  <2> QED
    BY <2>3, <2>4
<1>4. ASSUME NEW i \in Inst, SecondCopy(i)
      PROVE  LastsInv'
  <2>1. /\ todo = {} /\ todo' = {} /\ queue = <<>> /\ jobs # <<>>
        /\ Head(jobs) = Check(i) /\ UNCHANGED <<popStat, present>>
    BY <1>4 DEF SecondCopy, HelperRuns, Busy, Check
  <2>2. run[i] = "on"
    BY <2>1, Taken DEF CountedInv, Check, TypeOK
  <2>3. /\ run'[i] = "closed" /\ \A j \in Inst : j # i => run'[j] = run[j]
        /\ queue' = Append(queue, Msg("LOGOFF", i, i))
        /\ jobs' = Append(Tail(jobs), [what |-> "ElfKiller", who |-> i])
        /\ gipc' = [gipc EXCEPT ![i] = Request(Partners(i), i, 0, None)]
        /\ Request(Partners(i), i, 0, None).to = Partners(i)
    BY <1>4, <2>2 DEF SecondCopy, maincsm_onclose, TypeOK, Request
  <2>4. \A k \in DOMAIN queue : queue[k].ref # i
    BY <2>1
  <2>5. AskedInv' /\ FarewellInv' /\ StatInv' /\ PopInv'
    BY <2>1, <2>2, <2>3, <2>4, SaysOwn
  <2>6. CountedInv'
    <3>1. \A k \in DOMAIN queue' : ~Asks(k)'
      <4>1. /\ DOMAIN queue' = 1..(Len(queue) + 1) /\ DOMAIN queue = 1..Len(queue)
            /\ Len(queue) = 0
            /\ queue'[Len(queue) + 1].sub = "LOGOFF"
        BY <2>1, <2>3, MessageIs, Added DEF TypeOK
      <4> QED
        BY <4>1 DEF Asks
    <3>2. PICK q \in Seq(Jobs) : q = Tail(jobs)
      BY <2>1, Taken DEF TypeOK
    <3>3. /\ \A k \in DOMAIN q : /\ q[k].what = "CheckDoubleRun" => run[q[k].who] = "on"
                                 /\ q[k].what = "CheckDoubleRun" => q[k] # Check(i)
          /\ \A k, l \in DOMAIN q : q[k].what = "CheckDoubleRun" /\ q[l] = q[k] => k = l
      <4>1. /\ Len(jobs) \in Nat \ {0} /\ Head(jobs) = jobs[1]
            /\ DOMAIN jobs = 1..Len(jobs) /\ DOMAIN q = 1..(Len(jobs) - 1)
            /\ \A k \in 1..(Len(jobs) - 1) : q[k] = jobs[k + 1]
        BY <2>1, <3>2, Taken DEF TypeOK
      <4>2. /\ \A k \in DOMAIN q : k + 1 \in DOMAIN jobs /\ q[k] = jobs[k + 1] /\ k + 1 # 1
            /\ \A k, l \in DOMAIN q : k + 1 = l + 1 => k = l
            /\ 1 \in DOMAIN jobs
        BY <4>1
      <4> QED
        BY <2>1, <4>1, <4>2 DEF CountedInv
    <3>4. /\ DOMAIN jobs' = 1..(Len(q) + 1) /\ DOMAIN q = 1..Len(q) /\ Len(q) \in Nat
          /\ \A k \in 1..Len(q) : jobs'[k] = q[k] /\ q[k] \in Jobs
          /\ jobs'[Len(q) + 1].what = "ElfKiller"
      BY <2>3, <3>2, JobIs, Added
    <3>5. \A k \in DOMAIN jobs' :
            jobs'[k].what = "CheckDoubleRun" => k \in DOMAIN q /\ jobs'[k] = q[k]
      BY <3>4
    <3>6. \A k \in DOMAIN q : q[k].what = "CheckDoubleRun" => q[k].who # i /\ q[k].who \in Inst
      BY <3>3, <3>4 DEF Check, Jobs
    <3>7. \A k \in DOMAIN jobs' : jobs'[k].what = "CheckDoubleRun" => run'[jobs'[k].who] = "on"
      <4> SUFFICES ASSUME NEW k \in DOMAIN jobs', jobs'[k].what = "CheckDoubleRun"
                   PROVE  run'[jobs'[k].who] = "on"
        OBVIOUS
      <4>1. k \in DOMAIN q /\ jobs'[k] = q[k] /\ q[k].what = "CheckDoubleRun"
        BY <3>5
      <4>2. run[q[k].who] = "on" /\ q[k].who # i /\ q[k].who \in Inst
        BY <3>3, <3>6, <4>1
      <4> QED
        BY <2>3, <4>1, <4>2
    <3>8. \A k, l \in DOMAIN jobs' :
            jobs'[k].what = "CheckDoubleRun" /\ jobs'[l] = jobs'[k] => k = l
      BY <3>3, <3>5
    <3> QED
      BY <3>1, <3>7, <3>8 DEF CountedInv
  <2> QED
    BY <2>5, <2>6
<1>5. ASSUME NEW i \in Inst, LogsOn(i)
      PROVE  LastsInv'
  <2>1. /\ todo = {} /\ todo' = {} /\ queue = <<>> /\ jobs # <<>> /\ jobs' = Tail(jobs)
        /\ Head(jobs) = Check(i) /\ UNCHANGED <<run, popStat, present>>
        /\ queue' = Append(queue, Msg("LOGON", i, i))
        /\ gipc' = [gipc EXCEPT ![i] = Request(Partners(i), i, 0, OwnStat(i))]
        /\ Request(Partners(i), i, 0, OwnStat(i)).stat = OwnStat(i)
    BY <1>5 DEF LogsOn, HelperRuns, Busy, Check, Request
  <2>2. run[i] = "on"
    BY <2>1, JobDone DEF Check
  <2>3. \A k \in DOMAIN queue : queue[k].ref # i
    BY <2>1
  <2>4. AskedInv' /\ FarewellInv' /\ StatInv' /\ PopInv'
    BY <2>1, <2>2, <2>3, SaysOwn
  <2>5. CountedInv'
    <3>1. \A k \in DOMAIN queue' : ~Asks(k)'
      <4>1. /\ DOMAIN queue' = 1..(Len(queue) + 1) /\ DOMAIN queue = 1..Len(queue)
            /\ Len(queue) = 0
            /\ queue'[Len(queue) + 1].sub = "LOGON"
        BY <2>1, MessageIs, Added DEF TypeOK
      <4> QED
        BY <4>1 DEF Asks
    <3> QED
      BY <2>1, <3>1, JobDone DEF CountedInv
  <2> QED
    BY <2>4, <2>5
<1>6. ASSUME NEW i \in Inst, ElfKiller(i)
      PROVE  LastsInv'
  <2>1. /\ todo = {} /\ queue = <<>> /\ queue' = <<>> /\ todo' = {} /\ jobs # <<>>
        /\ jobs' = Tail(jobs) /\ Head(jobs).what = "ElfKiller" /\ Head(jobs).who = i
        /\ UNCHANGED <<present, popStat>> /\ run'[i] = "gone"
        /\ \A j \in Inst : j # i => run'[j] = run[j]
    BY <1>6 DEF ElfKiller, HelperRuns, Busy, TypeOK
  <2>2. AskedInv' /\ FarewellInv' /\ StatInv'
    BY <2>1 DEF AskedInv, FarewellInv, StatInv
  <2>3. run[i] = "closed"
    BY <2>1, Taken DEF MemInv, InOrder, TypeOK
  <2>4. CountedInv'
    <3>1. \A k \in DOMAIN jobs' : jobs'[k].who \in Inst
      BY <2>1, Taken, WhoIs DEF TypeOK
    <3>2. \A k \in DOMAIN jobs' : jobs'[k].what = "CheckDoubleRun" => run'[jobs'[k].who] = "on"
      BY <2>1, <2>3, <3>1, JobDone
    <3> QED
      BY <2>1, <3>2, JobDone DEF CountedInv
  <2>5. PopInv'
    <3> SUFFICES ASSUME NEW v \in Viewers
                 PROVE  /\ run'[v] = "off" => popStat'[v] = None
                        /\ popStat'[v] # None => Looks(v, popStat[v])'
      BY DEF PopInv
    <3>1. \A d : ~Hears(v, d)
      BY <2>1 DEF Hears
    <3>2. ASSUME popStat[v] # None
          PROVE  Looks(v, popStat[v])'
      <4>1. PICK d \in Daemons : d = popStat[v]
        BY <3>2, Kinds DEF TypeOK
      <4>2. Looks(v, d) /\ popStat'[v] = d
        BY <2>1, <3>2, <4>1 DEF PopInv
      <4>3. run'[v] = "on" => run[v] = "on" /\ run[d] = "on"
        BY <2>1, <3>1, <4>2, Kinds DEF Looks
      <4>4. Looks(v, d)'
        BY <2>1, <2>3, <4>2, <4>3, Kinds DEF Looks
      <4> QED
        BY <4>2, <4>4
    <3> QED
      BY <2>1, <3>2, Kinds DEF PopInv
  <2> QED
    BY <2>2, <2>4, <2>5
<1>7. ASSUME NEW i \in todo, NEW answered \in BOOLEAN,
             answered = FALSE => Passes(i, <<>>),
             answered = TRUE => Passes(i, <<Msg("LOGON", i, Ref)>>),
             UNCHANGED <<run, jobs>>
      PROVE  CountedInv'
  <2>1. PICK s \in {0, 1} : Shifted(s, i, answered)
    BY <1>7, PassesShifts
  <2>2. ASSUME NEW k \in DOMAIN queue', NEW l \in DOMAIN jobs',
               Asks(k)', jobs'[l] = Check(queue'[k].ref)
        PROVE  k = 1 /\ todo' # {} /\ queue'[k].ref \notin todo'
    <3>1. k + s \in DOMAIN queue /\ queue'[k] = queue[k + s]
      BY <2>1, <2>2 DEF Shifted, Asks, Msg
    <3>2. k + s = 1 /\ queue[k + s].ref \notin todo
      BY <1>7, <2>2, <3>1 DEF CountedInv, Asks
    <3> QED
      BY <2>1, <3>1, <3>2 DEF Shifted
  <2> QED
    BY <1>7, <2>2 DEF CountedInv
<1>8. ASSUME NEW i \in todo, UNCHANGED run,
             \A v \in Viewers, d \in Daemons :
               Hears(v, d) /\ (v = i => ~Bye(1, d)) => Hears(v, d)',
             NEW v \in Viewers, popStat'[v] = popStat[v], present'[v] = present[v],
             NEW d \in Daemons, popStat[v] = d, v = i => ~Bye(1, d)
      PROVE  Looks(v, d)'
  <2>1. Looks(v, d)
    BY <1>8, Kinds DEF PopInv
  <2> QED
    BY <1>8, <2>1, Kinds DEF Looks
<1>9. ASSUME NEW i \in Inst, Logon(i)
      PROVE  LastsInv'
  <2>1. /\ i \in todo /\ queue # <<>> /\ UNCHANGED <<run, jobs>>
        /\ Head(queue).sub = "LOGON" /\ Passes(i, <<Msg("LOGON", i, Ref)>>)
        /\ popStat' = [popStat EXCEPT ![i] = gipc[Ref].stat]
        /\ present' = [present EXCEPT ![i] = TRUE]
        /\ gipc' = [gipc EXCEPT ![Ref] = Request(Copies(Req.from), i, 0, OwnStat(i))]
        /\ Ref \in Inst
    BY <1>9, RefIs DEF Logon, Handles, Req, MemInv
  <2>2. /\ gipc'[Ref].stat = OwnStat(i)
        /\ \A r \in Inst : r # Ref => gipc'[r] = gipc[r]
    BY <2>1 DEF TypeOK, Request
  <2>3. /\ AskedInv' /\ FarewellInv' /\ StatInv'
        /\ \A v \in Inst, d \in Inst : Hears(v, d) /\ (v = i => ~Bye(1, d)) => Hears(v, d)'
        /\ \A v \in Inst, d \in Inst : run[d] = "closed" /\ Announced(1, d) => Hears(v, d)'
    BY <2>1, <2>2, PassesOwn
  <2>4. CountedInv'
    BY <1>7, <2>1
  <2>5. PopInv'
    <3> SUFFICES ASSUME NEW v \in Viewers
                 PROVE  /\ run'[v] = "off" => popStat'[v] = None
                        /\ popStat'[v] # None => Looks(v, popStat[v])'
      BY DEF PopInv
    <3>1. CASE v = i
      <4>1. run[v] = "on" /\ present'[v] = TRUE /\ popStat'[v] = gipc[Ref].stat
        BY <2>1, <3>1 DEF MemInv, TypeOK
      <4>2. ASSUME NEW d \in Daemons, popStat'[v] = d
            PROVE  Looks(v, d)'
        <5>1. Ref = queue[1].ref /\ queue[1].sub = "LOGON" /\ 1 \in DOMAIN queue
          BY <2>1, QueueIsSeq DEF Ref, QueueIs
        <5>2. Announced(1, d)
          BY <4>1, <4>2, <5>1, Kinds DEF StatInv
        <5>3. run[d] = "on" \/ (run[d] = "closed" /\ Hears(v, d)')
          BY <2>3, <5>2, Kinds DEF Announced
        <5> QED
          BY <2>1, <4>1, <5>3 DEF Looks
      <4>3. popStat'[v] # None => popStat'[v] \in Daemons
        BY Kinds DEF TypeOK
      <4>4. popStat'[v] # None => Looks(v, popStat[v])'
        <5> SUFFICES ASSUME popStat'[v] # None PROVE Looks(v, popStat[v])'
          OBVIOUS
        <5>1. PICK d \in Daemons : popStat'[v] = d
          BY <4>3
        <5>2. Looks(v, d)'
          BY <4>2, <5>1
        <5> QED
          BY <5>1, <5>2
      <4> QED
        BY <2>1, <4>1, <4>4
    <3>2. CASE v # i
      <4>1. popStat'[v] = popStat[v] /\ present'[v] = present[v]
        BY <2>1, <3>2, Kinds DEF TypeOK
      <4>2. ASSUME NEW d \in Daemons, popStat[v] = d
            PROVE  Looks(v, d)'
        BY <1>8, <2>1, <2>3, <3>2, <4>1, <4>2, Kinds
      <4>3. popStat'[v] # None => Looks(v, popStat[v])'
        <5> SUFFICES ASSUME popStat'[v] # None PROVE Looks(v, popStat[v])'
          OBVIOUS
        <5>1. PICK d \in Daemons : popStat[v] = d
          BY <4>1, Kinds DEF TypeOK
        <5>2. Looks(v, d)'
          BY <4>2, <5>1
        <5> QED
          BY <4>1, <5>1, <5>2
      <4> QED
        BY <2>1, <4>1, <4>3 DEF PopInv
    <3> QED
      BY <3>1, <3>2
  <2> QED
    BY <2>3, <2>4, <2>5
<1>10. ASSUME NEW i \in todo, Passes(i, <<>>), UNCHANGED run,
              \A r \in Inst : /\ gipc'[r].to = gipc[r].to /\ gipc'[r].from = gipc[r].from
                              /\ gipc'[r].stat = gipc[r].stat,
              \A v \in Viewers : \/ popStat'[v] = popStat[v] /\ present'[v] = present[v]
                                 \/ popStat'[v] = None,
              \A d \in Daemons : i \in Viewers /\ popStat'[i] = d => ~Bye(1, d)
       PROVE  AskedInv' /\ FarewellInv' /\ StatInv' /\ PopInv'
  <2>1. /\ AskedInv' /\ FarewellInv' /\ StatInv'
        /\ \A v \in Inst, d \in Inst : Hears(v, d) /\ (v = i => ~Bye(1, d)) => Hears(v, d)'
    BY <1>10, PassesOwn
  <2>2. PopInv'
    <3> SUFFICES ASSUME NEW v \in Viewers
                 PROVE  /\ run'[v] = "off" => popStat'[v] = None
                        /\ popStat'[v] # None => Looks(v, popStat[v])'
      BY DEF PopInv
    <3>1. ASSUME popStat'[v] # None
          PROVE  Looks(v, popStat[v])'
      <4>1. popStat'[v] = popStat[v] /\ present'[v] = present[v]
        BY <1>10, <3>1
      <4>2. PICK d \in Daemons : popStat[v] = d
        BY <3>1, <4>1, Kinds DEF TypeOK
      <4>3. Looks(v, d)'
        BY <1>8, <1>10, <2>1, <4>1, <4>2, Kinds
      <4> QED
        BY <4>1, <4>2, <4>3
    <3>2. run'[v] = "off" => popStat'[v] = None
      BY <1>10 DEF PopInv
    <3> QED
      BY <3>1, <3>2
  <2> QED
    BY <2>1, <2>2
\* The LOGOFF of the daemon that a viewer looks at is not ignored.
<1>11. ASSUME NEW i \in Inst, i \in todo, i \in Viewers, NEW d \in Daemons,
              popStat[i] = d, Bye(1, d)
       PROVE  Handles(i, "LOGOFF") /\ Head(queue).by \in Partners(i) /\ present[i] = TRUE
  <2>1. QueueIs /\ queue # <<>>
    BY <1>11, QueueIsSeq DEF MemInv
  <2>2. /\ Head(queue).sub = "LOGOFF" /\ Ref = d /\ Head(queue).by = d /\ Here(d)
        /\ 1 \in DOMAIN queue
    BY <1>11, <2>1 DEF Bye, Ref, QueueIs, FarewellInv, MemInv, Refs
  <2>3. Looks(i, d) /\ run[i] = "on"
    BY <1>11, Kinds DEF PopInv, MemInv
  <2>4. run[d] = "closed"
    BY <1>11, <2>2 DEF FarewellInv, Bye
  <2> QED
    BY <1>11, <2>2, <2>3, <2>4, Kinds DEF Handles, Req, FarewellInv, Looks
<1>12. ASSUME NEW i \in Inst, Logoff(i)
       PROVE  LastsInv'
  <2>1. /\ i \in todo /\ Passes(i, <<>>) /\ UNCHANGED <<run, gipc, jobs>>
        /\ popStat' = [popStat EXCEPT ![i] = None]
        /\ present' = [present EXCEPT ![i] = FALSE]
    BY <1>12 DEF Logoff, Handles
  <2>2. popStat'[i] = None /\ \A v \in Viewers : v # i => popStat'[v] = popStat[v] /\ present'[v] = present[v]
    BY <2>1, Kinds DEF TypeOK
  <2>3. AskedInv' /\ FarewellInv' /\ StatInv' /\ PopInv'
    BY <1>10, <2>1, <2>2, Kinds
  <2>4. CountedInv'
    BY <1>7, <2>1
  <2> QED
    BY <2>3, <2>4
<1>13. ASSUME NEW i \in Inst, Ignores(i)
       PROVE  LastsInv'
  <2>1. /\ i \in todo /\ Passes(i, <<>>) /\ UNCHANGED <<run, present, popStat, gipc, jobs>>
        /\ ~(Handles(i, "LOGOFF") /\ Head(queue).by \in Partners(i) /\ present[i] = TRUE)
    BY <1>13 DEF Ignores
  <2>2. \A d \in Daemons : i \in Viewers /\ popStat'[i] = d => ~Bye(1, d)
    BY <1>11, <2>1
  <2>3. AskedInv' /\ FarewellInv' /\ StatInv' /\ PopInv'
    BY <1>10, <2>1, <2>2
  <2>4. CountedInv'
    BY <1>7, <2>1
  <2> QED
    BY <2>3, <2>4
<1>14. ASSUME NEW i \in Inst, CountsCopies(i)
       PROVE  LastsInv'
  <2>1. /\ i \in todo /\ Passes(i, <<>>) /\ UNCHANGED <<run, present, popStat>>
        /\ Head(queue).sub = "CHECK_DOUBLERUN" /\ queue # <<>> /\ Ref \in Inst
        /\ gipc' = [gipc EXCEPT ![Ref].data = @ + 1]
        /\ jobs' = IF gipc[Ref].from = i THEN Append(jobs, Check(i)) ELSE jobs
    BY <1>14, RefIs DEF CountsCopies, Handles, Check, Req, MemInv
  <2>2. Head(queue) = queue[1] /\ 1 \in DOMAIN queue /\ Ref = queue[1].ref
    BY <2>1, QueueIsSeq DEF QueueIs, Ref
  <2>3. \A r \in Inst : /\ gipc'[r].to = gipc[r].to /\ gipc'[r].from = gipc[r].from
                        /\ gipc'[r].stat = gipc[r].stat
    <3>1. gipc[Ref] \in Requests
      BY <2>1 DEF TypeOK
    <3>2. \A r \in Inst : r # Ref => gipc'[r] = gipc[r]
      BY <2>1 DEF TypeOK
    <3>3. gipc'[Ref] = [gipc[Ref] EXCEPT !.data = @ + 1]
      BY <2>1 DEF TypeOK
    <3> QED
      BY <3>1, <3>2, <3>3 DEF Requests
  <2>4. \A d : ~Bye(1, d)
    BY <2>1, <2>2 DEF Bye
  <2>5. AskedInv' /\ FarewellInv' /\ StatInv' /\ PopInv'
    BY <1>10, <2>1, <2>3, <2>4
  <2>6. CASE gipc[Ref].from # i
    BY <1>7, <2>1, <2>5, <2>6
  <2>7. CASE gipc[Ref].from = i
    <3>1. Asks(1) /\ Ref = i /\ run[i] = "on"
      BY <2>1, <2>2, <2>7 DEF Asks, AskedInv
    <3>2. \A l \in DOMAIN jobs : jobs[l] # Check(i)
      BY <2>1, <2>2, <3>1 DEF CountedInv
    <3>3. /\ DOMAIN jobs' = 1..(Len(jobs) + 1) /\ DOMAIN jobs = 1..Len(jobs)
          /\ \A k \in 1..Len(jobs) : jobs'[k] = jobs[k]
          /\ jobs'[Len(jobs) + 1] = Check(i) /\ Len(jobs) \in Nat
      BY <2>1, <2>7, JobIs, Added DEF TypeOK, Check
    <3>4. /\ \A k \in DOMAIN jobs' : jobs'[k] = Check(i) \/ (k \in DOMAIN jobs /\ jobs'[k] = jobs[k])
          /\ \A k, l \in DOMAIN jobs' : jobs'[k] = Check(i) /\ jobs'[l] = Check(i) => k = l
      BY <3>2, <3>3
    <3>5. /\ \A k \in DOMAIN jobs' : jobs'[k].what = "CheckDoubleRun" => run'[jobs'[k].who] = "on"
          /\ \A k, l \in DOMAIN jobs' :
               jobs'[k].what = "CheckDoubleRun" /\ jobs'[l] = jobs'[k] => k = l
      BY <2>1, <3>1, <3>4 DEF CountedInv, Check
    <3>6. PICK s \in {0, 1} : Shifted(s, i, FALSE)
      BY <2>1, PassesShifts
    <3>7. ASSUME NEW k \in DOMAIN queue', NEW l \in DOMAIN jobs',
                 Asks(k)', jobs'[l] = Check(queue'[k].ref)
          PROVE  k = 1 /\ todo' # {} /\ queue'[k].ref \notin todo'
      <4>1. k + s \in DOMAIN queue /\ queue'[k] = queue[k + s]
        BY <3>6 DEF Shifted
      <4>2. CASE queue'[k].ref = i
        <5>1. k + s = 1
          BY <2>2, <3>1, <3>7, <4>1, <4>2 DEF AskedInv, Asks
        <5> QED
          BY <3>6, <4>1, <4>2, <5>1 DEF Shifted
      <4>3. CASE queue'[k].ref # i
        <5>1. l \in DOMAIN jobs /\ jobs[l] = Check(queue[k + s].ref)
          BY <3>4, <3>7, <4>1, <4>3 DEF Check
        <5>2. k + s = 1 /\ queue[k + s].ref \notin todo
          BY <3>7, <4>1, <5>1 DEF CountedInv, Asks
        <5> QED
          BY <3>6, <4>1, <5>2 DEF Shifted
      <4> QED
        BY <4>2, <4>3
    <3>8. CountedInv'
      BY <3>5, <3>7 DEF CountedInv
    <3> QED
      BY <2>5, <3>8
  <2> QED
    BY <2>6, <2>7
<1>15. CASE UNCHANGED vars
  <2>1. AskedInv' /\ CountedInv' /\ FarewellInv'
    BY <1>15 DEF vars, AskedInv, CountedInv, FarewellInv, Asks
  <2>2. StatInv' /\ PopInv'
    BY <1>15 DEF vars, StatInv, PopInv, Announced, Looks, Hears, Bye
  <2> QED
    BY <2>1, <2>2
<1> QED
  BY <1>1, <1>2, <1>3, <1>4, <1>5, <1>6, <1>9, <1>12, <1>13, <1>14, <1>15
     DEF Next, CheckDoubleRun, maincsm_onmessage

LEMMA InitLasts == Init => LastsInv
  BY Kinds DEF Init, LastsInv, AskedInv, CountedInv, FarewellInv, StatInv, PopInv

\* If no program is closed while its gipc is in use, a viewer never looks at the
\* pop_stat of a daemon whose memory has been given back, however many daemons and
\* viewers come and go (MailViewer/main.c:2719-2746, MailDaemon/main.c:1012-1038).
THEOREM PopStatAliveAlways == ASSUME Lasts PROVE Spec => []PopStatAlive
<1>1. Init => LastsInv
  BY InitLasts
<1>2. (TypeOK /\ MemInv) /\ (TypeOK /\ MemInv)' /\ LastsInv /\ [Next]_vars => LastsInv'
  BY StepLasts
<1>3. TypeOK /\ LastsInv => PopStatAlive
  <2> SUFFICES ASSUME TypeOK, LastsInv, NEW v \in On(Viewers), popStat[v] # None
               PROVE  run[popStat[v]] # "gone"
    BY DEF PopStatAlive
  <2> QED
    BY DEF LastsInv, PopInv, Looks, On
<1> QED
  BY <1>1, <1>2, <1>3, MemInvariant, PTL DEF Spec

-----------------------------------------------------------------------------
(* No second copy is started.                                              *)

\* One copy of each program.
Alone == \A i, j \in On(Inst) : j \in Copies(i) => i = j

\* What the gipc says is what the last message in it says.  An earlier message that is
\* read from it is the first one, and whom it was for has heard it.
Current(k) == \A l \in DOMAIN queue : queue[l].ref = queue[k].ref => l <= k
Says(k, g) ==
  /\ g.from = queue[k].by
  /\ g.to = IF Asks(k) THEN Copies(queue[k].by) ELSE Partners(queue[k].by)
  /\ queue[k].sub = "LOGON" => g.stat = OwnStat(queue[k].by)
SaysInv ==
  /\ \A k \in DOMAIN queue : Current(k) => Says(k, gipc[queue[k].ref])
  /\ \A k \in DOMAIN queue : ~Current(k) =>
       k = 1 /\ queue[1].sub = "LOGON" /\ todo # {} /\ todo \cap Partners(queue[1].by) = {}
  /\ \A k \in DOMAIN queue : Asks(k) => queue[k].by = queue[k].ref

\* A LOGON comes before the LOGOFF of the same program, and after that of an earlier start.
AfterInv ==
  /\ \A k \in DOMAIN queue : queue[k].sub = "LOGON" => Announced(k, queue[k].by)
  /\ \A k, l \in DOMAIN queue :
       queue[k].sub = "LOGON" /\ queue[l].sub = "LOGOFF" /\ run[queue[k].by] = "on"
         /\ queue[l].by \in Copies(queue[k].by) => l < k

\* The message at k has still to be handed to i.
Waits(k, i) == k = 1 => todo = {} \/ i \in todo
Leaves(i) ==
  \E k \in DOMAIN queue : queue[k].sub = "LOGOFF" /\ queue[k].by \in Partners(i) /\ Waits(k, i)
Comes(i, p) ==
  \E k \in DOMAIN queue : queue[k].sub = "LOGON" /\ queue[k].by = p /\ Waits(k, i)
AsksOf(s, x) == \E k \in DOMAIN queue : Asks(k) /\ queue[k].ref = s /\ Waits(k, x)
Asked(i) == AsksOf(i, i)
Begins(i) == Check(i) \in Range(jobs) \/ Asked(i)
Knows(i) == present[i] = TRUE /\ ~Leaves(i)
Meets(i, p) == Knows(i) \/ Comes(i, p)

GoneInv ==
  \A i \in Inst :
    /\ run[i] = "off" => present[i] = FALSE
    /\ run[i] = "on" /\ present[i] = TRUE /\ On(Partners(i)) = {} => Leaves(i)
KnownInv ==
  \A i \in Inst, p \in Inst : run[i] = "on" /\ run[p] = "on" /\ p \in Partners(i) =>
    /\ Knows(p) => Meets(i, p)
    /\ Meets(i, p) \/ Meets(p, i) \/ Begins(i) \/ Begins(p)
NamedInv == \A v \in Viewers : present[v] = TRUE => popStat[v] # None

OneInv == Alone /\ SaysInv /\ AfterInv /\ GoneInv /\ KnownInv /\ NamedInv
PresInv == seconds = 0 => OneInv

LEMMA KindsOf ==
  /\ \A i \in Inst : i \in Copies(i) /\ Copies(i) \subseteq Inst /\ Partners(i) \subseteq Inst
  /\ \A i, j \in Inst : j \in Copies(i) <=> j \notin Partners(i)
  /\ \A i, j \in Inst : j \in Copies(i) => Copies(j) = Copies(i) /\ Partners(j) = Partners(i)
  /\ \A i, j \in Inst : j \in Partners(i) =>
       i \in Partners(j) /\ Copies(j) = Partners(i) /\ Partners(j) = Copies(i)
  BY InstanceAssumption DEF Inst, Copies, Partners

LEMMA JobStays ==
  ASSUME NEW q \in Seq(Jobs), NEW e, e \in Range(q)
  PROVE  /\ q # <<>> /\ e # Head(q) => e \in Range(Tail(q))
         /\ \A d \in Jobs : e \in Range(Append(q, d))
<1>1. PICK k \in DOMAIN q : e = q[k]
  BY DEF Range
<1>2. ASSUME q # <<>>, e # Head(q)
      PROVE  e \in Range(Tail(q))
  <2>1. k - 1 \in DOMAIN Tail(q) /\ Tail(q)[k - 1] = q[k]
    BY <1>1, <1>2, Taken
  <2> QED
    BY <1>1, <2>1 DEF Range
<1>3. ASSUME NEW d \in Jobs
      PROVE  e \in Range(Append(q, d))
  <2>1. k \in DOMAIN Append(q, d) /\ Append(q, d)[k] = q[k]
    BY <1>1, Added
  <2> QED
    BY <1>1, <2>1 DEF Range
<1> QED
  BY <1>2, <1>3

\* Of two partners that run, one is the copy that runs of a third.
LEMMA Apart ==
  ASSUME Alone, NEW i \in On(Inst), NEW p \in On(Inst), NEW j \in On(Inst), p \in Partners(i)
  PROVE  j = i \/ j = p
  BY KindsOf DEF Alone, On

\* Program i has put a message of its own at the end of the queue.
Extended(sub, i) ==
  /\ todo = {} /\ todo' = {} /\ i \in Inst
  /\ \E n \in DOMAIN queue' :
       /\ queue'[n].sub = sub /\ queue'[n].by = i /\ queue'[n].ref = i
       /\ \A k \in DOMAIN queue' : k = n \/ k \in DOMAIN queue
       /\ \A k \in DOMAIN queue : k \in DOMAIN queue' /\ k < n /\ k # n /\ queue'[k] = queue[k]
  /\ \A k \in DOMAIN queue : /\ queue[k].ref \in Inst /\ queue[k].by \in Inst
                             /\ queue[k].ref # i
                             /\ gipc'[queue[k].ref] = gipc[queue[k].ref]
  /\ DOMAIN queue \subseteq Nat /\ DOMAIN queue' \subseteq Nat

LEMMA Extends ==
  ASSUME TypeOK, todo = {}, todo' = {}, NEW i \in Inst,
         NEW sub \in {"CHECK_DOUBLERUN", "LOGON", "LOGOFF"},
         queue' = Append(queue, Msg(sub, i, i)), NEW g, gipc' = [gipc EXCEPT ![i] = g],
         \A k \in DOMAIN queue : queue[k].ref # i
  PROVE  Extended(sub, i)
<1> DEFINE n == Len(queue) + 1
           m == Msg(sub, i, i)
<1>1. m \in Messages /\ m.sub = sub /\ m.by = i /\ m.ref = i
  BY MessageIs
<1> HIDE DEF m
<1>2. /\ DOMAIN queue = 1..Len(queue) /\ DOMAIN queue' = 1..n /\ Len(queue) \in Nat
      /\ \A k \in 1..Len(queue) : queue'[k] = queue[k] /\ queue[k] \in Messages
      /\ queue'[n] = m
  BY <1>1, Added DEF TypeOK, m
<1> HIDE DEF n
<1>3. /\ n \in DOMAIN queue'
      /\ \A k \in DOMAIN queue' : k = n \/ k \in DOMAIN queue
      /\ \A k \in DOMAIN queue : k \in DOMAIN queue' /\ k < n /\ k # n /\ queue'[k] = queue[k]
  BY <1>2 DEF n
<1>4. \A k \in DOMAIN queue : /\ queue[k].ref \in Inst /\ queue[k].by \in Inst
                              /\ gipc'[queue[k].ref] = gipc[queue[k].ref]
  BY <1>2 DEF Messages, TypeOK
<1>5. DOMAIN queue \subseteq Nat /\ DOMAIN queue' \subseteq Nat
  BY <1>2 DEF n
<1> QED
  BY <1>1, <1>2, <1>3, <1>4, <1>5 DEF Extended

\* What each program has then still to hear.
LEMMA ExtendsHears ==
  ASSUME NEW sub, NEW i \in Inst, Extended(sub, i)
  PROVE  /\ \A x : Leaves(x)' <=> Leaves(x) \/ (sub = "LOGOFF" /\ i \in Partners(x))
         /\ \A x, p : Comes(x, p)' <=> Comes(x, p) \/ (sub = "LOGON" /\ p = i)
         /\ \A s, x : AsksOf(s, x)' <=> AsksOf(s, x) \/ (sub = "CHECK_DOUBLERUN" /\ s = i)
<1>1. PICK n \in DOMAIN queue' :
        /\ queue'[n].sub = sub /\ queue'[n].by = i /\ queue'[n].ref = i
        /\ \A k \in DOMAIN queue' : k = n \/ k \in DOMAIN queue
        /\ \A k \in DOMAIN queue : k \in DOMAIN queue' /\ k < n /\ k # n /\ queue'[k] = queue[k]
  BY DEF Extended
<1>2. \A k, x : Waits(k, x) /\ Waits(k, x)'
  BY DEF Extended, Waits
<1>3. \A x : Leaves(x)' <=> Leaves(x) \/ (sub = "LOGOFF" /\ i \in Partners(x))
  BY <1>1, <1>2 DEF Leaves, Partners, Inst, Copies
<1>4. \A x, p : Comes(x, p)' <=> Comes(x, p) \/ (sub = "LOGON" /\ p = i)
  BY <1>1, <1>2 DEF Comes
<1>5. \A s, x : AsksOf(s, x)' <=> AsksOf(s, x) \/ (sub = "CHECK_DOUBLERUN" /\ s = i)
  BY <1>1, <1>2 DEF AsksOf, Asks
<1> QED
  BY <1>3, <1>4, <1>5

LEMMA ExtendsSays ==
  ASSUME NEW sub, NEW i \in Inst, Extended(sub, i), SaysInv,
         gipc'[i].from = i,
         gipc'[i].to = IF sub = "CHECK_DOUBLERUN" THEN Copies(i) ELSE Partners(i),
         sub = "LOGON" => gipc'[i].stat = OwnStat(i)
  PROVE  SaysInv'
<1>1. PICK n \in DOMAIN queue' :
        /\ queue'[n].sub = sub /\ queue'[n].by = i /\ queue'[n].ref = i
        /\ \A k \in DOMAIN queue' : k = n \/ k \in DOMAIN queue
        /\ \A k \in DOMAIN queue : k \in DOMAIN queue' /\ k < n /\ k # n /\ queue'[k] = queue[k]
  BY DEF Extended
<1>2. \A k \in DOMAIN queue : Current(k) /\ Says(k, gipc[queue[k].ref])
  BY DEF SaysInv, Extended
<1>3. \A k \in DOMAIN queue : Says(k, gipc[queue[k].ref])'
  BY <1>1, <1>2 DEF Says, Asks, Extended
<1>4. Says(n, gipc[queue[n].ref])'
  BY <1>1 DEF Says, Asks
<1>5. \A k \in DOMAIN queue' : Current(k)'
  BY <1>1, <1>2 DEF Current, Extended
<1>6. \A k \in DOMAIN queue' : Asks(k)' => queue'[k].by = queue'[k].ref
  BY <1>1 DEF SaysInv, Asks
<1> QED
  BY <1>1, <1>3, <1>4, <1>5, <1>6 DEF SaysInv

LEMMA ExtendsAfter ==
  ASSUME NEW sub, NEW i \in Inst, Extended(sub, i), AfterInv, Alone, TypeOK,
         \A j \in Inst : j # i => run'[j] = run[j],
         \/ sub = "LOGOFF" /\ run[i] = "on" /\ run'[i] = "closed"
         \/ /\ sub # "LOGOFF" /\ run[i] \in {"off", "on"} /\ run'[i] = "on"
            /\ run[i] = "off" => sub # "LOGON"
  PROVE  AfterInv'
<1>1. PICK n \in DOMAIN queue' :
        /\ queue'[n].sub = sub /\ queue'[n].by = i /\ queue'[n].ref = i
        /\ \A k \in DOMAIN queue' : k = n \/ k \in DOMAIN queue
        /\ \A k \in DOMAIN queue : k \in DOMAIN queue' /\ k < n /\ k # n /\ queue'[k] = queue[k]
  BY DEF Extended
<1>2. \A k \in DOMAIN queue : queue[k].by \in Inst /\ k \in Nat
  BY DEF Extended
<1>3. ASSUME NEW k \in DOMAIN queue, queue[k].sub = "LOGON"
      PROVE  Announced(k, queue[k].by)' /\ run[queue[k].by] \in {"on", "closed"}
  <2>1. PICK b \in Inst : b = queue[k].by
    BY <1>2
  <2>2. Announced(k, b) /\ queue'[k].by = b
    BY <1>1, <1>3, <2>1 DEF AfterInv
  <2>3. CASE b = i
    BY <1>1, <2>2, <2>3 DEF Announced, Bye
  <2>4. CASE b # i
    BY <1>1, <2>2, <2>4 DEF Announced, Bye
  <2> QED
    BY <2>3, <2>4
<1>4. ASSUME NEW k \in DOMAIN queue', queue'[k].sub = "LOGON"
      PROVE  Announced(k, queue[k].by)'
  <2>1. CASE k = n
    BY <1>1, <1>4, <2>1 DEF Announced
  <2> QED
    BY <1>1, <1>3, <1>4, <2>1
<1>5. ASSUME NEW k \in DOMAIN queue', NEW l \in DOMAIN queue',
             queue'[k].sub = "LOGON", queue'[l].sub = "LOGOFF", run'[queue'[k].by] = "on",
             queue'[l].by \in Copies(queue'[k].by)
      PROVE  l < k
  <2>1. CASE k = n
    BY <1>1, <1>5, <2>1
  <2>2. CASE k # n /\ l = n
    <3>1. PICK c \in Inst : c = queue'[k].by
      BY <1>1, <1>2, <2>2
    <3>2. run'[c] = "on" /\ run[i] = "on" /\ run'[i] = "closed" /\ i \in Copies(c)
      BY <1>1, <1>5, <2>2, <3>1
    <3>3. c # i /\ run[c] = "on"
      BY <3>2
    <3> QED
      BY <3>2, <3>3 DEF Alone, On
  <2>3. CASE k # n /\ l # n
    <3>1. PICK c \in Inst : c = queue[k].by
      BY <1>1, <1>2, <2>3
    <3>2. k \in DOMAIN queue /\ l \in DOMAIN queue /\ queue'[k] = queue[k] /\ queue'[l] = queue[l]
      BY <1>1, <2>3
    <3>3. run[c] \in {"on", "closed"} /\ run'[c] = "on"
      BY <1>3, <1>5, <3>1, <3>2
    <3>4. run[c] = "on"
      BY <3>3
    <3> QED
      BY <1>5, <3>1, <3>2, <3>4 DEF AfterInv
  <2> QED
    BY <2>1, <2>2, <2>3
<1> QED
  BY <1>4, <1>5 DEF AfterInv

LEMMA StartsOne ==
  ASSUME TypeOK, MemInv, OneInv, NEW i \in Inst, Starts(i), seconds = 0, seconds' = 0
  PROVE  OneInv'
<1>1. /\ run[i] = "off" /\ run'[i] = "on" /\ todo = {} /\ todo' = {}
      /\ UNCHANGED <<popStat, present, jobs>> /\ On(Copies(i)) = {}
      /\ \A j \in Inst : j # i => run'[j] = run[j]
      /\ queue' = Append(queue, Msg("CHECK_DOUBLERUN", i, i))
      /\ gipc' = [gipc EXCEPT ![i] = Request(Copies(i), i, 0, None)]
      /\ Request(Copies(i), i, 0, None).from = i
      /\ Request(Copies(i), i, 0, None).to = Copies(i)
  BY DEF Starts, TypeOK, Request
<1>2. \A k \in DOMAIN queue : queue[k].ref # i
  BY <1>1 DEF MemInv, Refs, Here
<1>3. Extended("CHECK_DOUBLERUN", i)
  BY <1>1, <1>2, Extends
<1>4. gipc'[i].from = i /\ gipc'[i].to = Copies(i)
  BY <1>1 DEF TypeOK
<1>5. SaysInv'
  BY <1>3, <1>4, ExtendsSays DEF OneInv
<1>6. AfterInv'
  BY <1>1, <1>3, ExtendsAfter DEF OneInv
<1>7. Alone'
  BY <1>1, KindsOf DEF OneInv, Alone, On
<1>8. /\ \A x : Leaves(x)' <=> Leaves(x)
      /\ \A x, p : Comes(x, p)' <=> Comes(x, p)
      /\ \A x : Asked(x)' <=> Asked(x) \/ x = i
  BY <1>3, ExtendsHears DEF Asked
<1>9. GoneInv'
  <2> SUFFICES ASSUME NEW x \in Inst
               PROVE  /\ run'[x] = "off" => present'[x] = FALSE
                      /\ run'[x] = "on" /\ present'[x] = TRUE /\ On(Partners(x))' = {} => Leaves(x)'
    BY DEF GoneInv
  <2>1. On(Partners(x))' = {} => On(Partners(x)) = {}
    BY <1>1, KindsOf DEF On
  <2> QED
    BY <1>1, <1>8, <2>1 DEF OneInv, GoneInv
<1>10. KnownInv'
  <2> SUFFICES ASSUME NEW x \in Inst, NEW p \in Inst, run'[x] = "on", run'[p] = "on",
                      p \in Partners(x)
               PROVE  /\ Knows(p)' => Meets(x, p)'
                      /\ Meets(x, p)' \/ Meets(p, x)' \/ Begins(x)' \/ Begins(p)'
    BY DEF KnownInv
  <2>1. present[i] = FALSE
    BY <1>1 DEF OneInv, GoneInv
  <2>2. \A y \in Inst : (Knows(y)' <=> Knows(y)) /\ (Begins(y)' <=> Begins(y) \/ y = i)
    BY <1>1, <1>8 DEF Knows, Begins
  <2>3. \A y, q \in Inst : Meets(y, q)' <=> Meets(y, q)
    BY <1>8, <2>2 DEF Meets
  <2>4. CASE x # i /\ p # i
    BY <1>1, <2>2, <2>3, <2>4 DEF OneInv, KnownInv
  <2>5. CASE p = i
    BY <2>1, <2>2, <2>5 DEF Knows
  <2>6. CASE x = i /\ p # i
    <3>1. On(Partners(p)) = {} /\ run[p] = "on"
      BY <1>1, <2>6, KindsOf
    <3>2. ~Knows(p)
      BY <3>1 DEF OneInv, GoneInv, Knows
    <3> QED
      BY <2>2, <2>6, <3>2
  <2> QED
    BY <2>4, <2>5, <2>6
<1>11. NamedInv'
  BY <1>1 DEF OneInv, NamedInv
<1> QED
  BY <1>5, <1>6, <1>7, <1>9, <1>10, <1>11 DEF OneInv

\* The user closes a program, or it closes itself.
LEMMA ClosesOne ==
  ASSUME TypeOK, OneInv, NEW i \in Inst, run[i] = "on", maincsm_onclose(i),
         todo = {}, todo' = {}, UNCHANGED <<popStat, present>>,
         \A k \in DOMAIN queue : queue[k].ref # i
  PROVE  OneInv'
<1>1. /\ run'[i] = "closed" /\ \A j \in Inst : j # i => run'[j] = run[j]
      /\ queue' = Append(queue, Msg("LOGOFF", i, i))
      /\ gipc' = [gipc EXCEPT ![i] = Request(Partners(i), i, 0, None)]
      /\ Request(Partners(i), i, 0, None).from = i
      /\ Request(Partners(i), i, 0, None).to = Partners(i)
  BY DEF maincsm_onclose, TypeOK, Request
<1>2. Extended("LOGOFF", i)
  BY <1>1, Extends
<1>3. gipc'[i].from = i /\ gipc'[i].to = Partners(i)
  BY <1>1 DEF TypeOK
<1>4. SaysInv'
  BY <1>2, <1>3, ExtendsSays DEF OneInv
<1>5. AfterInv'
  BY <1>1, <1>2, ExtendsAfter DEF OneInv
<1>6. Alone'
  BY <1>1 DEF OneInv, Alone, On
<1>7. \A x \in Inst : run'[x] = "on" => x # i /\ run[x] = "on" /\ i \notin Copies(x)
  BY <1>1 DEF OneInv, Alone, On
<1>8. \A x \in Inst : run'[x] = "on" => i \in Partners(x) /\ Leaves(x)'
  BY <1>2, <1>7, ExtendsHears, KindsOf
<1>9. GoneInv'
  BY <1>1, <1>8 DEF OneInv, GoneInv
<1>10. KnownInv'
  <2>1. \A x, p \in Inst : ~(run'[x] = "on" /\ run'[p] = "on" /\ p \in Partners(x))
    BY <1>7, <1>8, KindsOf
  <2> QED
    BY <2>1 DEF KnownInv
<1>11. NamedInv'
  BY DEF OneInv, NamedInv
<1> QED
  BY <1>4, <1>5, <1>6, <1>9, <1>10, <1>11 DEF OneInv

LEMMA LogsOnOne ==
  ASSUME TypeOK, OneInv, NEW i \in Inst, LogsOn(i), run[i] = "on"
  PROVE  OneInv'
<1>1. /\ todo = {} /\ todo' = {} /\ queue = <<>> /\ jobs # <<>> /\ jobs' = Tail(jobs)
      /\ Head(jobs) = Check(i) /\ UNCHANGED <<run, popStat, present>>
      /\ queue' = Append(queue, Msg("LOGON", i, i))
      /\ gipc' = [gipc EXCEPT ![i] = Request(Partners(i), i, 0, OwnStat(i))]
      /\ Request(Partners(i), i, 0, OwnStat(i)).stat = OwnStat(i)
      /\ Request(Partners(i), i, 0, OwnStat(i)).from = i
      /\ Request(Partners(i), i, 0, OwnStat(i)).to = Partners(i)
  BY DEF LogsOn, HelperRuns, Busy, Check, Request
<1>2. Extended("LOGON", i)
  <2>1. \A k \in DOMAIN queue : queue[k].ref # i
    BY <1>1
  <2> QED
    BY <1>1, <2>1, Extends
<1>3. gipc'[i].from = i /\ gipc'[i].to = Partners(i) /\ gipc'[i].stat = OwnStat(i)
  BY <1>1 DEF TypeOK
<1>4. SaysInv'
  BY <1>2, <1>3, ExtendsSays DEF OneInv
<1>5. AfterInv'
  BY <1>1, <1>2, ExtendsAfter DEF OneInv
<1>6. Alone'
  BY <1>1 DEF OneInv, Alone, On
<1>7. /\ \A x : Leaves(x)' <=> Leaves(x)
      /\ \A x, p : Comes(x, p)' <=> Comes(x, p) \/ p = i
      /\ \A x : ~Asked(x)
  BY <1>1, <1>2, ExtendsHears DEF Asked, AsksOf
<1>8. GoneInv'
  BY <1>1, <1>7 DEF OneInv, GoneInv, On
<1>9. KnownInv'
  <2> SUFFICES ASSUME NEW x \in Inst, NEW p \in Inst, run'[x] = "on", run'[p] = "on",
                      p \in Partners(x)
               PROVE  /\ Knows(p)' => Meets(x, p)'
                      /\ Meets(x, p)' \/ Meets(p, x)' \/ Begins(x)' \/ Begins(p)'
    BY DEF KnownInv
  <2>1. \A y \in Inst : (Knows(y)' <=> Knows(y)) /\ (Begins(y) => Begins(y)' \/ y = i)
    <3>1. \A y \in Inst : Check(y) \in Range(jobs) => Check(y) \in Range(jobs') \/ y = i
      <4> SUFFICES ASSUME NEW y \in Inst, Check(y) \in Range(jobs), Check(y) # Check(i)
                   PROVE  Check(y) \in Range(jobs')
        BY DEF Check
      <4> QED
        BY <1>1, JobStays DEF TypeOK
    <3> QED
      BY <1>1, <1>7, <3>1 DEF Knows, Begins
  <2>2. \A y, q \in Inst : (Meets(y, q) => Meets(y, q)') /\ Meets(y, i)'
    BY <1>7, <2>1 DEF Meets
  <2> QED
    BY <1>1, <2>1, <2>2 DEF OneInv, KnownInv
<1>10. NamedInv'
  BY <1>1 DEF OneInv, NamedInv
<1> QED
  BY <1>4, <1>5, <1>6, <1>8, <1>9, <1>10 DEF OneInv

\* The first message is handed to program i.  What it has then still to hear.
LEMMA PassesHears ==
  ASSUME NEW i \in todo, NEW answered \in BOOLEAN, NEW s \in {0, 1}, Shifted(s, i, answered)
  PROVE  /\ \A x : x # i => (Leaves(x)' <=> Leaves(x))
         /\ Leaves(i)' => Leaves(i)
         /\ Leaves(i) => \/ Leaves(i)'
                         \/ Head(queue).sub = "LOGOFF" /\ Head(queue).by \in Partners(i)
         /\ \A x, p : x # i /\ Comes(x, p) => Comes(x, p)'
         /\ \A p : Comes(i, p) => \/ Comes(i, p)'
                                  \/ Head(queue).sub = "LOGON" /\ Head(queue).by = p
         /\ \A x : answered = TRUE => Comes(x, i)'
         /\ \A p, x : AsksOf(p, x)' => AsksOf(p, x)
         /\ \A p, x : AsksOf(p, x) => \/ AsksOf(p, x)'
                                      \/ x = i /\ Head(queue).sub = "CHECK_DOUBLERUN" /\ Ref = p
<1>1. /\ \A k \in DOMAIN queue : k \in Nat \ {0} /\ k > s => k - s \in DOMAIN queue' /\ queue'[k - s] = queue[k]
      /\ Head(queue) = queue[1] /\ Ref = queue[1].ref /\ 1 \in DOMAIN queue
      /\ DOMAIN queue \subseteq Nat \ {0} /\ DOMAIN queue' \subseteq Nat \ {0}
  BY DEF Shifted, Ref
<1>2. Msg("LOGON", i, Ref) = [sub |-> "LOGON", by |-> i, ref |-> Ref]
  BY DEF Msg
\* What waits for x after it did so before, and the other way round.
<1>3. ASSUME NEW k \in DOMAIN queue, NEW x, Waits(k, x), x = i => k # 1
      PROVE  k - s \in DOMAIN queue' /\ queue'[k - s] = queue[k] /\ Waits(k - s, x)'
  <2>1. k > s
    BY <1>1, <1>3 DEF Waits, Shifted
  <2>2. k - s = 1 => todo' = {} \/ x \in todo'
    BY <1>1, <1>3, <2>1 DEF Waits, Shifted
  <2> QED
    BY <1>1, <2>1, <2>2 DEF Waits
<1>4. ASSUME NEW k \in DOMAIN queue', NEW x, Waits(k, x)', queue'[k].sub # "LOGON"
      PROVE  k + s \in DOMAIN queue /\ queue'[k] = queue[k + s] /\ Waits(k + s, x)
  <2>1. k + s \in DOMAIN queue /\ queue'[k] = queue[k + s]
    BY <1>2, <1>4 DEF Shifted
  <2>2. k + s = 1 => todo' # {} /\ k = 1
    BY <1>1 DEF Shifted
  <2>3. k + s = 1 => x \in todo
    BY <1>4, <2>2 DEF Waits, Shifted
  <2> QED
    BY <2>1, <2>3 DEF Waits
<1>5. \A x : Leaves(x)' => Leaves(x)
  BY <1>4 DEF Leaves, Partners, Inst, Copies
<1>6. \A x : Leaves(x) => \/ Leaves(x)'
                          \/ x = i /\ Head(queue).sub = "LOGOFF" /\ Head(queue).by \in Partners(i)
  BY <1>1, <1>3 DEF Leaves, Partners, Inst, Copies
<1>7. \A x, p : Comes(x, p) => \/ Comes(x, p)'
                               \/ x = i /\ Head(queue).sub = "LOGON" /\ Head(queue).by = p
  BY <1>1, <1>3 DEF Comes
<1>8. /\ \A p, x : AsksOf(p, x)' => AsksOf(p, x)
      /\ \A p, x : AsksOf(p, x) => \/ AsksOf(p, x)'
                                   \/ x = i /\ Head(queue).sub = "CHECK_DOUBLERUN" /\ Ref = p
  <2>1. \A p, x : AsksOf(p, x)' => AsksOf(p, x)
    BY <1>4 DEF AsksOf, Asks
  <2>2. \A p, x : AsksOf(p, x) => \/ AsksOf(p, x)'
                                  \/ x = i /\ Head(queue).sub = "CHECK_DOUBLERUN" /\ Ref = p
    BY <1>1, <1>3 DEF AsksOf, Asks
  <2> QED
    BY <2>1, <2>2
<1>9. ASSUME answered = TRUE, NEW x
      PROVE  Comes(x, i)'
  <2>1. PICK k \in DOMAIN queue' :
               queue'[k] = Msg("LOGON", i, Ref) /\ \A l \in DOMAIN queue : l < k + s
    BY <1>9 DEF Shifted
  <2>2. k = 1 => todo' = {}
    BY <1>1, <2>1 DEF Shifted
  <2> QED
    BY <1>2, <2>1, <2>2 DEF Comes, Waits
<1>10. /\ \A x : x # i => (Leaves(x)' <=> Leaves(x))
       /\ Leaves(i)' => Leaves(i)
       /\ Leaves(i) => \/ Leaves(i)'
                       \/ Head(queue).sub = "LOGOFF" /\ Head(queue).by \in Partners(i)
  BY <1>5, <1>6
<1>11. /\ \A x, p : x # i /\ Comes(x, p) => Comes(x, p)'
       /\ \A p : Comes(i, p) => \/ Comes(i, p)'
                                \/ Head(queue).sub = "LOGON" /\ Head(queue).by = p
  BY <1>7
<1> QED
  BY <1>8, <1>9, <1>10, <1>11

\* What is read from the gipc of others, and of i if it does not answer, is the same.
LEMMA PassesSays ==
  ASSUME TypeOK, MemInv, Alone, SaysInv, NEW i \in todo, NEW answered \in BOOLEAN,
         NEW s \in {0, 1}, Shifted(s, i, answered),
         answered = TRUE => /\ Head(queue).sub = "LOGON" /\ Head(queue).by \in Partners(i)
                            /\ gipc'[Ref].from = i /\ gipc'[Ref].to = Partners(i)
                            /\ gipc'[Ref].stat = OwnStat(i),
         \A r \in Inst : \/ answered = TRUE /\ r = Ref
                         \/ /\ gipc'[r].to = gipc[r].to /\ gipc'[r].from = gipc[r].from
                            /\ gipc'[r].stat = gipc[r].stat
  PROVE  SaysInv'
<1>1. /\ Head(queue) = queue[1] /\ Ref = queue[1].ref /\ 1 \in DOMAIN queue /\ i \in Inst
      /\ DOMAIN queue \subseteq Nat \ {0} /\ DOMAIN queue' \subseteq Nat \ {0}
      /\ \A k \in DOMAIN queue : queue[k].ref \in Inst /\ queue[k].by \in Inst
      /\ \A k \in DOMAIN queue' : \/ k + s \in DOMAIN queue /\ queue'[k] = queue[k + s]
                                  \/ /\ answered = TRUE /\ queue'[k] = Msg("LOGON", i, Ref)
                                     /\ \A l \in DOMAIN queue' : l <= k
  BY DEF Shifted, Ref, TypeOK, Messages
<1>2. Msg("LOGON", i, Ref).sub = "LOGON" /\ Msg("LOGON", i, Ref).by = i /\ Msg("LOGON", i, Ref).ref = Ref
  BY DEF Msg
\* Only program i is to hear the message that it answers.
<1>3. answered = TRUE => Current(1)
  <2>1. answered = TRUE => i \in Partners(queue[1].by)
    BY <1>1, KindsOf
  <2> QED
    BY <1>1, <2>1 DEF SaysInv
<1>4. answered = TRUE => (todo \ {i}) \cap Partners(queue[1].by) = {}
  <2> SUFFICES ASSUME answered = TRUE, NEW j \in todo, j # i, j \in Partners(queue[1].by)
               PROVE  FALSE
    OBVIOUS
  <2>1. j \in Copies(i) /\ j \in Inst
    BY <1>1, KindsOf DEF TypeOK
  <2> QED
    BY <1>1, <2>1 DEF Alone, On, MemInv
<1>5. ASSUME NEW k \in DOMAIN queue', k + s \in DOMAIN queue, queue'[k] = queue[k + s]
      PROVE  /\ Current(k)' => Says(k, gipc[queue[k].ref])'
             /\ ~Current(k)' => /\ k = 1 /\ queue'[1].sub = "LOGON" /\ todo' # {}
                                /\ todo' \cap Partners(queue'[1].by) = {}
  <2>1. CASE answered = TRUE /\ queue'[k].ref = Ref
    <3>1. k + s <= 1
      BY <1>1, <1>3, <1>5, <2>1 DEF Current
    <3>2. k = 1 /\ s = 0
      BY <1>1, <3>1
    <3>3. todo' = todo \ {i} /\ todo' # {}
      BY <3>2 DEF Shifted
    <3>4. ~Current(k)'
      <4>1. PICK l \in DOMAIN queue' :
                   queue'[l] = Msg("LOGON", i, Ref) /\ \A j \in DOMAIN queue : j < l + s
        BY <2>1 DEF Shifted
      <4>2. l > k /\ queue'[l].ref = queue'[k].ref
        BY <1>1, <1>2, <1>5, <2>1, <3>2, <4>1
      <4> QED
        BY <1>1, <4>2 DEF Current
    <3> QED
      BY <1>1, <1>4, <1>5, <2>1, <3>2, <3>3, <3>4
  <2>2. CASE ~(answered = TRUE /\ queue'[k].ref = Ref)
    <3>1. PICK r \in Inst : r = queue[k + s].ref /\ r = queue'[k].ref
      BY <1>1, <1>5
    <3>2. /\ gipc'[r].to = gipc[r].to /\ gipc'[r].from = gipc[r].from
          /\ gipc'[r].stat = gipc[r].stat
      BY <2>2, <3>1
    <3>3. Says(k + s, gipc[r]) => Says(k, gipc[r])'
      BY <1>5, <3>2 DEF Says, Asks
    <3>4. ASSUME Current(k)'
          PROVE  Current(k + s)
      <4> SUFFICES ASSUME NEW l \in DOMAIN queue, queue[l].ref = r, l > k + s
                   PROVE  FALSE
        BY <1>1, <3>1 DEF Current
      <4>1. l - s \in DOMAIN queue' /\ queue'[l - s] = queue[l] /\ l - s > k
        BY <1>1 DEF Shifted
      <4> QED
        BY <1>1, <3>1, <3>4, <4>1 DEF Current
    <3>5. ASSUME ~Current(k)'
          PROVE  ~Current(k + s)
      <4>1. PICK l \in DOMAIN queue' : queue'[l].ref = r /\ ~(l <= k)
        BY <3>1, <3>5 DEF Current
      <4>2. l + s \in DOMAIN queue /\ queue'[l] = queue[l + s]
        BY <1>1, <1>2, <2>2, <3>1, <4>1
      <4> QED
        BY <1>1, <3>1, <4>1, <4>2 DEF Current
    <3>6. CASE Current(k)'
      <4>1. Says(k + s, gipc[r])
        BY <1>5, <3>1, <3>4, <3>6 DEF SaysInv
      <4> QED
        BY <3>1, <3>3, <3>6, <4>1
    <3>7. CASE ~Current(k)'
      <4>1. /\ k + s = 1 /\ queue[1].sub = "LOGON" /\ todo \cap Partners(queue[1].by) = {}
        BY <1>5, <3>5, <3>7 DEF SaysInv
      <4>2. k = 1 /\ s = 0
        BY <1>1, <4>1
      <4> QED
        BY <1>5, <3>7, <4>1, <4>2 DEF Shifted
    <3> QED
      BY <3>6, <3>7
  <2> QED
    BY <2>1, <2>2
<1>6. ASSUME NEW k \in DOMAIN queue', answered = TRUE, queue'[k] = Msg("LOGON", i, Ref),
             \A l \in DOMAIN queue' : l <= k
      PROVE  Current(k)' /\ Says(k, gipc[queue[k].ref])'
  BY <1>2, <1>6 DEF Current, Says, Asks
<1>7. \A k \in DOMAIN queue' : Asks(k)' => queue'[k].by = queue'[k].ref
  BY <1>1, <1>2 DEF SaysInv, Asks
<1>8. \A k \in DOMAIN queue' :
        /\ Current(k)' => Says(k, gipc[queue[k].ref])'
        /\ ~Current(k)' => /\ k = 1 /\ queue'[1].sub = "LOGON" /\ todo' # {}
                           /\ todo' \cap Partners(queue'[1].by) = {}
  BY <1>1, <1>5, <1>6
<1> QED
  BY <1>7, <1>8 DEF SaysInv, Partners, Inst, Copies

LEMMA PassesAfter ==
  ASSUME TypeOK, MemInv, AfterInv, NEW i \in todo, NEW answered \in BOOLEAN,
         NEW s \in {0, 1}, Shifted(s, i, answered), UNCHANGED run
  PROVE  AfterInv'
<1>1. /\ i \in Inst /\ run[i] = "on"
      /\ DOMAIN queue \subseteq Nat \ {0} /\ DOMAIN queue' \subseteq Nat \ {0}
      /\ \A k \in DOMAIN queue' :
           \/ k + s \in DOMAIN queue /\ queue'[k] = queue[k + s]
           \/ queue'[k].by = i /\ queue'[k].sub = "LOGON" /\ \A l \in DOMAIN queue : l < k + s
  BY DEF Shifted, TypeOK, MemInv, Msg
<1>2. ASSUME NEW k \in DOMAIN queue', queue'[k].sub = "LOGON"
      PROVE  Announced(k, queue[k].by)'
  <2>1. CASE k + s \in DOMAIN queue /\ queue'[k] = queue[k + s]
    <3>1. PICK b : b = queue'[k].by
      OBVIOUS
    <3>2. Announced(k + s, b)
      BY <1>2, <2>1, <3>1 DEF AfterInv
    <3>3. \A l \in DOMAIN queue : l > k + s => l - s \in DOMAIN queue' /\ queue'[l - s] = queue[l] /\ l - s > k
      BY <1>1 DEF Shifted
    <3>4. Announced(k, b)'
      BY <3>2, <3>3 DEF Announced, Bye
    <3> QED
      BY <3>1, <3>4
  <2>2. CASE queue'[k].by = i
    BY <1>1, <2>2 DEF Announced
  <2> QED
    BY <1>1, <2>1, <2>2
<1>3. ASSUME NEW k \in DOMAIN queue', NEW l \in DOMAIN queue',
             queue'[k].sub = "LOGON", queue'[l].sub = "LOGOFF", run'[queue'[k].by] = "on",
             queue'[l].by \in Copies(queue'[k].by)
      PROVE  l < k
  <2>1. l + s \in DOMAIN queue /\ queue'[l] = queue[l + s]
    BY <1>1, <1>3
  <2>2. CASE k + s \in DOMAIN queue /\ queue'[k] = queue[k + s]
    <3>1. l + s < k + s
      BY <1>3, <2>1, <2>2 DEF AfterInv
    <3> QED
      BY <1>1, <3>1
  <2>3. CASE \A j \in DOMAIN queue : j < k + s
    <3>1. l + s < k + s
      BY <2>1, <2>3
    <3> QED
      BY <1>1, <3>1
  <2> QED
    BY <1>1, <2>2, <2>3
<1> QED
  BY <1>2, <1>3 DEF AfterInv

\* What a program still knows, or is still to hear, of its partner.
LEMMA PassesKnown ==
  ASSUME NEW i \in todo, NEW answered \in BOOLEAN, NEW s \in {0, 1}, Shifted(s, i, answered),
         \A x \in Inst : x # i => present'[x] = present[x],
         \A x \in Inst : Check(x) \in Range(jobs) => Check(x) \in Range(jobs'),
         i \in Inst
  PROVE  /\ \A x \in Inst : x # i => (Knows(x)' <=> Knows(x))
         /\ \A x, p \in Inst : x # i /\ Meets(x, p) => Meets(x, p)'
         /\ \A x \in Inst : x # i /\ Begins(x) => Begins(x)'
<1>1. /\ \A x : x # i => (Leaves(x)' <=> Leaves(x))
      /\ \A x, p : x # i /\ Comes(x, p) => Comes(x, p)'
      /\ \A x : x # i /\ Asked(x) => Asked(x)'
  BY PassesHears DEF Asked
<1>2. \A x \in Inst : x # i => (Knows(x)' <=> Knows(x))
  BY <1>1 DEF Knows
<1>3. \A x, p \in Inst : x # i /\ Meets(x, p) => Meets(x, p)'
  BY <1>1, <1>2 DEF Meets
<1>4. \A x \in Inst : x # i /\ Begins(x) => Begins(x)'
  BY <1>1 DEF Begins
<1> QED
  BY <1>2, <1>3, <1>4

\* A LOGON of a partner that runs comes after all LOGOFFs of that kind of program.
LEMMA ComesLast ==
  ASSUME TypeOK, MemInv, AfterInv, queue # <<>>, NEW i \in todo,
         Head(queue).sub = "LOGON", NEW p \in Partners(i), Head(queue).by = p, run[p] = "on"
  PROVE  ~Leaves(i)
<1>1. /\ Head(queue) = queue[1] /\ 1 \in DOMAIN queue /\ i \in Inst /\ p \in Inst
      /\ DOMAIN queue \subseteq Nat \ {0} /\ \A k \in DOMAIN queue : queue[k].by \in Inst
  BY QueueIsSeq, KindsOf DEF QueueIs, TypeOK, Messages
<1> SUFFICES ASSUME NEW l \in DOMAIN queue, queue[l].sub = "LOGOFF", queue[l].by \in Partners(i)
             PROVE  FALSE
  BY DEF Leaves
<1>2. queue[l].by \in Copies(p)
  BY <1>1, KindsOf
<1>3. l < 1
  BY <1>1, <1>2 DEF AfterInv
<1> QED
  BY <1>1, <1>3

\* The invariant after program i has been handed a message: it is left to show that what
\* i knows is true, of its partners and of its own kind.
LEMMA PassesOne ==
  ASSUME TypeOK, MemInv, OneInv, NEW i \in todo, NEW answered \in BOOLEAN,
         NEW s \in {0, 1}, Shifted(s, i, answered), UNCHANGED run, SaysInv',
         \A x \in Inst : x # i => present'[x] = present[x],
         \A x \in Inst : x # i => popStat'[x] = popStat[x],
         \A x \in Inst : Check(x) \in Range(jobs) => Check(x) \in Range(jobs'),
         present'[i] = TRUE /\ On(Partners(i)) = {} => Leaves(i)',
         \A p \in Inst : run[p] = "on" /\ p \in Partners(i) =>
           /\ Knows(p) => Meets(i, p)'
           /\ Knows(i)' => Meets(p, i)'
           /\ Meets(i, p)' \/ Meets(p, i)' \/ Begins(i)' \/ Begins(p)',
         i \in Viewers /\ present'[i] = TRUE => popStat'[i] # None
  PROVE  OneInv'
<1>1. i \in Inst /\ run[i] = "on"
  BY DEF MemInv, TypeOK
<1>2. AfterInv'
  BY PassesAfter DEF OneInv
<1>3. Alone'
  BY DEF OneInv, Alone, On
<1>4. /\ \A x \in Inst : x # i => (Knows(x)' <=> Knows(x))
      /\ \A x, p \in Inst : x # i /\ Meets(x, p) => Meets(x, p)'
      /\ \A x : x # i => (Leaves(x)' <=> Leaves(x))
  BY <1>1, PassesKnown, PassesHears
<1>5. GoneInv'
  <2> SUFFICES ASSUME NEW x \in Inst
               PROVE  /\ run'[x] = "off" => present'[x] = FALSE
                      /\ run'[x] = "on" /\ present'[x] = TRUE /\ On(Partners(x))' = {} => Leaves(x)'
    BY DEF GoneInv
  <2>1. On(Partners(x))' = On(Partners(x))
    BY DEF On
  <2> QED
    BY <1>1, <1>4, <2>1 DEF OneInv, GoneInv
<1>6. KnownInv'
  <2> SUFFICES ASSUME NEW x \in Inst, NEW p \in Inst, run'[x] = "on", run'[p] = "on",
                      p \in Partners(x)
               PROVE  /\ Knows(p)' => Meets(x, p)'
                      /\ Meets(x, p)' \/ Meets(p, x)' \/ Begins(x)' \/ Begins(p)'
    BY DEF KnownInv
  <2>1. x = i \/ p = i
    BY <1>1, Apart DEF OneInv, On
  <2>2. x \in Partners(p) /\ x # p
    BY KindsOf
  <2> QED
    BY <1>4, <2>1, <2>2
<1>7. NamedInv'
  BY <1>1, Kinds DEF OneInv, NamedInv
<1> QED
  BY <1>2, <1>3, <1>5, <1>6, <1>7 DEF OneInv

LEMMA LogonOne ==
  ASSUME TypeOK, MemInv, FarewellInv, OneInv, NEW i \in Inst, Logon(i)
  PROVE  OneInv'
<1>1. /\ i \in todo /\ queue # <<>> /\ UNCHANGED <<run, jobs>>
      /\ Head(queue).sub = "LOGON" /\ Head(queue).by \in Partners(i)
      /\ Passes(i, <<Msg("LOGON", i, Ref)>>)
      /\ present[i] = FALSE
      /\ popStat' = [popStat EXCEPT ![i] = gipc[Ref].stat]
      /\ present' = [present EXCEPT ![i] = TRUE]
      /\ gipc' = [gipc EXCEPT ![Ref] = Request(Copies(Req.from), i, 0, OwnStat(i))]
      /\ Ref \in Inst
  BY RefIs DEF Logon, Handles, Req, MemInv, TypeOK
<1>2. PICK s \in {0, 1} : Shifted(s, i, TRUE)
  BY <1>1, PassesShifts
<1>3. PICK b \in Partners(i) : b = Head(queue).by
  BY <1>1
<1>4. /\ 1 \in DOMAIN queue /\ Head(queue) = queue[1] /\ Ref = queue[1].ref
      /\ b \in Inst /\ i \in Partners(b) /\ Copies(b) = Partners(i)
  BY <1>2, KindsOf DEF Shifted, Ref
<1>5. Current(1)
  BY <1>1, <1>3, <1>4 DEF OneInv, SaysInv
<1>6. Req.from = b /\ gipc[Ref].stat = OwnStat(b)
  BY <1>1, <1>3, <1>4, <1>5 DEF OneInv, SaysInv, Says, Req
<1>7. /\ gipc'[Ref].from = i /\ gipc'[Ref].to = Partners(i) /\ gipc'[Ref].stat = OwnStat(i)
      /\ \A r \in Inst : r # Ref => gipc'[r] = gipc[r]
  BY <1>1, <1>4, <1>6 DEF TypeOK, Request
<1>8. SaysInv'
  BY <1>1, <1>2, <1>7, PassesSays DEF OneInv
<1>9. /\ \A x \in Inst : x # i => present'[x] = present[x] /\ popStat'[x] = popStat[x]
      /\ present'[i] = TRUE /\ popStat'[i] = OwnStat(b)
  BY <1>1, <1>6 DEF TypeOK
<1>10. On(Partners(i)) = {} => Leaves(i)'
  <2> SUFFICES ASSUME run[b] # "on" PROVE Leaves(i)'
    BY <1>3 DEF On
  <2>1. run[b] = "closed" /\ \E l \in DOMAIN queue : l > 1 /\ Bye(l, b)
    BY <1>1, <1>3, <1>4 DEF OneInv, AfterInv, Announced
  <2>2. PICK l \in DOMAIN queue : l > 1 /\ Bye(l, b)
    BY <2>1
  <2>3. queue[l].by = b
    BY <2>2 DEF Bye, FarewellInv
  <2>4. Waits(l, i)
    <3>1. l # 1
      BY <1>2, <2>2 DEF Shifted
    <3> QED
      BY <3>1 DEF Waits
  <2>5. Leaves(i)
    BY <2>2, <2>3, <2>4 DEF Leaves, Bye
  <2> QED
    BY <1>1, <1>2, <2>5, PassesHears
<1>11. \A p \in Inst : run[p] = "on" /\ p \in Partners(i) => (Knows(p) => Meets(i, p)')
  <2> SUFFICES ASSUME NEW p \in Inst, run[p] = "on", p \in Partners(i), Knows(p)
               PROVE  Meets(i, p)'
    OBVIOUS
  <2>1. Comes(i, p)
    BY <1>1 DEF OneInv, KnownInv, Meets, Knows, MemInv
  <2>2. CASE Comes(i, p)'
    BY <2>2 DEF Meets
  <2>3. CASE Head(queue).sub = "LOGON" /\ Head(queue).by = p
    <3>1. ~Leaves(i)
      BY <1>1, <2>3, ComesLast DEF OneInv
    <3>2. ~Leaves(i)'
      BY <1>2, <1>1, <3>1, PassesHears
    <3> QED
      BY <1>9, <3>2 DEF Meets, Knows
  <2> QED
    BY <1>1, <1>2, <2>1, <2>2, <2>3, PassesHears
<1>12. \A p \in Inst : Meets(p, i)'
  BY <1>1, <1>2, PassesHears DEF Meets
<1>13. i \in Viewers => popStat'[i] # None
  BY <1>4, <1>9, Kinds DEF Partners, Copies, Inst
<1> QED
  BY <1>1, <1>2, <1>8, <1>9, <1>10, <1>11, <1>12, <1>13, PassesOne

LEMMA LogoffOne ==
  ASSUME TypeOK, MemInv, OneInv, NEW i \in Inst, Logoff(i)
  PROVE  OneInv'
<1>1. /\ i \in todo /\ queue # <<>> /\ UNCHANGED <<run, gipc, jobs>>
      /\ Head(queue).sub = "LOGOFF" /\ Head(queue).by \in Partners(i)
      /\ Passes(i, <<>>)
      /\ popStat' = [popStat EXCEPT ![i] = None]
      /\ present' = [present EXCEPT ![i] = FALSE]
  BY DEF Logoff, Handles, MemInv
<1>2. PICK s \in {0, 1} : Shifted(s, i, FALSE)
  BY <1>1, PassesShifts
<1>3. SaysInv'
  BY <1>1, <1>2, PassesSays DEF OneInv
<1>4. /\ \A x \in Inst : x # i => present'[x] = present[x] /\ popStat'[x] = popStat[x]
      /\ present'[i] = FALSE
  BY <1>1 DEF TypeOK
<1>5. Leaves(i)
  <2>1. 1 \in DOMAIN queue /\ Head(queue) = queue[1]
    BY <1>2 DEF Shifted
  <2> QED
    BY <1>1, <2>1 DEF Leaves, Waits
\* What i has met is a LOGON behind the LOGOFF.
<1>6. /\ \A p \in Inst : Meets(i, p) => Meets(i, p)'
      /\ Begins(i) => Begins(i)'
  <2>1. /\ \A p \in Inst : Comes(i, p) => Comes(i, p)'
        /\ Asked(i) => Asked(i)'
    BY <1>1, <1>2, PassesHears DEF Asked
  <2> QED
    BY <1>1, <1>5, <2>1 DEF Meets, Knows, Begins
<1>7. /\ \A x \in Inst : x # i => (Knows(x)' <=> Knows(x))
      /\ \A x, p \in Inst : x # i /\ Meets(x, p) => Meets(x, p)'
      /\ \A x \in Inst : x # i /\ Begins(x) => Begins(x)'
  BY <1>1, <1>2, <1>4, PassesKnown
<1>8. ASSUME NEW p \in Inst, run[p] = "on", p \in Partners(i)
      PROVE  /\ Knows(p) => Meets(i, p)'
             /\ Knows(i)' => Meets(p, i)'
             /\ Meets(i, p)' \/ Meets(p, i)' \/ Begins(i)' \/ Begins(p)'
  <2>1. run[i] = "on" /\ i # p
    BY <1>1, <1>8, KindsOf DEF MemInv
  <2>2. /\ Knows(p) => Meets(i, p)
        /\ Meets(i, p) \/ Meets(p, i) \/ Begins(i) \/ Begins(p)
    BY <1>8, <2>1 DEF OneInv, KnownInv
  <2>3. ~Knows(i)'
    BY <1>4 DEF Knows
  <2> QED
    BY <1>6, <1>7, <2>1, <2>2, <2>3
<1> QED
  BY <1>1, <1>2, <1>3, <1>4, <1>8, PassesOne

LEMMA CountsOne ==
  ASSUME TypeOK, MemInv, OneInv, NEW i \in Inst, CountsCopies(i)
  PROVE  OneInv'
<1>1. /\ i \in todo /\ queue # <<>> /\ UNCHANGED <<run, present, popStat>> /\ Ref \in Inst
      /\ Head(queue).sub = "CHECK_DOUBLERUN" /\ Passes(i, <<>>)
      /\ gipc' = [gipc EXCEPT ![Ref].data = @ + 1]
      /\ jobs' = IF gipc[Ref].from = i THEN Append(jobs, Check(i)) ELSE jobs
  BY RefIs DEF CountsCopies, Handles, Check, Req, MemInv
<1>2. PICK s \in {0, 1} : Shifted(s, i, FALSE)
  BY <1>1, PassesShifts
<1>3. \A r \in Inst : /\ gipc'[r].to = gipc[r].to /\ gipc'[r].from = gipc[r].from
                      /\ gipc'[r].stat = gipc[r].stat
  <2>1. gipc[Ref] \in Requests
    BY <1>1 DEF TypeOK
  <2>2. \A r \in Inst : r # Ref => gipc'[r] = gipc[r]
    BY <1>1 DEF TypeOK
  <2>3. gipc'[Ref] = [gipc[Ref] EXCEPT !.data = @ + 1]
    BY <1>1 DEF TypeOK
  <2> QED
    BY <2>1, <2>2, <2>3 DEF Requests
<1>4. SaysInv'
  BY <1>1, <1>2, <1>3, PassesSays DEF OneInv
<1>5. Check(i) \in Jobs
  BY JobIs DEF Check
<1>6. \A x \in Inst : Check(x) \in Range(jobs) => Check(x) \in Range(jobs')
  <2> SUFFICES ASSUME NEW x \in Inst, Check(x) \in Range(jobs) PROVE Check(x) \in Range(jobs')
    OBVIOUS
  <2>1. Check(x) \in Range(Append(jobs, Check(i)))
    BY <1>5, JobStays DEF TypeOK
  <2> QED
    BY <1>1, <2>1
\* The one that has asked has a job to do then.
<1>7. Begins(i) => Begins(i)'
  <2>1. CASE Head(queue).sub = "CHECK_DOUBLERUN" /\ Ref = i
    <3>1. Head(queue) = queue[1] /\ 1 \in DOMAIN queue /\ Asks(1)
      BY <1>2, <2>1 DEF Shifted, Asks
    <3>2. Current(1) /\ queue[1].by = i
      BY <2>1, <3>1 DEF OneInv, SaysInv, Ref, Asks
    <3>3. gipc[Ref].from = i
      BY <2>1, <3>1, <3>2 DEF OneInv, SaysInv, Says, Ref
    <3>4. Len(jobs) + 1 \in DOMAIN jobs' /\ jobs'[Len(jobs) + 1] = Check(i)
      BY <1>1, <1>5, <3>3, Added DEF TypeOK
    <3> QED
      BY <3>4 DEF Begins, Range
  <2>2. CASE Check(i) \in Range(jobs)
    BY <1>6, <2>2 DEF Begins
  <2>3. CASE Asked(i)'
    BY <2>3 DEF Begins
  <2> QED
    BY <1>1, <1>2, <2>1, <2>2, <2>3, PassesHears DEF Begins, Asked
<1>8. /\ Leaves(i)' <=> Leaves(i)
      /\ \A p \in Inst : Comes(i, p) => Comes(i, p)'
  BY <1>1, <1>2, PassesHears
<1>9. /\ Knows(i)' <=> Knows(i)
      /\ \A p \in Inst : Meets(i, p) => Meets(i, p)'
  BY <1>1, <1>8 DEF Knows, Meets
<1>10. /\ \A x \in Inst : x # i => (Knows(x)' <=> Knows(x))
       /\ \A x, p \in Inst : x # i /\ Meets(x, p) => Meets(x, p)'
       /\ \A x \in Inst : x # i /\ Begins(x) => Begins(x)'
  BY <1>1, <1>2, <1>6, PassesKnown
<1>11. ASSUME NEW p \in Inst, run[p] = "on", p \in Partners(i)
       PROVE  /\ Knows(p) => Meets(i, p)'
              /\ Knows(i)' => Meets(p, i)'
              /\ Meets(i, p)' \/ Meets(p, i)' \/ Begins(i)' \/ Begins(p)'
  <2>1. run[i] = "on" /\ i # p /\ i \in Partners(p)
    BY <1>1, <1>11, KindsOf DEF MemInv
  <2>2. /\ Knows(p) => Meets(i, p)
        /\ Knows(i) => Meets(p, i)
        /\ Meets(i, p) \/ Meets(p, i) \/ Begins(i) \/ Begins(p)
    BY <1>11, <2>1 DEF OneInv, KnownInv
  <2> QED
    BY <1>7, <1>9, <1>10, <2>1, <2>2
<1>12. present'[i] = TRUE /\ On(Partners(i)) = {} => Leaves(i)'
  BY <1>1, <1>8 DEF OneInv, GoneInv, MemInv
<1>13. i \in Viewers /\ present'[i] = TRUE => popStat'[i] # None
  BY <1>1 DEF OneInv, NamedInv
<1> QED
  BY <1>1, <1>2, <1>4, <1>6, <1>11, <1>12, <1>13, PassesOne

LEMMA IgnoresOne ==
  ASSUME TypeOK, MemInv, OneInv, NEW i \in Inst, Ignores(i)
  PROVE  OneInv'
<1>1. /\ i \in todo /\ queue # <<>> /\ UNCHANGED <<run, present, popStat, gipc, jobs>>
      /\ Passes(i, <<>>)
      /\ ~(Handles(i, "LOGON") /\ Head(queue).by \in Partners(i) /\ present[i] = FALSE)
      /\ ~(Handles(i, "LOGOFF") /\ Head(queue).by \in Partners(i) /\ present[i] = TRUE)
      /\ ~Handles(i, "CHECK_DOUBLERUN")
  BY DEF Ignores, MemInv, TypeOK
<1>2. PICK s \in {0, 1} : Shifted(s, i, FALSE)
  BY <1>1, PassesShifts
<1>3. SaysInv'
  BY <1>1, <1>2, PassesSays DEF OneInv
<1>4. Head(queue) = queue[1] /\ 1 \in DOMAIN queue /\ Ref = queue[1].ref
  BY <1>2 DEF Shifted, Ref
\* A message of a partner, or of i itself, is for i.
<1>5. Head(queue).by \in Partners(i) /\ Head(queue).sub # "CHECK_DOUBLERUN" => i \in Req.to
  <2> SUFFICES ASSUME Head(queue).by \in Partners(i), Head(queue).sub # "CHECK_DOUBLERUN"
               PROVE  i \in Req.to
    OBVIOUS
  <2>1. i \in Partners(queue[1].by)
    BY <1>4, KindsOf
  <2>2. Current(1)
    BY <1>1, <1>4, <2>1 DEF OneInv, SaysInv
  <2> QED
    BY <1>4, <2>1, <2>2 DEF OneInv, SaysInv, Says, Asks, Req
<1>6. Head(queue).sub = "CHECK_DOUBLERUN" => Ref # i
  <2> SUFFICES ASSUME Head(queue).sub = "CHECK_DOUBLERUN", Ref = i PROVE FALSE
    OBVIOUS
  <2>1. Current(1) /\ queue[1].by = i
    BY <1>4 DEF OneInv, SaysInv, Asks
  <2>2. i \in Req.to
    BY <1>4, <2>1, KindsOf DEF OneInv, SaysInv, Says, Asks, Req
  <2> QED
    BY <1>1, <2>2 DEF Handles
<1>7. ASSUME Head(queue).sub = "LOGOFF", Head(queue).by \in Partners(i)
      PROVE  present[i] = FALSE
  BY <1>1, <1>5, <1>7 DEF Handles, TypeOK
<1>8. ASSUME Head(queue).sub = "LOGON", Head(queue).by \in Partners(i)
      PROVE  present[i] = TRUE
  BY <1>1, <1>5, <1>8 DEF Handles, TypeOK
<1>9. present[i] = TRUE => (Leaves(i)' <=> Leaves(i))
  BY <1>1, <1>2, <1>7, PassesHears
<1>10. Knows(i)' <=> Knows(i)
  BY <1>1, <1>9 DEF Knows
<1>11. ASSUME NEW p \in Inst, run[p] = "on", p \in Partners(i), Meets(i, p)
       PROVE  Meets(i, p)'
  <2>1. CASE Knows(i)
    BY <1>10, <2>1 DEF Meets
  <2>2. CASE Comes(i, p)'
    BY <2>2 DEF Meets
  <2>3. CASE Head(queue).sub = "LOGON" /\ Head(queue).by = p
    <3>1. ~Leaves(i) /\ present[i] = TRUE
      BY <1>1, <1>8, <1>11, <2>3, ComesLast DEF OneInv
    <3> QED
      BY <1>10, <3>1 DEF Knows, Meets
  <2> QED
    BY <1>1, <1>2, <1>11, <2>1, <2>2, <2>3, PassesHears DEF Meets
<1>12. Begins(i) => Begins(i)'
  BY <1>1, <1>2, <1>6, PassesHears DEF Begins, Asked
<1>13. /\ \A x \in Inst : x # i => (Knows(x)' <=> Knows(x))
       /\ \A x, p \in Inst : x # i /\ Meets(x, p) => Meets(x, p)'
       /\ \A x \in Inst : x # i /\ Begins(x) => Begins(x)'
  BY <1>1, <1>2, PassesKnown
<1>14. ASSUME NEW p \in Inst, run[p] = "on", p \in Partners(i)
       PROVE  /\ Knows(p) => Meets(i, p)'
              /\ Knows(i)' => Meets(p, i)'
              /\ Meets(i, p)' \/ Meets(p, i)' \/ Begins(i)' \/ Begins(p)'
  <2>1. run[i] = "on" /\ i # p /\ i \in Partners(p)
    BY <1>1, <1>14, KindsOf DEF MemInv
  <2>2. /\ Knows(p) => Meets(i, p)
        /\ Knows(i) => Meets(p, i)
        /\ Meets(i, p) \/ Meets(p, i) \/ Begins(i) \/ Begins(p)
    BY <1>14, <2>1 DEF OneInv, KnownInv
  <2>3. Meets(i, p) => Meets(i, p)'
    BY <1>11, <1>14
  <2> QED
    BY <1>10, <1>12, <1>13, <2>1, <2>2, <2>3
<1>15. present'[i] = TRUE /\ On(Partners(i)) = {} => Leaves(i)'
  BY <1>1, <1>9 DEF OneInv, GoneInv, MemInv
<1>16. i \in Viewers /\ present'[i] = TRUE => popStat'[i] # None
  BY <1>1 DEF OneInv, NamedInv
<1> QED
  BY <1>1, <1>2, <1>3, <1>14, <1>15, <1>16, PassesOne

LEMMA TakesOne ==
  ASSUME TypeOK, OneInv, TakesMessage
  PROVE  OneInv'
<1>1. /\ todo = {} /\ queue # <<>> /\ UNCHANGED <<run, present, popStat, gipc, jobs>>
  BY DEF TakesMessage
<1>2. Alone' /\ NamedInv' /\ \A x \in Inst : run'[x] = "off" => present'[x] = FALSE
  BY <1>1 DEF OneInv, Alone, On, NamedInv, GoneInv
<1>3. \A k \in DOMAIN queue : Current(k) /\ Says(k, gipc[queue[k].ref])
  BY <1>1 DEF OneInv, SaysInv
<1>4. CASE On(Inst) = {}
  <2>1. queue' = Tail(queue) /\ todo' = {} /\ \A x \in Inst : run[x] # "on"
    BY <1>1, <1>4 DEF TakesMessage, On
  <2>2. /\ \A k \in DOMAIN queue' : k \in Nat /\ k + 1 \in DOMAIN queue /\ queue'[k] = queue[k + 1]
        /\ \A k \in DOMAIN queue : k > 1 => k - 1 \in DOMAIN queue' /\ queue'[k - 1] = queue[k]
        /\ DOMAIN queue \subseteq Nat \ {0}
        /\ \A k \in DOMAIN queue : queue[k].by \in Inst
    <3>1. /\ Len(queue) \in Nat \ {0} /\ DOMAIN queue = 1..Len(queue)
          /\ DOMAIN queue' = 1..(Len(queue) - 1)
          /\ \A k \in 1..(Len(queue) - 1) : queue'[k] = queue[k + 1]
          /\ \A k \in 1..Len(queue) : queue[k] \in Messages
      BY <1>1, <2>1, Taken DEF TypeOK
    <3> QED
      BY <3>1 DEF Messages
  <2>3. SaysInv'
    <3>1. \A k \in DOMAIN queue' : Current(k)'
      BY <1>3, <2>2 DEF Current
    <3>2. \A k \in DOMAIN queue' : Says(k, gipc[queue[k].ref])'
      BY <1>1, <1>3, <2>2 DEF Says, Asks
    <3>3. \A k \in DOMAIN queue' : Asks(k)' => queue'[k].by = queue'[k].ref
      BY <2>2 DEF OneInv, SaysInv, Asks
    <3> QED
      BY <3>1, <3>2, <3>3 DEF SaysInv
  <2>4. AfterInv'
    <3>1. ASSUME NEW k \in DOMAIN queue', queue'[k].sub = "LOGON"
          PROVE  Announced(k, queue[k].by)'
      <4>1. PICK b : b = queue'[k].by
        OBVIOUS
      <4>2. Announced(k + 1, b)
        BY <2>2, <3>1, <4>1 DEF OneInv, AfterInv
      <4>3. \A l \in DOMAIN queue : l > k + 1 => l - 1 \in DOMAIN queue' /\ queue'[l - 1] = queue[l] /\ l - 1 > k
        BY <2>2
      <4>4. Announced(k, b)'
        BY <1>1, <4>2, <4>3 DEF Announced, Bye
      <4> QED
        BY <4>1, <4>4
    <3>2. \A k \in DOMAIN queue' : run'[queue'[k].by] # "on"
      BY <1>1, <2>1, <2>2
    <3> QED
      BY <3>1, <3>2 DEF AfterInv
  <2>5. GoneInv' /\ KnownInv'
    BY <1>1, <1>2, <2>1 DEF GoneInv, KnownInv
  <2> QED
    BY <1>2, <2>3, <2>4, <2>5 DEF OneInv
<1>5. CASE On(Inst) # {}
  <2>1. queue' = queue /\ todo' = On(Inst)
    BY <1>1, <1>5 DEF TakesMessage
  <2>2. SaysInv'
    <3>1. \A k \in DOMAIN queue : Current(k)' /\ Says(k, gipc[queue[k].ref])'
      BY <1>1, <1>3, <2>1 DEF Current, Says, Asks
    <3> QED
      BY <2>1, <3>1 DEF OneInv, SaysInv, Asks
  <2>3. AfterInv'
    BY <1>1, <2>1 DEF OneInv, AfterInv, Announced, Bye
  <2>4. ASSUME NEW x \in Inst, run[x] = "on"
        PROVE  /\ Leaves(x)' <=> Leaves(x)
               /\ Knows(x)' <=> Knows(x)
               /\ \A p \in Inst : Meets(x, p)' <=> Meets(x, p)
               /\ Begins(x)' <=> Begins(x)
    <3>1. \A k : Waits(k, x) /\ Waits(k, x)'
      BY <1>1, <2>1, <2>4 DEF Waits, On
    <3>2. /\ Leaves(x)' <=> Leaves(x)
          /\ \A p \in Inst : Comes(x, p)' <=> Comes(x, p)
          /\ Asked(x)' <=> Asked(x)
      BY <2>1, <3>1 DEF Leaves, Comes, Asked, AsksOf, Asks
    <3>3. Knows(x)' <=> Knows(x)
      BY <1>1, <3>2 DEF Knows
    <3> QED
      BY <1>1, <3>2, <3>3 DEF Meets, Begins
  <2>5. GoneInv'
    BY <1>1, <1>2, <2>4 DEF OneInv, GoneInv, On
  <2>6. KnownInv'
    BY <1>1, <2>4 DEF OneInv, KnownInv
  <2> QED
    BY <1>2, <2>2, <2>3, <2>5, <2>6 DEF OneInv
<1> QED
  BY <1>4, <1>5

LEMMA KillerOne ==
  ASSUME TypeOK, MemInv, OneInv, NEW i \in Inst, ElfKiller(i)
  PROVE  OneInv'
<1>1. /\ todo = {} /\ queue = <<>> /\ queue' = <<>> /\ todo' = {} /\ jobs # <<>>
      /\ jobs' = Tail(jobs) /\ Head(jobs).what = "ElfKiller" /\ Head(jobs).who = i
      /\ UNCHANGED <<present, popStat, gipc>> /\ run'[i] = "gone"
      /\ \A j \in Inst : j # i => run'[j] = run[j]
  BY DEF ElfKiller, HelperRuns, Busy, TypeOK
<1>2. run[i] = "closed"
  BY <1>1, Taken DEF MemInv, InOrder, TypeOK
<1>3. \A x \in Inst : run'[x] = run[x] \/ (x = i /\ run[x] = "closed")
  BY <1>1, <1>2
<1>4. Alone' /\ NamedInv' /\ SaysInv' /\ AfterInv'
  BY <1>1, <1>3 DEF OneInv, Alone, On, NamedInv, SaysInv, AfterInv
<1>5. /\ \A x : ~Leaves(x) /\ ~Leaves(x)' /\ ~Asked(x)
      /\ \A x, p : ~Comes(x, p) /\ ~Comes(x, p)'
  BY <1>1 DEF Leaves, Asked, AsksOf, Comes
<1>6. \A x : On(Partners(x))' = On(Partners(x))
  BY <1>1, <1>3 DEF On, Partners
<1>7. GoneInv'
  BY <1>1, <1>3, <1>5, <1>6 DEF OneInv, GoneInv
<1>8. \A x \in Inst : Begins(x) => Begins(x)'
  <2> SUFFICES ASSUME NEW x \in Inst, Check(x) \in Range(jobs)
               PROVE  Check(x) \in Range(jobs')
    BY <1>5 DEF Begins
  <2>1. Check(x) # Head(jobs)
    BY <1>1 DEF Check
  <2> QED
    BY <1>1, <2>1, JobStays DEF TypeOK
<1>9. KnownInv'
  BY <1>1, <1>3, <1>5, <1>8 DEF OneInv, KnownInv, Knows, Meets
<1> QED
  BY <1>4, <1>7, <1>9 DEF OneInv

LEMMA StepOne ==
  ASSUME Lasts, TypeOK, MemInv, LastsInv, seconds = 0 => OneInv, [Next]_vars
  PROVE  (seconds = 0 => OneInv)'
<1> SUFFICES ASSUME seconds' = 0 PROVE OneInv'
  OBVIOUS
<1>1. seconds = 0
  <2>1. ASSUME NEW i \in Inst, Starts(i)
        PROVE  seconds' = seconds \/ seconds' = seconds + 1
    BY <2>1 DEF Starts
  <2>2. ASSUME NEW i \in Inst, UserCloses(i) \/ CheckDoubleRun(i) \/ ElfKiller(i)
        PROVE  seconds' = seconds
    BY <2>2 DEF UserCloses, CheckDoubleRun, SecondCopy, LogsOn, ElfKiller
  <2>3. ASSUME NEW i \in Inst, maincsm_onmessage(i)
        PROVE  seconds' = seconds
    BY <2>3 DEF maincsm_onmessage, Logon, Logoff, CountsCopies, Ignores
  <2>4. seconds' = seconds \/ seconds' = seconds + 1
    BY <2>1, <2>2, <2>3 DEF Next, vars, TakesMessage
  <2> QED
    BY <2>4 DEF TypeOK
<1>2. ASSUME NEW i \in Inst, UserCloses(i)
      PROVE  OneInv'
  <2>1. /\ run[i] = "on" /\ maincsm_onclose(i) /\ todo = {} /\ todo' = {}
        /\ UNCHANGED <<popStat, present>>
    BY <1>2 DEF UserCloses
  <2>2. \A k \in DOMAIN queue : queue[k].ref # i
    BY <1>2 DEF UserCloses, InUse, Range
  <2> QED
    BY <1>1, <2>1, <2>2, ClosesOne
<1>3. ASSUME NEW i \in Inst, CheckDoubleRun(i)
      PROVE  OneInv'
  <2>1. /\ todo = {} /\ queue = <<>> /\ jobs # <<>> /\ Head(jobs) = Check(i)
    BY <1>3 DEF CheckDoubleRun, SecondCopy, LogsOn, HelperRuns, Busy, Check
  <2>2. run[i] = "on"
    BY <2>1, Taken DEF LastsInv, CountedInv, Check, TypeOK
  <2>3. CASE SecondCopy(i)
    <3>1. maincsm_onclose(i) /\ todo' = {} /\ UNCHANGED <<popStat, present>>
      BY <2>1, <2>2, <2>3 DEF SecondCopy
    <3>2. \A k \in DOMAIN queue : queue[k].ref # i
      BY <2>1
    <3> QED
      BY <1>1, <2>1, <2>2, <3>1, <3>2, ClosesOne
  <2>4. CASE LogsOn(i)
    BY <1>1, <2>2, <2>4, LogsOnOne
  <2> QED
    BY <1>3, <2>3, <2>4 DEF CheckDoubleRun
<1>4. CASE UNCHANGED vars
  <2>1. UNCHANGED <<run, present, popStat, gipc, queue, todo, jobs>>
    BY <1>4 DEF vars
  <2>2. Alone' /\ NamedInv' /\ AfterInv'
    BY <1>1, <2>1 DEF OneInv, Alone, On, NamedInv, AfterInv, Announced, Bye
  <2>3. SaysInv'
    BY <1>1, <2>1 DEF OneInv, SaysInv, Current, Says, Asks
  <2>4. GoneInv'
    BY <1>1, <2>1 DEF OneInv, GoneInv, On, Leaves, Waits
  <2>5. KnownInv'
    BY <1>1, <2>1 DEF OneInv, KnownInv, Knows, Meets, Begins, Asked, AsksOf, Asks, Comes, Leaves, Waits
  <2> QED
    BY <2>2, <2>3, <2>4, <2>5 DEF OneInv
<1>5. ASSUME NEW i \in Inst, Starts(i) \/ ElfKiller(i) \/ maincsm_onmessage(i)
      PROVE  OneInv'
  BY <1>1, <1>5, StartsOne, KillerOne, LogonOne, LogoffOne, CountsOne, IgnoresOne
     DEF maincsm_onmessage, LastsInv
<1> QED
  BY <1>1, <1>2, <1>3, <1>4, <1>5, TakesOne DEF Next

LEMMA InitOne == Init => OneInv
<1> SUFFICES ASSUME Init PROVE OneInv
  OBVIOUS
<1>1. queue = <<>> /\ \A i \in Inst : run[i] = "off" /\ present[i] = FALSE
  BY DEF Init
<1> QED
  BY <1>1, Kinds DEF OneInv, Alone, On, SaysInv, AfterInv, GoneInv, KnownInv, NamedInv

\* As long as no second copy is started, and no program closed while its gipc is in
\* use, a program that runs believes that its partner is there exactly when it is, once
\* all has been said, and the viewer looks at the daemon that runs (MailDaemon/main.c:12,
\* MailViewer/main.c:162), however many of each come and go.
THEOREM PresenceOfOneAlways == ASSUME Lasts PROVE Spec => []PresenceOfOne
<1>1. Init => LastsInv /\ (seconds = 0 => OneInv)
  BY InitLasts, InitOne
<1>2. (TypeOK /\ MemInv) /\ (TypeOK /\ MemInv)' /\ LastsInv /\ [Next]_vars => LastsInv'
  BY StepLasts
<1>3. (TypeOK /\ MemInv) /\ LastsInv /\ (seconds = 0 => OneInv) /\ [Next]_vars
        => (seconds = 0 => OneInv)'
  BY StepOne
<1>4. TypeOK /\ LastsInv /\ (seconds = 0 => OneInv) => PresenceOfOne
  <2> SUFFICES ASSUME TypeOK, LastsInv, OneInv, Quiet, NEW i \in On(Inst)
               PROVE  /\ present[i] = TRUE <=> On(Partners(i)) # {}
                      /\ i \in Viewers /\ present[i] = TRUE => popStat[i] \in On(Daemons)
    BY DEF PresenceOfOne, PresenceTrue, TypeOK, On
  <2>1. /\ \A x : ~Leaves(x) /\ ~Asked(x)
        /\ \A x, p : ~Comes(x, p)
        /\ \A x : ~Begins(x)
    BY DEF Quiet, Busy, Leaves, Asked, AsksOf, Comes, Begins, Range
  <2>2. present[i] = TRUE => On(Partners(i)) # {}
    BY <2>1 DEF OneInv, GoneInv, On
  <2>3. ASSUME NEW p \in On(Partners(i))
        PROVE  present[i] = TRUE
    <3>1. p \in Inst /\ run[p] = "on" /\ p \in Partners(i) /\ i \in Partners(p)
          /\ i \in Inst /\ run[i] = "on"
      BY KindsOf DEF On
    <3>2. Meets(i, p) \/ Meets(p, i)
      BY <2>1, <3>1 DEF OneInv, KnownInv
    <3>3. Meets(i, p) => Knows(i)
      BY <2>1 DEF Meets
    <3>4. Meets(p, i) => Knows(p)
      BY <2>1 DEF Meets
    <3>5. Knows(p) => Meets(i, p)
      BY <3>1 DEF OneInv, KnownInv
    <3> QED
      BY <3>2, <3>3, <3>4, <3>5 DEF Knows
  <2>4. ASSUME i \in Viewers, present[i] = TRUE
        PROVE  popStat[i] \in On(Daemons)
    <3>1. PICK d \in Daemons : d = popStat[i]
      BY <2>4, Kinds DEF OneInv, NamedInv, TypeOK
    <3>2. Looks(i, d)
      BY <2>4, <3>1, Kinds DEF LastsInv, PopInv
    <3>3. ~Hears(i, d)
      BY DEF Hears, Quiet, Busy
    <3> QED
      BY <3>1, <3>2, <3>3 DEF Looks, On
  <2> QED
    BY <2>2, <2>3, <2>4
<1> QED
  BY <1>1, <1>2, <1>3, <1>4, MemInvariant, PTL DEF Spec

-----------------------------------------------------------------------------
(* Of two copies the second one ends itself.                               *)

\* The message by which s asks for copies has not been handed to x: x has not counted.
Heard(s, x) == IF AsksOf(s, x) THEN 0 ELSE 1

\* Program s is going to find out that there is o.
Finds(s, o) == Begins(s) /\ gipc[s].data >= Heard(s, s) + Heard(s, o)

\* The gipc of a program is used for nothing else as long as it asks.
OnlyAsksInv ==
  /\ \A k \in DOMAIN queue : Asks(k) => gipc[queue[k].ref].to = Copies(queue[k].ref)
  /\ \A k \in DOMAIN queue : Check(queue[k].ref) \in Range(jobs) => Asks(k)

\* Of two copies one has been started later, and finds the other one.
TwoInv ==
  \A i, j \in On(Inst) : j \in Copies(i) /\ i # j =>
    /\ Finds(i, j) \/ Finds(j, i)
    /\ ~(Begins(i) /\ Begins(j))

\* What a program has counted is a copy that stays.
OtherInv ==
  closes = 0 =>
    /\ \A s \in Inst : Begins(s) /\ gipc[s].data > Heard(s, s) => On(Copies(s)) \ {s} # {}
    /\ \A i \in Inst : run[i] # "off" => On(Copies(i)) # {}

CopyInv == OnlyAsksInv /\ TwoInv /\ OtherInv

LEMMA BeginsOn ==
  AskedInv /\ CountedInv => \A i \in Inst : Begins(i) => run[i] = "on"
<1> SUFFICES ASSUME AskedInv, CountedInv, NEW i \in Inst, Begins(i)
             PROVE  run[i] = "on"
  OBVIOUS
<1>1. CASE Check(i) \in Range(jobs)
  BY <1>1 DEF CountedInv, Range, Check
<1>2. CASE Asked(i)
  BY <1>2 DEF AskedInv, Asked, AsksOf
<1> QED
  BY <1>1, <1>2 DEF Begins

\* The step does not change what s asks, of the copies that still run, and what it counts.
SameSearch(s) ==
  /\ Begins(s)' <=> Begins(s)
  /\ Begins(s) => gipc'[s].data = gipc[s].data
  /\ \A x \in Copies(s) : run'[x] = "on" => (AsksOf(s, x)' <=> AsksOf(s, x))

LEMMA SameFinds ==
  ASSUME NEW s \in Inst, NEW o \in Copies(s), SameSearch(s), run'[s] = "on", run'[o] = "on"
  PROVE  /\ Finds(s, o)' <=> Finds(s, o)
         /\ Heard(s, s)' = Heard(s, s)
  BY KindsOf DEF SameSearch, Finds, Heard

LEMMA TwoKept ==
  ASSUME TwoInv,
         \A s \in Inst : run'[s] = "on" => run[s] = "on" /\ SameSearch(s)
  PROVE  TwoInv'
<1> SUFFICES ASSUME NEW i \in Inst, NEW j \in Inst, run'[i] = "on", run'[j] = "on",
                    j \in Copies(i), i # j
             PROVE  /\ Finds(i, j)' \/ Finds(j, i)'
                    /\ ~(Begins(i)' /\ Begins(j)')
  BY DEF TwoInv, On, Copies, Inst
<1>1. i \in Copies(j)
  BY KindsOf
<1>2. (Finds(i, j)' <=> Finds(i, j)) /\ (Finds(j, i)' <=> Finds(j, i))
  BY <1>1, SameFinds
<1>3. (Begins(i)' <=> Begins(i)) /\ (Begins(j)' <=> Begins(j))
  BY DEF SameSearch
<1>4. /\ Finds(i, j) \/ Finds(j, i)
      /\ ~(Begins(i) /\ Begins(j))
  BY DEF TwoInv, On
<1> QED
  BY <1>2, <1>3, <1>4

LEMMA OtherKept ==
  ASSUME OtherInv, AskedInv', CountedInv', UNCHANGED closes,
         \A s \in Inst : /\ run'[s] = "on" <=> run[s] = "on"
                         /\ run'[s] = "off" <=> run[s] = "off"
                         /\ run'[s] = "on" => SameSearch(s)
  PROVE  OtherInv'
<1> SUFFICES ASSUME closes = 0
             PROVE  /\ \A s \in Inst : Begins(s)' /\ gipc'[s].data > Heard(s, s)'
                                         => On(Copies(s))' \ {s} # {}
                    /\ \A i \in Inst : run'[i] # "off" => On(Copies(i))' # {}
  BY DEF OtherInv, Copies, Inst
<1>1. \A i \in Inst : On(Copies(i))' = On(Copies(i))
  BY KindsOf DEF On, Copies, Inst
<1>2. ASSUME NEW s \in Inst, Begins(s)', gipc'[s].data > Heard(s, s)'
      PROVE  On(Copies(s)) \ {s} # {}
  <2>1. run'[s] = "on"
    <3>1. (AskedInv /\ CountedInv => \A i \in Inst : Begins(i) => run[i] = "on")'
      BY BeginsOn, PTL
    <3> QED
      BY <1>2, <3>1 DEF Copies, Inst
  <2>2. SameSearch(s) /\ Heard(s, s)' = Heard(s, s)
    BY <2>1, KindsOf, SameFinds
  <2> QED
    BY <1>2, <2>2 DEF OtherInv, SameSearch
<1> QED
  BY <1>1, <1>2 DEF OtherInv

LEMMA StartsCopy ==
  ASSUME TypeOK, MemInv, AskedInv, CountedInv, CopyInv, NEW i \in Inst, Starts(i)
  PROVE  CopyInv'
<1>1. /\ run[i] = "off" /\ run'[i] = "on" /\ todo = {} /\ todo' = {}
      /\ UNCHANGED <<jobs, closes>>
      /\ On(Copies(i)) = {} \/ (queue = <<>> /\ jobs = <<>>)
      /\ \A j \in Inst : j # i => run'[j] = run[j]
      /\ queue' = Append(queue, Msg("CHECK_DOUBLERUN", i, i))
      /\ gipc' = [gipc EXCEPT ![i] = Request(Copies(i), i, 0, None)]
      /\ Request(Copies(i), i, 0, None).to = Copies(i)
      /\ Request(Copies(i), i, 0, None).data = 0
  BY DEF Starts, TypeOK, Request, Quiet, Busy
<1>2. \A k \in DOMAIN queue : queue[k].ref # i
  BY <1>1 DEF MemInv, Refs, Here
<1>3. Extended("CHECK_DOUBLERUN", i)
  BY <1>1, <1>2, Extends
<1>4. /\ gipc'[i].to = Copies(i) /\ gipc'[i].data = 0
      /\ \A j \in Inst : j # i => gipc'[j] = gipc[j]
  BY <1>1 DEF TypeOK
<1>5. \A s, x : AsksOf(s, x)' <=> AsksOf(s, x) \/ s = i
  BY <1>3, ExtendsHears
<1>6. \A s \in Inst : s # i => SameSearch(s)
  BY <1>1, <1>4, <1>5 DEF SameSearch, Begins, Asked
<1>7. OnlyAsksInv'
  BY <1>1, <1>3, <1>4 DEF CopyInv, OnlyAsksInv, Extended, Asks, Copies
<1>8. Begins(i)' /\ \A x : Heard(i, x)' = 0
  BY <1>5 DEF Begins, Asked, Heard
<1>9. \A y \in Copies(i) : Finds(i, y)'
  BY <1>4, <1>8 DEF Finds
<1>10. ASSUME NEW y \in Copies(i), y # i, run'[y] = "on"
       PROVE  ~Begins(y)'
  <2>1. queue = <<>> /\ jobs = <<>> /\ y \in Inst
    BY <1>1, <1>10, KindsOf DEF On
  <2>2. ~AsksOf(y, y) /\ Check(y) \notin Range(jobs)
    BY <2>1 DEF AsksOf, Range
  <2> QED
    BY <1>1, <1>5, <1>10, <2>2 DEF Begins, Asked
<1>11. TwoInv'
  <2> SUFFICES ASSUME NEW x \in Inst, NEW y \in Inst, run'[x] = "on", run'[y] = "on",
                      y \in Copies(x), x # y
               PROVE  /\ Finds(x, y)' \/ Finds(y, x)'
                      /\ ~(Begins(x)' /\ Begins(y)')
    BY DEF TwoInv, On, Copies, Inst
  <2>1. x \in Copies(y)
    BY KindsOf
  <2>2. CASE x = i
    BY <1>9, <1>10, <2>2
  <2>3. CASE y = i
    BY <1>9, <1>10, <2>1, <2>3
  <2>4. CASE x # i /\ y # i
    <3>1. SameSearch(x) /\ SameSearch(y) /\ run[x] = "on" /\ run[y] = "on"
      BY <1>1, <1>6, <2>4
    <3>2. (Finds(x, y)' <=> Finds(x, y)) /\ (Finds(y, x)' <=> Finds(y, x))
      BY <2>1, <3>1, SameFinds
    <3>3. /\ Finds(x, y) \/ Finds(y, x)
          /\ ~(Begins(x) /\ Begins(y))
      BY <3>1 DEF CopyInv, TwoInv, On
    <3> QED
      BY <3>1, <3>2, <3>3 DEF SameSearch
  <2> QED
    BY <2>2, <2>3, <2>4
<1>12. OtherInv'
  <2> SUFFICES ASSUME closes = 0
               PROVE  /\ \A s \in Inst : Begins(s)' /\ gipc'[s].data > Heard(s, s)'
                                           => On(Copies(s))' \ {s} # {}
                      /\ \A j \in Inst : run'[j] # "off" => On(Copies(j))' # {}
    BY <1>1 DEF OtherInv, Copies, Inst
  <2>1. \A j \in Inst : On(Copies(j)) \subseteq On(Copies(j))'
    BY <1>1, KindsOf DEF On, Copies, Inst
  <2>2. ASSUME NEW s \in Inst, Begins(s)', gipc'[s].data > Heard(s, s)'
        PROVE  On(Copies(s))' \ {s} # {}
    <3>1. s # i
      BY <1>4, <1>8, <2>2
    <3>2. Begins(s) /\ gipc[s].data > Heard(s, s)
      BY <1>4, <1>5, <1>6, <2>2, <3>1 DEF SameSearch, Heard
    <3> QED
      BY <2>1, <3>2 DEF CopyInv, OtherInv
  <2>3. i \in On(Copies(i))'
    BY <1>1, KindsOf DEF On, Copies, Inst
  <2> QED
    BY <1>1, <2>1, <2>2, <2>3 DEF CopyInv, OtherInv
<1> QED
  BY <1>7, <1>11, <1>12 DEF CopyInv

\* The question of program i is done with: no other one goes with it.
LEMMA CheckDone ==
  ASSUME TypeOK, CountedInv, jobs # <<>>, NEW i \in Inst, Head(jobs) = Check(i)
  PROVE  \A x \in Inst : Check(x) \in Range(Tail(jobs)) <=> Check(x) \in Range(jobs) /\ x # i
<1>1. /\ Len(jobs) \in Nat \ {0} /\ jobs[1] = Check(i)
      /\ DOMAIN jobs = 1..Len(jobs) /\ DOMAIN Tail(jobs) = 1..(Len(jobs) - 1)
      /\ \A k \in 1..(Len(jobs) - 1) : Tail(jobs)[k] = jobs[k + 1]
  BY Taken DEF TypeOK
<1>2. /\ \A k \in DOMAIN Tail(jobs) : k + 1 \in DOMAIN jobs /\ k + 1 # 1 /\ Tail(jobs)[k] = jobs[k + 1]
      /\ 1 \in DOMAIN jobs
  BY <1>1
<1>3. ASSUME NEW x \in Inst, Check(x) \in Range(Tail(jobs))
      PROVE  Check(x) \in Range(jobs) /\ x # i
  <2>1. PICK k \in DOMAIN Tail(jobs) : Tail(jobs)[k] = Check(x)
    BY <1>3 DEF Range
  <2>2. jobs[k + 1] = Check(x) /\ k + 1 \in DOMAIN jobs /\ k + 1 # 1
    BY <1>2, <2>1
  <2>3. x # i
    BY <1>1, <1>2, <2>2 DEF CountedInv, Check
  <2> QED
    BY <2>2, <2>3 DEF Range
<1>4. ASSUME NEW x \in Inst, Check(x) \in Range(jobs), x # i
      PROVE  Check(x) \in Range(Tail(jobs))
  <2>1. Check(x) # Head(jobs)
    BY <1>4 DEF Check
  <2> QED
    BY <1>4, <2>1, JobStays DEF TypeOK
<1> QED
  BY <1>3, <1>4

\* A job that gives a program back is no question.
LEMMA KillerAsks ==
  ASSUME NEW q \in Seq(Jobs), NEW i \in Inst
  PROVE  \A x \in Inst : Check(x) \in Range(Append(q, [what |-> "ElfKiller", who |-> i]))
                           <=> Check(x) \in Range(q)
<1> DEFINE e == [what |-> "ElfKiller", who |-> i]
<1>1. e \in Jobs /\ \A x \in Inst : Check(x) # e /\ Check(x) \in Jobs
  BY JobIs DEF Check
<1> HIDE DEF e
<1>2. /\ DOMAIN q = 1..Len(q) /\ DOMAIN Append(q, e) = 1..(Len(q) + 1) /\ Len(q) \in Nat
      /\ \A k \in 1..Len(q) : Append(q, e)[k] = q[k]
      /\ Append(q, e)[Len(q) + 1] = e
  BY <1>1, Added
<1>3. /\ \A k \in DOMAIN q : k \in DOMAIN Append(q, e) /\ Append(q, e)[k] = q[k]
      /\ \A k \in DOMAIN Append(q, e) :
           (k \in DOMAIN q /\ Append(q, e)[k] = q[k]) \/ Append(q, e)[k] = e
  BY <1>2
<1>4. \A x \in Inst : Check(x) \in Range(Append(q, e)) <=> Check(x) \in Range(q)
  BY <1>1, <1>3 DEF Range
<1> QED
  BY <1>4 DEF e

\* Program i says that it goes, or is there, and asks nothing any more.
LEMMA SpeaksCopy ==
  ASSUME TypeOK, CopyInv, NEW i \in Inst, NEW sub \in {"LOGON", "LOGOFF"}, Extended(sub, i),
         \A s \in Inst : s # i => gipc'[s] = gipc[s],
         \A x \in Inst : Check(x) \in Range(jobs') <=> Check(x) \in Range(jobs) /\ x # i
  PROVE  /\ OnlyAsksInv'
         /\ \A s \in Inst : s # i => SameSearch(s)
         /\ ~Begins(i)'
<1>1. \A s, x : AsksOf(s, x)' <=> AsksOf(s, x)
  BY ExtendsHears
<1>2. \A s \in Inst : s # i => SameSearch(s)
  BY <1>1 DEF SameSearch, Begins, Asked
<1>3. ~Begins(i)'
  <2>1. ~AsksOf(i, i)
    BY DEF AsksOf, Extended
  <2> QED
    BY <1>1, <2>1 DEF Begins, Asked
<1>4. OnlyAsksInv'
  <2>1. PICK n \in DOMAIN queue' :
          /\ queue'[n].sub = sub /\ queue'[n].by = i /\ queue'[n].ref = i
          /\ \A k \in DOMAIN queue' : k = n \/ k \in DOMAIN queue
          /\ \A k \in DOMAIN queue : k \in DOMAIN queue' /\ k < n /\ k # n /\ queue'[k] = queue[k]
    BY DEF Extended
  <2>2. \A k \in DOMAIN queue' : Asks(k)' => k \in DOMAIN queue /\ queue'[k] = queue[k] /\ Asks(k)
    BY <2>1 DEF Asks
  <2>3. \A k \in DOMAIN queue' : Asks(k)' => gipc'[queue'[k].ref].to = Copies(queue'[k].ref)
    BY <2>2 DEF Extended, CopyInv, OnlyAsksInv
  <2>4. ASSUME NEW k \in DOMAIN queue', Check(queue'[k].ref) \in Range(jobs')
        PROVE  Asks(k)'
    <3>1. PICK r \in Inst : r = queue'[k].ref
      BY <2>1 DEF Extended
    <3>2. r # i /\ Check(r) \in Range(jobs)
      BY <2>4, <3>1
    <3>3. k \in DOMAIN queue /\ queue'[k] = queue[k]
      BY <2>1, <3>1, <3>2
    <3> QED
      BY <3>1, <3>2, <3>3 DEF CopyInv, OnlyAsksInv, Asks
  <2> QED
    BY <2>3, <2>4 DEF OnlyAsksInv, Copies, Inst
<1> QED
  BY <1>2, <1>3, <1>4

LEMMA ClosesCopy ==
  ASSUME TypeOK, CopyInv, AskedInv, CountedInv, AskedInv', CountedInv',
         NEW i \in Inst, run[i] = "on", maincsm_onclose(i), todo = {}, todo' = {},
         \A k \in DOMAIN queue : queue[k].ref # i,
         \A x \in Inst : Check(x) \in Range(jobs') <=> Check(x) \in Range(jobs) /\ x # i,
         \/ closes' = closes + 1
         \/ closes' = closes /\ Begins(i) /\ gipc[i].data > Heard(i, i)
  PROVE  CopyInv'
<1>1. /\ run'[i] = "closed" /\ \A j \in Inst : j # i => run'[j] = run[j]
      /\ queue' = Append(queue, Msg("LOGOFF", i, i))
      /\ gipc' = [gipc EXCEPT ![i] = Request(Partners(i), i, 0, None)]
      /\ \A s \in Inst : s # i => gipc'[s] = gipc[s]
  BY DEF maincsm_onclose, TypeOK, Request
<1>2. Extended("LOGOFF", i)
  BY <1>1, Extends
<1>3. /\ OnlyAsksInv'
      /\ \A s \in Inst : s # i => SameSearch(s)
      /\ ~Begins(i)'
  BY <1>1, <1>2, SpeaksCopy
<1>4. TwoInv'
  <2>1. \A s \in Inst : run'[s] = "on" => run[s] = "on" /\ SameSearch(s)
    BY <1>1, <1>3
  <2> QED
    BY <2>1, TwoKept DEF CopyInv
<1>5. OtherInv'
  <2> SUFFICES ASSUME closes' = 0
               PROVE  /\ \A s \in Inst : Begins(s)' /\ gipc'[s].data > Heard(s, s)'
                                           => On(Copies(s))' \ {s} # {}
                      /\ \A j \in Inst : run'[j] # "off" => On(Copies(j))' # {}
    BY DEF OtherInv, Copies, Inst
  <2>1. closes = 0 /\ Begins(i) /\ gipc[i].data > Heard(i, i)
    BY DEF TypeOK
  <2>2. PICK o \in On(Copies(i)) : o # i
    BY <2>1 DEF CopyInv, OtherInv
  <2>3. o \in Inst /\ o \in Copies(i) /\ i \in Copies(o) /\ run[o] = "on"
    BY <2>2, KindsOf DEF On
\* It stays: two copies do not ask at the same time.
  <2>4. ~Begins(o)
    BY <2>1, <2>2, <2>3 DEF CopyInv, TwoInv, On
  <2>5. \A j \in Inst, x \in Inst :
          x \in On(Copies(j)) /\ x # i => x \in On(Copies(j))'
    BY <1>1 DEF On, Copies, Inst
  <2>6. ASSUME NEW j \in Inst, i \in Copies(j)
        PROVE  o \in On(Copies(j))'
    BY <1>1, <2>2, <2>3, <2>6, KindsOf DEF On, Copies, Inst
  <2>7. ASSUME NEW s \in Inst, Begins(s)', gipc'[s].data > Heard(s, s)'
        PROVE  On(Copies(s))' \ {s} # {}
    <3>1. s # i /\ SameSearch(s)
      BY <1>3, <2>7
    <3>2. Begins(s) /\ gipc[s].data > Heard(s, s) /\ run'[s] = "on"
      <4>1. Begins(s) /\ gipc[s].data = gipc'[s].data
        BY <2>7, <3>1 DEF SameSearch
      <4>2. run'[s] = "on"
        BY <1>1, <3>1, <4>1, BeginsOn
      <4>3. Heard(s, s)' = Heard(s, s)
        BY <3>1, <4>2, KindsOf DEF SameSearch, Heard
      <4> QED
        BY <2>7, <4>1, <4>2, <4>3
    <3>3. PICK x \in On(Copies(s)) : x # s
      BY <2>1, <3>2 DEF CopyInv, OtherInv
    <3>4. x \in Inst
      BY KindsOf DEF On
    <3>5. CASE x # i
      BY <2>5, <3>3, <3>4, <3>5
    <3>6. CASE x = i
      <4>1. o \in On(Copies(s))'
        BY <2>6, <3>6 DEF On
      <4>2. o # s
        BY <2>4, <3>2
      <4> QED
        BY <4>1, <4>2
    <3> QED
      BY <3>5, <3>6
  <2>8. ASSUME NEW j \in Inst, run'[j] # "off"
        PROVE  On(Copies(j))' # {}
    <3>1. run[j] # "off"
      BY <1>1, <2>8
    <3>2. PICK x \in On(Copies(j)) : TRUE
      BY <2>1, <3>1 DEF CopyInv, OtherInv
    <3>3. x \in Inst
      BY KindsOf DEF On
    <3>4. CASE x # i
      BY <2>5, <3>2, <3>3, <3>4
    <3>5. CASE x = i
      BY <2>6, <3>5 DEF On
    <3> QED
      BY <3>4, <3>5
  <2> QED
    BY <2>7, <2>8
<1> QED
  BY <1>3, <1>4, <1>5 DEF CopyInv

LEMMA LogsOnCopy ==
  ASSUME TypeOK, CopyInv, AskedInv, CountedInv, AskedInv', CountedInv', NEW i \in Inst, LogsOn(i)
  PROVE  CopyInv'
<1>1. /\ todo = {} /\ todo' = {} /\ queue = <<>> /\ jobs # <<>> /\ jobs' = Tail(jobs)
      /\ Head(jobs) = Check(i) /\ UNCHANGED <<run, closes>> /\ gipc[i].data <= 1
      /\ queue' = Append(queue, Msg("LOGON", i, i))
      /\ gipc' = [gipc EXCEPT ![i] = Request(Partners(i), i, 0, OwnStat(i))]
      /\ \A s \in Inst : s # i => gipc'[s] = gipc[s]
  BY DEF LogsOn, HelperRuns, Busy, Check, Request, TypeOK
<1>2. Extended("LOGON", i)
  <2>1. \A k \in DOMAIN queue : queue[k].ref # i
    BY <1>1
  <2> QED
    BY <1>1, <2>1, Extends
<1>3. /\ OnlyAsksInv'
      /\ \A s \in Inst : s # i => SameSearch(s)
      /\ ~Begins(i)'
  <2>1. \A x \in Inst : Check(x) \in Range(jobs') <=> Check(x) \in Range(jobs) /\ x # i
    BY <1>1, CheckDone
  <2> QED
    BY <1>1, <1>2, <2>1, SpeaksCopy
\* It has counted nobody but itself.
<1>4. /\ Begins(i) /\ run[i] = "on"
      /\ \A y : ~Finds(i, y)
  <2>1. Check(i) \in Range(jobs)
    BY <1>1, Taken DEF TypeOK, Range
  <2>2. \A x : Heard(i, x) = 1
    BY <1>1 DEF Heard, AsksOf
  <2>3. gipc[i].data \in Nat
    BY DEF TypeOK, Requests
  <2> QED
    BY <1>1, <2>1, <2>2, <2>3, BeginsOn DEF Finds, Begins
<1>5. \A y \in Inst : run[y] = "on" /\ y # i => y \notin Copies(i) /\ i \notin Copies(y)
  <2> SUFFICES ASSUME NEW y \in Inst, run[y] = "on", y # i, y \in Copies(i) PROVE FALSE
    BY KindsOf
  <2>1. Finds(y, i) /\ ~Begins(y)
    BY <1>4 DEF CopyInv, TwoInv, On
  <2> QED
    BY <2>1 DEF Finds
<1>6. TwoInv'
  <2> SUFFICES ASSUME NEW x \in Inst, NEW y \in Inst, run[x] = "on", run[y] = "on",
                      y \in Copies(x), x # y
               PROVE  /\ Finds(x, y)' \/ Finds(y, x)'
                      /\ ~(Begins(x)' /\ Begins(y)')
    BY <1>1 DEF TwoInv, On, Copies, Inst
  <2>1. x # i /\ y # i /\ x \in Copies(y)
    BY <1>5, KindsOf
  <2>2. (Finds(x, y)' <=> Finds(x, y)) /\ (Finds(y, x)' <=> Finds(y, x))
    BY <1>1, <1>3, <2>1, SameFinds
  <2>3. /\ Finds(x, y) \/ Finds(y, x)
        /\ ~(Begins(x) /\ Begins(y))
    BY DEF CopyInv, TwoInv, On
  <2> QED
    BY <1>3, <2>1, <2>2, <2>3 DEF SameSearch
<1>7. OtherInv'
  <2> SUFFICES ASSUME closes = 0
               PROVE  /\ \A s \in Inst : Begins(s)' /\ gipc'[s].data > Heard(s, s)'
                                           => On(Copies(s)) \ {s} # {}
                      /\ \A j \in Inst : run[j] # "off" => On(Copies(j)) # {}
    BY <1>1 DEF OtherInv, Copies, Inst, On
  <2>1. ASSUME NEW s \in Inst, Begins(s)', gipc'[s].data > Heard(s, s)'
        PROVE  On(Copies(s)) \ {s} # {}
    <3>1. s # i /\ Begins(s) /\ gipc'[s].data = gipc[s].data
      BY <1>3, <2>1 DEF SameSearch
    <3>2. Heard(s, s)' = Heard(s, s)
      BY <1>1, <1>3, <3>1, BeginsOn, KindsOf DEF SameSearch, Heard
    <3> QED
      BY <2>1, <3>1, <3>2 DEF CopyInv, OtherInv
  <2> QED
    BY <2>1 DEF CopyInv, OtherInv
<1> QED
  BY <1>3, <1>6, <1>7 DEF CopyInv

LEMMA KillerCopy ==
  ASSUME TypeOK, MemInv, CopyInv, AskedInv', CountedInv', NEW i \in Inst, ElfKiller(i)
  PROVE  CopyInv'
<1>1. /\ todo = {} /\ queue = <<>> /\ queue' = <<>> /\ todo' = {} /\ jobs # <<>>
      /\ jobs' = Tail(jobs) /\ Head(jobs).what = "ElfKiller" /\ Head(jobs).who = i
      /\ UNCHANGED <<gipc, closes>> /\ run'[i] = "gone"
      /\ \A j \in Inst : j # i => run'[j] = run[j]
  BY DEF ElfKiller, HelperRuns, Busy, TypeOK
<1>2. run[i] = "closed"
  BY <1>1, Taken DEF MemInv, InOrder, TypeOK
<1>3. \A s, x : ~AsksOf(s, x) /\ ~AsksOf(s, x)'
  BY <1>1 DEF AsksOf
<1>4. \A x \in Inst : Check(x) \in Range(jobs') <=> Check(x) \in Range(jobs)
  <2>1. \A x \in Inst : Check(x) \in Range(jobs') => Check(x) \in Range(jobs)
    <3>1. /\ Len(jobs) \in Nat \ {0}
          /\ DOMAIN jobs = 1..Len(jobs) /\ DOMAIN jobs' = 1..(Len(jobs) - 1)
          /\ \A k \in 1..(Len(jobs) - 1) : jobs'[k] = jobs[k + 1]
      BY <1>1, Taken DEF TypeOK
    <3>2. \A k \in DOMAIN jobs' : k + 1 \in DOMAIN jobs /\ jobs'[k] = jobs[k + 1]
      BY <3>1
    <3> QED
      BY <3>2 DEF Range
  <2>2. \A x \in Inst : Check(x) # Head(jobs)
    BY <1>1 DEF Check
  <2> QED
    BY <1>1, <2>1, <2>2, JobStays DEF TypeOK
<1>5. \A s \in Inst : SameSearch(s)
  BY <1>1, <1>3, <1>4 DEF SameSearch, Begins, Asked
<1>6. \A s \in Inst : /\ run'[s] = "on" <=> run[s] = "on"
                      /\ run'[s] = "off" <=> run[s] = "off"
                      /\ run'[s] = "on" => SameSearch(s)
  BY <1>1, <1>2, <1>5
<1>7. TwoInv' /\ OtherInv'
  BY <1>1, <1>5, <1>6, TwoKept, OtherKept DEF CopyInv
<1>8. OnlyAsksInv'
  BY <1>1 DEF OnlyAsksInv
<1> QED
  BY <1>7, <1>8 DEF CopyInv

\* The first message is handed to program i, which does not count itself.
LEMMA PassesCopy ==
  ASSUME TypeOK, MemInv, CopyInv, AskedInv, AskedInv', CountedInv',
         NEW i \in todo, NEW answered \in BOOLEAN, NEW s \in {0, 1}, Shifted(s, i, answered),
         UNCHANGED <<run, jobs, closes>>,
         answered = TRUE => Head(queue).sub = "LOGON",
         \A r \in Inst : \/ answered = TRUE /\ r = Ref
                         \/ gipc'[r] = gipc[r],
         Head(queue).sub = "CHECK_DOUBLERUN" => i \notin Copies(Ref)
  PROVE  CopyInv'
<1>1. /\ Head(queue) = queue[1] /\ Ref = queue[1].ref /\ 1 \in DOMAIN queue
      /\ \A k \in DOMAIN queue : queue[k].ref \in Inst
      /\ \A k \in DOMAIN queue' : \/ k + s \in DOMAIN queue /\ queue'[k] = queue[k + s]
                                  \/ answered = TRUE /\ queue'[k].sub = "LOGON" /\ queue'[k].ref = Ref
  BY DEF Shifted, Ref, Msg
<1>2. \A p, x : x \in Copies(p) => (AsksOf(p, x)' <=> AsksOf(p, x))
  BY PassesHears
\* A LOGON is not from a program that asks.
<1>3. answered = TRUE => ~Begins(Ref)
  <2> SUFFICES ASSUME answered = TRUE, Begins(Ref) PROVE FALSE
    OBVIOUS
  <2>1. ~Asks(1)
    BY <1>1 DEF Asks
  <2>2. ~Asked(Ref)
    BY <1>1, <2>1 DEF AskedInv, Asked, AsksOf
  <2>3. Check(Ref) \notin Range(jobs)
    BY <1>1, <2>1 DEF CopyInv, OnlyAsksInv
  <2> QED
    BY <2>2, <2>3 DEF Begins
<1>4. \A p \in Inst : SameSearch(p)
  BY <1>2, <1>3, KindsOf DEF SameSearch, Begins, Asked
<1>5. TwoInv' /\ OtherInv'
  BY <1>4, TwoKept, OtherKept DEF CopyInv
<1>6. OnlyAsksInv'
  <2>1. ASSUME NEW k \in DOMAIN queue', Asks(k)'
        PROVE  gipc'[queue'[k].ref].to = Copies(queue'[k].ref)
    <3>1. k + s \in DOMAIN queue /\ queue'[k] = queue[k + s] /\ Asks(k + s)
      BY <1>1, <2>1 DEF Asks
    <3>2. PICK r \in Inst : r = queue[k + s].ref
      BY <1>1, <3>1
    <3>3. answered = TRUE => r # Ref
      BY <1>1, <3>1, <3>2 DEF AskedInv, Asks
    <3>4. gipc'[r] = gipc[r]
      BY <3>3
    <3> QED
      BY <3>1, <3>2, <3>4 DEF CopyInv, OnlyAsksInv
  <2>2. ASSUME NEW k \in DOMAIN queue', Check(queue'[k].ref) \in Range(jobs)
        PROVE  Asks(k)'
    <3>1. CASE answered = TRUE /\ queue'[k].ref = Ref
      BY <1>3, <2>2, <3>1 DEF Begins
    <3>2. CASE k + s \in DOMAIN queue /\ queue'[k] = queue[k + s]
      BY <2>2, <3>2 DEF CopyInv, OnlyAsksInv, Asks
    <3> QED
      BY <1>1, <3>1, <3>2
  <2> QED
    BY <2>1, <2>2 DEF OnlyAsksInv, Copies, Inst
<1> QED
  BY <1>5, <1>6 DEF CopyInv

LEMMA CountsCopy ==
  ASSUME TypeOK, MemInv, CopyInv, AskedInv, CountedInv, AskedInv', CountedInv',
         NEW i \in Inst, CountsCopies(i)
  PROVE  CopyInv'
<1>1. PICK r \in Inst :
        /\ r = Ref /\ i \in todo /\ queue # <<>> /\ UNCHANGED <<run, closes>>
        /\ Head(queue).sub = "CHECK_DOUBLERUN" /\ Passes(i, <<>>)
        /\ i \in gipc[r].to /\ run[i] = "on"
        /\ gipc' = [gipc EXCEPT ![r].data = @ + 1]
        /\ jobs' = IF gipc[r].from = i THEN Append(jobs, Check(i)) ELSE jobs
  BY RefIs DEF CountsCopies, Handles, Check, Req, MemInv
<1>2. PICK s \in {0, 1} : Shifted(s, i, FALSE)
  BY <1>1, PassesShifts
<1>3. /\ queue[1].ref = r /\ 1 \in DOMAIN queue /\ Asks(1)
      /\ \A k \in DOMAIN queue : queue[k].ref \in Inst
      /\ \A k \in DOMAIN queue' : k + s \in DOMAIN queue /\ queue'[k] = queue[k + s]
      /\ DOMAIN queue \subseteq Nat \ {0} /\ DOMAIN queue' \subseteq Nat \ {0}
  BY <1>1, <1>2 DEF Shifted, Ref, Asks
<1>4. /\ gipc[r].from = r /\ i \in Copies(r) /\ run[r] = "on"
      /\ \A k \in DOMAIN queue : queue[k].ref = r => k = 1
  BY <1>1, <1>3 DEF AskedInv, CopyInv, OnlyAsksInv
<1>5. /\ gipc'[r].data = gipc[r].data + 1
      /\ \A p \in Inst : gipc'[p].to = gipc[p].to
      /\ \A p \in Inst : p # r => gipc'[p] = gipc[p]
      /\ \A p \in Inst : gipc[p].data \in Nat
  <2>1. gipc[r] \in Requests /\ \A p \in Inst : p # r => gipc'[p] = gipc[p]
    BY <1>1 DEF TypeOK
  <2>2. gipc'[r] = [gipc[r] EXCEPT !.data = @ + 1]
    BY <1>1 DEF TypeOK
  <2>3. gipc'[r].data = gipc[r].data + 1 /\ gipc'[r].to = gipc[r].to
    BY <2>1, <2>2 DEF Requests
  <2> QED
    BY <2>1, <2>3 DEF TypeOK, Requests
<1>6. \A x \in Inst : Check(x) \in Range(jobs') <=> Check(x) \in Range(jobs) \/ (x = i /\ i = r)
  <2>1. CASE i # r
    BY <1>1, <1>4, <2>1
  <2>2. CASE i = r
    <3>1. jobs' = Append(jobs, Check(i)) /\ Check(i) \in Jobs
      BY <1>1, <1>4, <2>2, JobIs DEF Check
    <3>2. /\ DOMAIN jobs = 1..Len(jobs) /\ DOMAIN jobs' = 1..(Len(jobs) + 1) /\ Len(jobs) \in Nat
          /\ \A k \in 1..Len(jobs) : jobs'[k] = jobs[k]
          /\ jobs'[Len(jobs) + 1] = Check(i)
      BY <3>1, Added DEF TypeOK
    <3>3. /\ \A k \in DOMAIN jobs : k \in DOMAIN jobs' /\ jobs'[k] = jobs[k]
          /\ \A k \in DOMAIN jobs' : (k \in DOMAIN jobs /\ jobs'[k] = jobs[k]) \/ jobs'[k] = Check(i)
          /\ \E k \in DOMAIN jobs' : jobs'[k] = Check(i)
      BY <3>2
    <3>4. \A x \in Inst : Check(x) = Check(i) <=> x = i
      BY DEF Check
    <3> QED
      BY <2>2, <3>3, <3>4 DEF Range
  <2> QED
    BY <2>1, <2>2
\* Program i hears the question, and all others wait for theirs.
<1>7. AsksOf(r, i) /\ ~AsksOf(r, i)'
  <2>1. AsksOf(r, i)
    BY <1>1, <1>3 DEF AsksOf, Waits
  <2>2. ASSUME NEW k \in DOMAIN queue', queue'[k].ref = r
        PROVE  ~Waits(k, i)'
    <3>1. k + s = 1
      BY <1>3, <1>4, <2>2
    <3>2. k = 1 /\ s = 0
      BY <1>3, <3>1
    <3> QED
      BY <1>2, <3>2 DEF Waits, Shifted
  <2> QED
    BY <2>1, <2>2 DEF AsksOf
<1>8. \A p, x : p # r \/ x # i => (AsksOf(p, x)' <=> AsksOf(p, x))
  <2>1. /\ \A p, x : AsksOf(p, x)' => AsksOf(p, x)
        /\ \A p, x : AsksOf(p, x) => AsksOf(p, x)' \/ (x = i /\ Ref = p)
    BY <1>1, <1>2, PassesHears
  <2> QED
    BY <1>1, <2>1
<1>9. \A p \in Inst : Begins(p)' <=> Begins(p)
  BY <1>6, <1>7, <1>8 DEF Begins, Asked
<1>10. \A p \in Inst : p # r => SameSearch(p)
  BY <1>5, <1>8, <1>9 DEF SameSearch
<1>11. \A o \in Inst : o # r => (Finds(r, o) => Finds(r, o)')
  <2> SUFFICES ASSUME NEW o \in Inst, o # r, Finds(r, o)
               PROVE  Finds(r, o)'
    OBVIOUS
  <2>1. Heard(r, i) = 0 /\ Heard(r, i)' = 1 /\ \A x : x # i => Heard(r, x)' = Heard(r, x)
    BY <1>7, <1>8 DEF Heard
  <2>2. Heard(r, r) \in {0, 1} /\ Heard(r, o) \in {0, 1}
    BY DEF Heard
  <2>3. Heard(r, r)' + Heard(r, o)' <= Heard(r, r) + Heard(r, o) + 1
    <3>1. CASE i = r
      BY <2>1, <2>2, <3>1
    <3>2. CASE i # r /\ i = o
      BY <2>1, <2>2, <3>2
    <3>3. CASE i # r /\ i # o
      BY <2>1, <2>2, <3>3
    <3> QED
      BY <3>1, <3>2, <3>3
  <2>4. gipc[r].data >= Heard(r, r) + Heard(r, o) /\ gipc[r].data \in Nat
    BY <1>5 DEF Finds
  <2>5. Heard(r, r)' \in {0, 1} /\ Heard(r, o)' \in {0, 1}
    BY DEF Heard
  <2>6. gipc'[r].data >= Heard(r, r)' + Heard(r, o)'
    BY <1>5, <2>2, <2>3, <2>4, <2>5
  <2> QED
    BY <1>9, <2>6 DEF Finds
<1>12. TwoInv'
  <2> SUFFICES ASSUME NEW x \in Inst, NEW y \in Inst, run[x] = "on", run[y] = "on",
                      y \in Copies(x), x # y
               PROVE  /\ Finds(x, y)' \/ Finds(y, x)'
                      /\ ~(Begins(x)' /\ Begins(y)')
    BY <1>1 DEF TwoInv, On, Copies, Inst
  <2>1. x \in Copies(y)
    BY KindsOf
  <2>2. /\ Finds(x, y) \/ Finds(y, x)
        /\ ~(Begins(x) /\ Begins(y))
    BY DEF CopyInv, TwoInv, On
  <2>3. Finds(x, y) => Finds(x, y)'
    BY <1>1, <1>10, <1>11, SameFinds
  <2>4. Finds(y, x) => Finds(y, x)'
    BY <1>1, <1>10, <1>11, <2>1, SameFinds
  <2> QED
    BY <1>9, <2>2, <2>3, <2>4
<1>13. OtherInv'
  <2> SUFFICES ASSUME closes = 0
               PROVE  /\ \A p \in Inst : Begins(p)' /\ gipc'[p].data > Heard(p, p)'
                                           => On(Copies(p)) \ {p} # {}
                      /\ \A j \in Inst : run[j] # "off" => On(Copies(j)) # {}
    BY <1>1 DEF OtherInv, Copies, Inst, On
  <2>1. ASSUME NEW p \in Inst, Begins(p)', gipc'[p].data > Heard(p, p)'
        PROVE  On(Copies(p)) \ {p} # {}
    <3>1. Begins(p) /\ run[p] = "on"
      BY <1>9, <2>1, BeginsOn
    <3>2. CASE p # r
      <4>1. Heard(p, p)' = Heard(p, p) /\ gipc'[p].data = gipc[p].data
        BY <1>5, <1>8, <3>2 DEF Heard
      <4> QED
        BY <2>1, <3>1, <4>1 DEF CopyInv, OtherInv
    <3>3. CASE p = r /\ i = r
      <4>1. Heard(r, r) = 0 /\ Heard(r, r)' = 1
        BY <1>7, <3>3 DEF Heard
      <4>2. gipc[r].data > Heard(r, r)
        BY <1>5, <2>1, <3>3, <4>1
      <4> QED
        BY <3>1, <3>3, <4>2 DEF CopyInv, OtherInv
    <3>4. CASE p = r /\ i # r
      BY <1>1, <1>4, <3>4 DEF On
    <3> QED
      BY <3>2, <3>3, <3>4
  <2> QED
    BY <2>1 DEF CopyInv, OtherInv
<1>14. OnlyAsksInv'
  <2>1. \A k \in DOMAIN queue' : Asks(k)' => gipc'[queue'[k].ref].to = Copies(queue'[k].ref)
    BY <1>3, <1>5 DEF CopyInv, OnlyAsksInv, Asks
  <2>2. ASSUME NEW k \in DOMAIN queue', Check(queue'[k].ref) \in Range(jobs')
        PROVE  Asks(k)'
    <3>1. k + s \in DOMAIN queue /\ queue'[k] = queue[k + s] /\ queue[k + s].ref \in Inst
      BY <1>3
    <3>2. CASE queue[k + s].ref = r
      <4>1. k + s = 1
        BY <1>4, <3>1, <3>2
      <4> QED
        BY <1>3, <3>1, <4>1 DEF Asks
    <3>3. CASE queue[k + s].ref # r
      <4>1. Check(queue[k + s].ref) \in Range(jobs)
        BY <1>6, <2>2, <3>1, <3>3
      <4> QED
        BY <3>1, <4>1 DEF CopyInv, OnlyAsksInv, Asks
    <3> QED
      BY <3>2, <3>3
  <2> QED
    BY <2>1, <2>2 DEF OnlyAsksInv, Copies, Inst
<1> QED
  BY <1>12, <1>13, <1>14 DEF CopyInv

LEMMA TakesCopy ==
  ASSUME TypeOK, CopyInv, AskedInv, CountedInv, AskedInv', CountedInv', TakesMessage
  PROVE  CopyInv'
<1>1. /\ todo = {} /\ queue # <<>> /\ UNCHANGED <<run, gipc, jobs, closes>>
  BY DEF TakesMessage
<1>2. CASE On(Inst) = {}
  <2>1. queue' = Tail(queue) /\ \A x \in Inst : run[x] # "on" /\ run'[x] # "on"
    BY <1>1, <1>2 DEF TakesMessage, On
  <2>2. \A x \in Inst : ~Begins(x)
    BY <2>1, BeginsOn
  <2>3. TwoInv' /\ OtherInv'
    BY <1>1, <2>1, TwoKept, OtherKept DEF CopyInv
  <2>4. \A k \in DOMAIN queue' : k + 1 \in DOMAIN queue /\ queue'[k] = queue[k + 1] /\ queue[k + 1].ref \in Inst
    <3>1. /\ Len(queue) \in Nat \ {0} /\ DOMAIN queue = 1..Len(queue)
          /\ DOMAIN queue' = 1..(Len(queue) - 1)
          /\ \A k \in 1..(Len(queue) - 1) : queue'[k] = queue[k + 1]
          /\ \A k \in 1..Len(queue) : queue[k] \in Messages
      BY <1>1, <2>1, Taken DEF TypeOK
    <3> QED
      BY <3>1 DEF Messages
  <2>5. OnlyAsksInv'
    BY <1>1, <2>4 DEF CopyInv, OnlyAsksInv, Asks, Copies, Inst
  <2> QED
    BY <2>3, <2>5 DEF CopyInv
<1>3. CASE On(Inst) # {}
  <2>1. queue' = queue /\ todo' = On(Inst)
    BY <1>1, <1>3 DEF TakesMessage
  <2>2. \A x \in Inst : run[x] = "on" => \A p : AsksOf(p, x)' <=> AsksOf(p, x)
    <3>1. \A k, x : x \in On(Inst) => Waits(k, x) /\ Waits(k, x)'
      BY <1>1, <2>1 DEF Waits
    <3> QED
      BY <2>1, <3>1 DEF AsksOf, Asks, On
  <2>3. \A p \in Inst : run'[p] = "on" => SameSearch(p)
    <3> SUFFICES ASSUME NEW p \in Inst, run[p] = "on" PROVE SameSearch(p)
      BY <1>1
    <3>1. Begins(p)' <=> Begins(p)
      BY <1>1, <2>2 DEF Begins, Asked
    <3>2. \A x \in Copies(p) : run[x] = "on" => (AsksOf(p, x)' <=> AsksOf(p, x))
      BY <2>2, KindsOf
    <3> QED
      BY <1>1, <3>1, <3>2 DEF SameSearch
  <2>4. TwoInv' /\ OtherInv'
    BY <1>1, <2>3, TwoKept, OtherKept DEF CopyInv
  <2>5. OnlyAsksInv'
    BY <1>1, <2>1 DEF CopyInv, OnlyAsksInv, Asks
  <2> QED
    BY <2>4, <2>5 DEF CopyInv
<1> QED
  BY <1>2, <1>3

LEMMA StepCopy ==
  ASSUME Lasts, TypeOK, MemInv, LastsInv, LastsInv', CopyInv, [Next]_vars
  PROVE  CopyInv'
<1>1. AskedInv /\ CountedInv /\ AskedInv' /\ CountedInv'
  BY DEF LastsInv
<1>2. ASSUME NEW i \in Inst, UserCloses(i)
      PROVE  CopyInv'
  <2>1. /\ run[i] = "on" /\ maincsm_onclose(i) /\ todo = {} /\ todo' = {}
        /\ jobs' = Append(jobs, [what |-> "ElfKiller", who |-> i]) /\ closes' = closes + 1
    BY <1>2 DEF UserCloses, ElfKillerAsked
  <2>2. (\A k \in DOMAIN queue : queue[k].ref # i) /\ Check(i) \notin Range(jobs)
    BY <1>2 DEF UserCloses, InUse, Range, Check
  <2>3. \A x \in Inst : Check(x) \in Range(jobs') <=> Check(x) \in Range(jobs) /\ x # i
    BY <2>1, <2>2, KillerAsks DEF TypeOK
  <2> QED
    BY <1>1, <2>1, <2>2, <2>3, ClosesCopy
<1>3. ASSUME NEW i \in Inst, SecondCopy(i)
      PROVE  CopyInv'
  <2>1. /\ todo = {} /\ todo' = {} /\ queue = <<>> /\ jobs # <<>> /\ Head(jobs) = Check(i)
        /\ gipc[i].data > 1 /\ closes' = closes
    BY <1>3 DEF SecondCopy, HelperRuns, Busy, Check
  <2>2. run[i] = "on"
    BY <1>1, <2>1, Taken DEF CountedInv, Check, TypeOK
  <2>3. maincsm_onclose(i) /\ jobs' = Append(Tail(jobs), [what |-> "ElfKiller", who |-> i])
    BY <1>3, <2>2 DEF SecondCopy
  <2>4. \A x \in Inst : Check(x) \in Range(jobs') <=> Check(x) \in Range(jobs) /\ x # i
    <3>1. Tail(jobs) \in Seq(Jobs)
      BY <2>1, Taken DEF TypeOK
    <3> QED
      BY <1>1, <2>1, <2>3, <3>1, KillerAsks, CheckDone
  <2>5. Begins(i) /\ gipc[i].data > Heard(i, i)
    <3>1. Check(i) \in Range(jobs)
      BY <2>1, Taken DEF TypeOK, Range
    <3>2. Heard(i, i) = 1
      BY <2>1 DEF Heard, AsksOf
    <3> QED
      BY <2>1, <3>1, <3>2 DEF Begins
  <2>6. \A k \in DOMAIN queue : queue[k].ref # i
    BY <2>1
  <2> QED
    BY <1>1, <2>1, <2>2, <2>3, <2>4, <2>5, <2>6, ClosesCopy
<1>4. ASSUME NEW i \in Inst, Logon(i)
      PROVE  CopyInv'
  <2>1. /\ i \in todo /\ UNCHANGED <<run, jobs, closes>> /\ Head(queue).sub = "LOGON"
        /\ Passes(i, <<Msg("LOGON", i, Ref)>>)
        /\ gipc' = [gipc EXCEPT ![Ref] = Request(Copies(Req.from), i, 0, OwnStat(i))]
    BY <1>4 DEF Logon, Handles
  <2>2. \A r \in Inst : r = Ref \/ gipc'[r] = gipc[r]
    BY <2>1 DEF TypeOK
  <2>3. PICK s \in {0, 1} : Shifted(s, i, TRUE)
    BY <2>1, PassesShifts
  <2> QED
    BY <1>1, <2>1, <2>2, <2>3, PassesCopy
<1>5. ASSUME NEW i \in Inst, Logoff(i)
      PROVE  CopyInv'
  <2>1. /\ i \in todo /\ UNCHANGED <<run, jobs, closes, gipc>> /\ Head(queue).sub = "LOGOFF"
        /\ Passes(i, <<>>)
    BY <1>5 DEF Logoff, Handles
  <2>2. PICK s \in {0, 1} : Shifted(s, i, FALSE)
    BY <2>1, PassesShifts
  <2> QED
    BY <1>1, <2>1, <2>2, PassesCopy
<1>6. ASSUME NEW i \in Inst, Ignores(i)
      PROVE  CopyInv'
  <2>1. /\ i \in todo /\ UNCHANGED <<run, jobs, closes, gipc>>
        /\ ~Handles(i, "CHECK_DOUBLERUN") /\ Passes(i, <<>>)
    BY <1>6 DEF Ignores
  <2>2. PICK s \in {0, 1} : Shifted(s, i, FALSE)
    BY <2>1, PassesShifts
  <2>3. Head(queue).sub = "CHECK_DOUBLERUN" => i \notin Copies(Ref)
    <3>1. Head(queue) = queue[1] /\ 1 \in DOMAIN queue
      BY <2>2 DEF Shifted
    <3> QED
      BY <2>1, <3>1 DEF Handles, CopyInv, OnlyAsksInv, Asks, Ref, Req
  <2> QED
    BY <1>1, <2>1, <2>2, <2>3, PassesCopy
<1>7. CASE UNCHANGED vars
  <2>1. UNCHANGED <<run, gipc, queue, todo, jobs, closes>>
    BY <1>7 DEF vars
  <2>2. \A s \in Inst : SameSearch(s)
    BY <2>1 DEF SameSearch, Begins, Asked, AsksOf, Asks, Waits
  <2>3. TwoInv' /\ OtherInv'
    BY <1>1, <2>1, <2>2, TwoKept, OtherKept DEF CopyInv
  <2>4. OnlyAsksInv'
    BY <2>1 DEF CopyInv, OnlyAsksInv, Asks
  <2> QED
    BY <2>3, <2>4 DEF CopyInv
<1>8. ASSUME NEW i \in Inst, Starts(i) \/ ElfKiller(i) \/ LogsOn(i) \/ CountsCopies(i)
      PROVE  CopyInv'
  BY <1>1, <1>8, StartsCopy, KillerCopy, LogsOnCopy, CountsCopy
<1> QED
  BY <1>1, <1>2, <1>3, <1>4, <1>5, <1>6, <1>7, <1>8, TakesCopy
     DEF Next, CheckDoubleRun, maincsm_onmessage

LEMMA InitCopy == Init => CopyInv
<1> SUFFICES ASSUME Init PROVE CopyInv
  OBVIOUS
<1>1. queue = <<>> /\ jobs = <<>> /\ \A i \in Inst : run[i] = "off"
  BY DEF Init
<1>2. \A s : ~Begins(s)
  BY <1>1 DEF Begins, Asked, AsksOf, Range
<1> QED
  BY <1>1, <1>2 DEF CopyInv, OnlyAsksInv, TwoInv, OtherInv, On

\* If no program is closed while its gipc is in use, a second copy of the daemon or of
\* the viewer ends itself and the first one stays: when all has been said at most one
\* copy of each runs, and one of each that was started and not closed by the user
\* (MailDaemon/main.c:805-821), however many are started.
THEOREM OneStaysAlways == ASSUME Lasts PROVE Spec => []OneStays
<1>1. Init => LastsInv /\ CopyInv
  BY InitLasts, InitCopy
<1>2. (TypeOK /\ MemInv) /\ (TypeOK /\ MemInv)' /\ LastsInv /\ [Next]_vars => LastsInv'
  BY StepLasts
<1>3. (TypeOK /\ MemInv) /\ LastsInv /\ LastsInv' /\ CopyInv /\ [Next]_vars => CopyInv'
  BY StepCopy
<1>4. CopyInv => OneStays
  <2> SUFFICES ASSUME CopyInv, Quiet, NEW insts \in {Daemons, Viewers}
               PROVE  /\ Cardinality(On(insts)) <= 1
                      /\ closes = 0 /\ (\E i \in insts : run[i] # "off") => On(insts) # {}
    BY DEF OneStays
  <2>1. \A s : ~Begins(s)
    BY DEF Quiet, Busy, Begins, Asked, AsksOf, Range
  <2>2. \A i \in insts : i \in Inst /\ Copies(i) = insts
    BY InstanceAssumption DEF Inst, Copies
  <2>3. \A i, j \in On(insts) : i = j
    BY <2>1, <2>2 DEF CopyInv, TwoInv, Finds, On
  <2>4. Cardinality(On(insts)) <= 1
    <3>1. CASE On(insts) = {}
      BY <3>1, FS_EmptySet
    <3>2. CASE On(insts) # {}
      <4>1. PICK x : On(insts) = {x}
        BY <2>3, <3>2
      <4> QED
        BY <4>1, FS_Singleton
    <3> QED
      BY <3>1, <3>2
  <2>5. closes = 0 /\ (\E i \in insts : run[i] # "off") => On(insts) # {}
    BY <2>2 DEF CopyInv, OtherInv
  <2> QED
    BY <2>4, <2>5
<1> QED
  BY <1>1, <1>2, <1>3, <1>4, MemInvariant, PTL DEF Spec
=============================================================================
