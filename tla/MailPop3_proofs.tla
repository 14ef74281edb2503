--------------------------- MODULE MailPop3_proofs ---------------------------
(***************************************************************************)
(* Proofs about the POP3 dialogue, for every set of mails, configuration   *)
(* and bound.                                                              *)
(***************************************************************************)
EXTENDS MailPop3, FiniteSetTheorems, SequenceTheorems, TLAPS

USE DEF memory, files, net, server, user, counts

-----------------------------------------------------------------------------
(* The operators the actions are built from keep the types.                *)

LEMMA RemoveAtEntries ==
  ASSUME NEW S, NEW s \in Seq(S), NEW i \in 1..Len(s)
  PROVE  /\ RemoveAt(s, i) \in Seq(S)
         /\ Len(RemoveAt(s, i)) = Len(s) - 1
         /\ \A j \in 1..Len(RemoveAt(s, i)) :
              RemoveAt(s, i)[j] = s[IF j < i THEN j ELSE j + 1]
<1>. Len(s) \in Nat /\ \A j \in 1..Len(s) : s[j] \in S
  OBVIOUS
<1>1. ASSUME NEW m \in 1..(Len(s) + 1), NEW n \in 0..Len(s), m <= n + 1
      PROVE  /\ SubSeq(s, m, n) \in Seq(S)
             /\ Len(SubSeq(s, m, n)) = n - m + 1
             /\ \A j \in 1..(n - m + 1) : SubSeq(s, m, n)[j] = s[m + j - 1]
  <2>1. \A j \in m..n : s[j] \in S
    BY <1>1
  <2>2. m \in Int /\ n \in Int
    BY <1>1
  <2>3. /\ SubSeq(s, m, n) \in Seq(S)
        /\ Len(SubSeq(s, m, n)) = IF m <= n THEN n - m + 1 ELSE 0
        /\ \A j \in 1..(n - m + 1) : SubSeq(s, m, n)[j] = s[m + j - 1]
    BY <2>1, <2>2, SubSeqProperties
  <2>. QED
    BY <1>1, <2>3
<1>. DEFINE a == SubSeq(s, 1, i - 1)
            b == SubSeq(s, i + 1, Len(s))
<1>2. /\ a \in Seq(S) /\ Len(a) = i - 1
      /\ \A j \in 1..(i - 1) : a[j] = s[j]
  <2>1. /\ a \in Seq(S) /\ Len(a) = (i - 1) - 1 + 1
        /\ \A j \in 1..((i - 1) - 1 + 1) : a[j] = s[1 + j - 1]
    <3>. 1 \in 1..(Len(s) + 1) /\ i - 1 \in 0..Len(s) /\ 1 <= (i - 1) + 1
      OBVIOUS
    <3>. QED
      BY <1>1
  <2>2. (i - 1) - 1 + 1 = i - 1 /\ \A j \in 1..(i - 1) : 1 + j - 1 = j
    OBVIOUS
  <2>. HIDE DEF a
  <2>. QED
    BY <2>1, <2>2
<1>3. /\ b \in Seq(S) /\ Len(b) = Len(s) - i
      /\ \A j \in 1..(Len(s) - i) : b[j] = s[i + j]
  <2>1. /\ b \in Seq(S) /\ Len(b) = Len(s) - (i + 1) + 1
        /\ \A j \in 1..(Len(s) - (i + 1) + 1) : b[j] = s[(i + 1) + j - 1]
    <3>. i + 1 \in 1..(Len(s) + 1) /\ Len(s) \in 0..Len(s) /\ i + 1 <= Len(s) + 1
      OBVIOUS
    <3>. QED
      BY <1>1
  <2>2. /\ Len(s) - (i + 1) + 1 = Len(s) - i
        /\ \A j \in 1..(Len(s) - i) : (i + 1) + j - 1 = i + j
    OBVIOUS
  <2>. HIDE DEF b
  <2>. QED
    BY <2>1, <2>2
<1>4. RemoveAt(s, i) = a \o b
  BY DEF RemoveAt
<1>. HIDE DEF a, b
<1>5. /\ a \o b \in Seq(S) /\ Len(a \o b) = Len(a) + Len(b)
      /\ \A j \in 1..Len(a) + Len(b) :
           (a \o b)[j] = IF j <= Len(a) THEN a[j] ELSE b[j - Len(a)]
  BY <1>2, <1>3, ConcatProperties
<1>6. Len(a) = i - 1 /\ Len(a) + Len(b) = Len(s) - 1
  BY <1>2, <1>3
<1>7. ASSUME NEW j \in 1..(Len(s) - 1)
      PROVE  (a \o b)[j] = s[IF j < i THEN j ELSE j + 1]
  <2>1. (a \o b)[j] = IF j <= i - 1 THEN a[j] ELSE b[j - (i - 1)]
    BY <1>5, <1>6
  <2>2. CASE j < i
    BY <2>1, <2>2, <1>2
  <2>3. CASE ~(j < i)
    <3>1. j - (i - 1) \in 1..(Len(s) - i) /\ i + (j - (i - 1)) = j + 1
      BY <2>3
    <3>. QED
      BY <2>1, <2>3, <3>1, <1>3
  <2>. QED
    BY <2>2, <2>3
<1>. QED
  BY <1>4, <1>5, <1>6, <1>7

LEMMA AddUidlType ==
  ASSUME mails \in Seq(Entry), NEW num \in Nat, NEW u \in Names
  PROVE  /\ add_uidl_if_exist(num, u) \in Seq(Entry)
         /\ Len(add_uidl_if_exist(num, u)) >= Len(mails)
<1>1. InitialState \in MailStates
  BY DEF InitialState, MailStates, LoadStates
<1>2. [uidl |-> u, state |-> InitialState, num |-> num] \in Entry
  BY <1>1 DEF Entry
<1>3. ASSUME NEW i \in 1..Len(mails)
      PROVE  [mails[i] EXCEPT !.num = num] \in Entry
  <2>. mails[i] \in Entry
    OBVIOUS
  <2>. QED
    BY DEF Entry
<1>. QED
  BY <1>2, <1>3 DEF add_uidl_if_exist

LEMMA SetSizeType ==
  ASSUME mails \in Seq(Entry), NEW num \in Nat, NEW size \in Nat
  PROVE  /\ set_mes_size(num, size) \in Seq(Entry)
         /\ Len(set_mes_size(num, size)) = Len(mails)
<1>1. ASSUME NEW i \in 1..Len(mails)
      PROVE  [mails[i] EXCEPT !.state =
             IF size > LOAD_IF_LESS THEN "LOAD_HEADER" ELSE "LOAD_FULL"] \in Entry
  <2>. mails[i] \in Entry
    OBVIOUS
  <2>. QED
    BY DEF Entry, MailStates, LoadStates
<1>. QED
  BY <1>1 DEF set_mes_size

LEMMA CommandType ==
  /\ \A c \in {"USER", "PASS", "STAT", "UIDL", "LIST", "QUIT"} : Cmd(c) \in Command
  /\ \A c \in {"TOP", "RETR", "DELE"}, n \in Nat : [c |-> c, n |-> n] \in Command
BY DEF Cmd, Command

LEMMA StatusType ==
  /\ \A k \in {"ok", "err", "text", "dot"} : Status(k) \in Line
  /\ Ok \in Line /\ Dot \in Line
  /\ \A n \in Nat : Count(n) \in Line
BY DEF Status, Line, Ok, Dot, Count, Names

LEMMA SentType ==
  ASSUME TypeOK, NEW cmd \in Command, Sent(cmd) PROVE c2s' \in Seq(Command)
BY DEF Sent, TypeOK

LEMMA EndSessionType ==
  ASSUME TypeOK, EndSession
  PROVE  /\ c2s' \in Seq(Command) /\ s2c' \in Seq(Line)
         /\ sock' \in {"closed", "open", "closing"} /\ part' = "none"
BY SentType, CommandType DEF EndSession, TypeOK

LEMMA TakeLineType ==
  ASSUME TypeOK, TakeLine
  PROVE  /\ line \in Line /\ line.n \in Nat /\ line.u \in Names
         /\ buf' \in Seq(Line)
<1>1. line \in Line /\ buf' \in Seq(Line)
  BY DEF TypeOK, TakeLine, line
<1>. QED
  BY <1>1 DEF Line, Names

LEMMA ReplyType ==
  ASSUME TypeOK, NEW cmd PROVE Reply(cmd) \in Seq(Line)
<1>1. Listing \in Seq(Line)
  BY DEF Listing, TypeOK, Line, Names
<1>2. Len(sess) \in Nat
  BY DEF TypeOK
<1>3. Status("text") \in Line /\ Status("err") \in Line
  BY StatusType
<1>. QED
  BY <1>1, <1>2, <1>3, StatusType DEF Reply

LEMMA EntryFields ==
  ASSUME mails \in Seq(Entry), NEW i \in 1..Len(mails)
  PROVE  /\ mails[i] \in Entry
         /\ mails[i].uidl \in Names /\ mails[i].state \in MailStates
         /\ mails[i].num \in Nat \cup {-1}
<1>1. mails[i] \in Entry
  OBVIOUS
<1>. QED
  BY <1>1 DEF Entry

LEMMA RecordFields ==
  ASSUME disk \in Seq(Record), NEW i \in 1..Len(disk)
  PROVE  /\ disk[i] \in Record
         /\ disk[i].uidl \in Names /\ disk[i].state \in MailStates \ {"BIG"}
         /\ FromRecord(disk[i]) \in Entry
<1>1. disk[i] \in Record
  OBVIOUS
<1>. QED
  BY <1>1 DEF Record, FromRecord, Entry

LEMMA ToRecordType ==
  ASSUME NEW e \in Entry PROVE ToRecord(e) \in Record
BY DEF Entry, Record, ToRecord, MailStates

-----------------------------------------------------------------------------
(* Type correctness.                                                       *)

\* mails.db after a power cut: as it was, or with a record that has no uidl.
LEMMA CrashDisk ==
  ASSUME TypeOK, Crashes
  PROVE  /\ disk' \in Seq(Record)
         /\ \/ disk' = disk
            \/ /\ Len(disk) < Len(mails) /\ Len(disk') = Len(disk) + 1
               /\ \A i \in 1..Len(disk) : disk'[i] = disk[i]
               /\ disk'[Len(disk) + 1].uidl = Torn
               /\ disk'[Len(disk) + 1].state = ToRecord(mails[Len(disk) + 1]).state
         /\ nfault' \in Nat /\ nuser' \in Nat
<1>1. nfault' \in Nat /\ nuser' \in Nat
  BY DEF Crashes, Fault, WritesToNull, TypeOK
<1>2. CASE disk' = disk
  BY <1>1, <1>2 DEF TypeOK
<1>3. CASE HalfRecord
  <2>. DEFINE e == mails[Len(disk) + 1]
              r == [ToRecord(e) EXCEPT !.uidl = Torn]
  <2>1. e \in Entry
    BY <1>3 DEF HalfRecord, TypeOK
  <2>2. ToRecord(e) \in Record
    BY <2>1, ToRecordType
  <2>3. r \in Record /\ r.uidl = Torn /\ r.state = ToRecord(e).state
    BY <2>2 DEF Record, Names
  <2>4. disk' = Append(disk, r)
    BY <1>3 DEF HalfRecord
  <2>. QED
    BY <1>1, <1>3, <2>3, <2>4 DEF HalfRecord, TypeOK
<1>. QED
  BY <1>2, <1>3 DEF Crashes

\* mails.db after the user has taken a mark back.
LEMMA WithdrawnDisk ==
  ASSUME TypeOK, AskedInv, UserWithdraws
  PROVE  \E i \in 1..Len(disk) :
           /\ prev # <<>> /\ i \in 1..Len(prev) /\ prev[i] \in MailStates \ {"BIG"}
           /\ disk' \in Seq(Record) /\ Len(disk') = Len(disk)
           /\ \A j \in 1..Len(disk) :
                /\ disk'[j].uidl = disk[j].uidl
                /\ disk'[j].state = IF j = i THEN prev[i] ELSE disk[j].state
           /\ \/ asked' = asked
              \/ asked' = asked \ {disk[i].uidl} /\ prev[i] # "DELETE" /\ ~srvUp
<1>1. PICK i \in 1..Len(prev) :
        /\ disk' = [disk EXCEPT ![i].state = prev[i]]
        /\ asked' = IF disk[i].state = "DELETE" /\ prev[i] # "DELETE" /\ ~srvUp
                    THEN asked \ {disk[i].uidl} ELSE asked
  BY DEF UserWithdraws
<1>2. prev # <<>> /\ Len(prev) = Len(disk)
  <2>1. prev # <<>>
    BY <1>1
  <2>. QED
    BY <2>1 DEF AskedInv
<1>3. i \in 1..Len(disk) /\ disk[i] \in Record /\ prev[i] \in MailStates \ {"BIG"}
  BY <1>1, <1>2 DEF TypeOK
<1>4. [disk[i] EXCEPT !.state = prev[i]] \in Record
  BY <1>3 DEF Record
<1>5. disk' \in Seq(Record) /\ Len(disk') = Len(disk)
  BY <1>1, <1>3, <1>4 DEF TypeOK
<1>6. \A j \in 1..Len(disk) :
        /\ disk'[j].uidl = disk[j].uidl
        /\ disk'[j].state = IF j = i THEN prev[i] ELSE disk[j].state
  BY <1>1, <1>3 DEF Record, TypeOK
<1>. QED
  BY <1>1, <1>2, <1>3, <1>5, <1>6

LEMMA TypeStep == TypeOK /\ CursorInv /\ AskedInv /\ [Next]_vars => TypeOK'
<1>. SUFFICES ASSUME TypeOK, CursorInv, AskedInv, [Next]_vars PROVE TypeOK'
  OBVIOUS
<1>. USE UidlAssumption
<1>1. CASE Refused
  BY <1>1, EndSessionType, TakeLineType DEF Refused, EndConnect, TakeLine, TypeOK
<1>2. CASE Greeting
  BY <1>2, TakeLineType, SentType, CommandType
     DEF Greeting, Accepted, TakeLine, TypeOK, PopStates, Receiving
<1>3. CASE VerLogin
  BY <1>3, TakeLineType, SentType, CommandType
     DEF VerLogin, Accepted, TakeLine, TypeOK, PopStates, Receiving
<1>4. CASE VerPass
  BY <1>4, TakeLineType, SentType, CommandType
     DEF VerPass, Accepted, TakeLine, TypeOK, PopStates, Receiving
<1>5. CASE GetStat
  BY <1>5, EndSessionType, TakeLineType, SentType, CommandType
     DEF GetStat, Accepted, EndConnect, TakeLine, TypeOK, PopStates, Receiving
<1>6. CASE ListBegins
  BY <1>6, TakeLineType DEF ListBegins, ReplyBegins, TakeLine, TypeOK, PopStates, Receiving
<1>7. CASE UidlEntry
  BY <1>7, TakeLineType, AddUidlType DEF UidlEntry, InReply, TakeLine, TypeOK, PopStates,
     Receiving
<1>8. CASE UidlEnds
  BY <1>8, TakeLineType, SentType, CommandType
     DEF UidlEnds, TakeLine, TypeOK, PopStates, Receiving
<1>9. CASE ListEntry
  <2>. Size[line.u] \in Nat
    BY <1>9, TakeLineType DEF ListEntry, InReply, Line
  <2>. QED
    BY <1>9, TakeLineType, SetSizeType DEF ListEntry, InReply, TakeLine, TypeOK,
       PopStates, Receiving
<1>10. CASE ListEnds
  BY <1>10, TakeLineType DEF ListEnds, InReply, TakeLine, TypeOK, PopStates, Receiving
<1>11. CASE MailBegins
  BY <1>11, TakeLineType DEF MailBegins, ReplyBegins, TakeLine, TypeOK, PopStates, Receiving
<1>12. CASE MailCannotOpen
  BY <1>12, EndSessionType, TakeLineType DEF MailCannotOpen, Fault, TakeLine, TypeOK,
     PopStates, Receiving
<1>13. CASE MailText
  BY <1>13, TakeLineType DEF MailText, InReply, TakeLine, TypeOK, PopStates, Receiving
<1>14. CASE MailEnds
  <2>. cur \in 1..Len(mails) /\ mails[cur] \in Entry
    BY <1>14, EntryFields DEF MailEnds, LoadedState, AfterLoad, InReply, TakeLine,
       CursorInv, Waiting, TypeOK
  <2>1. \A st \in DoneStates : [mails[cur] EXCEPT !.state = st] \in Entry
    BY DEF Entry, MailStates
  <2>2. mails' \in Seq(Entry)
    <3>1. PICK st \in DoneStates : mails' = [mails EXCEPT ![cur].state = st]
      BY <1>14 DEF MailEnds, LoadedState, AfterLoad, DoneStates
    <3>2. mails' = [mails EXCEPT ![cur] = [mails[cur] EXCEPT !.state = st]]
      BY <3>1
    <3>. QED
      BY <3>2, <2>1 DEF TypeOK
  <2>. QED
    BY <1>14, <2>2, TakeLineType DEF MailEnds, LoadedState, AfterLoad, InReply, TakeLine,
       TypeOK
<1>15. CASE Deleted
  BY <1>15, TakeLineType DEF Deleted, TakeLine, TypeOK, PopStates, Receiving
<1>16. CASE WriteOpens
  BY <1>16 DEF WriteOpens, TypeOK
<1>17. CASE WriteRecord
  BY <1>17, EntryFields, ToRecordType DEF WriteRecord, TypeOK
<1>18. CASE WriteCloses
  BY <1>18 DEF WriteCloses, TypeOK
<1>19. CASE WriteFails
  BY <1>19 DEF WriteFails, Fault, TypeOK
<1>20. CASE DeleteLoaded
  BY <1>20, SentType, CommandType, EntryFields
     DEF DeleteLoaded, CursorInv, TypeOK, PopStates, Receiving
<1>21. CASE WalkLosted
  <2>. cur + 1 \in 1..Len(mails)
    BY <1>21 DEF WalkLosted, Walking, CursorInv, TypeOK
  <2>1. mails' \in Seq(Entry) /\ cur' \in Nat /\ eml' \in [Names -> {"none", "begun", "head", "full"}]
    <3>1. /\ mails' = RemoveAt(mails, cur + 1)
          /\ eml' = [eml EXCEPT ![mails[cur + 1].uidl] = "none"]
          /\ cur' = (cur + 1) - 1
      BY <1>21 DEF WalkLosted, remove_cur_from_list
    <3>2. mails' \in Seq(Entry)
      BY <3>1, RemoveAtEntries DEF TypeOK
    <3>3. cur \in Nat
      BY <1>21 DEF WalkLosted, Walking, CursorInv
    <3>4. eml' \in [Names -> {"none", "begun", "head", "full"}]
      BY <3>1 DEF TypeOK
    <3>. QED
      BY <3>1, <3>2, <3>3, <3>4
  <2>. QED
    BY <1>21, <2>1 DEF WalkLosted, Walking, TypeOK
<1>22. CASE WalkKept
  BY <1>22 DEF WalkKept, Walking, CursorInv, TypeOK, PopStates, Receiving
<1>23. CASE WalkLoads
  <2>. cur + 1 \in 1..Len(mails) /\ next.num \in Nat
    BY <1>23, EntryFields DEF WalkLoads, Walking, next, CursorInv, TypeOK
  <2>1. c2s' \in Seq(Command)
    BY <1>23, SentType, CommandType DEF WalkLoads
  <2>. QED
    BY <1>23, <2>1 DEF WalkLoads, Walking, TypeOK, PopStates
<1>24. CASE WalkDeletes
  <2>. cur + 1 \in 1..Len(mails)
    BY <1>24 DEF WalkDeletes, Walking, CursorInv, TypeOK
  <2>. next.num \in Nat /\ mails[cur + 1].uidl \in Names
    BY <1>24, EntryFields DEF WalkDeletes, next, TypeOK
  <2>1. c2s' \in Seq(Command)
    BY <1>24, SentType, CommandType DEF WalkDeletes
  <2>2. /\ mails' = RemoveAt(mails, cur + 1)
        /\ eml' = [eml EXCEPT ![mails[cur + 1].uidl] = "none"]
        /\ cur' = (cur + 1) - 1
    BY <1>24 DEF WalkDeletes, remove_cur_from_list
  <2>3. mails' \in Seq(Entry)
    <3>1. mails \in Seq(Entry)
      BY DEF TypeOK
    <3>. QED
      BY <2>2, <3>1, RemoveAtEntries
  <2>4. cur' \in Nat
    <3>1. cur + 1 \in Nat /\ cur + 1 >= 1 /\ cur \in Int
      BY DEF TypeOK, Dangling
    <3>. QED
      BY <2>2, <3>1
  <2>5. eml' \in [Names -> {"none", "begun", "head", "full"}]
    <3>1. eml \in [Names -> {"none", "begun", "head", "full"}]
      BY DEF TypeOK
    <3>. QED
      BY <2>2, <3>1
  <2>. QED
    BY <1>24, <2>1, <2>3, <2>4, <2>5 DEF WalkDeletes, Walking, TypeOK, PopStates
<1>25. CASE WalkEnds
  BY <1>25 DEF WalkEnds, TypeOK, PopStates, Receiving
<1>26. CASE Done
  BY <1>26, EndSessionType DEF Done, EndConnect, TypeOK
<1>27. CASE Receives
  BY <1>27 DEF Receives, TypeOK
<1>28. CASE Connects
  <2>1. mails' \in Seq(Entry)
    <3>1. [i \in 1..Len(disk) |-> FromRecord(disk[i])] \in Seq(Entry)
      <4>1. \A i \in 1..Len(disk) : FromRecord(disk[i]) \in Entry
        BY RecordFields DEF TypeOK
      <4>2. Len(disk) \in Nat
        BY DEF TypeOK
      <4>. QED
        BY <4>1, <4>2
    <3>2. <<>> \in Seq(Entry)
      OBVIOUS
    <3>3. mails' \in {[i \in 1..Len(disk) |-> FromRecord(disk[i])], <<>>}
      BY <1>28 DEF Connects
    <3>. QED
      BY <3>1, <3>2, <3>3
  <2>2. s2c' \in Seq(Line) /\ c2s' \in Seq(Command)
    <3>1. <<Ok>> \in Seq(Line) /\ <<Status("err")>> \in Seq(Line)
      BY StatusType
    <3>2. s2c' \in {<<Ok>>, <<Status("err")>>} /\ c2s' = <<>>
      BY <1>28 DEF Connects
    <3>. QED
      BY <3>1, <3>2
  <2>3. sess' \in Seq(Uidl)
    <3>1. Cardinality(box) \in Nat
      BY FS_CardinalityType DEF TypeOK
    <3>2. sess' \in [1..Cardinality(box) -> box]
      BY <1>28 DEF Connects, SetToSeqs
    <3>3. box \subseteq Uidl
      BY DEF TypeOK
    <3>4. sess' \in [1..Cardinality(box) -> Uidl]
      BY <3>2, <3>3
    <3>. QED
      BY <3>1, <3>4
  <2>4. nfault' \in Nat /\ nuser' \in Nat
    BY <1>28 DEF Connects, Fault, TypeOK
  <2>5. prev' \in Seq(MailStates \ {"BIG"})
    BY <1>28 DEF Connects
  <2>. QED
    BY <1>28, <2>1, <2>2, <2>3, <2>4, <2>5 DEF Connects, Dangling, TypeOK, PopStates
<1>29. CASE SockClosed
  BY <1>29 DEF SockClosed, TypeOK
<1>30. CASE Drops
  BY <1>30 DEF Drops, Fault, Idle, TypeOK
<1>31. CASE Stops
  BY <1>31, EndSessionType DEF Stops, Intervention, EndConnect, TypeOK
<1>32. CASE Crashes
  <2>1. mails' \in Seq(Entry) /\ buf' \in Seq(Line) /\ s2c' \in Seq(Line)
    BY <1>32 DEF Crashes
  <2>. QED
    <3>1. cur' \in Nat \cup {Dangling} /\ popState' \in PopStates
      BY <1>32 DEF Crashes, PopStates
    <3>2. disk' \in Seq(Record) /\ nfault' \in Nat /\ nuser' \in Nat
      BY <1>32, CrashDisk
    <3>3. prev' \in Seq(MailStates \ {"BIG"})
      BY <1>32 DEF Crashes
    <3>. QED
      BY <1>32, <2>1, <3>1, <3>2, <3>3 DEF Crashes, TypeOK
<1>33. CASE ServerReplies
  <2>1. c2s' \in Seq(Command) /\ Head(c2s) \in Command
    BY <1>33 DEF ServerReplies, Answers, TypeOK
  <2>2. dele' \subseteq Nat
    BY <1>33, <2>1 DEF ServerReplies, TypeOK, Command
  <2>3. s2c' \in Seq(Line)
    BY <1>33, ReplyType DEF ServerReplies, Answers, TypeOK
  <2>. QED
    BY <1>33, <2>1, <2>2, <2>3 DEF ServerReplies, Answers, TypeOK
<1>34. CASE ServerRefuses
  BY <1>34, StatusType DEF ServerRefuses, Answers, Fault, TypeOK
<1>35. CASE ServerQuits
  <2>1. c2s' \in Seq(Command)
    BY <1>35 DEF ServerQuits, Answers, TypeOK
  <2>2. sess' \in Seq(Uidl) /\ dele' \subseteq Nat /\ srvUp' \in BOOLEAN
    <3>1. sess' = <<>> /\ dele' = {} /\ srvUp' = FALSE
      BY <1>35 DEF ServerQuits
    <3>. QED
      <4>1. dele' \subseteq Nat
        BY <3>1
      <4>2. sess' \in Seq(Uidl)
        BY <3>1
      <4>. QED
        BY <3>1, <4>1, <4>2
  <2>3. s2c' \in Seq(Line)
    BY <1>35 DEF ServerQuits, Answers, TypeOK
  <2>4. box' \subseteq Uidl /\ IsFiniteSet(box')
    BY <1>35, FS_Subset DEF ServerQuits, TypeOK
  <2>. QED
    BY <1>35, <2>1, <2>2, <2>3, <2>4 DEF ServerQuits, Answers, TypeOK
<1>36. CASE ServerGivesUp
  <2>1. c2s' \in Seq(Command) /\ sess' \in Seq(Uidl) /\ dele' \subseteq Nat
    BY <1>36 DEF ServerGivesUp
  <2>. QED
    BY <1>36, <2>1 DEF ServerGivesUp, TypeOK
<1>37. CASE MailArrives
  <2>1. box' \subseteq Uidl /\ IsFiniteSet(box') /\ fresh' \subseteq Uidl
    <3>1. PICK u \in fresh : box' = box \cup {u} /\ fresh' = fresh \ {u}
      BY <1>37 DEF MailArrives
    <3>2. IsFiniteSet(box \cup {u})
      BY FS_AddElement DEF TypeOK
    <3>. QED
      BY <3>1, <3>2 DEF TypeOK
  <2>. QED
    BY <1>37, <2>1 DEF MailArrives, TypeOK
<1>38. CASE MailVanishes
  BY <1>38, FS_RemoveElement DEF MailVanishes, TypeOK
<1>39. CASE UserMarks
  <2>1. PICK state \in {"LOAD_FULL", "DELETE"}, S \in SUBSET (1..Len(disk)) :
          /\ disk' = [i \in 1..Len(disk) |->
                       IF i \in S THEN [disk[i] EXCEPT !.state = state] ELSE disk[i]]
          /\ asked' = IF state = "DELETE" THEN asked \cup {disk[i].uidl : i \in S}
                                         ELSE asked
    BY <1>39 DEF UserMarks
  <2>2. ASSUME NEW i \in 1..Len(disk)
        PROVE  [disk[i] EXCEPT !.state = state] \in Record
    BY RecordFields DEF Record, MailStates, LoadStates, TypeOK
  <2>3. disk' \in Seq(Record)
    <3>1. Len(disk) \in Nat /\ \A i \in 1..Len(disk) : disk[i] \in Record
      BY DEF TypeOK
    <3>2. \A i \in 1..Len(disk) :
            (IF i \in S THEN [disk[i] EXCEPT !.state = state] ELSE disk[i]) \in Record
      BY <2>2, <3>1
    <3>. QED
      BY <2>1, <3>1, <3>2
  <2>4. asked' \subseteq Names
    <3>1. \A i \in 1..Len(disk) : disk[i].uidl \in Names
      BY RecordFields DEF TypeOK
    <3>. QED
      BY <2>1, <3>1 DEF TypeOK
  <2>5. prev' \in Seq(MailStates \ {"BIG"})
    <3>1. ASSUME NEW T, NEW i \in 1..Len(disk), prev = <<>> \/ Len(prev) = Len(disk)
          PROVE  (IF i \in T \/ prev = <<>> THEN disk[i].state ELSE prev[i])
                   \in MailStates \ {"BIG"}
      BY <3>1, RecordFields DEF TypeOK
    <3>2. prev = <<>> \/ Len(prev) = Len(disk)
      BY DEF AskedInv
    <3>3. \/ prev' = <<>>
          \/ \E T \in SUBSET (1..Len(disk)) :
               prev' = [i \in 1..Len(disk) |->
                         IF i \in T \/ prev = <<>> THEN disk[i].state ELSE prev[i]]
      BY <1>39 DEF UserMarks
    <3>4. Len(disk) \in Nat
      BY DEF TypeOK
    <3>5. CASE prev' = <<>>
      BY <3>5
    <3>6. ASSUME NEW T \in SUBSET (1..Len(disk)),
                 prev' = [i \in 1..Len(disk) |->
                           IF i \in T \/ prev = <<>> THEN disk[i].state ELSE prev[i]]
          PROVE  prev' \in Seq(MailStates \ {"BIG"})
      BY <3>1, <3>2, <3>4, <3>6
    <3>. QED
      BY <3>3, <3>5, <3>6
  <2>. QED
    BY <1>39, <2>3, <2>4, <2>5 DEF UserMarks, Intervention, TypeOK
<1>40. CASE UserForgets
  <2>1. disk' \in Seq(Record)
    <3>1. \A i \in 1..Len(disk) : RemoveAt(disk, i) \in Seq(Record)
      BY RemoveAtEntries DEF TypeOK
    <3>2. <<>> \in Seq(Record)
      OBVIOUS
    <3>. QED
      BY <1>40, <3>1, <3>2 DEF UserForgets
  <2>2. prev' \in Seq(MailStates \ {"BIG"})
    <3>1. prev = <<>> \/ Len(prev) = Len(disk)
      BY DEF AskedInv
    <3>2. prev # <<>> => \A i \in 1..Len(disk) : RemoveAt(prev, i) \in Seq(MailStates \ {"BIG"})
      BY <3>1, RemoveAtEntries DEF TypeOK
    <3>3. <<>> \in Seq(MailStates \ {"BIG"})
      OBVIOUS
    <3>. QED
      BY <1>40, <3>2, <3>3 DEF UserForgets
  <2>. QED
    BY <1>40, <2>1, <2>2 DEF UserForgets, Intervention, TypeOK
<1>41. CASE UserWithdraws
  <2>1. disk' \in Seq(Record) /\ asked' \subseteq Names
    BY <1>41, WithdrawnDisk DEF TypeOK
  <2>. QED
    BY <1>41, <2>1 DEF UserWithdraws, TypeOK
<1>42. CASE UNCHANGED vars
  BY <1>42 DEF vars, TypeOK
<1>. QED
  BY <1>1, <1>2, <1>3, <1>4, <1>5, <1>6, <1>7, <1>8, <1>9, <1>10, <1>11, <1>12, <1>13,
     <1>14, <1>15, <1>16, <1>17, <1>18, <1>19, <1>20, <1>21, <1>22, <1>23, <1>24, <1>25,
     <1>26, <1>27, <1>28, <1>29, <1>30, <1>31, <1>32, <1>33, <1>34, <1>35, <1>36, <1>37,
     <1>38, <1>39, <1>40, <1>41, <1>42
     DEF Next, ProcessLine, HelperLoop, Connection, Server, User

-----------------------------------------------------------------------------
(* What the operations on the list do to each entry.                       *)

LEMMA AddUidlEntries ==
  ASSUME mails \in Seq(Entry), NEW num \in Nat, NEW u \in Names
  PROVE  LET list == add_uidl_if_exist(num, u)
         IN  \/ /\ Len(list) = Len(mails)
                /\ \A i \in 1..Len(mails) :
                     /\ list[i].uidl = mails[i].uidl
                     /\ list[i].state = mails[i].state
                     /\ list[i].num = IF mails[i].uidl = u THEN num
                                                           ELSE mails[i].num
             \/ /\ \A i \in 1..Len(mails) : mails[i].uidl # u
                /\ Len(list) = Len(mails) + 1
                /\ \A i \in 1..Len(mails) : list[i] = mails[i]
                /\ list[Len(mails) + 1] =
                     [uidl |-> u, state |-> InitialState, num |-> num]
<1>1. CASE \E i \in 1..Len(mails) : mails[i].uidl = u
  <2>1. ASSUME NEW i \in 1..Len(mails)
        PROVE  LET e == [mails[i] EXCEPT !.num = num]
               IN  e.uidl = mails[i].uidl /\ e.state = mails[i].state /\ e.num = num
    BY EntryFields DEF Entry
  <2>. QED
    BY <1>1, <2>1 DEF add_uidl_if_exist
<1>2. CASE ~ \E i \in 1..Len(mails) : mails[i].uidl = u
  BY <1>2 DEF add_uidl_if_exist
<1>. QED
  BY <1>1, <1>2

LEMMA SetSizeEntries ==
  ASSUME mails \in Seq(Entry), NEW num \in Nat, NEW size \in Nat
  PROVE  LET list == set_mes_size(num, size)
         IN  /\ Len(list) = Len(mails)
             /\ \A i \in 1..Len(mails) :
                  /\ list[i].uidl = mails[i].uidl
                  /\ list[i].num = mails[i].num
                  /\ \/ list[i].state = mails[i].state
                     \/ mails[i].state = "BIG" /\ list[i].state \in LoadStates
<1>1. ASSUME NEW i \in 1..Len(mails), NEW st \in LoadStates
      PROVE  LET e == [mails[i] EXCEPT !.state = st]
             IN  e.uidl = mails[i].uidl /\ e.num = mails[i].num /\ e.state = st
  BY EntryFields DEF Entry
<1>. QED
  BY <1>1 DEF set_mes_size, LoadStates

LEMMA ReadEntries ==
  ASSUME disk \in Seq(Record), NEW i \in 1..Len(disk)
  PROVE  /\ FromRecord(disk[i]).uidl = disk[i].uidl
         /\ FromRecord(disk[i]).state = disk[i].state
         /\ FromRecord(disk[i]).num = -1
BY DEF FromRecord

LEMMA TakeLineDots ==
  ASSUME TypeOK, LockStepInv, TakeLine
  PROVE  /\ Len(buf') = Len(buf) - 1
         /\ \A j \in 1..Len(buf') : buf'[j] = buf[j + 1]
         /\ \A j \in 1..Len(buf') : buf'[j].k = "dot" => j = Len(buf') /\ s2c = <<>>
         /\ line.k = "dot" => buf' = <<>> /\ s2c = <<>>
         /\ popState \notin MultiLine => buf' = <<>> /\ s2c = <<>>
         /\ sock = "open" => c2s = <<>>
<1>1. /\ Len(buf') = Len(buf) - 1 /\ Len(buf) >= 1 /\ line = buf[1]
      /\ \A j \in 1..Len(buf') : buf'[j] = buf[j + 1]
      /\ buf' \in Seq(Line) /\ s2c \in Seq(Line)
  BY DEF TypeOK, TakeLine, line
<1>2. line.k = "dot" => Len(buf) = 1 /\ s2c = <<>>
  BY <1>1 DEF LockStepInv
<1>3. popState \notin MultiLine => Len(buf) = 1 /\ Len(s2c) = 0
  BY <1>1 DEF LockStepInv
<1>4. Len(buf') = 0 => buf' = <<>>
  BY <1>1
<1>. QED
  BY <1>1, <1>2, <1>3, <1>4 DEF LockStepInv

LEMMA ReplyShape ==
  ASSUME TypeOK, NEW cmd
  PROVE  /\ \A j \in 1..Len(Reply(cmd)) :
              /\ Reply(cmd)[j].k = "dot" => j = Len(Reply(cmd))
              /\ Reply(cmd)[j].k = "entry" => Listed(Reply(cmd)[j].n, Reply(cmd)[j].u)
         /\ cmd.c \notin {"UIDL", "LIST", "TOP", "RETR"} => Len(Reply(cmd)) = 1
<1>. Len(sess) \in Nat
  BY DEF TypeOK
<1>1. /\ Ok.k = "ok" /\ Dot.k = "dot" /\ Count(Len(sess)).k = "ok"
      /\ Status("err").k = "err" /\ Status("text").k = "text"
  BY DEF Ok, Dot, Count, Status
<1>2. CASE cmd.c \in {"UIDL", "LIST"}
  <2>. DEFINE r == <<Ok>> \o Listing \o <<Dot>>
  <2>1. Listing \in Seq(Line) /\ Len(Listing) = Len(sess)
    BY DEF Listing, TypeOK, Line, Names
  <2>2. /\ Len(r) = Len(sess) + 2
        /\ r[1] = Ok /\ r[Len(sess) + 2] = Dot
        /\ \A j \in 2..(Len(sess) + 1) : r[j] = Listing[j - 1]
    BY <2>1, StatusType
  <2>3. \A j \in 1..Len(sess) :
           Listing[j].k = "entry" /\ Listing[j].n = j /\ Listing[j].u = sess[j]
    BY DEF Listing
  <2>4. Reply(cmd) = r
    BY <1>2 DEF Reply
  <2>. HIDE DEF r
  <2>5. \A j \in 1..Len(r) :
              /\ r[j].k = "dot" => j = Len(r)
              /\ r[j].k = "entry" => Listed(r[j].n, r[j].u)
    <3>. TAKE j \in 1..Len(r)
    <3>1. CASE j = 1
      BY <3>1, <2>2, <1>1
    <3>2. CASE j = Len(sess) + 2
      BY <3>2, <2>2, <1>1
    <3>3. CASE j \in 2..(Len(sess) + 1)
      <4>. j - 1 \in 1..Len(sess)
        BY <3>3
      <4>. QED
        BY <3>3, <2>2, <2>3 DEF Listed
    <3>. QED
      BY <3>1, <3>2, <3>3, <2>2
  <2>. QED
    BY <2>4, <2>5, <1>2
<1>3. CASE cmd.c \in {"TOP", "RETR"} /\ Valid(cmd.n)
  <2>. Reply(cmd) = <<Ok, Status("text"), Dot>>
    BY <1>3 DEF Reply
  <2>. QED
    BY <1>1, <1>3
<1>4. CASE ~(cmd.c \in {"UIDL", "LIST"}) /\ ~(cmd.c \in {"TOP", "RETR"} /\ Valid(cmd.n))
  <2>. PICK l \in {Ok, Count(Len(sess)), Status("err")} : Reply(cmd) = <<l>>
    BY <1>4 DEF Reply
  <2>. QED
    BY <1>1
<1>. QED
  BY <1>2, <1>3, <1>4

LEMMA MarkedKept ==
  ASSUME TypeOK, UNCHANGED <<sess, dele>>,
         NEW cmd \in Command, cmd.c # "DELE", Sent(cmd)
  PROVE  \A n : Marked(n)' => Marked(n)
<1>1. c2s' \in {c2s, Append(c2s, cmd)}
  BY DEF Sent
<1>2. \A j \in 1..Len(c2s') : (j \in 1..Len(c2s) /\ c2s'[j] = c2s[j]) \/ c2s'[j] = cmd
  <2>1. c2s \in Seq(Command)
    BY DEF TypeOK
  <2>. QED
    BY <1>1, <2>1
<1>3. \A n : cmd # [c |-> "DELE", n |-> n]
  OBVIOUS
<1>. QED
  BY <1>2, <1>3 DEF Marked

-----------------------------------------------------------------------------
(* Each part of the invariant is preserved by every step.                  *)

LEMMA LockStepInvStep == DialogueInv /\ [Next]_vars => LockStepInv'
<1>. SUFFICES ASSUME DialogueInv, [Next]_vars PROVE LockStepInv'
  OBVIOUS
<1>. USE DEF DialogueInv
<1>1. CASE Refused
  BY <1>1, TakeLineDots DEF Refused, TakeLine, EndConnect, EndSession, LockStepInv
<1>2. CASE Greeting
  BY <1>2 DEF Greeting, Accepted, TakeLine, Sent, Cmd, LockStepInv, MultiLine, Receiving,
     TypeOK
<1>3. CASE VerLogin
  BY <1>3 DEF VerLogin, Accepted, TakeLine, Sent, Cmd, LockStepInv, MultiLine, Receiving,
     TypeOK
<1>4. CASE VerPass
  BY <1>4 DEF VerPass, Accepted, TakeLine, Sent, Cmd, LockStepInv, MultiLine, Receiving,
     TypeOK
<1>5. CASE GetStat
  <2>1. CASE Accepted("GET_STAT", "UIDL", "GET_UIDL_LIST")
    BY <2>1, TakeLineDots DEF Accepted, TakeLine, Sent, Cmd, LockStepInv, MultiLine,
       Receiving
  <2>2. CASE TakeLine /\ popState = "GET_STAT" /\ EndConnect /\ hpc' = hpc
    BY <2>2, TakeLineDots DEF TakeLine, EndConnect, EndSession, LockStepInv, MultiLine,
       Receiving
  <2>. QED
    BY <1>5, <2>1, <2>2 DEF GetStat
<1>6. CASE ListBegins
  BY <1>6 DEF ListBegins, ReplyBegins, TakeLine, LockStepInv, MultiLine, Receiving, TypeOK
<1>7. CASE UidlEntry
  BY <1>7 DEF UidlEntry, InReply, TakeLine, line, LockStepInv, MultiLine, Receiving, TypeOK
<1>8. CASE UidlEnds
  BY <1>8 DEF UidlEnds, TakeLine, Sent, Cmd, line, LockStepInv, MultiLine, Receiving, TypeOK
<1>9. CASE ListEntry
  BY <1>9 DEF ListEntry, InReply, TakeLine, line, LockStepInv, MultiLine, Receiving, TypeOK
<1>10. CASE ListEnds
  BY <1>10, TakeLineDots DEF ListEnds, InReply, TakeLine, LockStepInv
<1>11. CASE MailBegins
  BY <1>11 DEF MailBegins, ReplyBegins, TakeLine, LockStepInv, MultiLine, Receiving, TypeOK
<1>12. CASE MailCannotOpen
  BY <1>12, TakeLineDots DEF MailCannotOpen, TakeLine, EndSession, LockStepInv
<1>13. CASE MailText
  BY <1>13 DEF MailText, InReply, TakeLine, line, LockStepInv, MultiLine, Receiving, TypeOK
<1>14. CASE MailEnds
  BY <1>14, TakeLineDots DEF MailEnds, LoadedState, AfterLoad, InReply, TakeLine,
     LockStepInv
<1>15. CASE Deleted
  BY <1>15 DEF Deleted, TakeLine, LockStepInv, MultiLine, Receiving, TypeOK
<1>16. CASE WriteOpens
  BY <1>16 DEF WriteOpens, LockStepInv, MultiLine, Receiving, TypeOK
<1>17. CASE WriteRecord
  BY <1>17 DEF WriteRecord, ToRecord, LockStepInv, MultiLine, Receiving, TypeOK
<1>18. CASE WriteCloses
  BY <1>18 DEF WriteCloses, LockStepInv, MultiLine, Receiving, TypeOK
<1>19. CASE WriteFails
  BY <1>19 DEF WriteFails, Fault, LockStepInv, MultiLine, Receiving, TypeOK
<1>20. CASE DeleteLoaded
  BY <1>20 DEF DeleteLoaded, Sent, LockStepInv, MultiLine, Receiving, TypeOK
<1>21. CASE WalkLosted
  BY <1>21 DEF WalkLosted, Walking, next, remove_cur_from_list, LockStepInv, MultiLine,
     Receiving, TypeOK
<1>22. CASE WalkKept
  BY <1>22 DEF WalkKept, Walking, next, LockStepInv, MultiLine, Receiving, TypeOK
<1>23. CASE WalkLoads
  BY <1>23 DEF WalkLoads, Walking, next, Sent, LockStepInv, MultiLine, Receiving, TypeOK
<1>24. CASE WalkDeletes
  BY <1>24 DEF WalkDeletes, Walking, next, Sent, remove_cur_from_list, LockStepInv,
     MultiLine, Receiving, TypeOK
<1>25. CASE WalkEnds
  BY <1>25 DEF WalkEnds, LockStepInv, MultiLine, Receiving, TypeOK
<1>26. CASE Done
  BY <1>26 DEF Done, EndConnect, EndSession, Sent, Cmd, LockStepInv, MultiLine,
     Receiving, TypeOK
<1>27. CASE Receives
  <2>1. PICK n \in {1, Len(s2c)} : buf' = SubSeq(s2c, 1, n) /\ s2c' = SubSeq(s2c, n + 1, Len(s2c))
    BY <1>27 DEF Receives
  <2>2. s2c \in Seq(Line) /\ Len(s2c) \in Nat /\ Len(s2c) >= 1 /\ n \in 1..Len(s2c)
    BY <1>27 DEF Receives, TypeOK
  <2>3. /\ Len(buf') = n /\ Len(s2c') = Len(s2c) - n
        /\ \A j \in 1..n : buf'[j] = s2c[j]
        /\ \A j \in 1..(Len(s2c) - n) : s2c'[j] = s2c[n + j]
    BY <2>1, <2>2
  <2>4. \A j \in 1..Len(s2c) : s2c[j].k = "dot" => j = Len(s2c)
    BY DEF LockStepInv
  <2>5. n = Len(s2c) => s2c' = <<>>
    BY <2>1, <2>2
  <2>6. /\ \A j \in 1..Len(buf') : buf'[j].k = "dot" => j = Len(buf') /\ s2c' = <<>>
        /\ \A j \in 1..Len(s2c') : s2c'[j].k = "dot" => j = Len(s2c')
    BY <2>2, <2>3, <2>4, <2>5
  <2>7. popState \notin MultiLine => Len(buf') + Len(s2c') <= 1
    <3>1. popState' = popState /\ buf = <<>>
      BY <1>27 DEF Receives, Idle
    <3>2. Len(buf') + Len(s2c') = Len(s2c) /\ Len(buf) = 0
      BY <3>1, <2>2, <2>3
    <3>. QED
      BY <2>2, <3>1, <3>2 DEF LockStepInv
  <2>8. sock = "open" /\ hpc = "line" /\ c2s = <<>>
    BY <1>27 DEF Receives, Idle, LockStepInv
  <2>. QED
    BY <1>27, <2>6, <2>7, <2>8 DEF Receives, LockStepInv
<1>28. CASE Connects
  <2>1. PICK k \in {"ok", "err"} : s2c' = <<Status(k)>>
    BY <1>28 DEF Connects, Ok
  <2>2. Len(s2c') = 1 /\ s2c'[1].k # "dot"
    BY <2>1 DEF Status
  <2>. QED
    BY <1>28, <2>2 DEF Connects, Idle, LockStepInv
<1>29. CASE SockClosed
  BY <1>29 DEF SockClosed, LockStepInv, MultiLine, Receiving, TypeOK
<1>30. CASE Drops
  BY <1>30 DEF Drops, Fault, Idle, LockStepInv, MultiLine, Receiving, TypeOK
<1>31. CASE Stops
  BY <1>31 DEF Stops, Idle, Intervention, EndConnect, EndSession, Sent, Cmd, LockStepInv,
     MultiLine, Receiving, TypeOK
<1>32. CASE Crashes
  BY <1>32 DEF Crashes, Fault, LockStepInv, MultiLine, Receiving, TypeOK
<1>33. CASE ServerReplies
  <2>. DEFINE cmd == Head(c2s)
  <2>1. CASE sock # "open"
    BY <1>33, <2>1 DEF ServerReplies, Answers, LockStepInv
  <2>2. CASE sock = "open"
    <3>1. c2s' = <<>> /\ s2c' = s2c \o Reply(cmd) /\ s2c = <<>> /\ buf = <<>> /\ hpc = "line"
      BY <1>33, <2>2 DEF ServerReplies, Answers, LockStepInv, TypeOK
    <3>2. s2c' = Reply(cmd)
      BY <3>1, ReplyType
    <3>3. cmd.c \in {"UIDL", "LIST", "TOP", "RETR"} => popState \in MultiLine
      BY <1>33, <2>2 DEF ServerReplies, LockStepInv, TypeOK
    <3>. HIDE DEF cmd
    <3>. QED
      BY <1>33, <2>2, <3>1, <3>2, <3>3, ReplyShape DEF ServerReplies, Answers, LockStepInv
  <2>. QED
    BY <2>1, <2>2
<1>34. CASE ServerRefuses
  <2>1. CASE sock # "open"
    BY <1>34, <2>1 DEF ServerRefuses, Answers, LockStepInv
  <2>2. CASE sock = "open"
    <3>1. c2s' = <<>> /\ s2c' = <<Status("err")>> /\ s2c = <<>> /\ buf = <<>> /\ hpc = "line"
      BY <1>34, <2>2 DEF ServerRefuses, Answers, LockStepInv, TypeOK
    <3>2. Len(s2c') = 1 /\ s2c'[1].k # "dot"
      BY <3>1 DEF Status
    <3>. QED
      BY <1>34, <2>2, <3>1, <3>2 DEF ServerRefuses, Answers, LockStepInv
  <2>. QED
    BY <2>1, <2>2
<1>35. CASE ServerQuits
  BY <1>35 DEF ServerQuits, Answers, Cmd, LockStepInv, MultiLine, Receiving, TypeOK
<1>36. CASE ServerGivesUp
  BY <1>36 DEF ServerGivesUp, LockStepInv, MultiLine, Receiving, TypeOK
<1>37. CASE MailArrives
  BY <1>37 DEF MailArrives, LockStepInv, MultiLine, Receiving, TypeOK
<1>38. CASE MailVanishes
  BY <1>38 DEF MailVanishes, LockStepInv, MultiLine, Receiving, TypeOK
<1>39. CASE UserMarks
  BY <1>39 DEF UserMarks, Idle, Intervention, LockStepInv, MultiLine, Receiving, TypeOK
<1>40. CASE UserForgets
  BY <1>40 DEF UserForgets, Idle, Intervention, LockStepInv, MultiLine, Receiving, TypeOK
<1>41. CASE UserWithdraws
  BY <1>41 DEF UserWithdraws, Idle, LockStepInv, MultiLine, Receiving, TypeOK
<1>42. CASE UNCHANGED vars
  BY <1>42 DEF vars, LockStepInv, MultiLine, Receiving, TypeOK
<1>. QED
  BY <1>1, <1>2, <1>3, <1>4, <1>5, <1>6, <1>7, <1>8, <1>9, <1>10, <1>11, <1>12, <1>13,
     <1>14, <1>15, <1>16, <1>17, <1>18, <1>19, <1>20, <1>21, <1>22, <1>23, <1>24, <1>25,
     <1>26, <1>27, <1>28, <1>29, <1>30, <1>31, <1>32, <1>33, <1>34, <1>35, <1>36, <1>37,
     <1>38, <1>39, <1>40, <1>41, <1>42
     DEF Next, ProcessLine, HelperLoop, Connection, Server, User

LEMMA CursorInvStep == DialogueInv /\ [Next]_vars => CursorInv'
<1>. SUFFICES ASSUME DialogueInv, [Next]_vars PROVE CursorInv'
  OBVIOUS
<1>. USE DEF DialogueInv
<1>1. CASE Refused
  BY <1>1 DEF Refused, TakeLine, EndConnect, EndSession, Sent, Cmd, CursorInv, Waiting,
     Writing, Receiving, TypeOK
<1>2. CASE Greeting
  BY <1>2 DEF Greeting, Accepted, TakeLine, Sent, Cmd, CursorInv, Waiting, Writing,
     Receiving, TypeOK
<1>3. CASE VerLogin
  BY <1>3 DEF VerLogin, Accepted, TakeLine, Sent, Cmd, CursorInv, Waiting, Writing,
     Receiving, TypeOK
<1>4. CASE VerPass
  BY <1>4 DEF VerPass, Accepted, TakeLine, Sent, Cmd, CursorInv, Waiting, Writing,
     Receiving, TypeOK
<1>5. CASE GetStat
  BY <1>5 DEF GetStat, Accepted, TakeLine, EndConnect, EndSession, Sent, Cmd, CursorInv,
     Waiting, Writing, Receiving, TypeOK
<1>6. CASE ListBegins
  BY <1>6 DEF ListBegins, ReplyBegins, TakeLine, CursorInv, Waiting, Writing, Receiving,
     TypeOK
<1>7. CASE UidlEntry
  BY <1>7 DEF UidlEntry, InReply, TakeLine, line, CursorInv, Waiting, Writing, Receiving,
     TypeOK
<1>8. CASE UidlEnds
  BY <1>8 DEF UidlEnds, TakeLine, Sent, Cmd, line, CursorInv, Waiting, Writing,
     Receiving, TypeOK
<1>9. CASE ListEntry
  BY <1>9 DEF ListEntry, InReply, TakeLine, line, CursorInv, Waiting, Writing, Receiving,
     TypeOK
<1>10. CASE ListEnds
  BY <1>10 DEF ListEnds, InReply, TakeLine, line, CursorInv, Waiting, Writing, Receiving,
     TypeOK
<1>11. CASE MailBegins
  BY <1>11 DEF MailBegins, ReplyBegins, TakeLine, CursorInv, Waiting, Writing, Receiving,
     TypeOK
<1>12. CASE MailCannotOpen
  BY <1>12 DEF MailCannotOpen, TakeLine, EndSession, Sent, Cmd, Fault, CursorInv,
     Waiting, Writing, Receiving, TypeOK
<1>13. CASE MailText
  BY <1>13 DEF MailText, InReply, TakeLine, line, CursorInv, Waiting, Writing, Receiving,
     TypeOK
<1>14. CASE MailEnds
  <2>1. cur \in 1..Len(mails) /\ mails[cur].num # -1 /\ mails[cur] \in Entry /\ mails \in Seq(Entry)
    BY <1>14, EntryFields DEF MailEnds, LoadedState, AfterLoad, InReply, TakeLine,
       CursorInv, Waiting, TypeOK
  <2>2. PICK st \in DoneStates : /\ mails' = [mails EXCEPT ![cur] = [mails[cur] EXCEPT !.state = st]]
                                 /\ popState = "RECEIVE_MESSAGE" => st = "FULL_LOADED"
    BY <1>14 DEF MailEnds, LoadedState, AfterLoad, DoneStates
  <2>3. /\ Len(mails') = Len(mails)
        /\ mails'[cur].uidl = mails[cur].uidl /\ mails'[cur].num = mails[cur].num
        /\ mails'[cur].state = st
    BY <2>1, <2>2 DEF Entry
  <2>4. popState = "RECEIVE_MESSAGE" => eml'[mails[cur].uidl] = "full"
    BY <1>14, <2>1, EntryFields DEF MailEnds, LoadedState, AfterLoad, TypeOK
  <2>5. /\ cur' = cur /\ hpc' = "open" /\ after' \in {"walk", "dele"}
        /\ after' = "dele" => popState = "RECEIVE_MESSAGE"
    BY <1>14 DEF MailEnds, LoadedState, AfterLoad
  <2>. QED
    BY <2>1, <2>2, <2>3, <2>4, <2>5 DEF CursorInv, Waiting, Writing
<1>15. CASE Deleted
  BY <1>15 DEF Deleted, TakeLine, CursorInv, Waiting, Writing, Receiving, TypeOK
<1>16. CASE WriteOpens
  BY <1>16 DEF WriteOpens, CursorInv, Waiting, Writing, Receiving, TypeOK
<1>17. CASE WriteRecord
  BY <1>17 DEF WriteRecord, ToRecord, CursorInv, Waiting, Writing, Receiving, TypeOK
<1>18. CASE WriteCloses
  BY <1>18 DEF WriteCloses, CursorInv, Waiting, Writing, Receiving, TypeOK
<1>19. CASE WriteFails
  BY <1>19 DEF WriteFails, Fault, CursorInv, Waiting, Writing, Receiving, TypeOK
<1>20. CASE DeleteLoaded
  BY <1>20 DEF DeleteLoaded, Sent, CursorInv, Waiting, Writing, Receiving, TypeOK
<1>21. CASE WalkLosted
  <2>1. Len(mails') = Len(mails) - 1 /\ cur' = cur /\ cur \in 0..(Len(mails) - 1)
    BY <1>21, RemoveAtEntries DEF WalkLosted, Walking, remove_cur_from_list, CursorInv,
       TypeOK
  <2>. QED
    BY <1>21, <2>1 DEF WalkLosted, Walking, CursorInv, Waiting, Writing
<1>22. CASE WalkKept
  BY <1>22 DEF WalkKept, Walking, next, CursorInv, Waiting, Writing, Receiving, TypeOK
<1>23. CASE WalkLoads
  BY <1>23 DEF WalkLoads, Walking, next, Sent, CursorInv, Waiting, Writing, Receiving,
     TypeOK
<1>24. CASE WalkDeletes
  <2>1. Len(mails') = Len(mails) - 1 /\ cur' = cur /\ cur \in 0..(Len(mails) - 1)
    BY <1>24, RemoveAtEntries DEF WalkDeletes, Walking, remove_cur_from_list, CursorInv,
       TypeOK
  <2>. QED
    BY <1>24, <2>1 DEF WalkDeletes, Walking, CursorInv, Waiting, Writing, Receiving
<1>25. CASE WalkEnds
  BY <1>25 DEF WalkEnds, CursorInv, Waiting, Writing, Receiving, TypeOK
<1>26. CASE Done
  <2>1. ~Waiting' /\ ~Writing("walk")' /\ ~Writing("dele")'
    BY <1>26 DEF Done, EndConnect, EndSession, Waiting, Writing, LockStepInv, TypeOK
  <2>. QED
    BY <1>26, <2>1 DEF Done, CursorInv
<1>27. CASE Receives
  BY <1>27 DEF Receives, Idle, CursorInv, Waiting, Writing, Receiving, TypeOK
<1>28. CASE Connects
  BY <1>28 DEF Connects, Idle, Fault, CursorInv, Waiting, Writing, Receiving, TypeOK
<1>29. CASE SockClosed
  BY <1>29 DEF SockClosed, CursorInv, Waiting, Writing, Receiving, TypeOK
<1>30. CASE Drops
  BY <1>30 DEF Drops, Fault, Idle, CursorInv, Waiting, Writing, Receiving, TypeOK
<1>31. CASE Stops
  BY <1>31 DEF Stops, Idle, Intervention, EndConnect, EndSession, Sent, Cmd, CursorInv,
     Waiting, Writing, Receiving, TypeOK
<1>32. CASE Crashes
  BY <1>32 DEF Crashes, Fault, CursorInv, Waiting, Writing, Receiving, TypeOK
<1>33. CASE ServerReplies
  BY <1>33 DEF ServerReplies, Answers, CursorInv, Waiting, Writing, Receiving, TypeOK
<1>34. CASE ServerRefuses
  BY <1>34 DEF ServerRefuses, Answers, Status, Fault, CursorInv, Waiting, Writing,
     Receiving, TypeOK
<1>35. CASE ServerQuits
  BY <1>35 DEF ServerQuits, Answers, Cmd, CursorInv, Waiting, Writing, Receiving, TypeOK
<1>36. CASE ServerGivesUp
  BY <1>36 DEF ServerGivesUp, CursorInv, Waiting, Writing, Receiving, TypeOK
<1>37. CASE MailArrives
  BY <1>37 DEF MailArrives, CursorInv, Waiting, Writing, Receiving, TypeOK
<1>38. CASE MailVanishes
  BY <1>38 DEF MailVanishes, CursorInv, Waiting, Writing, Receiving, TypeOK
<1>39. CASE UserMarks
  BY <1>39 DEF UserMarks, Idle, Intervention, CursorInv, Waiting, Writing, Receiving, TypeOK
<1>40. CASE UserForgets
  BY <1>40 DEF UserForgets, Idle, Intervention, CursorInv, Waiting, Writing, Receiving,
     TypeOK
<1>41. CASE UserWithdraws
  BY <1>41 DEF UserWithdraws, Idle, CursorInv, Waiting, Writing, Receiving, TypeOK
<1>42. CASE UNCHANGED vars
  BY <1>42 DEF vars, CursorInv, Waiting, Writing, Receiving, TypeOK
<1>. QED
  BY <1>1, <1>2, <1>3, <1>4, <1>5, <1>6, <1>7, <1>8, <1>9, <1>10, <1>11, <1>12, <1>13,
     <1>14, <1>15, <1>16, <1>17, <1>18, <1>19, <1>20, <1>21, <1>22, <1>23, <1>24, <1>25,
     <1>26, <1>27, <1>28, <1>29, <1>30, <1>31, <1>32, <1>33, <1>34, <1>35, <1>36, <1>37,
     <1>38, <1>39, <1>40, <1>41, <1>42
     DEF Next, ProcessLine, HelperLoop, Connection, Server, User

LEMMA SavedInvStep == DialogueInv /\ [Next]_vars => SavedInv'
<1>. SUFFICES ASSUME DialogueInv, [Next]_vars PROVE SavedInv'
  OBVIOUS
<1>. USE DEF DialogueInv
<1>1. CASE Refused
  BY <1>1 DEF Refused, TakeLine, EndConnect, EndSession, Sent, Cmd, SavedInv, TypeOK
<1>2. CASE Greeting
  BY <1>2 DEF Greeting, Accepted, TakeLine, Sent, Cmd, SavedInv, TypeOK
<1>3. CASE VerLogin
  BY <1>3 DEF VerLogin, Accepted, TakeLine, Sent, Cmd, SavedInv, TypeOK
<1>4. CASE VerPass
  BY <1>4 DEF VerPass, Accepted, TakeLine, Sent, Cmd, SavedInv, TypeOK
<1>5. CASE GetStat
  BY <1>5 DEF GetStat, Accepted, TakeLine, EndConnect, EndSession, Sent, Cmd, SavedInv,
     TypeOK
<1>6. CASE ListBegins
  BY <1>6 DEF ListBegins, ReplyBegins, TakeLine, SavedInv, TypeOK
<1>7. CASE UidlEntry
  BY <1>7 DEF UidlEntry, InReply, TakeLine, line, SavedInv, TypeOK
<1>8. CASE UidlEnds
  BY <1>8 DEF UidlEnds, TakeLine, Sent, Cmd, line, SavedInv, TypeOK
<1>9. CASE ListEntry
  BY <1>9 DEF ListEntry, InReply, TakeLine, line, SavedInv, TypeOK
<1>10. CASE ListEnds
  BY <1>10 DEF ListEnds, InReply, TakeLine, line, SavedInv, TypeOK
<1>11. CASE MailBegins
  BY <1>11 DEF MailBegins, ReplyBegins, TakeLine, SavedInv, TypeOK
<1>12. CASE MailCannotOpen
  BY <1>12 DEF MailCannotOpen, TakeLine, EndSession, Sent, Cmd, Fault, SavedInv, TypeOK
<1>13. CASE MailText
  BY <1>13 DEF MailText, InReply, TakeLine, line, SavedInv, TypeOK
<1>14. CASE MailEnds
  BY <1>14 DEF MailEnds, InReply, TakeLine, line, LoadedState, AfterLoad, SavedInv, TypeOK
<1>15. CASE Deleted
  BY <1>15 DEF Deleted, TakeLine, SavedInv, TypeOK
<1>16. CASE WriteOpens
  BY <1>16 DEF WriteOpens, SavedInv, TypeOK
<1>17. CASE WriteRecord
  BY <1>17 DEF WriteRecord, ToRecord, SavedInv, TypeOK
<1>18. CASE WriteCloses
  BY <1>18 DEF WriteCloses, SavedInv, TypeOK
<1>19. CASE WriteFails
  BY <1>19 DEF WriteFails, Fault, SavedInv, TypeOK
<1>20. CASE DeleteLoaded
  BY <1>20 DEF DeleteLoaded, Sent, SavedInv, TypeOK
<1>21. CASE WalkLosted
  BY <1>21 DEF WalkLosted, Walking, next, remove_cur_from_list, SavedInv, TypeOK
<1>22. CASE WalkKept
  BY <1>22 DEF WalkKept, Walking, next, SavedInv, TypeOK
<1>23. CASE WalkLoads
  BY <1>23 DEF WalkLoads, Walking, next, Sent, SavedInv, TypeOK
<1>24. CASE WalkDeletes
  BY <1>24 DEF WalkDeletes, Walking, next, Sent, remove_cur_from_list, SavedInv, TypeOK
<1>25. CASE WalkEnds
  BY <1>25 DEF WalkEnds, SavedInv, TypeOK
<1>26. CASE Done
  BY <1>26 DEF Done, EndConnect, EndSession, Sent, Cmd, SavedInv, TypeOK
<1>27. CASE Receives
  BY <1>27 DEF Receives, Idle, SavedInv, TypeOK
<1>28. CASE Connects
  BY <1>28 DEF Connects, Idle, Fault, SavedInv, TypeOK
<1>29. CASE SockClosed
  BY <1>29 DEF SockClosed, SavedInv, TypeOK
<1>30. CASE Drops
  BY <1>30 DEF Drops, Fault, Idle, SavedInv, TypeOK
<1>31. CASE Stops
  BY <1>31 DEF Stops, Idle, Intervention, EndConnect, EndSession, Sent, Cmd, SavedInv,
     TypeOK
<1>32. CASE Crashes
  BY <1>32 DEF Crashes, Fault, SavedInv, TypeOK
<1>33. CASE ServerReplies
  BY <1>33 DEF ServerReplies, Answers, SavedInv, TypeOK
<1>34. CASE ServerRefuses
  BY <1>34 DEF ServerRefuses, Answers, Status, Fault, SavedInv, TypeOK
<1>35. CASE ServerQuits
  BY <1>35 DEF ServerQuits, Answers, Cmd, SavedInv, TypeOK
<1>36. CASE ServerGivesUp
  BY <1>36 DEF ServerGivesUp, SavedInv, TypeOK
<1>37. CASE MailArrives
  BY <1>37 DEF MailArrives, SavedInv, TypeOK
<1>38. CASE MailVanishes
  BY <1>38 DEF MailVanishes, SavedInv, TypeOK
<1>39. CASE UserMarks
  BY <1>39 DEF UserMarks, Idle, Intervention, SavedInv, TypeOK
<1>40. CASE UserForgets
  BY <1>40 DEF UserForgets, Idle, Intervention, SavedInv, TypeOK
<1>41. CASE UserWithdraws
  BY <1>41 DEF UserWithdraws, Idle, SavedInv, TypeOK
<1>42. CASE UNCHANGED vars
  BY <1>42 DEF vars, SavedInv, TypeOK
<1>. QED
  BY <1>1, <1>2, <1>3, <1>4, <1>5, <1>6, <1>7, <1>8, <1>9, <1>10, <1>11, <1>12, <1>13,
     <1>14, <1>15, <1>16, <1>17, <1>18, <1>19, <1>20, <1>21, <1>22, <1>23, <1>24, <1>25,
     <1>26, <1>27, <1>28, <1>29, <1>30, <1>31, <1>32, <1>33, <1>34, <1>35, <1>36, <1>37,
     <1>38, <1>39, <1>40, <1>41, <1>42
     DEF Next, ProcessLine, HelperLoop, Connection, Server, User

LEMMA AskedInvStep == DialogueInv /\ [Next]_vars => AskedInv'
<1>. SUFFICES ASSUME DialogueInv, [Next]_vars PROVE AskedInv'
  OBVIOUS
<1>. USE DEF DialogueInv
<1>1. CASE Refused
  BY <1>1 DEF Refused, TakeLine, EndConnect, EndSession, Sent, Cmd, AskedInv, Wished, InUse, TypeOK
<1>2. CASE Greeting
  BY <1>2 DEF Greeting, Accepted, TakeLine, Sent, Cmd, AskedInv, Wished, InUse, TypeOK
<1>3. CASE VerLogin
  BY <1>3 DEF VerLogin, Accepted, TakeLine, Sent, Cmd, AskedInv, Wished, InUse, TypeOK
<1>4. CASE VerPass
  BY <1>4 DEF VerPass, Accepted, TakeLine, Sent, Cmd, AskedInv, Wished, InUse, TypeOK
<1>5. CASE GetStat
  BY <1>5 DEF GetStat, Accepted, TakeLine, EndConnect, EndSession, Sent, Cmd, AskedInv, Wished, InUse,
     TypeOK
<1>6. CASE ListBegins
  BY <1>6 DEF ListBegins, ReplyBegins, TakeLine, AskedInv, Wished, InUse, TypeOK
<1>7. CASE UidlEntry
  <2>1. PICK num \in Nat, u \in Names : mails' = add_uidl_if_exist(num, u)
    BY <1>7, TakeLineType DEF UidlEntry, InReply
  <2>2. ASSUME NEW i \in 1..Len(mails'), mails'[i].state = "DELETE"
        PROVE  i \in 1..Len(mails) /\ mails[i].state = "DELETE" /\ mails'[i].uidl = mails[i].uidl
    <3>1. \/ Len(mails') = Len(mails) /\ mails'[i].state = mails[i].state /\ mails'[i].uidl = mails[i].uidl
          \/ Len(mails') = Len(mails) + 1 /\ i \in 1..Len(mails) /\ mails'[i] = mails[i]
          \/ Len(mails') = Len(mails) + 1 /\ i = Len(mails) + 1 /\ mails'[i].state = InitialState
      <4>. Len(mails) \in Nat
        BY DEF TypeOK
      <4>1. \/ /\ Len(mails') = Len(mails)
               /\ \A k \in 1..Len(mails) :
                    mails'[k].uidl = mails[k].uidl /\ mails'[k].state = mails[k].state
            \/ /\ Len(mails') = Len(mails) + 1
               /\ \A k \in 1..Len(mails) : mails'[k] = mails[k]
               /\ mails'[Len(mails) + 1] = [uidl |-> u, state |-> InitialState, num |-> num]
        <5>. mails \in Seq(Entry)
          BY DEF TypeOK
        <5>. QED
          BY <2>1, AddUidlEntries
      <4>. QED
        BY <4>1
    <3>2. InitialState # "DELETE"
      BY DEF InitialState
    <3>. QED
      BY <2>2, <3>1, <3>2
  <2>. QED
    BY <1>7, <2>2 DEF UidlEntry, InReply, TakeLine, AskedInv, Wished, InUse
<1>8. CASE UidlEnds
  BY <1>8 DEF UidlEnds, TakeLine, Sent, Cmd, line, AskedInv, Wished, InUse, TypeOK
<1>9. CASE ListEntry
  <2>1. PICK num \in Nat, size \in Nat : mails' = set_mes_size(num, size)
    BY <1>9, TakeLineType, UidlAssumption DEF ListEntry, InReply, Line
  <2>2. ASSUME NEW i \in 1..Len(mails'), mails'[i].state = "DELETE"
        PROVE  i \in 1..Len(mails) /\ mails[i].state = "DELETE" /\ mails'[i].uidl = mails[i].uidl
    BY <2>1, <2>2, SetSizeEntries DEF TypeOK, LoadStates
  <2>. QED
    BY <1>9, <2>2 DEF ListEntry, InReply, TakeLine, AskedInv, Wished, InUse
<1>10. CASE ListEnds
  BY <1>10 DEF ListEnds, InReply, TakeLine, line, AskedInv, Wished, InUse, TypeOK
<1>11. CASE MailBegins
  BY <1>11 DEF MailBegins, ReplyBegins, TakeLine, AskedInv, Wished, InUse, TypeOK
<1>12. CASE MailCannotOpen
  BY <1>12 DEF MailCannotOpen, TakeLine, EndSession, Sent, Cmd, Fault, AskedInv, Wished, InUse, TypeOK
<1>13. CASE MailText
  BY <1>13 DEF MailText, InReply, TakeLine, line, AskedInv, Wished, InUse, TypeOK
<1>14. CASE MailEnds
  BY <1>14 DEF MailEnds, InReply, TakeLine, line, LoadedState, AfterLoad, AskedInv, Wished, InUse, TypeOK
<1>15. CASE Deleted
  BY <1>15 DEF Deleted, TakeLine, AskedInv, Wished, InUse, TypeOK
<1>16. CASE WriteOpens
  BY <1>16 DEF WriteOpens, AskedInv, Wished, InUse, TypeOK
<1>17. CASE WriteRecord
  BY <1>17 DEF WriteRecord, ToRecord, AskedInv, Wished, InUse, TypeOK
<1>18. CASE WriteCloses
  BY <1>18 DEF WriteCloses, AskedInv, Wished, InUse, TypeOK
<1>19. CASE WriteFails
  BY <1>19 DEF WriteFails, Fault, AskedInv, Wished, InUse, TypeOK
<1>20. CASE DeleteLoaded
  BY <1>20 DEF DeleteLoaded, Sent, AskedInv, Wished, InUse, TypeOK
<1>21. CASE WalkLosted
  <2>1. cur + 1 \in 1..Len(mails) /\ mails' = RemoveAt(mails, cur + 1)
    BY <1>21 DEF WalkLosted, Walking, remove_cur_from_list, CursorInv, TypeOK
  <2>2. ASSUME NEW i \in 1..Len(mails')
        PROVE  \E j \in 1..Len(mails) : mails'[i] = mails[j]
    <3>1. /\ Len(mails') = Len(mails) - 1 /\ Len(mails) \in Nat
          /\ mails'[i] = mails[IF i < cur + 1 THEN i ELSE i + 1]
      BY <2>1, RemoveAtEntries DEF TypeOK
    <3>. QED
      BY <3>1
  <2>. QED
    BY <1>21, <2>2 DEF WalkLosted, Walking, AskedInv, Wished, InUse
<1>22. CASE WalkKept
  BY <1>22 DEF WalkKept, Walking, next, AskedInv, Wished, InUse, TypeOK
<1>23. CASE WalkLoads
  BY <1>23 DEF WalkLoads, Walking, next, Sent, AskedInv, Wished, InUse, TypeOK
<1>24. CASE WalkDeletes
  <2>1. cur + 1 \in 1..Len(mails) /\ mails' = RemoveAt(mails, cur + 1)
    BY <1>24 DEF WalkDeletes, Walking, remove_cur_from_list, CursorInv, TypeOK
  <2>2. ASSUME NEW i \in 1..Len(mails')
        PROVE  \E j \in 1..Len(mails) : mails'[i] = mails[j]
    <3>1. /\ Len(mails') = Len(mails) - 1 /\ Len(mails) \in Nat
          /\ mails'[i] = mails[IF i < cur + 1 THEN i ELSE i + 1]
      BY <2>1, RemoveAtEntries DEF TypeOK
    <3>. QED
      BY <3>1
  <2>. QED
    BY <1>24, <2>2 DEF WalkDeletes, Walking, AskedInv, Wished, InUse
<1>25. CASE WalkEnds
  BY <1>25 DEF WalkEnds, AskedInv, Wished, InUse, TypeOK
<1>26. CASE Done
  BY <1>26 DEF Done, EndConnect, EndSession, Sent, Cmd, AskedInv, Wished, InUse, TypeOK
<1>27. CASE Receives
  BY <1>27 DEF Receives, Idle, AskedInv, Wished, InUse, TypeOK
<1>28. CASE Connects
  <2>1. mails' \in {[i \in 1..Len(disk) |-> FromRecord(disk[i])], <<>>}
    BY <1>28 DEF Connects
  <2>2. ASSUME NEW i \in 1..Len(mails')
        PROVE  /\ i \in 1..Len(disk)
               /\ mails'[i].uidl = disk[i].uidl /\ mails'[i].state = disk[i].state
    <3>. Len(disk) \in Nat
      BY DEF TypeOK
    <3>. QED
      BY <2>1, ReadEntries DEF TypeOK
  <2>. QED
    BY <1>28, <2>2 DEF Connects, AskedInv, Wished, InUse
<1>29. CASE SockClosed
  BY <1>29 DEF SockClosed, AskedInv, Wished, InUse, TypeOK
<1>30. CASE Drops
  BY <1>30 DEF Drops, Fault, Idle, AskedInv, Wished, InUse, TypeOK
<1>31. CASE Stops
  BY <1>31 DEF Stops, Idle, Intervention, EndConnect, EndSession, Sent, Cmd, AskedInv, Wished, InUse,
     TypeOK
<1>32. CASE Crashes
  <2>1. ~InUse' /\ prev' = <<>> /\ asked' = asked
    BY <1>32 DEF Crashes, InUse
  <2>2. \A i \in 1..Len(disk') : Wished(disk'[i].uidl, disk'[i].state)
    <3>1. CASE disk' = disk
      BY <3>1 DEF AskedInv
    <3>2. CASE /\ Len(disk) < Len(mails) /\ Len(disk') = Len(disk) + 1
               /\ \A i \in 1..Len(disk) : disk'[i] = disk[i]
               /\ disk'[Len(disk) + 1].uidl = Torn
      <4>1. Len(disk) \in Nat
        BY DEF TypeOK
      <4>2. ASSUME NEW i \in 1..Len(disk') PROVE Wished(disk'[i].uidl, disk'[i].state)
        <5>1. CASE i \in 1..Len(disk)
          BY <3>2, <5>1 DEF AskedInv
        <5>2. CASE i = Len(disk) + 1
          BY <3>2, <5>2, UidlAssumption DEF Wished
        <5>. QED
          BY <3>2, <4>1, <5>1, <5>2
      <4>. QED
        BY <4>2
    <3>. QED
      BY <1>32, <3>1, <3>2, CrashDisk
  <2>. QED
    BY <2>1, <2>2 DEF AskedInv, Wished
<1>33. CASE ServerReplies
  BY <1>33 DEF ServerReplies, Answers, AskedInv, Wished, InUse, TypeOK
<1>34. CASE ServerRefuses
  BY <1>34 DEF ServerRefuses, Answers, Status, Fault, AskedInv, Wished, InUse, TypeOK
<1>35. CASE ServerQuits
  BY <1>35 DEF ServerQuits, Answers, AskedInv, Wished, InUse
<1>36. CASE ServerGivesUp
  BY <1>36 DEF ServerGivesUp, AskedInv, Wished, InUse, TypeOK
<1>37. CASE MailArrives
  BY <1>37 DEF MailArrives, AskedInv, Wished, InUse, TypeOK
<1>38. CASE MailVanishes
  BY <1>38 DEF MailVanishes, AskedInv, Wished, InUse, TypeOK
<1>39. CASE UserMarks
  <2>. disk \in Seq(Record) /\ Len(disk) \in Nat
    BY DEF TypeOK
  <2>1. PICK st \in {"LOAD_FULL", "DELETE"}, S \in SUBSET (1..Len(disk)) :
          /\ disk' = [i \in 1..Len(disk) |->
                       IF i \in S THEN [disk[i] EXCEPT !.state = st] ELSE disk[i]]
          /\ prev' = IF sock = "closed"
                     THEN [i \in 1..Len(disk) |->
                             IF i \in S \/ prev = <<>> THEN disk[i].state ELSE prev[i]]
                     ELSE <<>>
          /\ asked' = IF st = "DELETE" THEN asked \cup {disk[i].uidl : i \in S} ELSE asked
    BY <1>39 DEF UserMarks
  <2>2. asked \subseteq asked'
    BY <2>1
  <2>3. Len(disk') = Len(disk) /\ (prev' # <<>> => sock = "closed" /\ Len(prev') = Len(disk))
    BY <2>1
  <2>4. UNCHANGED <<hpc, buf, sock, mails>> /\ hpc = "line" /\ buf = <<>>
    BY <1>39 DEF UserMarks, Idle
  <2>5. ASSUME NEW i \in 1..Len(disk)
        PROVE  /\ (disk'[i].uidl \in Uidl /\ disk'[i].state = "DELETE" => disk'[i].uidl \in asked')
               /\ prev' # <<>> =>
                    (disk'[i].uidl \in Uidl /\ prev'[i] = "DELETE" => disk'[i].uidl \in asked')
    <3>1. disk[i] \in Record
      OBVIOUS
    <3>2. /\ disk'[i].uidl = disk[i].uidl
          /\ disk'[i].state = IF i \in S THEN st ELSE disk[i].state
      BY <2>1, <3>1 DEF Record
    <3>3. (disk'[i].uidl \in Uidl /\ disk'[i].state = "DELETE" => disk'[i].uidl \in asked')
      BY <2>1, <2>2, <3>2 DEF AskedInv, Wished
    <3>4. prev' # <<>> => prev'[i] = disk[i].state \/ (prev # <<>> /\ prev'[i] = prev[i])
      BY <2>1
    <3>5. prev' # <<>> => (disk'[i].uidl \in Uidl /\ prev'[i] = "DELETE" => disk'[i].uidl \in asked')
      BY <2>2, <3>2, <3>4 DEF AskedInv, Wished
    <3>. QED
      BY <3>3, <3>5
  <2>. QED
    BY <2>2, <2>3, <2>4, <2>5 DEF AskedInv, Wished, InUse
<1>40. CASE UserForgets
  <2>. disk \in Seq(Record) /\ Len(disk) \in Nat /\ prev \in Seq(MailStates \ {"BIG"})
    BY DEF TypeOK
  <2>1. UNCHANGED <<hpc, buf, sock, mails, asked>> /\ hpc = "line" /\ buf = <<>>
    BY <1>40 DEF UserForgets, Idle
  <2>2. CASE disk' = <<>> /\ prev' = <<>>
    BY <2>1, <2>2 DEF AskedInv, Wished, InUse
  <2>3. ASSUME NEW n \in 1..Len(disk), disk' = RemoveAt(disk, n),
               prev' = IF prev = <<>> THEN <<>> ELSE RemoveAt(prev, n)
        PROVE  AskedInv'
    <3>1. /\ Len(disk') = Len(disk) - 1
          /\ \A i \in 1..Len(disk') : disk'[i] = disk[IF i < n THEN i ELSE i + 1]
      BY <2>3, RemoveAtEntries
    <3>2. ASSUME prev # <<>>
          PROVE  /\ Len(prev') = Len(disk')
                 /\ \A i \in 1..Len(disk') : prev'[i] = prev[IF i < n THEN i ELSE i + 1]
      <4>1. Len(prev) = Len(disk) /\ prev' = RemoveAt(prev, n)
        BY <2>3, <3>2 DEF AskedInv
      <4>2. n \in 1..Len(prev)
        BY <4>1
      <4>3. /\ Len(RemoveAt(prev, n)) = Len(prev) - 1
            /\ \A i \in 1..Len(RemoveAt(prev, n)) :
                 RemoveAt(prev, n)[i] = prev[IF i < n THEN i ELSE i + 1]
        BY <4>2, RemoveAtEntries
      <4>. QED
        BY <3>1, <4>1, <4>3
    <3>3. prev' # <<>> => prev # <<>>
      BY <2>3
    <3>4. \A i \in 1..Len(disk') : i \in 1..Len(disk) /\ i + 1 \in 1..Len(disk)
      BY <3>1
    <3>. QED
      BY <2>1, <3>1, <3>2, <3>3, <3>4 DEF AskedInv, Wished, InUse
  <2>. QED
    BY <1>40, <2>2, <2>3 DEF UserForgets
<1>41. CASE UserWithdraws
  <2>1. UNCHANGED <<hpc, buf, sock, mails, prev>> /\ hpc = "line" /\ buf = <<>>
    BY <1>41 DEF UserWithdraws, Idle
  <2>2. PICK i \in 1..Len(disk) :
          /\ prev # <<>> /\ Len(disk') = Len(disk)
          /\ \A j \in 1..Len(disk) :
               /\ disk'[j].uidl = disk[j].uidl
               /\ disk'[j].state = IF j = i THEN prev[i] ELSE disk[j].state
          /\ \/ asked' = asked
             \/ asked' = asked \ {disk[i].uidl} /\ prev[i] # "DELETE" /\ ~srvUp
    BY <1>41, WithdrawnDisk
  <2>3. ~InUse /\ sock = "closed" /\ Len(prev) = Len(disk)
    BY <2>2 DEF AskedInv
  <2>4. ASSUME NEW j \in 1..Len(disk)
        PROVE  (disk'[j].uidl \in Uidl /\ disk'[j].state = "DELETE" => disk'[j].uidl \in asked')
    <3>1. CASE j = i
      BY <2>2, <3>1 DEF AskedInv, Wished
    <3>2. CASE j # i
      <4>1. disk[j].uidl = disk[i].uidl => disk[j].uidl = Torn
        BY <3>2 DEF NoDuplicates, UniqueUidl
      <4>. QED
        BY <2>2, <3>2, <4>1, UidlAssumption DEF AskedInv, Wished
    <3>. QED
      BY <3>1, <3>2
  <2>5. ASSUME NEW j \in 1..Len(disk)
        PROVE  (disk'[j].uidl \in Uidl /\ prev[j] = "DELETE" => disk'[j].uidl \in asked')
    <3>1. CASE j = i
      BY <2>1, <2>2, <3>1 DEF AskedInv, Wished
    <3>2. CASE j # i
      <4>1. disk[j].uidl = disk[i].uidl => disk[j].uidl = Torn
        BY <3>2 DEF NoDuplicates, UniqueUidl
      <4>. QED
        BY <2>1, <2>2, <3>2, <4>1, UidlAssumption DEF AskedInv, Wished
    <3>. QED
      BY <3>1, <3>2
  <2>. QED
    BY <2>1, <2>2, <2>3, <2>4, <2>5 DEF AskedInv, InUse, Wished
<1>42. CASE UNCHANGED vars
  BY <1>42 DEF vars, AskedInv, Wished, InUse, TypeOK
<1>. QED
  BY <1>1, <1>2, <1>3, <1>4, <1>5, <1>6, <1>7, <1>8, <1>9, <1>10, <1>11, <1>12, <1>13,
     <1>14, <1>15, <1>16, <1>17, <1>18, <1>19, <1>20, <1>21, <1>22, <1>23, <1>24, <1>25,
     <1>26, <1>27, <1>28, <1>29, <1>30, <1>31, <1>32, <1>33, <1>34, <1>35, <1>36, <1>37,
     <1>38, <1>39, <1>40, <1>41, <1>42
     DEF Next, ProcessLine, HelperLoop, Connection, Server, User

LEMMA NoDuplicatesStep == DialogueInv /\ [Next]_vars => NoDuplicates'
<1>. SUFFICES ASSUME DialogueInv, [Next]_vars PROVE NoDuplicates'
  OBVIOUS
<1>. USE DEF DialogueInv
<1>1. CASE Refused
  BY <1>1 DEF Refused, TakeLine, EndConnect, EndSession, Sent, Cmd, NoDuplicates, UniqueUidl
<1>2. CASE Greeting
  BY <1>2 DEF Greeting, Accepted, TakeLine, Sent, Cmd, NoDuplicates, UniqueUidl
<1>3. CASE VerLogin
  BY <1>3 DEF VerLogin, Accepted, TakeLine, Sent, Cmd, NoDuplicates, UniqueUidl
<1>4. CASE VerPass
  BY <1>4 DEF VerPass, Accepted, TakeLine, Sent, Cmd, NoDuplicates, UniqueUidl
<1>5. CASE GetStat
  BY <1>5 DEF GetStat, Accepted, TakeLine, EndConnect, EndSession, Sent, Cmd,
     NoDuplicates, UniqueUidl
<1>6. CASE ListBegins
  BY <1>6 DEF ListBegins, ReplyBegins, TakeLine, NoDuplicates, UniqueUidl
<1>7. CASE UidlEntry
  <2>. mails \in Seq(Entry) /\ Len(mails) \in Nat
    BY DEF TypeOK
  <2>1. PICK num \in Nat, u \in Names : mails' = add_uidl_if_exist(num, u)
    BY <1>7, TakeLineType DEF UidlEntry, InReply
  <2>2. \/ /\ Len(mails') = Len(mails)
           /\ \A k \in 1..Len(mails) : mails'[k].uidl = mails[k].uidl
        \/ /\ \A k \in 1..Len(mails) : mails[k].uidl # u
           /\ Len(mails') = Len(mails) + 1
           /\ \A k \in 1..Len(mails) : mails'[k].uidl = mails[k].uidl
           /\ mails'[Len(mails) + 1].uidl = u
    <3>1. \/ /\ Len(mails') = Len(mails)
             /\ \A k \in 1..Len(mails) :
                  /\ mails'[k].uidl = mails[k].uidl
                  /\ mails'[k].state = mails[k].state
                  /\ mails'[k].num = IF mails[k].uidl = u THEN num ELSE mails[k].num
          \/ /\ \A k \in 1..Len(mails) : mails[k].uidl # u
             /\ Len(mails') = Len(mails) + 1
             /\ \A k \in 1..Len(mails) : mails'[k] = mails[k]
             /\ mails'[Len(mails) + 1] =
                  [uidl |-> u, state |-> InitialState, num |-> num]
      BY <2>1, AddUidlEntries
    <3>. QED
      BY <3>1
  <2>3. UniqueUidl(mails)'
    BY <2>2 DEF NoDuplicates, UniqueUidl
  <2>. QED
    BY <1>7, <2>3 DEF UidlEntry, InReply, TakeLine, NoDuplicates, UniqueUidl
<1>8. CASE UidlEnds
  BY <1>8 DEF UidlEnds, TakeLine, Sent, Cmd, line, NoDuplicates, UniqueUidl
<1>9. CASE ListEntry
  <2>. mails \in Seq(Entry)
    BY DEF TypeOK
  <2>1. PICK num \in Nat, size \in Nat : mails' = set_mes_size(num, size)
    BY <1>9, TakeLineType, UidlAssumption DEF ListEntry, InReply, Line
  <2>2. Len(mails') = Len(mails) /\ \A k \in 1..Len(mails) : mails'[k].uidl = mails[k].uidl
    BY <2>1, SetSizeEntries
  <2>3. UniqueUidl(mails)'
    BY <2>2 DEF NoDuplicates, UniqueUidl
  <2>. QED
    BY <1>9, <2>3 DEF ListEntry, InReply, TakeLine, NoDuplicates
<1>10. CASE ListEnds
  BY <1>10 DEF ListEnds, InReply, TakeLine, line, NoDuplicates, UniqueUidl
<1>11. CASE MailBegins
  BY <1>11 DEF MailBegins, ReplyBegins, TakeLine, NoDuplicates, UniqueUidl
<1>12. CASE MailCannotOpen
  BY <1>12 DEF MailCannotOpen, TakeLine, EndSession, Sent, Cmd, Fault, NoDuplicates,
     UniqueUidl
<1>13. CASE MailText
  BY <1>13 DEF MailText, InReply, TakeLine, line, NoDuplicates, UniqueUidl
<1>14. CASE MailEnds
  <2>1. PICK st \in DoneStates : mails' = [mails EXCEPT ![cur] = [mails[cur] EXCEPT !.state = st]]
    BY <1>14 DEF MailEnds, LoadedState, AfterLoad, DoneStates
  <2>2. cur \in 1..Len(mails) /\ mails[cur] \in Entry /\ mails \in Seq(Entry)
    BY <1>14, EntryFields DEF MailEnds, LoadedState, AfterLoad, InReply, TakeLine,
       CursorInv, Waiting, TypeOK
  <2>3. Len(mails') = Len(mails) /\ \A k \in 1..Len(mails) : mails'[k].uidl = mails[k].uidl
    BY <2>1, <2>2 DEF Entry
  <2>. QED
    BY <1>14, <2>3 DEF MailEnds, LoadedState, AfterLoad, InReply, TakeLine, NoDuplicates,
       UniqueUidl
<1>15. CASE Deleted
  BY <1>15 DEF Deleted, TakeLine, NoDuplicates, UniqueUidl
<1>16. CASE WriteOpens
  BY <1>16 DEF WriteOpens, NoDuplicates, UniqueUidl
<1>17. CASE WriteRecord
  <2>. disk \in Seq(Record) /\ Len(disk) \in Nat /\ Len(mails) \in Nat
    BY DEF TypeOK
  <2>1. /\ Len(disk') = Len(disk) + 1 /\ Len(disk') \in 1..Len(mails)
        /\ \A i \in 1..Len(disk) : disk'[i] = disk[i]
        /\ disk'[Len(disk) + 1] = ToRecord(mails[Len(disk) + 1])
    BY <1>17 DEF WriteRecord
  <2>2. \A i \in 1..Len(disk') : i \in 1..Len(mails) /\ disk'[i].uidl = mails[i].uidl
    BY <1>17, <2>1 DEF WriteRecord, SavedInv, ToRecord
  <2>. QED
    BY <1>17, <2>1, <2>2 DEF WriteRecord, NoDuplicates, UniqueUidl
<1>18. CASE WriteCloses
  BY <1>18 DEF WriteCloses, NoDuplicates, UniqueUidl
<1>19. CASE WriteFails
  BY <1>19 DEF WriteFails, Fault, NoDuplicates, UniqueUidl
<1>20. CASE DeleteLoaded
  BY <1>20 DEF DeleteLoaded, Sent, NoDuplicates, UniqueUidl
<1>21. CASE WalkLosted
  <2>. mails \in Seq(Entry) /\ Len(mails) \in Nat
    BY DEF TypeOK
  <2>1. cur + 1 \in 1..Len(mails) /\ mails' = RemoveAt(mails, cur + 1) /\ cur \in Nat
    BY <1>21 DEF WalkLosted, Walking, remove_cur_from_list, CursorInv, TypeOK
  <2>2. /\ Len(mails') = Len(mails) - 1 /\ Len(mails) \in Nat
        /\ \A i \in 1..Len(mails') : mails'[i] = mails[IF i < cur + 1 THEN i ELSE i + 1]
    BY <2>1, RemoveAtEntries
  <2>3. UniqueUidl(mails)'
    BY <2>1, <2>2 DEF NoDuplicates, UniqueUidl
  <2>. QED
    BY <1>21, <2>3 DEF WalkLosted, Walking, NoDuplicates, UniqueUidl
<1>22. CASE WalkKept
  BY <1>22 DEF WalkKept, Walking, next, NoDuplicates, UniqueUidl
<1>23. CASE WalkLoads
  BY <1>23 DEF WalkLoads, Walking, next, Sent, NoDuplicates, UniqueUidl
<1>24. CASE WalkDeletes
  <2>. mails \in Seq(Entry) /\ Len(mails) \in Nat
    BY DEF TypeOK
  <2>1. cur + 1 \in 1..Len(mails) /\ mails' = RemoveAt(mails, cur + 1) /\ cur \in Nat
    BY <1>24 DEF WalkDeletes, Walking, remove_cur_from_list, CursorInv, TypeOK
  <2>2. /\ Len(mails') = Len(mails) - 1 /\ Len(mails) \in Nat
        /\ \A i \in 1..Len(mails') : mails'[i] = mails[IF i < cur + 1 THEN i ELSE i + 1]
    BY <2>1, RemoveAtEntries
  <2>3. UniqueUidl(mails)'
    BY <2>1, <2>2 DEF NoDuplicates, UniqueUidl
  <2>. QED
    BY <1>24, <2>3 DEF WalkDeletes, Walking, NoDuplicates, UniqueUidl
<1>25. CASE WalkEnds
  BY <1>25 DEF WalkEnds, NoDuplicates, UniqueUidl
<1>26. CASE Done
  BY <1>26 DEF Done, EndConnect, EndSession, Sent, Cmd, NoDuplicates, UniqueUidl
<1>27. CASE Receives
  BY <1>27 DEF Receives, Idle, NoDuplicates, UniqueUidl
<1>28. CASE Connects
  <2>. Len(disk) \in Nat
    BY DEF TypeOK
  <2>1. mails' \in {[i \in 1..Len(disk) |-> FromRecord(disk[i])], <<>>}
    BY <1>28 DEF Connects
  <2>2. \A i \in 1..Len(mails') : i \in 1..Len(disk) /\ mails'[i].uidl = disk[i].uidl
    BY <2>1, ReadEntries DEF TypeOK
  <2>. QED
    BY <1>28, <2>2 DEF Connects, NoDuplicates, UniqueUidl
<1>29. CASE SockClosed
  BY <1>29 DEF SockClosed, NoDuplicates, UniqueUidl
<1>30. CASE Drops
  BY <1>30 DEF Drops, Fault, Idle, NoDuplicates, UniqueUidl
<1>31. CASE Stops
  BY <1>31 DEF Stops, Idle, Intervention, EndConnect, EndSession, Sent, Cmd,
     NoDuplicates, UniqueUidl
<1>32. CASE Crashes
  <2>1. mails' = <<>>
    BY <1>32 DEF Crashes
  <2>2. UniqueUidl(disk)'
    <3>1. CASE disk' = disk
      BY <3>1 DEF NoDuplicates, UniqueUidl
    <3>2. CASE /\ Len(disk) < Len(mails) /\ Len(disk') = Len(disk) + 1
               /\ \A i \in 1..Len(disk) : disk'[i] = disk[i]
               /\ disk'[Len(disk) + 1].uidl = Torn
      <4>1. Len(disk) \in Nat
        BY DEF TypeOK
      <4>2. \A i \in 1..Len(disk') : i \in 1..Len(disk) \/ disk'[i].uidl = Torn
        BY <3>2, <4>1
      <4>. QED
        BY <3>2, <4>2 DEF NoDuplicates, UniqueUidl
    <3>. QED
      BY <1>32, <3>1, <3>2, CrashDisk DEF DialogueInv
  <2>. QED
    BY <2>1, <2>2 DEF NoDuplicates, UniqueUidl
<1>33. CASE ServerReplies
  BY <1>33 DEF ServerReplies, Answers, NoDuplicates, UniqueUidl
<1>34. CASE ServerRefuses
  BY <1>34 DEF ServerRefuses, Answers, Status, Fault, NoDuplicates, UniqueUidl
<1>35. CASE ServerQuits
  BY <1>35 DEF ServerQuits, Answers, Cmd, NoDuplicates, UniqueUidl
<1>36. CASE ServerGivesUp
  BY <1>36 DEF ServerGivesUp, NoDuplicates, UniqueUidl
<1>37. CASE MailArrives
  BY <1>37 DEF MailArrives, NoDuplicates, UniqueUidl
<1>38. CASE MailVanishes
  BY <1>38 DEF MailVanishes, NoDuplicates, UniqueUidl
<1>39. CASE UserMarks
  <2>. Len(disk) \in Nat
    BY DEF TypeOK
  <2>1. PICK st \in {"LOAD_FULL", "DELETE"}, S \in SUBSET (1..Len(disk)) :
          disk' = [i \in 1..Len(disk) |->
                    IF i \in S THEN [disk[i] EXCEPT !.state = st] ELSE disk[i]]
    BY <1>39 DEF UserMarks
  <2>2. \A i \in 1..Len(disk) : [disk[i] EXCEPT !.state = st].uidl = disk[i].uidl
    BY RecordFields DEF Record, TypeOK
  <2>3. \A i \in 1..Len(disk') : i \in 1..Len(disk) /\ disk'[i].uidl = disk[i].uidl
    BY <2>1, <2>2
  <2>. QED
    BY <1>39, <2>3 DEF UserMarks, NoDuplicates, UniqueUidl
<1>40. CASE UserForgets
  <2>1. CASE disk' = <<>>
    BY <1>40, <2>1 DEF UserForgets, NoDuplicates, UniqueUidl
  <2>2. CASE \E i \in 1..Len(disk) : disk' = RemoveAt(disk, i)
    <3>1. PICK n \in 1..Len(disk) : disk' = RemoveAt(disk, n)
      BY <2>2
    <3>2. /\ Len(disk') = Len(disk) - 1 /\ Len(disk) \in Nat
          /\ \A i \in 1..Len(disk') : disk'[i] = disk[IF i < n THEN i ELSE i + 1]
      BY <3>1, RemoveAtEntries DEF TypeOK
    <3>3. UniqueUidl(disk)'
      BY <3>2 DEF NoDuplicates, UniqueUidl
    <3>. QED
      BY <1>40, <3>3 DEF UserForgets, NoDuplicates, UniqueUidl
  <2>. QED
    BY <1>40, <2>1, <2>2 DEF UserForgets
<1>41. CASE UserWithdraws
  <2>1. Len(disk') = Len(disk) /\ \A i \in 1..Len(disk) : disk'[i].uidl = disk[i].uidl
    BY <1>41, WithdrawnDisk DEF DialogueInv
  <2>. QED
    BY <1>41, <2>1 DEF UserWithdraws, NoDuplicates, UniqueUidl
<1>42. CASE UNCHANGED vars
  BY <1>42 DEF vars, NoDuplicates, UniqueUidl
<1>. QED
  BY <1>1, <1>2, <1>3, <1>4, <1>5, <1>6, <1>7, <1>8, <1>9, <1>10, <1>11, <1>12, <1>13,
     <1>14, <1>15, <1>16, <1>17, <1>18, <1>19, <1>20, <1>21, <1>22, <1>23, <1>24, <1>25,
     <1>26, <1>27, <1>28, <1>29, <1>30, <1>31, <1>32, <1>33, <1>34, <1>35, <1>36, <1>37,
     <1>38, <1>39, <1>40, <1>41, <1>42
     DEF Next, ProcessLine, HelperLoop, Connection, Server, User

LEMMA NumbersInvStep == DialogueInv /\ [Next]_vars => NumbersInv'
<1>. SUFFICES ASSUME DialogueInv, [Next]_vars PROVE NumbersInv'
  OBVIOUS
<1>. USE DEF DialogueInv
<1>1. CASE Refused
  BY <1>1 DEF Refused, TakeLine, EndConnect, EndSession, Sent, Cmd, NumbersInv, Listed
<1>2. CASE Greeting
  BY <1>2 DEF Greeting, Accepted, TakeLine, Sent, Cmd, NumbersInv, Listed
<1>3. CASE VerLogin
  BY <1>3 DEF VerLogin, Accepted, TakeLine, Sent, Cmd, NumbersInv, Listed
<1>4. CASE VerPass
  BY <1>4 DEF VerPass, Accepted, TakeLine, Sent, Cmd, NumbersInv, Listed
<1>5. CASE GetStat
  <2>1. CASE Accepted("GET_STAT", "UIDL", "GET_UIDL_LIST")
    BY <2>1 DEF Accepted, TakeLine, Sent, Cmd, NumbersInv, Listed, TypeOK
  <2>2. CASE TakeLine /\ EndConnect /\ mails' = mails
    BY <2>2 DEF TakeLine, EndConnect, EndSession, NumbersInv, Listed, TypeOK
  <2>. QED
    BY <1>5, <2>1, <2>2 DEF GetStat
<1>6. CASE ListBegins
  BY <1>6 DEF ListBegins, ReplyBegins, TakeLine, NumbersInv, Listed
<1>7. CASE UidlEntry
  <2>. mails \in Seq(Entry) /\ Len(mails) \in Nat
    BY DEF TypeOK
  <2>. DEFINE num == IF line.k = "entry" THEN line.n ELSE 0
              u == line.u
  <2>1. /\ num \in Nat /\ u \in Names
        /\ mails' = add_uidl_if_exist(num, u)
    BY <1>7, TakeLineType DEF UidlEntry, InReply
  <2>2. sock = "open" /\ num >= 1 => Listed(num, u)
    BY <1>7 DEF UidlEntry, InReply, TakeLine, line, NumbersInv, TypeOK
  <2>. HIDE DEF num, u
  <2>3. \/ /\ Len(mails') = Len(mails)
           /\ \A k \in 1..Len(mails) :
                /\ mails'[k].uidl = mails[k].uidl
                /\ mails'[k].state = mails[k].state
                /\ mails'[k].num = IF mails[k].uidl = u THEN num ELSE mails[k].num
        \/ /\ \A k \in 1..Len(mails) : mails[k].uidl # u
           /\ Len(mails') = Len(mails) + 1
           /\ \A k \in 1..Len(mails) : mails'[k] = mails[k]
           /\ mails'[Len(mails) + 1] = [uidl |-> u, state |-> InitialState, num |-> num]
    BY <2>1, AddUidlEntries
  <2>4. ASSUME sock = "open", NEW k \in 1..Len(mails'), mails'[k].num >= 1
        PROVE  Listed(mails'[k].num, mails'[k].uidl)
    <3>1. CASE k \in 1..Len(mails)
      BY <2>2, <2>3, <2>4, <3>1 DEF NumbersInv
    <3>2. CASE k = Len(mails) + 1
      BY <2>2, <2>3, <2>4, <3>2
    <3>. QED
      BY <2>3, <2>4, <3>1, <3>2
  <2>5. UNCHANGED <<sock, srvUp, sess, dele, s2c>> /\ buf' = Tail(buf) /\ buf # <<>>
    BY <1>7 DEF UidlEntry, InReply, TakeLine
  <2>. QED
    BY <2>4, <2>5 DEF NumbersInv, Listed, TypeOK
<1>8. CASE UidlEnds
  <2>1. UNCHANGED <<sock, srvUp, sess, dele, s2c, mails>>
    BY <1>8 DEF UidlEnds, TakeLine
  <2>2. buf' = <<>>
    BY <1>8, TakeLineDots DEF UidlEnds
  <2>. QED
    BY <2>1, <2>2 DEF NumbersInv, Listed
<1>9. CASE ListEntry
  <2>. mails \in Seq(Entry)
    BY DEF TypeOK
  <2>1. PICK num \in Nat, size \in Nat : mails' = set_mes_size(num, size)
    BY <1>9, TakeLineType, UidlAssumption DEF ListEntry, InReply, Line
  <2>2. /\ Len(mails') = Len(mails)
        /\ \A k \in 1..Len(mails) : mails'[k].uidl = mails[k].uidl /\ mails'[k].num = mails[k].num
    BY <2>1, SetSizeEntries
  <2>3. UNCHANGED <<sock, srvUp, sess, dele, s2c>>
    BY <1>9 DEF ListEntry, InReply, TakeLine
  <2>4. Len(buf') = Len(buf) - 1 /\ \A j \in 1..Len(buf') : buf'[j] = buf[j + 1]
    BY <1>9, TakeLineDots DEF ListEntry, InReply
  <2>5. \A j \in 1..Len(buf') : j + 1 \in 1..Len(buf)
    BY <2>4 DEF TypeOK
  <2>6. sock = "open" => \A k \in 1..Len(mails') :
           mails'[k].num >= 1 => Listed(mails'[k].num, mails'[k].uidl)
    BY <2>2 DEF NumbersInv
  <2>7. sock = "open" => \A j \in 1..Len(buf') :
           buf'[j].k = "entry" => Listed(buf'[j].n, buf'[j].u)
    BY <2>4, <2>5 DEF NumbersInv
  <2>. QED
    BY <2>3, <2>6, <2>7 DEF NumbersInv, Listed
<1>10. CASE ListEnds
  BY <1>10 DEF ListEnds, InReply, TakeLine, line, NumbersInv, Listed
<1>11. CASE MailBegins
  BY <1>11 DEF MailBegins, ReplyBegins, TakeLine, NumbersInv, Listed
<1>12. CASE MailCannotOpen
  BY <1>12 DEF MailCannotOpen, TakeLine, EndSession, Sent, Cmd, Fault, NumbersInv, Listed
<1>13. CASE MailText
  BY <1>13 DEF MailText, InReply, TakeLine, line, NumbersInv, Listed
<1>14. CASE MailEnds
  BY <1>14 DEF MailEnds, InReply, TakeLine, line, LoadedState, AfterLoad, NumbersInv, Listed
<1>15. CASE Deleted
  BY <1>15 DEF Deleted, TakeLine, NumbersInv, Listed
<1>16. CASE WriteOpens
  BY <1>16 DEF WriteOpens, NumbersInv, Listed
<1>17. CASE WriteRecord
  BY <1>17 DEF WriteRecord, ToRecord, NumbersInv, Listed
<1>18. CASE WriteCloses
  BY <1>18 DEF WriteCloses, NumbersInv, Listed
<1>19. CASE WriteFails
  BY <1>19 DEF WriteFails, Fault, NumbersInv, Listed
<1>20. CASE DeleteLoaded
  BY <1>20 DEF DeleteLoaded, Sent, NumbersInv, Listed
<1>21. CASE WalkLosted
  <2>. mails \in Seq(Entry) /\ Len(mails) \in Nat
    BY DEF TypeOK
  <2>1. cur + 1 \in 1..Len(mails) /\ mails' = RemoveAt(mails, cur + 1) /\ cur \in Nat
    BY <1>21 DEF WalkLosted, Walking, remove_cur_from_list, CursorInv, TypeOK
  <2>2. /\ Len(mails') = Len(mails) - 1 /\ Len(mails) \in Nat
        /\ \A i \in 1..Len(mails') : mails'[i] = mails[IF i < cur + 1 THEN i ELSE i + 1]
    BY <2>1, RemoveAtEntries
  <2>3. ASSUME NEW i \in 1..Len(mails')
        PROVE  \E j \in 1..Len(mails) : mails'[i] = mails[j]
    <3>. i \in 1..Len(mails) /\ i + 1 \in 1..Len(mails)
      BY <2>2
    <3>. QED
      BY <2>1, <2>2
  <2>4. UNCHANGED <<sock, s2c, buf, srvUp, sess, dele>>
    BY <1>21 DEF WalkLosted, Walking
  <2>. QED
    BY <2>3, <2>4 DEF NumbersInv, Listed
<1>22. CASE WalkKept
  BY <1>22 DEF WalkKept, Walking, next, NumbersInv, Listed
<1>23. CASE WalkLoads
  BY <1>23 DEF WalkLoads, Walking, next, Sent, NumbersInv, Listed
<1>24. CASE WalkDeletes
  <2>. mails \in Seq(Entry) /\ Len(mails) \in Nat
    BY DEF TypeOK
  <2>1. cur + 1 \in 1..Len(mails) /\ mails' = RemoveAt(mails, cur + 1) /\ cur \in Nat
    BY <1>24 DEF WalkDeletes, Walking, remove_cur_from_list, CursorInv, TypeOK
  <2>2. /\ Len(mails') = Len(mails) - 1 /\ Len(mails) \in Nat
        /\ \A i \in 1..Len(mails') : mails'[i] = mails[IF i < cur + 1 THEN i ELSE i + 1]
    BY <2>1, RemoveAtEntries
  <2>3. ASSUME NEW i \in 1..Len(mails')
        PROVE  \E j \in 1..Len(mails) : mails'[i] = mails[j]
    <3>. i \in 1..Len(mails) /\ i + 1 \in 1..Len(mails)
      BY <2>2
    <3>. QED
      BY <2>1, <2>2
  <2>4. UNCHANGED <<sock, s2c, buf, srvUp, sess, dele>>
    BY <1>24 DEF WalkDeletes, Walking
  <2>. QED
    BY <2>3, <2>4 DEF NumbersInv, Listed
<1>25. CASE WalkEnds
  BY <1>25 DEF WalkEnds, NumbersInv, Listed
<1>26. CASE Done
  BY <1>26 DEF Done, EndConnect, EndSession, Sent, Cmd, NumbersInv, Listed
<1>27. CASE Receives
  BY <1>27 DEF Receives, Idle, NumbersInv, Listed
<1>28. CASE Connects
  <2>. Len(disk) \in Nat
    BY DEF TypeOK
  <2>1. mails' \in {[i \in 1..Len(disk) |-> FromRecord(disk[i])], <<>>}
    BY <1>28 DEF Connects
  <2>2. \A i \in 1..Len(mails') : mails'[i].num = -1
    BY <2>1, ReadEntries DEF TypeOK
  <2>3. PICK k \in {"ok", "err"} : s2c' = <<Status(k)>>
    BY <1>28 DEF Connects, Ok
  <2>4. Len(s2c') = 1 /\ s2c'[1].k # "entry"
    BY <2>3 DEF Status
  <2>5. Cardinality(box) \in Nat
    BY FS_CardinalityType DEF TypeOK
  <2>6. \A m, n \in 1..Len(sess') : sess'[m] = sess'[n] => m = n
    BY <1>28, <2>5 DEF Connects, SetToSeqs
  <2>7. dele' = {}
    BY <1>28 DEF Connects, NumbersInv
  <2>. QED
    BY <1>28, <2>2, <2>4, <2>6, <2>7 DEF Connects, Idle, NumbersInv
<1>29. CASE SockClosed
  BY <1>29 DEF SockClosed, NumbersInv, Listed
<1>30. CASE Drops
  BY <1>30 DEF Drops, Fault, Idle, NumbersInv, Listed
<1>31. CASE Stops
  BY <1>31 DEF Stops, Idle, Intervention, EndConnect, EndSession, Sent, Cmd, NumbersInv,
     Listed
<1>32. CASE Crashes
  BY <1>32 DEF Crashes, Fault, NumbersInv, Listed
<1>33. CASE ServerReplies
  <2>. DEFINE cmd == Head(c2s)
  <2>1. dele' \subseteq 1..Len(sess)
    BY <1>33 DEF ServerReplies, NumbersInv, Valid
  <2>2. CASE sock # "open"
    BY <1>33, <2>1, <2>2 DEF ServerReplies, Answers, NumbersInv
  <2>3. CASE sock = "open"
    <3>1. s2c' = s2c \o Reply(cmd) /\ s2c = <<>>
      BY <1>33, <2>3 DEF ServerReplies, Answers, LockStepInv, TypeOK
    <3>2. s2c' = Reply(cmd)
      BY <3>1, ReplyType
    <3>. HIDE DEF cmd
    <3>3. \A j \in 1..Len(s2c') : s2c'[j].k = "entry" => Listed(s2c'[j].n, s2c'[j].u)
      BY <3>2, ReplyShape
    <3>. QED
      BY <1>33, <2>1, <3>3 DEF ServerReplies, Answers, NumbersInv, Listed
  <2>. QED
    BY <2>2, <2>3
<1>34. CASE ServerRefuses
  <2>1. UNCHANGED <<sock, mails, buf, server>>
    BY <1>34 DEF ServerRefuses, Answers
  <2>2. CASE sock # "open"
    BY <2>1, <2>2 DEF NumbersInv
  <2>3. CASE sock = "open"
    <3>1. s2c' = s2c \o <<Status("err")>> /\ s2c = <<>>
      BY <1>34, <2>3 DEF ServerRefuses, Answers, LockStepInv, TypeOK
    <3>2. Len(s2c') = 1 /\ s2c'[1].k # "entry"
      BY <3>1 DEF Status
    <3>. QED
      BY <2>1, <3>2 DEF NumbersInv, Listed
  <2>. QED
    BY <2>2, <2>3
<1>35. CASE ServerQuits
  <2>1. sock # "open"
    BY <1>35 DEF ServerQuits, Answers, Cmd, LockStepInv, TypeOK
  <2>. QED
    BY <1>35, <2>1 DEF ServerQuits, Answers, NumbersInv
<1>36. CASE ServerGivesUp
  BY <1>36 DEF ServerGivesUp, NumbersInv, Listed
<1>37. CASE MailArrives
  BY <1>37 DEF MailArrives, NumbersInv, Listed
<1>38. CASE MailVanishes
  BY <1>38 DEF MailVanishes, NumbersInv, Listed
<1>39. CASE UserMarks
  BY <1>39 DEF UserMarks, Idle, Intervention, NumbersInv, Listed
<1>40. CASE UserForgets
  BY <1>40 DEF UserForgets, Idle, Intervention, NumbersInv, Listed
<1>41. CASE UserWithdraws
  BY <1>41 DEF UserWithdraws, Idle, NumbersInv, Listed
<1>42. CASE UNCHANGED vars
  BY <1>42 DEF vars, NumbersInv, Listed
<1>. QED
  BY <1>1, <1>2, <1>3, <1>4, <1>5, <1>6, <1>7, <1>8, <1>9, <1>10, <1>11, <1>12, <1>13,
     <1>14, <1>15, <1>16, <1>17, <1>18, <1>19, <1>20, <1>21, <1>22, <1>23, <1>24, <1>25,
     <1>26, <1>27, <1>28, <1>29, <1>30, <1>31, <1>32, <1>33, <1>34, <1>35, <1>36, <1>37,
     <1>38, <1>39, <1>40, <1>41, <1>42
     DEF Next, ProcessLine, HelperLoop, Connection, Server, User

LEMMA MarkedInvStep == DialogueInv /\ [Next]_vars => MarkedInv'
<1>. SUFFICES ASSUME DialogueInv, [Next]_vars PROVE MarkedInv'
  OBVIOUS
<1>. USE DEF DialogueInv
<1>1. CASE Refused
  BY <1>1 DEF Refused, TakeLine, EndConnect, EndSession, Sent, Cmd, MarkedInv, Marked,
     Deleting, Receiving
<1>2. CASE Greeting
  BY <1>2 DEF Greeting, Accepted, TakeLine, Sent, Cmd, MarkedInv, Marked, Deleting,
     Receiving
<1>3. CASE VerLogin
  BY <1>3 DEF VerLogin, Accepted, TakeLine, Sent, Cmd, MarkedInv, Marked, Deleting,
     Receiving
<1>4. CASE VerPass
  BY <1>4 DEF VerPass, Accepted, TakeLine, Sent, Cmd, MarkedInv, Marked, Deleting, Receiving
<1>5. CASE GetStat
  <2>1. \A n : ~Marked(n)
    BY <1>5 DEF GetStat, Accepted, MarkedInv, Marked, Deleting, Receiving
  <2>2. UNCHANGED <<sess, dele>>
    BY <1>5 DEF GetStat, Accepted, TakeLine
  <2>3. \E c \in {"UIDL", "QUIT"} : Sent(Cmd(c))
    BY <1>5 DEF GetStat, Accepted, EndConnect, EndSession
  <2>4. \A n : ~Marked(n)'
    BY <2>1, <2>2, <2>3, MarkedKept, CommandType DEF Cmd
  <2>. QED
    BY <2>4 DEF MarkedInv
<1>6. CASE ListBegins
  BY <1>6 DEF ListBegins, ReplyBegins, TakeLine, MarkedInv, Marked, Deleting, Receiving
<1>7. CASE UidlEntry
  BY <1>7 DEF UidlEntry, InReply, TakeLine, line, MarkedInv, Marked, Deleting, Receiving
<1>8. CASE UidlEnds
  BY <1>8 DEF UidlEnds, TakeLine, Sent, Cmd, line, MarkedInv, Marked, Deleting, Receiving
<1>9. CASE ListEntry
  BY <1>9 DEF ListEntry, InReply, TakeLine, line, MarkedInv, Marked, Deleting, Receiving
<1>10. CASE ListEnds
  BY <1>10 DEF ListEnds, InReply, TakeLine, line, MarkedInv, Marked, Deleting, Receiving
<1>11. CASE MailBegins
  <2>1. cur \in 1..Len(mails) /\ mails[cur].state \in LoadStates /\ popState \in Receiving
    BY <1>11 DEF MailBegins, ReplyBegins, TakeLine, CursorInv, Waiting
  <2>2. \A n \in 1..Len(sess) : Marked(n) => sess[n] # mails[cur].uidl
    BY <2>1 DEF MarkedInv, LoadStates
  <2>3. UNCHANGED <<sess, dele, c2s, mails, popState, asked>>
    BY <1>11 DEF MailBegins, ReplyBegins, TakeLine
  <2>4. \A u : u # mails[cur].uidl /\ eml[u] = "full" => eml'[u] = "full"
    BY <1>11 DEF MailBegins, TypeOK
  <2>. QED
    BY <2>1, <2>2, <2>3, <2>4 DEF MarkedInv, Marked, Deleting
<1>12. CASE MailCannotOpen
  BY <1>12 DEF MailCannotOpen, TakeLine, EndSession, Sent, Cmd, Fault, MarkedInv, Marked,
     Deleting, Receiving
<1>13. CASE MailText
  BY <1>13 DEF MailText, InReply, TakeLine, line, MarkedInv, Marked, Deleting, Receiving
<1>14. CASE MailEnds
  <2>1. /\ cur \in 1..Len(mails) /\ mails[cur].state \in LoadStates /\ popState \in Receiving
        /\ mails \in Seq(Entry) /\ mails[cur] \in Entry
    BY <1>14, EntryFields DEF MailEnds, LoadedState, AfterLoad, InReply, TakeLine,
       CursorInv, Waiting, TypeOK
  <2>2. \A n \in 1..Len(sess) : Marked(n) => sess[n] # mails[cur].uidl
    BY <2>1 DEF MarkedInv, LoadStates
  <2>3. UNCHANGED <<sess, dele, c2s, popState, asked>>
    BY <1>14 DEF MailEnds, LoadedState, AfterLoad, InReply, TakeLine
  <2>4. \A u : u # mails[cur].uidl => eml'[u] = eml[u]
    BY <1>14 DEF MailEnds, LoadedState, AfterLoad, TypeOK
  <2>5. PICK st \in DoneStates : mails' = [mails EXCEPT ![cur] = [mails[cur] EXCEPT !.state = st]]
    BY <1>14 DEF MailEnds, LoadedState, AfterLoad, DoneStates
  <2>6. /\ Len(mails') = Len(mails) /\ mails'[cur].uidl = mails[cur].uidl
        /\ \A i \in 1..Len(mails) : i # cur => mails'[i] = mails[i]
    BY <2>1, <2>5 DEF Entry
  <2>7. ASSUME NEW n \in 1..Len(sess), Marked(n), NEW i \in 1..Len(mails'), mails'[i].uidl = sess[n]
        PROVE  mails'[i].state = "FULL_LOADED" /\ mails'[i].num # -1
    <3>1. i # cur
      BY <2>2, <2>6, <2>7
    <3>. QED
      BY <2>6, <2>7, <3>1 DEF MarkedInv
  <2>. QED
    BY <2>1, <2>2, <2>3, <2>4, <2>7 DEF MarkedInv, Marked, Deleting
<1>15. CASE Deleted
  BY <1>15 DEF Deleted, TakeLine, MarkedInv, Marked, Deleting, Receiving
<1>16. CASE WriteOpens
  BY <1>16 DEF WriteOpens, MarkedInv, Marked, Deleting, Receiving
<1>17. CASE WriteRecord
  BY <1>17 DEF WriteRecord, ToRecord, MarkedInv, Marked, Deleting, Receiving
<1>18. CASE WriteCloses
  <2>1. hpc' # "line"
    BY <1>18 DEF WriteCloses, TypeOK
  <2>2. UNCHANGED <<mails, popState, eml, c2s, sess, dele, asked>>
    BY <1>18 DEF WriteCloses
  <2>. QED
    BY <2>1, <2>2 DEF MarkedInv, Marked, Deleting
<1>19. CASE WriteFails
  <2>1. hpc' # "line"
    BY <1>19 DEF WriteFails, TypeOK
  <2>2. UNCHANGED <<mails, popState, eml, c2s, sess, dele, asked>>
    BY <1>19 DEF WriteFails
  <2>. QED
    BY <2>1, <2>2 DEF MarkedInv, Marked, Deleting
<1>20. CASE DeleteLoaded
  <2>. DEFINE m == mails[cur].num
              u == mails[cur].uidl
  <2>1. /\ cur \in 1..Len(mails) /\ m # -1 /\ mails[cur].state = "FULL_LOADED"
        /\ eml[u] = "full"
    BY <1>20 DEF DeleteLoaded, CursorInv
  <2>2. m \in Nat /\ mails \in Seq(Entry)
    BY <2>1, EntryFields DEF TypeOK
  <2>3. UNCHANGED <<mails, eml, sess, dele, asked>> /\ popState' = "DELETE_MESSAGE"
    BY <1>20 DEF DeleteLoaded
  <2>4. \/ c2s' = c2s
        \/ sock = "open" /\ c2s' = Append(c2s, [c |-> "DELE", n |-> m])
    BY <1>20 DEF DeleteLoaded, Sent
  <2>. HIDE DEF m, u
  <2>5. ASSUME NEW n \in 1..Len(sess), Marked(n)'
        PROVE  Marked(n) \/ (sock = "open" /\ n = m)
    <3>1. CASE c2s' = c2s
      BY <2>3, <2>5, <3>1 DEF Marked
    <3>2. CASE sock = "open" /\ c2s' = Append(c2s, [c |-> "DELE", n |-> m])
      <4>1. \A j \in 1..Len(c2s') : (j \in 1..Len(c2s) /\ c2s'[j] = c2s[j])
                                    \/ c2s'[j] = [c |-> "DELE", n |-> m]
        BY <3>2 DEF TypeOK
      <4>. QED
        BY <2>3, <2>5, <3>2, <4>1 DEF Marked
    <3>. QED
      BY <2>4, <3>1, <3>2
  <2>6. ASSUME NEW n \in 1..Len(sess), sock = "open", n = m
        PROVE  /\ eml[sess[n]] = "full"
               /\ \A i \in 1..Len(mails) : mails[i].uidl = sess[n] =>
                    mails[i].state = "FULL_LOADED" /\ mails[i].num # -1
    <3>1. sess[n] = u
      BY <2>1, <2>6 DEF NumbersInv, Listed, m, u
    <3>2. u # Torn
      BY <3>1, UidlAssumption DEF TypeOK
    <3>3. \A i \in 1..Len(mails) : mails[i].uidl = u => i = cur
      BY <2>1, <3>2 DEF NoDuplicates, UniqueUidl, u
    <3>. QED
      BY <2>1, <3>1, <3>3 DEF m
  <2>7. Deleting'
    BY <2>3 DEF Deleting
  <2>. QED
    BY <2>3, <2>5, <2>6, <2>7 DEF MarkedInv
<1>21. CASE WalkLosted
  <2>. mails \in Seq(Entry) /\ Len(mails) \in Nat
    BY DEF TypeOK
  <2>1. /\ cur + 1 \in 1..Len(mails) /\ mails' = RemoveAt(mails, cur + 1) /\ cur \in Nat
        /\ mails[cur + 1].num = -1
        /\ eml' = [eml EXCEPT ![mails[cur + 1].uidl] = "none"]
    BY <1>21 DEF WalkLosted, Walking, next, remove_cur_from_list, CursorInv, TypeOK
  <2>2. /\ Len(mails') = Len(mails) - 1
        /\ \A i \in 1..Len(mails') : mails'[i] = mails[IF i < cur + 1 THEN i ELSE i + 1]
    BY <2>1, RemoveAtEntries
  <2>3. ASSUME NEW i \in 1..Len(mails')
        PROVE  \E j \in 1..Len(mails) : mails'[i] = mails[j]
    <3>. i \in 1..Len(mails) /\ i + 1 \in 1..Len(mails)
      BY <2>2
    <3>. QED
      BY <2>1, <2>2
  <2>4. \A n \in 1..Len(sess) : Marked(n) => sess[n] # mails[cur + 1].uidl
    BY <2>1 DEF MarkedInv
  <2>5. \A u : u # mails[cur + 1].uidl => eml'[u] = eml[u]
    BY <2>1 DEF TypeOK
  <2>6. UNCHANGED <<sess, dele, c2s, popState, hpc, sock, buf, asked>>
    BY <1>21 DEF WalkLosted, Walking
  <2>7. \A n : Marked(n)' => Marked(n)
    BY <2>6 DEF Marked
  <2>8. Deleting => Deleting'
    BY <2>6 DEF Deleting
  <2>9. ASSUME NEW n \in 1..Len(sess), Marked(n)
        PROVE  \A i \in 1..Len(mails') : mails'[i].uidl = sess[n] =>
                 mails'[i].state = "FULL_LOADED" /\ mails'[i].num # -1
    BY <2>3, <2>9 DEF MarkedInv
  <2>10. ASSUME NEW n \in 1..Len(sess), Marked(n)
         PROVE  sess[n] \in asked \/ eml'[sess[n]] = "full"
    BY <2>4, <2>5, <2>10 DEF MarkedInv
  <2>. QED
    BY <2>6, <2>7, <2>8, <2>9, <2>10 DEF MarkedInv
<1>22. CASE WalkKept
  BY <1>22 DEF WalkKept, Walking, next, MarkedInv, Marked, Deleting, Receiving
<1>23. CASE WalkLoads
  BY <1>23 DEF WalkLoads, Walking, next, Sent, MarkedInv, Marked, Deleting, Receiving
<1>24. CASE WalkDeletes
  <2>. mails \in Seq(Entry) /\ Len(mails) \in Nat
    BY DEF TypeOK
  <2>. DEFINE m == mails[cur + 1].num
              u == mails[cur + 1].uidl
  <2>1. /\ cur + 1 \in 1..Len(mails) /\ mails' = RemoveAt(mails, cur + 1) /\ cur \in Nat
        /\ m # -1 /\ mails[cur + 1].state = "DELETE"
        /\ eml' = [eml EXCEPT ![u] = "none"]
    BY <1>24 DEF WalkDeletes, Walking, next, remove_cur_from_list, CursorInv, TypeOK
  <2>2. /\ Len(mails') = Len(mails) - 1
        /\ \A i \in 1..Len(mails') : mails'[i] = mails[IF i < cur + 1 THEN i ELSE i + 1]
    BY <2>1, RemoveAtEntries
  <2>3. ASSUME NEW i \in 1..Len(mails')
        PROVE  \E j \in 1..Len(mails) : mails'[i] = mails[j] /\ j # cur + 1
    <3>. PICK j : j = IF i < cur + 1 THEN i ELSE i + 1
      OBVIOUS
    <3>1. j \in 1..Len(mails) /\ j # cur + 1
      BY <2>1, <2>2
    <3>2. mails'[i] = mails[j]
      BY <2>2
    <3>. QED
      BY <3>1, <3>2
  <2>4. \A n \in 1..Len(sess) : Marked(n) => sess[n] # u
    BY <2>1 DEF MarkedInv
  <2>5. \A v : v # u => eml'[v] = eml[v]
    BY <2>1 DEF TypeOK
  <2>6. UNCHANGED <<sess, dele, asked>> /\ popState' = "DELETE_MESSAGE"
    BY <1>24 DEF WalkDeletes, Walking
  <2>7. \/ c2s' = c2s
        \/ sock = "open" /\ c2s' = Append(c2s, [c |-> "DELE", n |-> m])
    BY <1>24 DEF WalkDeletes, next, Sent
  <2>8. m \in Nat
    BY <2>1, EntryFields
  <2>9. u \in Uidl => u \in asked
    BY <1>24, <2>1 DEF WalkDeletes, Walking, AskedInv, Wished, InUse
  <2>10. sock = "open" => \A n \in 1..Len(sess) : n = m => sess[n] = u
    BY <2>1 DEF NumbersInv, Listed
  <2>11. u \in Uidl => \A i \in 1..Len(mails') : mails'[i].uidl # u
    BY <2>1, <2>3, UidlAssumption DEF NoDuplicates, UniqueUidl
  <2>14. \A n \in 1..Len(sess) : sess[n] \in Uidl
    BY DEF TypeOK
  <2>. HIDE DEF m, u
  <2>12. ASSUME NEW n \in 1..Len(sess), Marked(n)'
        PROVE  Marked(n) \/ (sock = "open" /\ n = m)
    <3>1. CASE c2s' = c2s
      BY <2>6, <2>12, <3>1 DEF Marked
    <3>2. CASE sock = "open" /\ c2s' = Append(c2s, [c |-> "DELE", n |-> m])
      <4>1. \A j \in 1..Len(c2s') : (j \in 1..Len(c2s) /\ c2s'[j] = c2s[j])
                                    \/ c2s'[j] = [c |-> "DELE", n |-> m]
        BY <3>2 DEF TypeOK
      <4>. QED
        BY <2>6, <2>12, <3>2, <4>1 DEF Marked
    <3>. QED
      BY <2>7, <3>1, <3>2
  <2>13. Deleting'
    BY <2>6 DEF Deleting
  <2>. QED
    BY <2>3, <2>4, <2>5, <2>6, <2>9, <2>10, <2>11, <2>12, <2>13, <2>14 DEF MarkedInv
<1>25. CASE WalkEnds
  BY <1>25 DEF WalkEnds, MarkedInv, Marked, Deleting, Receiving
<1>26. CASE Done
  <2>1. UNCHANGED <<mails, eml, sess, dele, asked, popState>> /\ Sent(Cmd("QUIT"))
    BY <1>26 DEF Done, EndConnect, EndSession
  <2>2. hpc = "quit" /\ sock' # "open" /\ buf' = <<>>
    BY <1>26 DEF Done, EndConnect, EndSession, LockStepInv
  <2>3. \A n : Marked(n)' => Marked(n)
    BY <2>1, MarkedKept, CommandType DEF Cmd
  <2>4. Deleting => Deleting'
    BY <2>1, <2>2 DEF Deleting
  <2>. QED
    BY <2>1, <2>3, <2>4 DEF MarkedInv
<1>27. CASE Receives
  BY <1>27 DEF Receives, Idle, MarkedInv, Marked, Deleting, Receiving
<1>28. CASE Connects
  <2>1. dele' = {} /\ c2s' = <<>>
    BY <1>28 DEF Connects, NumbersInv
  <2>. QED
    BY <2>1 DEF MarkedInv, Marked
<1>29. CASE SockClosed
  BY <1>29 DEF SockClosed, MarkedInv, Marked, Deleting, Receiving
<1>30. CASE Drops
  BY <1>30 DEF Drops, Fault, Idle, MarkedInv, Marked, Deleting, Receiving
<1>31. CASE Stops
  BY <1>31 DEF Stops, Idle, Intervention, EndConnect, EndSession, Sent, Cmd, MarkedInv,
     Marked, Deleting, Receiving
<1>32. CASE Crashes
  BY <1>32 DEF Crashes, Fault, MarkedInv, Marked, Deleting, Receiving
<1>33. CASE ServerReplies
  <2>. DEFINE cmd == Head(c2s)
  <2>1. /\ c2s # <<>> /\ c2s' = Tail(c2s)
        /\ UNCHANGED <<mails, eml, sess, asked, popState, hpc, sock, buf>>
    BY <1>33 DEF ServerReplies, Answers
  <2>2. /\ \A j \in 1..Len(c2s') : j + 1 \in 1..Len(c2s) /\ c2s'[j] = c2s[j + 1]
        /\ cmd = c2s[1] /\ 1 \in 1..Len(c2s) /\ cmd \in Command
    BY <2>1 DEF TypeOK
  <2>3. dele' = IF cmd.c = "DELE" /\ Valid(cmd.n) THEN dele \cup {cmd.n} ELSE dele
    BY <1>33 DEF ServerReplies
  <2>4. cmd.c = "DELE" => cmd = [c |-> "DELE", n |-> cmd.n]
    BY <2>2 DEF Command
  <2>. HIDE DEF cmd
  <2>5. \A n \in 1..Len(sess) : Marked(n)' => Marked(n)
    BY <2>1, <2>2, <2>3, <2>4 DEF Marked
  <2>. QED
    BY <2>1, <2>5 DEF MarkedInv, Deleting
<1>34. CASE ServerRefuses
  <2>1. /\ c2s # <<>> /\ c2s' = Tail(c2s)
        /\ UNCHANGED <<mails, eml, sess, dele, asked, popState, hpc, sock, buf>>
    BY <1>34 DEF ServerRefuses, Answers
  <2>2. \A j \in 1..Len(c2s') : j + 1 \in 1..Len(c2s) /\ c2s'[j] = c2s[j + 1]
    BY <2>1 DEF TypeOK
  <2>3. \A n \in 1..Len(sess) : Marked(n)' => Marked(n)
    BY <2>1, <2>2 DEF Marked
  <2>. QED
    BY <2>1, <2>3 DEF MarkedInv, Deleting
<1>35. CASE ServerQuits
  BY <1>35 DEF ServerQuits, Answers, Cmd, MarkedInv, Marked, Deleting, Receiving
<1>36. CASE ServerGivesUp
  BY <1>36 DEF ServerGivesUp, MarkedInv, Marked, Deleting, Receiving
<1>37. CASE MailArrives
  BY <1>37 DEF MailArrives, MarkedInv, Marked, Deleting, Receiving
<1>38. CASE MailVanishes
  BY <1>38 DEF MailVanishes, MarkedInv, Marked, Deleting, Receiving
<1>39. CASE UserMarks
  BY <1>39 DEF UserMarks, Idle, Intervention, MarkedInv, Marked, Deleting, Receiving
<1>40. CASE UserForgets
  BY <1>40 DEF UserForgets, Idle, Intervention, MarkedInv, Marked, Deleting, Receiving
<1>41. CASE UserWithdraws
  <2>1. \/ asked' = asked
        \/ sess = <<>>
    BY <1>41, WithdrawnDisk DEF NumbersInv
  <2>. QED
    BY <1>41, <2>1 DEF UserWithdraws, Idle, MarkedInv, Marked, Deleting, Receiving
<1>42. CASE UNCHANGED vars
  BY <1>42 DEF vars, MarkedInv, Marked, Deleting, Receiving
<1>. QED
  BY <1>1, <1>2, <1>3, <1>4, <1>5, <1>6, <1>7, <1>8, <1>9, <1>10, <1>11, <1>12, <1>13,
     <1>14, <1>15, <1>16, <1>17, <1>18, <1>19, <1>20, <1>21, <1>22, <1>23, <1>24, <1>25,
     <1>26, <1>27, <1>28, <1>29, <1>30, <1>31, <1>32, <1>33, <1>34, <1>35, <1>36, <1>37,
     <1>38, <1>39, <1>40, <1>41, <1>42
     DEF Next, ProcessLine, HelperLoop, Connection, Server, User

-----------------------------------------------------------------------------
(* The invariants behind NoSilentWait, DbHonest and OnlyCopyKept.          *)

\* The states after the list of numbers has come, and those before its end.
Late  == Receiving \cup {"PROCESS_LIST", "DELETE_MESSAGE"}
Begun == {"GREETING", "VER_LOGIN", "VER_PASS", "GET_STAT", "GET_UIDL_LIST"}

\* Lines that process_line has still to see.
OnWay(l) == \/ \E j \in 1..Len(buf) : buf[j] = l
            \/ \E j \in 1..Len(s2c) : s2c[j] = l
Coming(n, u) == OnWay([k |-> "entry", n |-> n, u |-> u])
Ending == \/ \E j \in 1..Len(buf) : buf[j].k = "dot"
          \/ \E j \in 1..Len(s2c) : s2c[j].k = "dot"

FirstLine == IF buf # <<>> THEN buf[1] ELSE s2c[1]
LastLine  == IF s2c # <<>> THEN s2c[Len(s2c)] ELSE buf[Len(buf)]

\* The command on its way is the one whose answer pop_state stands for, and the
\* list is traversed only after it has been numbered.
CommandInv ==
  /\ sock = "open" /\ c2s # <<>> =>
       /\ c2s[1].c = "UIDL" <=> popState = "GET_UIDL_LIST"
       /\ c2s[1].c = "LIST" <=> popState = "GET_LIST"
       /\ c2s[1].c \in {"TOP", "RETR"} <=> popState \in Receiving
  /\ hpc \in {"walk", "dele"} \/ Writing("walk") \/ Writing("dele") =>
       popState \in Late
  /\ hpc # "line" => popState \in Late \cup {"GREETING"}

\* A fragment in recived_line is met by the greeting only; where a multi-line
\* reply is expected, its status line comes first and an error comes alone.
HeadInv ==
  /\ hpc # "line" => part = "none"
  /\ popState \in {"PROCESS_LIST", "DELETE_MESSAGE"} \/ hpc # "line" => ~mesRec
  /\ Waiting /\ part # "none" => popState = "GREETING"
  /\ /\ \/ popState \in {"GET_UIDL_LIST", "GET_LIST"}
        \/ popState \in Receiving /\ sock = "open"
     /\ ~mesRec
     /\ buf # <<>> \/ s2c # <<>>
     => FirstLine.k = "ok" \/ (FirstLine.k = "err" /\ Len(buf) + Len(s2c) = 1)
  /\ popState \in Receiving \cup {"GET_LIST"} /\ sock = "open" /\ c2s # <<>> => ~mesRec

\* A unique id that the server has not given out yet is nowhere.
FreshInv ==
  \A u \in fresh :
    /\ u \notin box
    /\ \A n \in 1..Len(sess) : sess[n] # u
    /\ \A i \in 1..Len(mails) : mails[i].uidl # u
    /\ \A i \in 1..Len(disk) : disk[i].uidl # u
    /\ \A n : ~Coming(n, u)

\* Numbers on their way and in the list name one mail each, even when the
\* connection they belong to is gone.
NumberingInv ==
  /\ \A n \in Nat, u \in Uidl : Coming(n, u) => n >= 1
  /\ \A i \in 1..Len(mails), n \in Nat, u \in Uidl :
       mails[i].num >= 1 /\ Coming(n, u) => (mails[i].num = n <=> mails[i].uidl = u)
  /\ \A m, n \in Nat, u, v \in Uidl : Coming(m, u) /\ Coming(n, v) => (m = n <=> u = v)
  /\ \A i, j \in 1..Len(mails) : mails[i].num >= 1 /\ mails[i].num = mails[j].num => i = j
  /\ \A i \in 1..Len(mails) : mails[i].num >= 1 => mails[i].uidl \in Uidl

\* A mail of the box, with number m in the list: the session has it, its number
\* has come or is still to come before the dot, and after that it has one.  So
\* an entry that do_losted_mes takes away is not in the box.
Known(u, m) ==
  /\ sock = "open" => \E n \in 1..Len(sess) : sess[n] = u
  /\ popState = "GET_UIDL_LIST" /\ hpc = "line" /\ Ending =>
       m >= 1 \/ \E n \in Nat : Coming(n, u)
  /\ popState \in Late \cup {"GET_LIST"} => m >= 1
KnownInv ==
  \A i \in 1..Len(mails) : mails[i].uidl \in box => Known(mails[i].uidl, mails[i].num)

\* A big letter is decided before its state is written into one byte: its size is
\* still to come before the dot.
Sized(u, s, m) ==
  /\ s # "ODD"
  /\ s = "BIG" => /\ m >= 1 /\ popState \notin Late /\ hpc = "line"
                  /\ popState = "GET_LIST" /\ Ending => Coming(m, u)
SizesInv ==
  /\ \A i \in 1..Len(mails) : mails[i].uidl \in Uidl =>
       Sized(mails[i].uidl, mails[i].state, mails[i].num)
  /\ \A i \in 1..Len(disk) : disk[i].uidl \in Uidl => disk[i].state # "ODD"

\* The list in use never knows less than mails.db of what has been loaded; until
\* the list is complete everything in mails.db has an entry, so that
\* add_uidl_if_exist appends no second one for it.
DiskInv ==
  /\ InUse =>
       \A i \in 1..Len(disk), j \in 1..Len(mails) :
         /\ disk[i].uidl \in Uidl /\ disk[i].uidl = mails[j].uidl
         /\ disk[i].state \in DoneStates
         => mails[j].state \in DoneStates
  /\ Waiting /\ popState \in Begun =>
       \A i \in 1..Len(disk) : \E j \in 1..Len(mails) : mails[j].uidl = disk[i].uidl

\* What DbHonest says of mails.db, of the list.
EmlInv ==
  \A i \in 1..Len(mails) : mails[i].uidl \in box =>
    /\ mails[i].state = "FULL_LOADED" => eml[mails[i].uidl] = "full"
    /\ mails[i].state = "HEADERS_LOADED" => eml[mails[i].uidl] \in {"head", "full"}

\* What DbHonest says of mails.db, of what the user may take a mark back to.
PrevInv ==
  prev # <<>> => \A i \in 1..Len(disk) :
    /\ disk[i].uidl \in box /\ prev[i] = "FULL_LOADED" => eml[disk[i].uidl] = "full"
    /\ disk[i].uidl \in box /\ prev[i] = "HEADERS_LOADED" =>
         eml[disk[i].uidl] \in {"head", "full"}
    /\ disk[i].uidl \in Uidl => prev[i] # "ODD"

\* A wait is for a line that is there; of a multi-line reply the dot is there too,
\* unless it is refused.
WaitInv ==
  sock = "open" /\ hpc = "line" /\ c2s = <<>> =>
    /\ buf # <<>> \/ s2c # <<>>
    /\ popState \in MultiLine =>
         LastLine.k = "dot" \/ (~mesRec /\ FirstLine.k = "err")

-----------------------------------------------------------------------------
(* Lines on their way, before and after a step.                            *)

LEMMA TakeFlow ==
  ASSUME TypeOK, LockStepInv, TakeLine, s2c' \in {s2c, <<>>}
  PROVE  /\ \A n, u : Coming(n, u)' => Coming(n, u)
         /\ Ending' => /\ Ending
                       /\ \A n, u : Coming(n, u) =>
                            \/ Coming(n, u)'
                            \/ line.k = "entry" /\ line.n = n /\ line.u = u
         /\ line.k = "entry" => Coming(line.n, line.u)
         /\ line.k = "dot" => Ending /\ \A n, u : ~Coming(n, u)
<1>. buf \in Seq(Line) /\ Len(buf) \in Nat /\ Len(buf) >= 1 /\ buf # <<>>
  BY DEF TypeOK, TakeLine
<1>1. /\ Len(buf') = Len(buf) - 1
      /\ \A j \in 1..Len(buf') : buf'[j] = buf[j + 1] /\ j + 1 \in 1..Len(buf)
      /\ \A j \in 1..Len(buf) : j = 1 \/ (j - 1 \in 1..Len(buf') /\ buf'[j - 1] = buf[j])
      /\ line = buf[1] /\ 1 \in 1..Len(buf)
  <2>1. /\ Len(buf') = Len(buf) - 1 /\ line = buf[1]
        /\ \A j \in 1..Len(buf') : buf'[j] = buf[j + 1]
    <3>1. line = buf[1]
      BY DEF line
    <3>. QED
      BY <3>1, TakeLineDots
  <2>2. ASSUME NEW j \in 1..Len(buf), j # 1
        PROVE  j - 1 \in 1..Len(buf') /\ (j - 1) + 1 = j
    BY <2>1, <2>2
  <2>. QED
    BY <2>1, <2>2
<1>2. \A l : OnWay(l)' => OnWay(l)
  BY <1>1 DEF OnWay
<1>3. Ending' => Ending
  BY <1>1 DEF Ending
<1>4. Ending' => s2c' = s2c
  BY <1>1 DEF Ending, LockStepInv
<1>5. \A l : s2c' = s2c /\ OnWay(l) => OnWay(l)' \/ l = line
  BY <1>1 DEF OnWay
<1>6. line \in Line
  BY <1>1
<1>7. line.k = "entry" => line = [k |-> "entry", n |-> line.n, u |-> line.u]
  BY <1>6 DEF Line
<1>8. OnWay(line)
  BY <1>1 DEF OnWay
<1>9. line.k = "dot" => Len(buf) = 1 /\ s2c = <<>> /\ Ending
  BY <1>1 DEF LockStepInv, Ending
<1>10. line.k = "dot" => \A l : OnWay(l) => l = line
  <2>. SUFFICES ASSUME line.k = "dot", NEW l, OnWay(l) PROVE l = line
    OBVIOUS
  <2>1. PICK j \in 1..Len(buf) : buf[j] = l
    BY <1>9 DEF OnWay
  <2>2. j = 1
    <3>1. Len(buf) = 1
      BY <1>9
    <3>2. j \in 1..1
      BY <3>1
    <3>. QED
      BY <3>2
  <2>. QED
    BY <1>1, <2>1, <2>2
<1>11. ASSUME NEW n, NEW u, Ending', Coming(n, u)
       PROVE  Coming(n, u)' \/ (line.k = "entry" /\ line.n = n /\ line.u = u)
  <2>1. OnWay([k |-> "entry", n |-> n, u |-> u])' \/ [k |-> "entry", n |-> n, u |-> u] = line
    BY <1>4, <1>5, <1>11 DEF Coming
  <2>. QED
    BY <2>1 DEF Coming
<1>12. ASSUME line.k = "dot", NEW n, NEW u, Coming(n, u)
       PROVE  FALSE
  <2>1. [k |-> "entry", n |-> n, u |-> u] = line
    BY <1>10, <1>12 DEF Coming
  <2>. QED
    BY <1>12, <2>1
<1>13. \A n, u : Coming(n, u)' => Coming(n, u)
  BY <1>2 DEF Coming
<1>14. line.k = "entry" => Coming(line.n, line.u)
  BY <1>7, <1>8 DEF Coming
<1>. QED
  BY <1>3, <1>9, <1>11, <1>12, <1>13, <1>14

LEMMA KeepFlow ==
  ASSUME TypeOK, LockStepInv, buf' = buf, s2c' \in {s2c, <<>>}
  PROVE  /\ \A n, u : Coming(n, u)' => Coming(n, u)
         /\ Ending' => Ending /\ \A n, u : Coming(n, u) => Coming(n, u)'
<1>1. \A l : OnWay(l)' => OnWay(l)
  BY DEF OnWay
<1>2. Ending' => s2c' = s2c /\ Ending
  BY DEF Ending, LockStepInv
<1>3. s2c' = s2c => \A l : OnWay(l) => OnWay(l)'
  BY DEF OnWay
<1>. QED
  BY <1>1, <1>2, <1>3 DEF Coming

LEMMA ReceiveFlow ==
  ASSUME TypeOK, Receives
  PROVE  /\ \A n, u : Coming(n, u)' <=> Coming(n, u)
         /\ Ending' <=> Ending
<1>. s2c \in Seq(Line) /\ Len(s2c) \in Nat /\ buf = <<>>
  BY DEF TypeOK, Receives, Idle
<1>1. PICK n \in {1, Len(s2c)} :
        /\ buf' = SubSeq(s2c, 1, n)
        /\ s2c' = SubSeq(s2c, n + 1, Len(s2c))
  BY DEF Receives
<1>2. n \in 1..Len(s2c)
  BY <1>1 DEF Receives
<1>3. /\ Len(buf') = n /\ \A j \in 1..n : buf'[j] = s2c[j] /\ j \in 1..Len(s2c)
      /\ Len(s2c') = Len(s2c) - n
      /\ \A j \in 1..(Len(s2c) - n) : s2c'[j] = s2c[n + j] /\ n + j \in 1..Len(s2c)
  BY <1>1, <1>2
<1>4. ASSUME NEW j \in 1..Len(s2c), ~(j \in 1..n)
      PROVE  j - n \in 1..Len(s2c') /\ s2c'[j - n] = s2c[j]
  BY <1>2, <1>3, <1>4
<1>5. \A l : OnWay(l)' => OnWay(l)
  BY <1>3 DEF OnWay
<1>6. \A l : OnWay(l) => OnWay(l)'
  <2>. SUFFICES ASSUME NEW l, NEW j \in 1..Len(s2c), s2c[j] = l PROVE OnWay(l)'
    BY DEF OnWay
  <2>1. CASE j \in 1..n
    BY <1>3, <2>1 DEF OnWay
  <2>2. CASE ~(j \in 1..n)
    BY <1>4, <2>2 DEF OnWay
  <2>. QED
    BY <2>1, <2>2
<1>7. Ending' => Ending
  BY <1>3 DEF Ending
<1>8. Ending => Ending'
  <2>. SUFFICES ASSUME NEW j \in 1..Len(s2c), s2c[j].k = "dot" PROVE Ending'
    BY DEF Ending
  <2>1. CASE j \in 1..n
    BY <1>3, <2>1 DEF Ending
  <2>2. CASE ~(j \in 1..n)
    BY <1>4, <2>2 DEF Ending
  <2>. QED
    BY <2>1, <2>2
<1>. QED
  BY <1>5, <1>6, <1>7, <1>8 DEF Coming

LEMMA StatusFlow ==
  ASSUME NEW l, l.k \in {"ok", "err"}, buf' = <<>>, s2c' \in {<<l>>, <<>>}
  PROVE  ~Ending' /\ \A n, u : ~Coming(n, u)'
<1>1. \A m : OnWay(m)' => m = l
  BY DEF OnWay
<1>2. \A n, u : Coming(n, u)' => [k |-> "entry", n |-> n, u |-> u] = l
  BY <1>1 DEF Coming
<1>3. \A n, u : [k |-> "entry", n |-> n, u |-> u].k = "entry"
  OBVIOUS
<1>4. ~Ending'
  BY DEF Ending
<1>. QED
  BY <1>2, <1>3, <1>4

LEMMA ReplyFlow ==
  ASSUME TypeOK, LockStepInv, ServerReplies, sock = "open"
  PROVE  /\ \A n, u : Coming(n, u)' => n \in Nat /\ n >= 1 /\ u \in Uidl /\ Listed(n, u)
         /\ c2s[1].c \in {"UIDL", "LIST"} => \A n, u : Listed(n, u) => Coming(n, u)'
         /\ c2s[1].c \notin {"UIDL", "LIST"} => \A n, u : ~Coming(n, u)'
<1>. DEFINE cmd == Head(c2s)
<1>1. /\ buf = <<>> /\ buf' = <<>> /\ s2c = <<>> /\ c2s # <<>> /\ cmd = c2s[1]
      /\ s2c' = s2c \o Reply(cmd)
  <2>1. /\ c2s # <<>> /\ s2c' = s2c \o Reply(cmd) /\ buf' = buf
    BY DEF ServerReplies, Answers
  <2>2. buf = <<>> /\ s2c = <<>>
    BY <2>1 DEF LockStepInv
  <2>. QED
    BY <2>1, <2>2
<1>2. Reply(cmd) \in Seq(Line)
  BY ReplyType
<1>. HIDE DEF cmd
<1>3. s2c' = Reply(cmd)
  BY <1>1, <1>2
<1>4. \A l : OnWay(l)' <=> \E j \in 1..Len(Reply(cmd)) : Reply(cmd)[j] = l
  BY <1>1, <1>3 DEF OnWay
<1>5. ASSUME NEW n, NEW u, Coming(n, u)'
      PROVE  /\ n \in Nat /\ n >= 1 /\ u \in Uidl /\ Listed(n, u)
             /\ cmd.c \in {"UIDL", "LIST"}
  <2>1. PICK j \in 1..Len(Reply(cmd)) : Reply(cmd)[j] = [k |-> "entry", n |-> n, u |-> u]
    BY <1>4, <1>5 DEF Coming
  <2>2. Listed(n, u)
    BY <2>1, ReplyShape
  <2>3. [k |-> "entry", n |-> n, u |-> u] \in Line
    BY <1>2, <2>1
  <2>4. [k |-> "entry", n |-> n, u |-> u].u \in Uidl
    BY <2>3 DEF Line
  <2>5. cmd.c \in {"UIDL", "LIST"}
    <3>. SUFFICES ASSUME cmd.c \notin {"UIDL", "LIST"} PROVE FALSE
      OBVIOUS
    <3>1. Reply(cmd) \in {<<Ok>>, <<Count(Len(sess))>>, <<Ok, Status("text"), Dot>>,
                          <<Status("err")>>}
      BY DEF Reply
    <3>2. \A l : l \in {Ok, Count(Len(sess)), Status("text"), Dot, Status("err")} =>
            l.k # "entry"
      BY DEF Ok, Count, Status, Dot
    <3>3. Reply(cmd)[j] \in {Ok, Count(Len(sess)), Status("text"), Dot, Status("err")}
      BY <3>1, <2>1
    <3>. QED
      BY <2>1, <3>2, <3>3
  <2>. QED
    BY <2>2, <2>4, <2>5 DEF Listed, TypeOK
<1>6. ASSUME cmd.c \in {"UIDL", "LIST"}, NEW n, NEW u, Listed(n, u)
      PROVE  Coming(n, u)'
  <2>1. Reply(cmd) = <<Ok>> \o Listing \o <<Dot>>
    BY <1>6 DEF Reply
  <2>2. Listing \in Seq(Line) /\ Len(Listing) = Len(sess) /\ Len(sess) \in Nat
        /\ Listing[n] = [k |-> "entry", n |-> n, u |-> u] /\ n \in 1..Len(sess)
    BY <1>6 DEF Listed, Listing, TypeOK, Line, Names
  <2>3. <<Ok>> \o Listing \in Seq(Line) /\ Len(<<Ok>> \o Listing) = 1 + Len(sess)
        /\ (<<Ok>> \o Listing)[n + 1] = Listing[n]
    BY <2>2, StatusType
  <2>4. n + 1 \in 1..Len(Reply(cmd)) /\ Reply(cmd)[n + 1] = Listing[n]
    BY <2>1, <2>2, <2>3, StatusType
  <2>. QED
    BY <1>4, <2>2, <2>4 DEF Coming
<1>. QED
  BY <1>1, <1>5, <1>6

\* What is on its way after a step: less than before, or what a reply brings.
Answering == ServerReplies /\ sock = "open"

LineFlow ==
  /\ \A n, u : Coming(n, u)' =>
       \/ Coming(n, u)
       \/ Answering /\ n \in Nat /\ n >= 1 /\ u \in Uidl /\ Listed(n, u)
  /\ Ending' => Ending \/ Answering
  /\ Ending' => \A n, u : Coming(n, u) =>
       \/ Coming(n, u)'
       \/ ProcessLine /\ line.k = "entry" /\ line.n = n /\ line.u = u

LEMMA TakesLine == ProcessLine => TakeLine /\ s2c' \in {s2c, <<>>}
<1>1. Refused \/ GetStat \/ MailCannotOpen => TakeLine /\ s2c' \in {s2c, <<>>}
  BY DEF Refused, GetStat, MailCannotOpen, Accepted, EndConnect, EndSession
<1>2. Greeting \/ VerLogin \/ VerPass \/ UidlEnds \/ Deleted =>
        TakeLine /\ s2c' \in {s2c, <<>>}
  BY DEF Greeting, VerLogin, VerPass, Accepted, UidlEnds, Deleted
<1>3. ListBegins \/ MailBegins => TakeLine /\ s2c' \in {s2c, <<>>}
  BY DEF ListBegins, MailBegins, ReplyBegins
<1>4. UidlEntry \/ ListEntry \/ ListEnds \/ MailText \/ MailEnds =>
        TakeLine /\ s2c' \in {s2c, <<>>}
  BY DEF UidlEntry, ListEntry, ListEnds, MailText, MailEnds, InReply
<1>. QED
  BY <1>1, <1>2, <1>3, <1>4 DEF ProcessLine

LEMMA Flow == DialogueInv /\ [Next]_vars => LineFlow
<1>. SUFFICES ASSUME DialogueInv, [Next]_vars PROVE LineFlow
  OBVIOUS
<1>. TypeOK /\ LockStepInv
  BY DEF DialogueInv
<1>1. CASE ProcessLine
  BY <1>1, TakesLine, TakeFlow DEF LineFlow
<1>2. ASSUME buf' = buf, s2c' \in {s2c, <<>>} PROVE LineFlow
  BY <1>2, KeepFlow DEF LineFlow
<1>3. CASE HelperLoop
  <2>1. buf' = buf /\ s2c' \in {s2c, <<>>}
    BY <1>3 DEF HelperLoop, WriteOpens, WriteRecord, WriteCloses, WriteFails, DeleteLoaded,
       WalkLosted, WalkKept, WalkLoads, WalkDeletes, WalkEnds, Walking, Done, EndConnect,
       EndSession
  <2>. QED
    BY <1>2, <2>1
<1>4. CASE Receives
  BY <1>4, ReceiveFlow DEF LineFlow
<1>5. CASE Connects
  <2>1. buf' = <<>>
    BY <1>5 DEF Connects, Idle
  <2>2. s2c' \in {<<Ok>>, <<Status("err")>>}
    BY <1>5 DEF Connects
  <2>3. Ok.k = "ok" /\ Status("err").k = "err"
    BY DEF Ok, Status
  <2>4. ~Ending' /\ \A n, u : ~Coming(n, u)'
    BY <2>1, <2>2, <2>3, StatusFlow
  <2>. QED
    BY <2>4 DEF LineFlow
<1>6. CASE SockClosed \/ Drops \/ Stops
  <2>1. buf' = buf /\ s2c' \in {s2c, <<>>}
    BY <1>6 DEF SockClosed, Drops, Stops, EndConnect, EndSession
  <2>. QED
    BY <1>2, <2>1
<1>7. CASE Crashes
  <2>1. buf' = <<>> /\ s2c' = <<>>
    BY <1>7 DEF Crashes
  <2>2. Ok.k = "ok"
    BY DEF Ok, Status
  <2>3. ~Ending' /\ \A n, u : ~Coming(n, u)'
    BY <2>1, <2>2, StatusFlow
  <2>. QED
    BY <2>3 DEF LineFlow
<1>8. CASE ServerReplies
  <2>1. CASE sock = "open"
    <3>1. buf = <<>> /\ s2c = <<>>
      BY <1>8, <2>1 DEF ServerReplies, LockStepInv
    <3>2. ~Ending /\ \A n, u : ~Coming(n, u)
      BY <3>1 DEF Ending, Coming, OnWay
    <3>. QED
      BY <1>8, <2>1, <3>2, ReplyFlow DEF LineFlow, Answering
  <2>2. CASE sock # "open"
    <3>1. buf' = buf /\ s2c' = s2c
      BY <1>8, <2>2 DEF ServerReplies, Answers
    <3>. QED
      BY <1>2, <3>1
  <2>. QED
    BY <2>1, <2>2
<1>9. CASE ServerRefuses
  <2>1. CASE sock = "open"
    <3>1. buf' = <<>> /\ s2c = <<>> /\ s2c' = s2c \o <<Status("err")>>
      BY <1>9, <2>1 DEF ServerRefuses, Answers, LockStepInv
    <3>2. s2c' = <<Status("err")>>
      BY <3>1
    <3>3. Status("err").k = "err"
      BY DEF Status
    <3>4. ~Ending' /\ \A n, u : ~Coming(n, u)'
      BY <3>1, <3>2, <3>3, StatusFlow
    <3>. QED
      BY <3>4 DEF LineFlow
  <2>2. CASE sock # "open"
    <3>1. buf' = buf /\ s2c' = s2c
      BY <1>9, <2>2 DEF ServerRefuses, Answers
    <3>. QED
      BY <1>2, <3>1
  <2>. QED
    BY <2>1, <2>2
<1>10. CASE ServerQuits
  <2>1. buf' = buf /\ s2c' \in {s2c, <<>>}
    <3>1. sock # "open"
      BY <1>10 DEF ServerQuits, Answers, LockStepInv, Cmd, TypeOK
    <3>. QED
      BY <1>10, <3>1 DEF ServerQuits, Answers
  <2>. QED
    BY <1>2, <2>1
<1>11. CASE ServerGivesUp \/ MailArrives \/ MailVanishes \/ User \/ UNCHANGED vars
  <2>1. buf' = buf /\ s2c' = s2c
    BY <1>11 DEF ServerGivesUp, MailArrives, MailVanishes, User, UserMarks, UserWithdraws, UserForgets,
       vars
  <2>. QED
    BY <1>2, <2>1
<1>. QED
  BY <1>1, <1>3, <1>4, <1>5, <1>6, <1>7, <1>8, <1>9, <1>10, <1>11
     DEF Next, Connection, Server

\* A command goes out when nothing else is on its way, and its reply comes alone.
LEMMA SentAlone ==
  ASSUME TypeOK, LockStepInv, buf # <<>> \/ hpc # "line", NEW cmd, Sent(cmd)
  PROVE  sock = "open" => c2s' = <<cmd>> /\ c2s'[1] = cmd
<1>1. sock = "open" => c2s = <<>>
  BY DEF LockStepInv
<1>. QED
  BY <1>1 DEF Sent

LEMMA AnsweredAlone ==
  ASSUME TypeOK, LockStepInv, sock = "open", c2s # <<>>, c2s' = Tail(c2s)
  PROVE  c2s' = <<>>
BY DEF TypeOK, LockStepInv

-----------------------------------------------------------------------------
(* The command and the lines on their way.                                 *)

LEMMA CommandInvStep == DialogueInv /\ CommandInv /\ [Next]_vars => CommandInv'
<1>. SUFFICES ASSUME DialogueInv, CommandInv, [Next]_vars PROVE CommandInv'
  OBVIOUS
<1>. c2s \in Seq(Command) /\ TypeOK /\ LockStepInv
  BY DEF DialogueInv, TypeOK
<1>1. CASE Refused
  BY <1>1 DEF Refused, TakeLine, EndConnect, EndSession, Sent, Cmd, CommandInv, Writing,
     Late, Receiving, MultiLine
<1>2. CASE Greeting
  BY <1>2 DEF Greeting, Accepted, TakeLine, Sent, Cmd, CommandInv, Writing, Late,
     Receiving, MultiLine
<1>3. CASE VerLogin
  BY <1>3 DEF VerLogin, Accepted, TakeLine, Sent, Cmd, CommandInv, Writing, Late,
     Receiving, MultiLine
<1>4. CASE VerPass
  BY <1>4 DEF VerPass, Accepted, TakeLine, Sent, Cmd, CommandInv, Writing, Late,
     Receiving, MultiLine
<1>5. CASE GetStat
  <2>1. CASE Accepted("GET_STAT", "UIDL", "GET_UIDL_LIST")
    BY <1>5, <2>1, SentAlone, CommandType
       DEF Accepted, TakeLine, Cmd, CommandInv, Writing, Late, Receiving
  <2>2. CASE ~Accepted("GET_STAT", "UIDL", "GET_UIDL_LIST")
    BY <1>5, <2>2 DEF GetStat, TakeLine, EndConnect, EndSession, CommandInv, Writing,
       Late, Receiving
  <2>. QED
    BY <2>1, <2>2
<1>6. CASE ListBegins
  BY <1>6 DEF ListBegins, ReplyBegins, TakeLine, CommandInv, Writing, Late, Receiving,
     MultiLine
<1>7. CASE UidlEntry
  BY <1>7 DEF UidlEntry, InReply, TakeLine, CommandInv, Writing, Late, Receiving, MultiLine
<1>8. CASE UidlEnds
  BY <1>8, SentAlone DEF UidlEnds, TakeLine, Sent, Cmd, CommandInv, Writing, Late,
     Receiving, MultiLine, LockStepInv
<1>9. CASE ListEntry
  BY <1>9 DEF ListEntry, InReply, TakeLine, CommandInv, Writing, Late, Receiving, MultiLine
<1>10. CASE ListEnds
  BY <1>10 DEF ListEnds, InReply, TakeLine, CommandInv, Writing, Late, Receiving,
     MultiLine, LockStepInv
<1>11. CASE MailBegins
  BY <1>11 DEF MailBegins, ReplyBegins, TakeLine, CommandInv, Writing, Late, Receiving,
     MultiLine
<1>12. CASE MailCannotOpen
  BY <1>12 DEF MailCannotOpen, Fault, EndSession, TakeLine, Sent, Cmd, CommandInv,
     Writing, Late, Receiving, MultiLine
<1>13. CASE MailText
  BY <1>13 DEF MailText, InReply, TakeLine, CommandInv, Writing, Late, Receiving, MultiLine
<1>14. CASE MailEnds
  BY <1>14 DEF MailEnds, LoadedState, AfterLoad, InReply, TakeLine, CommandInv, Writing,
     Late, Receiving, MultiLine
<1>15. CASE Deleted
  BY <1>15 DEF Deleted, TakeLine, CommandInv, Writing, Late, Receiving, MultiLine
<1>16. CASE WriteOpens
  BY <1>16 DEF WriteOpens, CommandInv, Writing, Late, Receiving, MultiLine
<1>17. CASE WriteRecord
  BY <1>17 DEF WriteRecord, CommandInv, Writing, Late, Receiving, MultiLine
<1>18. CASE WriteCloses
  BY <1>18 DEF WriteCloses, CommandInv, Writing, Late, Receiving, MultiLine
<1>19. CASE WriteFails
  BY <1>19 DEF WriteFails, Fault, CommandInv, Writing, Late, Receiving, MultiLine
<1>20. CASE DeleteLoaded
  <2>1. popState' = "DELETE_MESSAGE" /\ hpc' = "line" /\ sock' = sock /\ hpc # "line"
    BY <1>20 DEF DeleteLoaded
  <2>2. sock = "open" => c2s'[1] = [c |-> "DELE", n |-> mails[cur].num]
    BY <1>20, <2>1, SentAlone DEF DeleteLoaded
  <2>. QED
    BY <2>1, <2>2 DEF CommandInv, Writing, Late, Receiving
<1>21. CASE WalkLosted
  BY <1>21 DEF WalkLosted, Walking, next, remove_cur_from_list, CommandInv, Writing,
     Late, Receiving, MultiLine
<1>22. CASE WalkKept
  BY <1>22 DEF WalkKept, Walking, next, CommandInv, Writing, Late, Receiving, MultiLine
<1>23. CASE WalkLoads
  <2>1. hpc' = "line" /\ sock' = sock /\ hpc # "line"
    BY <1>23 DEF WalkLoads, Walking
  <2>. DEFINE full == next.state = "LOAD_FULL"
  <2>2. /\ Sent([c |-> IF full THEN "RETR" ELSE "TOP", n |-> next.num])
        /\ popState' = IF full THEN "RECEIVE_MESSAGE" ELSE "RECEIVE_HEADERS"
    BY <1>23 DEF WalkLoads
  <2>. HIDE DEF full
  <2>3. sock = "open" => c2s'[1] = [c |-> IF full THEN "RETR" ELSE "TOP", n |-> next.num]
    BY <2>1, <2>2, SentAlone
  <2>. QED
    BY <2>1, <2>2, <2>3 DEF CommandInv, Writing, Late, Receiving
<1>24. CASE WalkDeletes
  <2>1. /\ popState' = "DELETE_MESSAGE" /\ hpc' = "line" /\ sock' = sock /\ hpc # "line"
        /\ Sent([c |-> "DELE", n |-> next.num])
    BY <1>24 DEF WalkDeletes, Walking
  <2>2. sock = "open" => c2s'[1] = [c |-> "DELE", n |-> next.num]
    BY <2>1, SentAlone
  <2>. QED
    BY <2>1, <2>2 DEF CommandInv, Writing, Late, Receiving
<1>25. CASE WalkEnds
  BY <1>25 DEF WalkEnds, CommandInv, Writing, Late, Receiving, MultiLine, LockStepInv
<1>26. CASE Done
  BY <1>26 DEF Done, EndConnect, EndSession, Sent, Cmd, CommandInv, Writing, Late,
     Receiving, MultiLine
<1>27. CASE Receives
  BY <1>27 DEF Receives, Idle, CommandInv, Writing, Late, Receiving, MultiLine
<1>28. CASE Connects
  BY <1>28 DEF Connects, Fault, Idle, CommandInv, Writing, Late, Receiving, MultiLine
<1>29. CASE SockClosed
  BY <1>29 DEF SockClosed, CommandInv, Writing, Late, Receiving, MultiLine
<1>30. CASE Drops
  BY <1>30 DEF Drops, Fault, Idle, CommandInv, Writing, Late, Receiving, MultiLine
<1>31. CASE Stops
  BY <1>31 DEF Stops, Idle, Intervention, EndConnect, EndSession, Sent, Cmd, CommandInv,
     Writing, Late, Receiving, MultiLine
<1>32. CASE Crashes
  BY <1>32 DEF Crashes, Fault, CommandInv, Writing, Late, Receiving, MultiLine
<1>33. CASE ServerReplies
  BY <1>33, AnsweredAlone DEF ServerReplies, Answers, CommandInv, Writing, Late,
     Receiving, MultiLine
<1>34. CASE ServerRefuses
  BY <1>34, AnsweredAlone DEF ServerRefuses, Answers, Fault, CommandInv, Writing, Late,
     Receiving, MultiLine
<1>35. CASE ServerQuits
  BY <1>35, AnsweredAlone DEF ServerQuits, Answers, Cmd, CommandInv, Writing, Late,
     Receiving, MultiLine
<1>36. CASE ServerGivesUp
  BY <1>36 DEF ServerGivesUp, CommandInv, Writing, Late, Receiving, MultiLine
<1>37. CASE MailArrives
  BY <1>37 DEF MailArrives, CommandInv, Writing, Late, Receiving, MultiLine
<1>38. CASE MailVanishes
  BY <1>38 DEF MailVanishes, CommandInv, Writing, Late, Receiving, MultiLine
<1>39. CASE UserMarks
  BY <1>39 DEF UserMarks, Idle, Intervention, CommandInv, Writing, Late, Receiving,
     MultiLine
<1>40. CASE UserForgets
  BY <1>40 DEF UserForgets, Idle, Intervention, CommandInv, Writing, Late, Receiving,
     MultiLine
<1>41. CASE UserWithdraws
  BY <1>41 DEF UserWithdraws, Idle, CommandInv, Writing, Late, Receiving,
     MultiLine
<1>42. CASE UNCHANGED vars
  BY <1>42 DEF vars, CommandInv, Writing, Late, Receiving, MultiLine
<1>. QED
  BY <1>1, <1>2, <1>3, <1>4, <1>5, <1>6, <1>7, <1>8, <1>9, <1>10, <1>11, <1>12, <1>13,
     <1>14, <1>15, <1>16, <1>17, <1>18, <1>19, <1>20, <1>21, <1>22, <1>23, <1>24,
     <1>25, <1>26, <1>27, <1>28, <1>29, <1>30, <1>31, <1>32, <1>33, <1>34, <1>35,
     <1>36, <1>37, <1>38, <1>39, <1>40, <1>41, <1>42
     DEF Next, ProcessLine, HelperLoop, Connection, Server, User

-----------------------------------------------------------------------------
(* What each action that changes the list, or its file, does to it.        *)

LEMMA UidlEntryList ==
  ASSUME DialogueInv, UidlEntry
  PROVE  \E num \in Nat, u \in Names :
           /\ \/ u \in Uidl /\ num = line.n /\ u = line.u /\ line.k = "entry" /\ Coming(num, u)
              \/ u = Junk /\ num = 0 /\ line.k # "entry"
           /\ \A i \in 1..Len(mails') :
                \/ /\ i \in 1..Len(mails) /\ mails'[i].uidl = mails[i].uidl
                   /\ mails'[i].state = mails[i].state
                   /\ mails'[i].num = IF mails[i].uidl = u THEN num ELSE mails[i].num
                \/ /\ \A j \in 1..Len(mails) : mails[j].uidl # u
                   /\ mails'[i].uidl = u /\ mails'[i].num = num
                   /\ mails'[i].state \in {"BIG", "LOAD_FULL", "LOAD_HEADER"}
           /\ \A i \in 1..Len(mails) : i \in 1..Len(mails') /\ mails'[i].uidl = mails[i].uidl
<1>. mails \in Seq(Entry) /\ Len(mails) \in Nat /\ TypeOK /\ LockStepInv
  BY DEF DialogueInv, TypeOK
<1>1. TakeLine /\ s2c' = s2c
  BY DEF UidlEntry, InReply
<1>2. line \in Line /\ line.n \in Nat /\ line.u \in Names
  BY <1>1, TakeLineType
<1>. DEFINE num == IF line.k = "entry" THEN line.n ELSE 0
            u == line.u
<1>3. mails' = add_uidl_if_exist(num, u)
  BY DEF UidlEntry
<1>4. num \in Nat /\ u \in Names
  BY <1>2
<1>5. \/ u \in Uidl /\ num = line.n /\ u = line.u /\ line.k = "entry" /\ Coming(num, u)
      \/ u = Junk /\ num = 0 /\ line.k # "entry"
  <2>1. line.k = "entry" => Coming(line.n, line.u)
    BY <1>1, TakeFlow
  <2>2. line.k = "entry" => line.u \in Uidl
    BY <1>2 DEF Line
  <2>3. line.k # "entry" => line.u = Junk
    BY <1>2 DEF Line
  <2>. QED
    BY <2>1, <2>2, <2>3
<1>. HIDE DEF num, u
<1>6. InitialState \in {"BIG", "LOAD_FULL", "LOAD_HEADER"}
  BY DEF InitialState
<1>7. \/ /\ Len(mails') = Len(mails)
         /\ \A i \in 1..Len(mails) :
              /\ mails'[i].uidl = mails[i].uidl
              /\ mails'[i].state = mails[i].state
              /\ mails'[i].num = IF mails[i].uidl = u THEN num ELSE mails[i].num
      \/ /\ \A i \in 1..Len(mails) : mails[i].uidl # u
         /\ Len(mails') = Len(mails) + 1
         /\ \A i \in 1..Len(mails) : mails'[i] = mails[i]
         /\ mails'[Len(mails) + 1] = [uidl |-> u, state |-> InitialState, num |-> num]
  BY <1>3, <1>4, AddUidlEntries
<1>8. ASSUME NEW i \in 1..Len(mails')
      PROVE  \/ /\ i \in 1..Len(mails) /\ mails'[i].uidl = mails[i].uidl
                /\ mails'[i].state = mails[i].state
                /\ mails'[i].num = IF mails[i].uidl = u THEN num ELSE mails[i].num
             \/ /\ \A j \in 1..Len(mails) : mails[j].uidl # u
                /\ mails'[i].uidl = u /\ mails'[i].num = num
                /\ mails'[i].state \in {"BIG", "LOAD_FULL", "LOAD_HEADER"}
  BY <1>6, <1>7
<1>9. \A i \in 1..Len(mails) : i \in 1..Len(mails') /\ mails'[i].uidl = mails[i].uidl
  BY <1>7
<1>. QED
  BY <1>4, <1>5, <1>8, <1>9

LEMMA ListEntryList ==
  ASSUME DialogueInv, ListEntry
  PROVE  /\ Len(mails') = Len(mails)
         /\ \A i \in 1..Len(mails) :
              /\ mails'[i].uidl = mails[i].uidl
              /\ mails'[i].num = mails[i].num
              /\ \/ mails'[i].state = mails[i].state
                 \/ mails[i].state = "BIG" /\ mails'[i].state \in LoadStates
              /\ mails[i].num = line.n /\ (\A j \in 1..Len(mails) : mails[j].num = line.n => j = i)
                   => mails'[i].state # "BIG"
<1>. mails \in Seq(Entry) /\ Len(mails) \in Nat /\ TypeOK
  BY DEF DialogueInv, TypeOK
<1>1. line \in Line /\ line.n \in Nat /\ line.k = "entry" /\ mails' = set_mes_size(line.n, Size[line.u])
  BY TakeLineType DEF ListEntry, InReply
<1>2. Size[line.u] \in Nat
  BY <1>1, UidlAssumption DEF Line
<1>3. /\ Len(mails') = Len(mails)
      /\ \A i \in 1..Len(mails) :
           /\ mails'[i].uidl = mails[i].uidl
           /\ mails'[i].num = mails[i].num
           /\ \/ mails'[i].state = mails[i].state
              \/ mails[i].state = "BIG" /\ mails'[i].state \in LoadStates
  BY <1>1, <1>2, SetSizeEntries
<1>4. ASSUME NEW i \in 1..Len(mails), mails[i].num = line.n,
             \A j \in 1..Len(mails) : mails[j].num = line.n => j = i
      PROVE  mails'[i].state # "BIG"
  <2>1. CASE mails[i].state # "BIG"
    BY <1>3, <2>1 DEF LoadStates
  <2>2. CASE mails[i].state = "BIG"
    <3>. DEFINE st == IF Size[line.u] > LOAD_IF_LESS THEN "LOAD_HEADER" ELSE "LOAD_FULL"
    <3>1. \A j \in 1..(i - 1) : mails[j].num # line.n
      BY <1>4
    <3>2. mails'[i] = [mails[i] EXCEPT !.state = st]
      BY <1>1, <1>4, <2>2, <3>1 DEF set_mes_size
    <3>3. mails'[i].state = st
      BY <3>2, EntryFields DEF Entry
    <3>. QED
      BY <3>3
  <2>. QED
    BY <2>1, <2>2
<1>. QED
  BY <1>3, <1>4

LEMMA RemovedList ==
  ASSUME DialogueInv, WalkLosted \/ WalkDeletes
  PROVE  /\ cur + 1 \in 1..Len(mails)
         /\ \A i \in 1..Len(mails') : \E j \in 1..Len(mails) :
              /\ mails'[i] = mails[j]
              /\ mails[cur + 1].uidl # Torn => mails[j].uidl # mails[cur + 1].uidl
         /\ eml' = [eml EXCEPT ![mails[cur + 1].uidl] = "none"]
         /\ \A u : u # mails[cur + 1].uidl => eml'[u] = eml[u]
         /\ \A i, j \in 1..Len(mails') : mails'[i].num >= 1 /\ mails'[i].num = mails'[j].num =>
              i = j \/ \E k, l \in 1..Len(mails) :
                         k # l /\ mails[k] = mails'[i] /\ mails[l] = mails'[j]
<1>. mails \in Seq(Entry) /\ Len(mails) \in Nat /\ TypeOK /\ CursorInv /\ NoDuplicates
  BY DEF DialogueInv, TypeOK
<1>1. /\ cur + 1 \in 1..Len(mails) /\ mails' = RemoveAt(mails, cur + 1) /\ cur \in Nat
      /\ eml' = [eml EXCEPT ![mails[cur + 1].uidl] = "none"]
  BY DEF WalkLosted, WalkDeletes, Walking, remove_cur_from_list, CursorInv, TypeOK
<1>2. /\ Len(mails') = Len(mails) - 1
      /\ \A i \in 1..Len(mails') : mails'[i] = mails[IF i < cur + 1 THEN i ELSE i + 1]
  BY <1>1, RemoveAtEntries
<1>. DEFINE at(i) == IF i < cur + 1 THEN i ELSE i + 1
<1>3. ASSUME NEW i \in 1..Len(mails')
      PROVE  at(i) \in 1..Len(mails) /\ at(i) # cur + 1 /\ mails'[i] = mails[at(i)]
  <2>1. at(i) \in 1..Len(mails) /\ at(i) # cur + 1
    BY <1>1, <1>2
  <2>. QED
    BY <1>2, <2>1
<1>4. ASSUME NEW i \in 1..Len(mails'), NEW j \in 1..Len(mails'), at(i) = at(j)
      PROVE  i = j
  BY <1>1, <1>2, <1>4
<1>. HIDE DEF at
<1>5. \A i \in 1..Len(mails') :
        mails[cur + 1].uidl # Torn => mails[at(i)].uidl # mails[cur + 1].uidl
  <2>1. ASSUME NEW i \in 1..Len(mails'),
               mails[cur + 1].uidl # Torn, mails[at(i)].uidl = mails[cur + 1].uidl
        PROVE  FALSE
    <3>1. at(i) \in 1..Len(mails) /\ at(i) # cur + 1
      BY <1>3
    <3>. QED
      BY <1>1, <2>1, <3>1 DEF NoDuplicates, UniqueUidl
  <2>. QED
    BY <2>1
<1>6. \A u : u # mails[cur + 1].uidl => eml'[u] = eml[u]
  BY <1>1 DEF TypeOK
<1>7. ASSUME NEW i \in 1..Len(mails'), NEW j \in 1..Len(mails'), i # j
      PROVE  \E k, l \in 1..Len(mails) : k # l /\ mails[k] = mails'[i] /\ mails[l] = mails'[j]
  BY <1>3, <1>4, <1>7
<1>8. \A i \in 1..Len(mails') : \E j \in 1..Len(mails) :
        /\ mails'[i] = mails[j]
        /\ mails[cur + 1].uidl # Torn => mails[j].uidl # mails[cur + 1].uidl
  BY <1>3, <1>5
<1>. QED
  BY <1>1, <1>6, <1>7, <1>8

LEMMA MailEndsList ==
  ASSUME DialogueInv, MailEnds
  PROVE  /\ cur \in 1..Len(mails) /\ mails[cur].state \in LoadStates /\ mails[cur].num # -1
         /\ Len(mails') = Len(mails)
         /\ \A i \in 1..Len(mails) :
              /\ mails'[i].uidl = mails[i].uidl /\ mails'[i].num = mails[i].num
              /\ i # cur => mails'[i].state = mails[i].state
         /\ eml' = [eml EXCEPT ![mails[cur].uidl] = IF popState = "RECEIVE_MESSAGE" THEN "full" ELSE "head"]
         /\ eml'[mails[cur].uidl] = IF popState = "RECEIVE_MESSAGE" THEN "full" ELSE "head"
         /\ \A u : u # mails[cur].uidl => eml'[u] = eml[u]
         /\ mails'[cur].state = IF popState = "RECEIVE_MESSAGE" THEN "FULL_LOADED" ELSE "HEADERS_LOADED"
<1>. mails \in Seq(Entry) /\ Len(mails) \in Nat /\ TypeOK /\ CursorInv
  BY DEF DialogueInv, TypeOK
<1>1. cur \in 1..Len(mails) /\ mails[cur].state \in LoadStates /\ mails[cur].num # -1
  BY DEF MailEnds, InReply, TakeLine, CursorInv, Waiting
<1>. DEFINE st == IF popState = "RECEIVE_MESSAGE" THEN "FULL_LOADED" ELSE "HEADERS_LOADED"
<1>2. /\ mails' = [mails EXCEPT ![cur].state = st]
      /\ eml' = [eml EXCEPT ![mails[cur].uidl] = IF popState = "RECEIVE_MESSAGE" THEN "full" ELSE "head"]
  BY DEF MailEnds, LoadedState
<1>3. mails' = [mails EXCEPT ![cur] = [mails[cur] EXCEPT !.state = st]]
  BY <1>2
<1>4. [mails[cur] EXCEPT !.state = st].state = st
      /\ [mails[cur] EXCEPT !.state = st].uidl = mails[cur].uidl
      /\ [mails[cur] EXCEPT !.state = st].num = mails[cur].num
  BY <1>1, EntryFields DEF Entry
<1>5. Len(mails') = Len(mails) /\ mails'[cur] = [mails[cur] EXCEPT !.state = st]
      /\ \A i \in 1..Len(mails) : i # cur => mails'[i] = mails[i]
  BY <1>1, <1>3
<1>6. mails[cur].uidl \in Names
  BY <1>1, EntryFields
<1>7. /\ eml'[mails[cur].uidl] = IF popState = "RECEIVE_MESSAGE" THEN "full" ELSE "head"
      /\ \A u : u # mails[cur].uidl => eml'[u] = eml[u]
  BY <1>2, <1>6 DEF TypeOK
<1>. HIDE DEF st
<1>8. ASSUME NEW i \in 1..Len(mails)
      PROVE  /\ mails'[i].uidl = mails[i].uidl /\ mails'[i].num = mails[i].num
             /\ i # cur => mails'[i].state = mails[i].state
  BY <1>4, <1>5
<1>9. mails'[cur].state = st
  BY <1>4, <1>5
<1>. QED
  BY <1>1, <1>2, <1>5, <1>7, <1>8, <1>9 DEF st

LEMMA ConnectsList ==
  ASSUME DialogueInv, Connects
  PROVE  /\ \A i \in 1..Len(mails') :
              /\ i \in 1..Len(disk) /\ mails'[i].uidl = disk[i].uidl
              /\ mails'[i].state = disk[i].state /\ mails'[i].num = -1
         /\ "fopen" \notin FaultKinds => Len(mails') = Len(disk)
<1>. Len(disk) \in Nat /\ TypeOK
  BY DEF DialogueInv, TypeOK
<1>1. mails' \in {[i \in 1..Len(disk) |-> FromRecord(disk[i])], <<>>}
  BY DEF Connects
<1>2. "fopen" \notin FaultKinds => mails' = [i \in 1..Len(disk) |-> FromRecord(disk[i])]
  BY DEF Connects, Fault
<1>. QED
  BY <1>1, <1>2, ReadEntries DEF TypeOK

LEMMA WriteRecordList ==
  ASSUME DialogueInv, WriteRecord
  PROVE  \A i \in 1..Len(disk') :
           \/ i \in 1..Len(disk) /\ disk'[i] = disk[i]
           \/ i \in 1..Len(mails) /\ disk'[i] = ToRecord(mails[i])
BY DEF DialogueInv, TypeOK, WriteRecord

LEMMA UserList ==
  ASSUME DialogueInv, User
  PROVE  \A i \in 1..Len(disk') : \E j \in 1..Len(disk) :
           /\ disk'[i].uidl = disk[j].uidl
           /\ \/ disk'[i].state = disk[j].state
              \/ disk'[i].state \in {"LOAD_FULL", "DELETE"}
              \/ UserWithdraws /\ prev # <<>> /\ disk'[i].state = prev[j]
<1>. disk \in Seq(Record) /\ Len(disk) \in Nat
  BY DEF DialogueInv, TypeOK
<1>1. CASE UserMarks
  <2>1. PICK state \in {"LOAD_FULL", "DELETE"}, S \in SUBSET (1..Len(disk)) :
          disk' = [i \in 1..Len(disk) |->
                     IF i \in S THEN [disk[i] EXCEPT !.state = state] ELSE disk[i]]
    BY <1>1 DEF UserMarks
  <2>2. ASSUME NEW i \in 1..Len(disk)
        PROVE  /\ [disk[i] EXCEPT !.state = state].state = state
               /\ [disk[i] EXCEPT !.state = state].uidl = disk[i].uidl
    BY RecordFields DEF Record
  <2>3. ASSUME NEW i \in 1..Len(disk')
        PROVE  /\ i \in 1..Len(disk) /\ disk'[i].uidl = disk[i].uidl
               /\ disk'[i].state = disk[i].state \/ disk'[i].state = state
    BY <2>1, <2>2
  <2>. QED
    BY <2>3
<1>2. CASE UserForgets
  <2>1. CASE disk' = <<>>
    BY <2>1
  <2>2. CASE \E i \in 1..Len(disk) : disk' = RemoveAt(disk, i)
    <3>1. PICK n \in 1..Len(disk) : disk' = RemoveAt(disk, n)
      BY <2>2
    <3>2. /\ Len(disk') = Len(disk) - 1
          /\ \A i \in 1..Len(disk') : disk'[i] = disk[IF i < n THEN i ELSE i + 1]
      BY <3>1, RemoveAtEntries
    <3>3. \A i \in 1..Len(disk') : i \in 1..Len(disk) /\ i + 1 \in 1..Len(disk)
      BY <3>2
    <3>. QED
      BY <3>2, <3>3
  <2>. QED
    BY <1>2, <2>1, <2>2 DEF UserForgets
<1>3. CASE UserWithdraws
  <2>1. PICK n \in 1..Len(disk) :
          /\ prev # <<>> /\ Len(disk') = Len(disk)
          /\ \A j \in 1..Len(disk) :
               /\ disk'[j].uidl = disk[j].uidl
               /\ disk'[j].state = IF j = n THEN prev[n] ELSE disk[j].state
    BY <1>3, WithdrawnDisk DEF DialogueInv
  <2>2. ASSUME NEW i \in 1..Len(disk')
        PROVE  /\ i \in 1..Len(disk) /\ disk'[i].uidl = disk[i].uidl
               /\ disk'[i].state = disk[i].state \/ disk'[i].state = prev[i]
    BY <2>1
  <2>. QED
    BY <1>3, <2>1, <2>2
<1>. QED
  BY <1>1, <1>2, <1>3 DEF User

\* What a mark may be taken back to is what mails.db or that list held.
LEMMA PrevList ==
  ASSUME DialogueInv, User, prev' # <<>>
  PROVE  \A i \in 1..Len(disk') : \E j \in 1..Len(disk) :
           /\ disk'[i].uidl = disk[j].uidl
           /\ prev'[i] = disk[j].state \/ (prev # <<>> /\ prev'[i] = prev[j])
<1>. /\ disk \in Seq(Record) /\ Len(disk) \in Nat /\ prev \in Seq(MailStates \ {"BIG"})
     /\ TypeOK /\ AskedInv
  BY DEF DialogueInv, TypeOK
<1>1. CASE UserMarks
  <2>1. PICK st \in {"LOAD_FULL", "DELETE"}, S \in SUBSET (1..Len(disk)) :
          /\ disk' = [i \in 1..Len(disk) |->
                       IF i \in S THEN [disk[i] EXCEPT !.state = st] ELSE disk[i]]
          /\ prev' = IF sock = "closed"
                     THEN [i \in 1..Len(disk) |->
                             IF i \in S \/ prev = <<>> THEN disk[i].state ELSE prev[i]]
                     ELSE <<>>
    BY <1>1 DEF UserMarks
  <2>2. ASSUME NEW i \in 1..Len(disk')
        PROVE  /\ i \in 1..Len(disk) /\ disk'[i].uidl = disk[i].uidl
               /\ prev'[i] = disk[i].state \/ (prev # <<>> /\ prev'[i] = prev[i])
    <3>1. i \in 1..Len(disk) /\ disk[i] \in Record
      BY <2>1
    <3>2. disk'[i].uidl = disk[i].uidl
      BY <2>1, <3>1 DEF Record
    <3>. QED
      BY <2>1, <3>1, <3>2
  <2>. QED
    BY <2>2
<1>2. CASE UserForgets
  <2>1. PICK n \in 1..Len(disk) : disk' = RemoveAt(disk, n) /\ prev # <<>>
                                   /\ prev' = RemoveAt(prev, n)
    BY <1>2 DEF UserForgets
  <2>2. Len(prev) = Len(disk)
    BY <2>1 DEF AskedInv
  <2>3. /\ Len(disk') = Len(disk) - 1
        /\ \A i \in 1..Len(disk') : disk'[i] = disk[IF i < n THEN i ELSE i + 1]
    BY <2>1, RemoveAtEntries
  <2>4. /\ Len(RemoveAt(prev, n)) = Len(prev) - 1
        /\ \A i \in 1..Len(RemoveAt(prev, n)) :
             RemoveAt(prev, n)[i] = prev[IF i < n THEN i ELSE i + 1]
    BY <2>2, RemoveAtEntries
  <2>5. \A i \in 1..Len(disk') : (IF i < n THEN i ELSE i + 1) \in 1..Len(disk)
    BY <2>3
  <2>6. \A i \in 1..Len(disk') : prev'[i] = prev[IF i < n THEN i ELSE i + 1]
    BY <2>1, <2>2, <2>3, <2>4
  <2>. QED
    BY <2>1, <2>3, <2>5, <2>6
<1>3. CASE UserWithdraws
  <2>1. prev' = prev
    BY <1>3 DEF UserWithdraws
  <2>2. Len(disk') = Len(disk) /\ \A j \in 1..Len(disk) : disk'[j].uidl = disk[j].uidl
    BY <1>3, WithdrawnDisk
  <2>. QED
    BY <2>1, <2>2
<1>. QED
  BY <1>1, <1>2, <1>3 DEF User

\* A power cut leaves the records that are written, and one whose uidl is not.
LEMMA CrashList ==
  ASSUME DialogueInv, Crashes
  PROVE  \A i \in 1..Len(disk') :
           disk'[i].uidl = Torn \/ (i \in 1..Len(disk) /\ disk'[i] = disk[i])
<1>1. Len(disk) \in Nat
  BY DEF DialogueInv, TypeOK
<1>2. \/ disk' = disk
      \/ /\ Len(disk') = Len(disk) + 1 /\ disk'[Len(disk) + 1].uidl = Torn
         /\ \A i \in 1..Len(disk) : disk'[i] = disk[i]
  BY CrashDisk DEF DialogueInv
<1>. QED
  BY <1>1, <1>2

-----------------------------------------------------------------------------
(* Numbers and unique ids.                                                 *)

LEMMA FreshInvStep == DialogueInv /\ FreshInv /\ [Next]_vars => FreshInv'
<1>. SUFFICES ASSUME DialogueInv, FreshInv, [Next]_vars PROVE FreshInv'
  OBVIOUS
<1>. TypeOK /\ LockStepInv
  BY DEF DialogueInv
<1>. \A u \in fresh : \A n : ~Coming(n, u)'
  BY Flow DEF LineFlow, FreshInv, Listed
<1>1. CASE Refused
  BY <1>1 DEF Refused, TakeLine, EndConnect, EndSession, FreshInv
<1>2. CASE Greeting
  BY <1>2 DEF Greeting, Accepted, TakeLine, FreshInv
<1>3. CASE VerLogin
  BY <1>3 DEF VerLogin, Accepted, TakeLine, FreshInv
<1>4. CASE VerPass
  BY <1>4 DEF VerPass, Accepted, TakeLine, FreshInv
<1>5. CASE GetStat
  BY <1>5 DEF GetStat, Accepted, TakeLine, EndConnect, EndSession, FreshInv
<1>6. CASE ListBegins
  BY <1>6 DEF ListBegins, ReplyBegins, TakeLine, FreshInv
<1>7. CASE UidlEntry
  <2>1. \A i \in 1..Len(mails') : \A u \in fresh : mails'[i].uidl # u
    <3>1. \A u \in fresh : u # Junk
      BY UidlAssumption DEF TypeOK
    <3>. QED
      BY <1>7, <3>1, UidlEntryList DEF FreshInv
  <2>. QED
    BY <1>7, <2>1 DEF UidlEntry, InReply, TakeLine, FreshInv
<1>8. CASE UidlEnds
  BY <1>8 DEF UidlEnds, TakeLine, FreshInv
<1>9. CASE ListEntry
  BY <1>9, ListEntryList DEF ListEntry, InReply, TakeLine, FreshInv
<1>10. CASE ListEnds
  BY <1>10 DEF ListEnds, InReply, TakeLine, FreshInv
<1>11. CASE MailBegins
  BY <1>11 DEF MailBegins, ReplyBegins, TakeLine, FreshInv
<1>12. CASE MailCannotOpen
  BY <1>12 DEF MailCannotOpen, Fault, EndSession, TakeLine, FreshInv
<1>13. CASE MailText
  BY <1>13 DEF MailText, InReply, TakeLine, FreshInv
<1>14. CASE MailEnds
  BY <1>14, MailEndsList DEF MailEnds, InReply, TakeLine, FreshInv
<1>15. CASE Deleted
  BY <1>15 DEF Deleted, TakeLine, FreshInv
<1>16. CASE WriteOpens
  BY <1>16 DEF WriteOpens, FreshInv
<1>17. CASE WriteRecord
  <2>1. \A i \in 1..Len(mails) : ToRecord(mails[i]).uidl = mails[i].uidl
    BY DEF ToRecord
  <2>. QED
    BY <1>17, <2>1, WriteRecordList DEF WriteRecord, FreshInv
<1>18. CASE WriteCloses
  BY <1>18 DEF WriteCloses, FreshInv
<1>19. CASE WriteFails
  BY <1>19 DEF WriteFails, Fault, FreshInv
<1>20. CASE DeleteLoaded
  BY <1>20 DEF DeleteLoaded, FreshInv
<1>21. CASE WalkLosted
  BY <1>21, RemovedList DEF WalkLosted, Walking, FreshInv
<1>22. CASE WalkKept
  BY <1>22 DEF WalkKept, Walking, next, FreshInv
<1>23. CASE WalkLoads
  BY <1>23 DEF WalkLoads, Walking, next, FreshInv
<1>24. CASE WalkDeletes
  BY <1>24, RemovedList DEF WalkDeletes, Walking, FreshInv
<1>25. CASE WalkEnds
  BY <1>25 DEF WalkEnds, FreshInv
<1>26. CASE Done
  BY <1>26 DEF Done, EndConnect, EndSession, FreshInv
<1>27. CASE Receives
  BY <1>27 DEF Receives, Idle, FreshInv
<1>28. CASE Connects
  <2>1. \A n \in 1..Len(sess') : sess'[n] \in box
    <3>1. sess' \in [1..Cardinality(box) -> box]
      BY <1>28 DEF Connects, SetToSeqs
    <3>2. Cardinality(box) \in Nat
      BY FS_CardinalityType DEF TypeOK
    <3>. QED
      BY <3>1, <3>2
  <2>. QED
    BY <1>28, <2>1, ConnectsList DEF Connects, FreshInv
<1>29. CASE SockClosed
  BY <1>29 DEF SockClosed, FreshInv
<1>30. CASE Drops
  BY <1>30 DEF Drops, Fault, Idle, FreshInv
<1>31. CASE Stops
  BY <1>31 DEF Stops, Idle, Intervention, EndConnect, EndSession, FreshInv
<1>32. CASE Crashes
  <2>1. Torn \notin fresh
    BY UidlAssumption DEF TypeOK
  <2>. QED
    <3>1. \A u \in fresh : \A i \in 1..Len(disk') : disk'[i].uidl # u
      BY <1>32, <2>1, CrashList DEF FreshInv
    <3>. QED
      BY <1>32, <3>1 DEF Crashes, FreshInv
<1>33. CASE ServerReplies
  BY <1>33 DEF ServerReplies, Answers, FreshInv
<1>34. CASE ServerRefuses
  BY <1>34 DEF ServerRefuses, Answers, Fault, FreshInv
<1>35. CASE ServerQuits
  BY <1>35 DEF ServerQuits, Answers, Cmd, FreshInv
<1>36. CASE ServerGivesUp
  BY <1>36 DEF ServerGivesUp, FreshInv
<1>37. CASE MailArrives
  BY <1>37 DEF MailArrives, FreshInv
<1>38. CASE MailVanishes
  BY <1>38 DEF MailVanishes, FreshInv
<1>39. CASE UserMarks
  <2>0. User
    BY <1>39 DEF User
  <2>1. \A i \in 1..Len(disk') : \E j \in 1..Len(disk) : disk'[i].uidl = disk[j].uidl
    BY <2>0, UserList
  <2>. QED
    BY <1>39, <2>1 DEF UserMarks, FreshInv
<1>40. CASE UserForgets
  <2>0. User
    BY <1>40 DEF User
  <2>1. \A i \in 1..Len(disk') : \E j \in 1..Len(disk) : disk'[i].uidl = disk[j].uidl
    BY <2>0, UserList
  <2>. QED
    <3>1. UNCHANGED <<mails, box, fresh, sess>>
      BY <1>40 DEF UserForgets, memory, server
    <3>. QED
      BY <2>1, <3>1 DEF FreshInv
<1>41. CASE UserWithdraws
  <2>0. User
    BY <1>41 DEF User
  <2>1. \A i \in 1..Len(disk') : \E j \in 1..Len(disk) : disk'[i].uidl = disk[j].uidl
    BY <2>0, UserList
  <2>. QED
    BY <1>41, <2>1 DEF UserWithdraws, FreshInv
<1>42. CASE UNCHANGED vars
  BY <1>42 DEF vars, FreshInv
<1>. QED
  BY <1>1, <1>2, <1>3, <1>4, <1>5, <1>6, <1>7, <1>8, <1>9, <1>10, <1>11, <1>12, <1>13,
     <1>14, <1>15, <1>16, <1>17, <1>18, <1>19, <1>20, <1>21, <1>22, <1>23, <1>24,
     <1>25, <1>26, <1>27, <1>28, <1>29, <1>30, <1>31, <1>32, <1>33, <1>34, <1>35,
     <1>36, <1>37, <1>38, <1>39, <1>40, <1>41, <1>42
     DEF Next, ProcessLine, HelperLoop, Connection, Server, User

LEMMA NumberingOpen ==
  TypeOK /\ NumbersInv /\ NoDuplicates /\ sock = "open" => NumberingInv
<1>. SUFFICES ASSUME TypeOK, NumbersInv, NoDuplicates, sock = "open" PROVE NumberingInv
  OBVIOUS
<1>1. ASSUME NEW n, NEW u, Coming(n, u) PROVE Listed(n, u)
  BY <1>1 DEF Coming, OnWay, NumbersInv
<1>2. Len(sess) \in Nat
  BY DEF TypeOK
<1>3. \A m, n, u, v : Listed(m, u) /\ Listed(n, v) => (m = n <=> u = v) /\ m \in Nat /\ m >= 1
  BY <1>2 DEF Listed, NumbersInv
<1>4. \A i \in 1..Len(mails) : mails[i].num >= 1 => Listed(mails[i].num, mails[i].uidl)
  BY DEF NumbersInv
<1>5. ASSUME NEW i \in 1..Len(mails), mails[i].num >= 1
      PROVE  mails[i].uidl \in Uidl
  <2>1. \E n \in 1..Len(sess) : sess[n] = mails[i].uidl
    BY <1>4, <1>5 DEF Listed
  <2>2. \A n \in 1..Len(sess) : sess[n] \in Uidl
    BY DEF TypeOK
  <2>. QED
    BY <2>1, <2>2
<1>6. ASSUME NEW i \in 1..Len(mails), NEW j \in 1..Len(mails),
             mails[i].num >= 1, mails[i].num = mails[j].num
      PROVE  i = j
  <2>1. Listed(mails[i].num, mails[i].uidl) /\ Listed(mails[j].num, mails[j].uidl)
    BY <1>4, <1>6
  <2>2. mails[i].uidl = mails[j].uidl
    BY <1>3, <1>6, <2>1
  <2>3. mails[i].uidl # Torn
    BY <1>5, <1>6, UidlAssumption
  <2>. QED
    BY <2>2, <2>3 DEF NoDuplicates, UniqueUidl
<1>. QED
  BY <1>1, <1>3, <1>4, <1>5, <1>6 DEF NumberingInv

\* The numbers and unique ids of the list after an entry of UIDL.
LEMMA UidlNumbers ==
  ASSUME DialogueInv, UidlEntry
  PROVE  \E num \in Nat, u \in Names :
           /\ \/ u \in Uidl /\ Coming(num, u)
              \/ u = Junk /\ num = 0
           /\ \A i \in 1..Len(mails') :
                \/ /\ i \in 1..Len(mails) /\ mails'[i].uidl = mails[i].uidl
                   /\ mails'[i].num = IF mails[i].uidl = u THEN num ELSE mails[i].num
                \/ /\ \A j \in 1..Len(mails) : mails[j].uidl # u
                   /\ mails'[i].uidl = u /\ mails'[i].num = num
  BY UidlEntryList

\* No two records have one number after one is taken away.
LEMMA RemovedNumbers ==
  ASSUME DialogueInv, NumberingInv, WalkLosted \/ WalkDeletes
  PROVE  /\ \A i \in 1..Len(mails') : \E j \in 1..Len(mails) : mails'[i] = mails[j]
         /\ \A i, j \in 1..Len(mails') :
              mails'[i].num >= 1 /\ mails'[i].num = mails'[j].num => i = j
<1>1. /\ \A i \in 1..Len(mails') : \E j \in 1..Len(mails) : mails'[i] = mails[j]
      /\ \A i, j \in 1..Len(mails') : mails'[i].num >= 1 /\ mails'[i].num = mails'[j].num =>
           i = j \/ \E k, l \in 1..Len(mails) :
                      k # l /\ mails[k] = mails'[i] /\ mails[l] = mails'[j]
  BY RemovedList
<1>2. \A k, l \in 1..Len(mails) : mails[k].num >= 1 /\ mails[k].num = mails[l].num => k = l
  BY DEF NumberingInv
<1>3. ASSUME NEW i \in 1..Len(mails'), NEW j \in 1..Len(mails'),
             mails'[i].num >= 1, mails'[i].num = mails'[j].num
      PROVE  i = j
  <2>1. SUFFICES ASSUME NEW k \in 1..Len(mails), NEW l \in 1..Len(mails),
                        k # l, mails[k] = mails'[i], mails[l] = mails'[j]
                 PROVE  FALSE
    BY <1>1, <1>3
  <2>2. mails[k].num >= 1 /\ mails[k].num = mails[l].num
    BY <1>3, <2>1
  <2>. QED
    BY <1>2, <2>1, <2>2
<1>. QED
  BY <1>1, <1>3

LEMMA NumberingInvStep == DialogueInv /\ NumberingInv /\ [Next]_vars => NumberingInv'
<1>. SUFFICES ASSUME DialogueInv, NumberingInv, [Next]_vars PROVE NumberingInv'
  OBVIOUS
<1>. TypeOK /\ LockStepInv /\ NumbersInv /\ NoDuplicates
  BY DEF DialogueInv
<1>. SUFFICES ASSUME sock' # "open" PROVE NumberingInv'
  <2>1. TypeOK' /\ NumbersInv' /\ NoDuplicates'
    BY TypeStep, NumbersInvStep, NoDuplicatesStep DEF DialogueInv
  <2>2. TypeOK' /\ NumbersInv' /\ NoDuplicates' /\ (sock = "open")' => NumberingInv'
    BY NumberingOpen, PTL
  <2>. QED
    BY <2>1, <2>2
<1>. \A n, u : Coming(n, u)' => Coming(n, u)
  <2>1. ServerReplies => sock' = sock
    BY DEF ServerReplies, Answers
  <2>. QED
    BY <2>1, Flow DEF LineFlow, Answering
<1>. mails' = mails => NumberingInv'
  BY DEF NumberingInv
<1>1. CASE Refused
  BY <1>1 DEF Refused, TakeLine, EndConnect, EndSession
<1>2. CASE Greeting
  BY <1>2 DEF Greeting, Accepted, TakeLine
<1>3. CASE VerLogin
  BY <1>3 DEF VerLogin, Accepted, TakeLine
<1>4. CASE VerPass
  BY <1>4 DEF VerPass, Accepted, TakeLine
<1>5. CASE GetStat
  BY <1>5 DEF GetStat, Accepted, TakeLine, EndConnect, EndSession
<1>6. CASE ListBegins
  BY <1>6 DEF ListBegins, ReplyBegins, TakeLine
<1>7. CASE UidlEntry
  <2>1. PICK num \in Nat, u \in Names :
          /\ \/ u \in Uidl /\ Coming(num, u)
             \/ u = Junk /\ num = 0
          /\ \A i \in 1..Len(mails') :
               \/ /\ i \in 1..Len(mails) /\ mails'[i].uidl = mails[i].uidl
                  /\ mails'[i].num = IF mails[i].uidl = u THEN num ELSE mails[i].num
               \/ /\ \A j \in 1..Len(mails) : mails[j].uidl # u
                  /\ mails'[i].uidl = u /\ mails'[i].num = num
    BY <1>7, UidlNumbers
  <2>2. UniqueUidl(mails')
    BY NoDuplicatesStep DEF NoDuplicates
  <2>3. \A i \in 1..Len(mails') :
          \/ mails'[i].uidl = u /\ mails'[i].num = num
          \/ /\ mails'[i].uidl # u
             /\ \E j \in 1..Len(mails) : mails'[i].uidl = mails[j].uidl /\ mails'[i].num = mails[j].num
    BY <2>1
  <2>4. ASSUME NEW i \in 1..Len(mails'), NEW n \in Nat, NEW v \in Uidl,
               mails'[i].num >= 1, Coming(n, v)
        PROVE  mails'[i].num = n <=> mails'[i].uidl = v
    <3>1. CASE mails'[i].uidl = u /\ mails'[i].num = num
      BY <2>1, <2>4, <3>1 DEF NumberingInv
    <3>2. CASE \E j \in 1..Len(mails) : mails'[i].uidl = mails[j].uidl /\ mails'[i].num = mails[j].num
      BY <2>4, <3>2 DEF NumberingInv
    <3>. QED
      BY <2>3, <3>1, <3>2
  <2>5. ASSUME NEW i \in 1..Len(mails'), NEW j \in 1..Len(mails'),
               mails'[i].num >= 1, mails'[i].num = mails'[j].num
        PROVE  mails'[i].uidl = mails'[j].uidl
    <3>1. CASE mails'[i].uidl = u /\ mails'[i].num = num
      <4>1. u \in Uidl /\ Coming(num, u)
        BY <2>1, <2>5, <3>1
      <4>. QED
        BY <2>4, <2>5, <3>1, <4>1
    <3>2. CASE mails'[j].uidl = u /\ mails'[j].num = num
      <4>1. u \in Uidl /\ Coming(num, u)
        BY <2>1, <2>5, <3>2
      <4>. QED
        BY <2>4, <2>5, <3>2, <4>1
    <3>3. CASE /\ \E k \in 1..Len(mails) : mails'[i].uidl = mails[k].uidl /\ mails'[i].num = mails[k].num
               /\ \E k \in 1..Len(mails) : mails'[j].uidl = mails[k].uidl /\ mails'[j].num = mails[k].num
      BY <2>5, <3>3 DEF NumberingInv
    <3>. QED
      BY <2>3, <3>1, <3>2, <3>3
  <2>6. \A i \in 1..Len(mails') : mails'[i].num >= 1 => mails'[i].uidl \in Uidl
    BY <2>1, <2>3 DEF NumberingInv
  <2>7. \A i, j \in 1..Len(mails') : mails'[i].num >= 1 /\ mails'[i].num = mails'[j].num => i = j
    BY <2>2, <2>5, <2>6, UidlAssumption DEF UniqueUidl
  <2>. QED
    BY <2>4, <2>6, <2>7 DEF NumberingInv
<1>8. CASE UidlEnds
  BY <1>8 DEF UidlEnds, TakeLine
<1>9. CASE ListEntry
  BY <1>9, ListEntryList DEF NumberingInv
<1>10. CASE ListEnds
  BY <1>10 DEF ListEnds, InReply, TakeLine
<1>11. CASE MailBegins
  BY <1>11 DEF MailBegins, ReplyBegins, TakeLine
<1>12. CASE MailCannotOpen
  BY <1>12 DEF MailCannotOpen, Fault, EndSession, TakeLine
<1>13. CASE MailText
  BY <1>13 DEF MailText, InReply, TakeLine
<1>14. CASE MailEnds
  <2>1. /\ 1..Len(mails') = 1..Len(mails)
        /\ \A i \in 1..Len(mails) : mails'[i].uidl = mails[i].uidl /\ mails'[i].num = mails[i].num
    BY <1>14, MailEndsList
  <2>. QED
    BY <2>1 DEF NumberingInv
<1>15. CASE Deleted
  BY <1>15 DEF Deleted, TakeLine
<1>16. CASE WriteOpens
  BY <1>16 DEF WriteOpens
<1>17. CASE WriteRecord
  BY <1>17 DEF WriteRecord
<1>18. CASE WriteCloses
  BY <1>18 DEF WriteCloses
<1>19. CASE WriteFails
  BY <1>19 DEF WriteFails, Fault
<1>20. CASE DeleteLoaded
  BY <1>20 DEF DeleteLoaded
<1>21. CASE WalkLosted
  <2>1. \A i \in 1..Len(mails') : \E j \in 1..Len(mails) : mails'[i] = mails[j]
    BY <1>21, RemovedNumbers
  <2>3. \A i, j \in 1..Len(mails') : mails'[i].num >= 1 /\ mails'[i].num = mails'[j].num => i = j
    BY <1>21, RemovedNumbers
  <2>. QED
    BY <2>1, <2>3 DEF NumberingInv
<1>22. CASE WalkKept
  BY <1>22 DEF WalkKept, Walking, next
<1>23. CASE WalkLoads
  BY <1>23 DEF WalkLoads, Walking, next
<1>24. CASE WalkDeletes
  <2>1. \A i \in 1..Len(mails') : \E j \in 1..Len(mails) : mails'[i] = mails[j]
    BY <1>24, RemovedNumbers
  <2>3. \A i, j \in 1..Len(mails') : mails'[i].num >= 1 /\ mails'[i].num = mails'[j].num => i = j
    BY <1>24, RemovedNumbers
  <2>. QED
    BY <2>1, <2>3 DEF NumberingInv
<1>25. CASE WalkEnds
  BY <1>25 DEF WalkEnds
<1>26. CASE Done
  BY <1>26 DEF Done, EndConnect, EndSession
<1>27. CASE Receives
  BY <1>27 DEF Receives, Idle
<1>28. CASE Connects
  BY <1>28 DEF Connects
<1>29. CASE SockClosed
  BY <1>29 DEF SockClosed
<1>30. CASE Drops
  BY <1>30 DEF Drops, Fault, Idle
<1>31. CASE Stops
  BY <1>31 DEF Stops, Idle, Intervention, EndConnect, EndSession
<1>32. CASE Crashes
  <2>1. mails' = <<>> /\ Len(<<>>) = 0
    BY <1>32 DEF Crashes
  <2>2. 1..Len(mails') = {}
    BY <2>1
  <2>. QED
    BY <2>2 DEF NumberingInv
<1>33. CASE ServerReplies
  BY <1>33 DEF ServerReplies, Answers
<1>34. CASE ServerRefuses
  BY <1>34 DEF ServerRefuses, Answers, Fault
<1>35. CASE ServerQuits
  BY <1>35 DEF ServerQuits, Answers, Cmd
<1>36. CASE ServerGivesUp
  BY <1>36 DEF ServerGivesUp
<1>37. CASE MailArrives
  BY <1>37 DEF MailArrives
<1>38. CASE MailVanishes
  BY <1>38 DEF MailVanishes
<1>39. CASE UserMarks
  BY <1>39 DEF UserMarks, Idle, Intervention
<1>40. CASE UserForgets
  BY <1>40 DEF UserForgets, Idle, Intervention
<1>41. CASE UserWithdraws
  BY <1>41 DEF UserWithdraws, Idle
<1>42. CASE UNCHANGED vars
  BY <1>42 DEF vars
<1>. QED
  BY <1>1, <1>2, <1>3, <1>4, <1>5, <1>6, <1>7, <1>8, <1>9, <1>10, <1>11, <1>12, <1>13,
     <1>14, <1>15, <1>16, <1>17, <1>18, <1>19, <1>20, <1>21, <1>22, <1>23, <1>24,
     <1>25, <1>26, <1>27, <1>28, <1>29, <1>30, <1>31, <1>32, <1>33, <1>34, <1>35,
     <1>36, <1>37, <1>38, <1>39, <1>40, <1>41, <1>42
     DEF Next, ProcessLine, HelperLoop, Connection, Server, User

\* A reply begins with its status, and one of several lines ends with the dot.
LEMMA ReplyEnds ==
  ASSUME TypeOK, NEW cmd
  PROVE  /\ Len(Reply(cmd)) \in Nat /\ Reply(cmd) # <<>> /\ Len(Reply(cmd)) >= 1
         /\ Reply(cmd)[1].k = "ok" \/ (Reply(cmd)[1].k = "err" /\ Len(Reply(cmd)) = 1)
         /\ cmd.c \in {"UIDL", "LIST"} =>
              Reply(cmd)[1].k = "ok" /\ Reply(cmd)[Len(Reply(cmd))].k = "dot"
         /\ cmd.c \in {"TOP", "RETR"} =>
              Reply(cmd)[1].k = "err" \/ Reply(cmd)[Len(Reply(cmd))].k = "dot"
<1>1. Ok.k = "ok" /\ Dot.k = "dot" /\ Status("err").k = "err" /\ Count(Len(sess)).k = "ok"
      /\ Status("text").k = "text"
  BY DEF Ok, Dot, Status, Count
<1>2. CASE cmd.c \in {"UIDL", "LIST"}
  <2>1. Reply(cmd) = <<Ok>> \o Listing \o <<Dot>>
    BY <1>2 DEF Reply
  <2>2. Listing \in Seq(Line) /\ Len(Listing) \in Nat /\ Ok \in Line /\ Dot \in Line
    BY StatusType DEF Listing, TypeOK, Line, Names
  <2>3. <<Ok>> \o Listing \in Seq(Line) /\ Len(<<Ok>> \o Listing) = 1 + Len(Listing)
        /\ (<<Ok>> \o Listing)[1] = Ok
    BY <2>2
  <2>4. Len(Reply(cmd)) = 2 + Len(Listing) /\ Reply(cmd)[1] = Ok
        /\ Reply(cmd)[2 + Len(Listing)] = Dot
    BY <2>1, <2>2, <2>3
  <2>. QED
    BY <1>1, <1>2, <2>2, <2>4
<1>3. CASE cmd.c \notin {"UIDL", "LIST"}
  <2>1. Reply(cmd) \in {<<Ok>>, <<Count(Len(sess))>>, <<Ok, Status("text"), Dot>>, <<Status("err")>>}
    BY <1>3 DEF Reply
  <2>2. cmd.c \in {"TOP", "RETR"} => Reply(cmd) \in {<<Ok, Status("text"), Dot>>, <<Status("err")>>}
    BY DEF Reply
  <2>3. CASE Reply(cmd) = <<Ok>>
    BY <1>1, <1>3, <2>2, <2>3
  <2>4. CASE Reply(cmd) = <<Count(Len(sess))>>
    BY <1>1, <1>3, <2>2, <2>4
  <2>5. CASE Reply(cmd) = <<Ok, Status("text"), Dot>>
    BY <1>1, <1>3, <2>5
  <2>6. CASE Reply(cmd) = <<Status("err")>>
    BY <1>1, <1>3, <2>6
  <2>. QED
    BY <2>1, <2>3, <2>4, <2>5, <2>6
<1>. QED
  BY <1>2, <1>3

LEMMA HeadInvStep == DialogueInv /\ CommandInv /\ HeadInv /\ [Next]_vars => HeadInv'
<1>. SUFFICES ASSUME DialogueInv, CommandInv, HeadInv, [Next]_vars PROVE HeadInv'
  OBVIOUS
<1>. TypeOK /\ LockStepInv /\ CommandInv /\ HeadInv
  BY DEF DialogueInv
<1>. /\ c2s \in Seq(Command) /\ buf \in Seq(Line) /\ s2c \in Seq(Line)
     /\ Len(buf) \in Nat /\ Len(s2c) \in Nat
  BY DEF TypeOK
<1>60. TakeLine => /\ Len(buf') = Len(buf) - 1 /\ line = buf[1] /\ buf # <<>> /\ hpc = "line"
                   /\ line.k = "dot" => buf' = <<>> /\ s2c = <<>>
                   /\ popState \notin MultiLine => buf' = <<>> /\ s2c = <<>>
                   /\ sock = "open" => c2s = <<>>
                   /\ Len(buf) = 1 => buf' = <<>>
  <2>1. TakeLine => line = buf[1] /\ buf # <<>> /\ hpc = "line"
    BY DEF TakeLine, line
  <2>2. TakeLine /\ Len(buf) = 1 => buf' = <<>>
    BY DEF TakeLine
  <2>. QED
    BY <2>1, <2>2, TakeLineDots
<1>61. hpc # "line" => buf = <<>> /\ s2c = <<>> /\ (sock = "open" => c2s = <<>>)
  BY DEF LockStepInv
<1>1. CASE Refused
  <2>1. TakeLine /\ ~RespOk /\ part' = "none" /\ sock' # "open" /\ s2c' = <<>>
        /\ UNCHANGED <<hpc, popState, mesRec>> /\ (popState \in MultiLine => ~mesRec)
    BY <1>1 DEF Refused, EndConnect, EndSession
  <2>2. popState \in {"GET_UIDL_LIST", "GET_LIST"} => line.k # "ok"
    BY <1>60, <2>1 DEF RespOk, HeadInv, Waiting
  <2>3. popState \in {"GET_UIDL_LIST", "GET_LIST"} => buf' = <<>>
    BY <1>60, <2>1, <2>2 DEF HeadInv, FirstLine, MultiLine
  <2>. QED
    BY <1>60, <2>1, <2>3 DEF HeadInv
<1>2. CASE Greeting
  BY <1>2, <1>60 DEF Greeting, Accepted, HeadInv, FirstLine, Waiting, Receiving, MultiLine
<1>3. CASE VerLogin
  BY <1>3, <1>60 DEF VerLogin, Accepted, HeadInv, FirstLine, Waiting, Receiving, MultiLine
<1>4. CASE VerPass
  BY <1>4, <1>60 DEF VerPass, Accepted, HeadInv, FirstLine, Waiting, Receiving, MultiLine
<1>5. CASE GetStat
  <2>1. buf' = <<>> /\ s2c' = <<>> /\ part' = "none"
    BY <1>5, <1>60 DEF GetStat, Accepted, EndConnect, EndSession, MultiLine, Receiving
  <2>2. popState' \in {"GET_UIDL_LIST", "GREETING"} /\ hpc' = "line"
    BY <1>5, <1>60 DEF GetStat, Accepted
  <2>. QED
    BY <2>1, <2>2 DEF HeadInv, Receiving
<1>6. CASE ListBegins
  BY <1>6, <1>60 DEF ListBegins, ReplyBegins, HeadInv, FirstLine, Waiting, Receiving,
     MultiLine
<1>7. CASE UidlEntry
  BY <1>7, <1>60 DEF UidlEntry, InReply, HeadInv, FirstLine, Waiting, Receiving, MultiLine
<1>8. CASE UidlEnds
  BY <1>8, <1>60 DEF UidlEnds, HeadInv, FirstLine, Waiting, Receiving, MultiLine
<1>9. CASE ListEntry
  BY <1>9, <1>60 DEF ListEntry, InReply, HeadInv, FirstLine, Waiting, Receiving, MultiLine
<1>10. CASE ListEnds
  BY <1>10, <1>60 DEF ListEnds, InReply, HeadInv, FirstLine, Waiting, Receiving, MultiLine
<1>11. CASE MailBegins
  BY <1>11, <1>60 DEF MailBegins, ReplyBegins, HeadInv, FirstLine, Waiting, Receiving,
     MultiLine
<1>12. CASE MailCannotOpen
  BY <1>12, <1>60 DEF MailCannotOpen, Fault, EndSession, HeadInv, FirstLine, Waiting,
     Receiving, MultiLine
<1>13. CASE MailText
  BY <1>13, <1>60 DEF MailText, InReply, HeadInv, FirstLine, Waiting, Receiving, MultiLine
<1>14. CASE MailEnds
  BY <1>14, <1>60 DEF MailEnds, LoadedState, AfterLoad, InReply, HeadInv, FirstLine,
     Waiting, Receiving, MultiLine
<1>15. CASE Deleted
  BY <1>15, <1>60 DEF Deleted, HeadInv, FirstLine, Waiting, Receiving, MultiLine
<1>16. CASE WriteOpens
  BY <1>16, <1>61 DEF WriteOpens, HeadInv, FirstLine, Waiting, Receiving, MultiLine
<1>17. CASE WriteRecord
  BY <1>17, <1>61 DEF WriteRecord, HeadInv, FirstLine, Waiting, Receiving, MultiLine
<1>18. CASE WriteCloses
  BY <1>18, <1>61 DEF WriteCloses, HeadInv, FirstLine, Waiting, Receiving, MultiLine
<1>19. CASE WriteFails
  BY <1>19, <1>61 DEF WriteFails, Fault, HeadInv, FirstLine, Waiting, Receiving, MultiLine
<1>20. CASE DeleteLoaded
  BY <1>20, <1>61 DEF DeleteLoaded, HeadInv, FirstLine, Waiting, Receiving, MultiLine
<1>21. CASE WalkLosted
  BY <1>21, <1>61 DEF WalkLosted, Walking, HeadInv, FirstLine, Waiting, Receiving, MultiLine
<1>22. CASE WalkKept
  BY <1>22, <1>61 DEF WalkKept, Walking, HeadInv, FirstLine, Waiting, Receiving, MultiLine
<1>23. CASE WalkLoads
  BY <1>23, <1>61 DEF WalkLoads, Walking, HeadInv, FirstLine, Waiting, Receiving, MultiLine
<1>24. CASE WalkDeletes
  BY <1>24, <1>61 DEF WalkDeletes, Walking, HeadInv, FirstLine, Waiting, Receiving,
     MultiLine
<1>25. CASE WalkEnds
  BY <1>25, <1>61 DEF WalkEnds, HeadInv, FirstLine, Waiting, Receiving, MultiLine
<1>26. CASE Done
  BY <1>26, <1>61 DEF Done, EndConnect, EndSession, HeadInv, FirstLine, Waiting,
     Receiving, MultiLine
<1>27. CASE Receives
  <2>1. PICK n \in {1, Len(s2c)} :
          /\ buf' = SubSeq(s2c, 1, n)
          /\ s2c' = SubSeq(s2c, n + 1, Len(s2c))
    BY <1>27 DEF Receives
  <2>2. n \in 1..Len(s2c) /\ buf = <<>> /\ sock = "open" /\ hpc = "line" /\ s2c # <<>>
        /\ UNCHANGED <<hpc, popState, mesRec, part, sock, c2s>>
    BY <1>27, <2>1 DEF Receives, Idle
  <2>3. buf' # <<>> /\ buf'[1] = s2c[1] /\ Len(buf') + Len(s2c') = Len(s2c)
    BY <2>1, <2>2
  <2>4. (buf' # <<>> \/ s2c' # <<>>) /\ FirstLine' = FirstLine /\ Len(buf') + Len(s2c') = Len(buf) + Len(s2c)
    BY <2>2, <2>3 DEF FirstLine
  <2>. QED
    BY <2>2, <2>4 DEF HeadInv, Waiting
<1>28. CASE Connects
  BY <1>28 DEF Connects, Fault, Idle, HeadInv, FirstLine, Waiting, Receiving, MultiLine
<1>29. CASE SockClosed
  BY <1>29 DEF SockClosed, HeadInv, FirstLine, Waiting, Receiving, MultiLine
<1>30. CASE Drops
  <2>1. /\ sock' = "closed" /\ s2c' = <<>>
        /\ UNCHANGED <<buf, hpc, popState, mesRec>> /\ (part' = part \/ (hpc = "line" /\ buf = <<>>))
    BY <1>30 DEF Drops, Idle
  <2>2. buf # <<>> => FirstLine' = FirstLine
    BY <2>1 DEF FirstLine
  <2>3. buf # <<>> /\ Len(buf) + Len(s2c) = 1 => Len(buf') + Len(s2c') = 1
    <3>1. buf # <<>> => Len(buf) >= 1
      OBVIOUS
    <3>2. Len(s2c') = 0 /\ Len(buf') = Len(buf)
      BY <2>1
    <3>. QED
      BY <3>1, <3>2
  <2>4. buf' # <<>> \/ s2c' # <<>> => buf # <<>>
    BY <2>1
  <2>5. Waiting' => buf # <<>> /\ hpc = "line" /\ part' = part
    BY <2>1 DEF Waiting
  <2>. QED
    BY <2>1, <2>2, <2>3, <2>4, <2>5 DEF HeadInv, Waiting
<1>31. CASE Stops
  BY <1>31 DEF Stops, Idle, Intervention, EndConnect, EndSession, HeadInv, FirstLine,
     Waiting, Receiving, MultiLine
<1>32. CASE Crashes
  BY <1>32 DEF Crashes, Fault, HeadInv, FirstLine, Waiting, Receiving, MultiLine
<1>33. CASE ServerReplies
  <2>1. CASE sock # "open"
    BY <1>33, <2>1 DEF ServerReplies, Answers, HeadInv, FirstLine, Waiting, Receiving
  <2>2. CASE sock = "open"
    <3>. DEFINE cmd == Head(c2s)
    <3>1. /\ buf = <<>> /\ s2c = <<>> /\ c2s # <<>> /\ cmd = c2s[1] /\ c2s' = Tail(c2s)
          /\ s2c' = s2c \o Reply(cmd) /\ UNCHANGED <<buf, hpc, popState, mesRec, part, sock>>
      BY <1>33, <2>2 DEF ServerReplies, Answers, LockStepInv
    <3>2. Reply(cmd) \in Seq(Line)
      BY ReplyType
    <3>. HIDE DEF cmd
    <3>3. s2c' = Reply(cmd) /\ c2s' = <<>>
      BY <2>2, <3>1, <3>2, AnsweredAlone
    <3>4. FirstLine' = Reply(cmd)[1] /\ Len(buf') + Len(s2c') = Len(Reply(cmd))
      BY <3>1, <3>2, <3>3, ReplyEnds DEF FirstLine
    <3>5. FirstLine'.k = "ok" \/ (FirstLine'.k = "err" /\ Len(buf') + Len(s2c') = 1)
      BY <3>4, ReplyEnds
    <3>. QED
      BY <3>1, <3>3, <3>5 DEF HeadInv, Waiting
  <2>. QED
    BY <2>1, <2>2
<1>34. CASE ServerRefuses
  <2>1. CASE sock # "open"
    BY <1>34, <2>1 DEF ServerRefuses, Answers, HeadInv, FirstLine, Waiting, Receiving
  <2>2. CASE sock = "open"
    <3>1. /\ buf = <<>> /\ s2c = <<>> /\ c2s # <<>> /\ c2s' = Tail(c2s)
          /\ s2c' = s2c \o <<Status("err")>> /\ UNCHANGED <<buf, hpc, popState, mesRec, part, sock>>
      BY <1>34, <2>2 DEF ServerRefuses, Answers, LockStepInv
    <3>2. s2c' = <<Status("err")>> /\ c2s' = <<>>
      BY <2>2, <3>1, AnsweredAlone
    <3>3. FirstLine'.k = "err" /\ Len(buf') + Len(s2c') = 1
      BY <3>1, <3>2 DEF FirstLine, Status
    <3>. QED
      BY <3>1, <3>2, <3>3 DEF HeadInv, Waiting
  <2>. QED
    BY <2>1, <2>2
<1>35. CASE ServerQuits
  <2>1. sock # "open"
    BY <1>35 DEF ServerQuits, Answers, LockStepInv, Cmd, TypeOK
  <2>. QED
    BY <1>35, <2>1 DEF ServerQuits, Answers, HeadInv, FirstLine, Waiting, Receiving
<1>36. CASE ServerGivesUp
  BY <1>36 DEF ServerGivesUp, HeadInv, FirstLine, Waiting, Receiving, MultiLine
<1>37. CASE MailArrives
  BY <1>37 DEF MailArrives, HeadInv, FirstLine, Waiting, Receiving, MultiLine
<1>38. CASE MailVanishes
  BY <1>38 DEF MailVanishes, HeadInv, FirstLine, Waiting, Receiving, MultiLine
<1>39. CASE UserMarks
  BY <1>39 DEF UserMarks, Idle, Intervention, HeadInv, FirstLine, Waiting, Receiving,
     MultiLine
<1>40. CASE UserForgets
  BY <1>40 DEF UserForgets, Idle, Intervention, HeadInv, FirstLine, Waiting, Receiving,
     MultiLine
<1>41. CASE UserWithdraws
  BY <1>41 DEF UserWithdraws, Idle, HeadInv, FirstLine, Waiting, Receiving,
     MultiLine
<1>42. CASE UNCHANGED vars
  BY <1>42 DEF vars, HeadInv, FirstLine, Waiting, Receiving, MultiLine
<1>. QED
  BY <1>1, <1>2, <1>3, <1>4, <1>5, <1>6, <1>7, <1>8, <1>9, <1>10, <1>11, <1>12, <1>13,
     <1>14, <1>15, <1>16, <1>17, <1>18, <1>19, <1>20, <1>21, <1>22, <1>23, <1>24,
     <1>25, <1>26, <1>27, <1>28, <1>29, <1>30, <1>31, <1>32, <1>33, <1>34, <1>35,
     <1>36, <1>37, <1>38, <1>39, <1>40, <1>41, <1>42
     DEF Next, ProcessLine, HelperLoop, Connection, Server, User

-----------------------------------------------------------------------------
(* What is in the box is in the list, with its number, before it is traversed.*)

\* A session numbers all that is in the box.
LEMMA SessionHasBox ==
  ASSUME TypeOK, Connects PROVE \A u \in box : \E n \in 1..Len(sess') : sess'[n] = u
<1>. DEFINE D == 1..Cardinality(box)
<1>1. IsFiniteSet(box) /\ Cardinality(box) \in Nat
  BY FS_CardinalityType DEF TypeOK
<1>2. sess' \in [D -> box] /\ \A i, j \in D : i # j => sess'[i] # sess'[j]
  BY DEF Connects, SetToSeqs
<1>3. sess' \in Injection(D, box)
  BY <1>2 DEF Injection, IsInjective
<1>4. Cardinality(D) = Cardinality(box)
  <2>1. Cardinality(D) = IF 1 > Cardinality(box) THEN 0 ELSE Cardinality(box) - 1 + 1
    BY <1>1, FS_Interval
  <2>. QED
    BY <1>1, <2>1
<1>5. sess' \in Surjection(D, box)
  BY <1>1, <1>3, <1>4, FS_Injection
<1>6. Len(sess') = Cardinality(box)
  BY <1>1, <1>2
<1>. QED
  BY <1>5, <1>6 DEF Surjection

LEMMA KnownInvStep ==
  DialogueInv /\ CommandInv /\ HeadInv /\ FreshInv /\ NumberingInv /\ KnownInv
    /\ [Next]_vars => KnownInv'
<1>. SUFFICES ASSUME DialogueInv, CommandInv, HeadInv, FreshInv, NumberingInv, KnownInv,
                     [Next]_vars
              PROVE  KnownInv'
  OBVIOUS
<1>. /\ TypeOK /\ LockStepInv /\ NumbersInv /\ CommandInv /\ HeadInv /\ FreshInv
     /\ NumberingInv /\ KnownInv
  BY DEF DialogueInv
<1>. /\ c2s \in Seq(Command) /\ buf \in Seq(Line) /\ s2c \in Seq(Line)
     /\ Len(buf) \in Nat /\ Len(s2c) \in Nat
  BY DEF TypeOK
<1>. DEFINE Has(u, m) == \E i \in 1..Len(mails) : mails[i].uidl = u /\ mails[i].num = m
<1>. SUFFICES ASSUME NEW u, NEW m, u \in box', Has(u, m)' PROVE Known(u, m)'
  BY DEF KnownInv, Known, Coming, OnWay
<1>60. Has(u, m) /\ u \in box => Known(u, m)
  BY DEF KnownInv, Known, Coming, OnWay
<1>61. mails' = mails /\ box' \subseteq box \cup fresh => Has(u, m) /\ u \in box /\ Known(u, m)
  BY <1>60 DEF FreshInv
<1>62. buf' = buf /\ s2c' \in {s2c, <<>>} => (Ending' => Ending /\ \A n : Coming(n, u) => Coming(n, u)')
  BY KeepFlow
<1>63. hpc # "line" => popState \in Late \cup {"GREETING"}
  BY DEF CommandInv
<1>. HIDE DEF Has
<1>1. CASE Refused
  <2>1. TakeLine /\ ~RespOk /\ part' = "none" /\ sock' # "open" /\ s2c' = <<>>
        /\ UNCHANGED <<hpc, popState, mails, box>> /\ (popState \in MultiLine => ~mesRec)
    BY <1>1 DEF Refused, EndConnect, EndSession, TakeLine
  <2>2. TakeLine => line = buf[1] /\ buf # <<>> /\ hpc = "line" /\ (Len(buf) = 1 => buf' = <<>>)
    BY DEF TakeLine, line
  <2>3. popState = "GET_UIDL_LIST" => line.k # "ok"
    BY <2>1, <2>2 DEF RespOk, HeadInv, Waiting
  <2>4. popState = "GET_UIDL_LIST" => buf' = <<>>
    <3>1. popState = "GET_UIDL_LIST" => Len(buf) + Len(s2c) = 1
      BY <2>1, <2>2, <2>3 DEF HeadInv, FirstLine, MultiLine
    <3>2. Len(buf) >= 1 /\ Len(s2c) >= 0
      BY <2>1, <2>2
    <3>3. \A a, b \in Nat : a >= 1 /\ a + b = 1 => a = 1
      OBVIOUS
    <3>4. popState = "GET_UIDL_LIST" => Len(buf) = 1
      BY <3>1, <3>2, <3>3
    <3>. QED
      BY <2>1, <2>2, <3>4
  <2>5. popState = "GET_UIDL_LIST" => ~Ending'
    BY <2>1, <2>4 DEF Ending
  <2>. QED
    BY <1>61, <2>1, <2>5 DEF Known, Late, Receiving
<1>2. CASE Greeting
  BY <1>2, <1>61, <1>62, <1>63 DEF Greeting, Accepted, TakeLine, Known, Late, Receiving
<1>3. CASE VerLogin
  BY <1>3, <1>61, <1>62, <1>63 DEF VerLogin, Accepted, TakeLine, Known, Late, Receiving
<1>4. CASE VerPass
  BY <1>4, <1>61, <1>62, <1>63 DEF VerPass, Accepted, TakeLine, Known, Late, Receiving
<1>5. CASE GetStat
  <2>1. TakeLine /\ popState' \in {"GET_UIDL_LIST", "GREETING"} /\ (sock' = "open" => sock = "open")
        /\ popState = "GET_STAT" /\ s2c' \in {s2c, <<>>} /\ UNCHANGED <<mails, server>>
    BY <1>5 DEF GetStat, Accepted, TakeLine, EndConnect, EndSession
  <2>2. buf' = <<>> /\ s2c' = <<>>
    BY <2>1, TakeLineDots DEF MultiLine, Receiving
  <2>3. ~Ending'
    BY <2>2 DEF Ending
  <2>. QED
    BY <1>61, <2>1, <2>3 DEF Known, Late, Receiving
<1>6. CASE ListBegins
  <2>1. TakeLine /\ popState \in {"GET_UIDL_LIST", "GET_LIST"} /\ ~mesRec
        /\ UNCHANGED <<mails, popState, hpc, net, server>>
    BY <1>6 DEF ListBegins, ReplyBegins, TakeLine
  <2>2. line.k # "entry" /\ hpc = "line"
    BY <2>1 DEF HeadInv, TakeLine, line, FirstLine
  <2>3. Ending' => Ending /\ \A n : Coming(n, u) => Coming(n, u)'
    BY <2>1, <2>2, TakeFlow
  <2>. QED
    BY <1>61, <2>1, <2>2, <2>3 DEF Known, Late, Receiving
<1>7. CASE UidlEntry
  <2>1. PICK num \in Nat, v \in Names :
          /\ \/ v \in Uidl /\ num = line.n /\ v = line.u /\ line.k = "entry" /\ Coming(num, v)
             \/ v = Junk /\ num = 0 /\ line.k # "entry"
          /\ \A i \in 1..Len(mails') :
               \/ /\ i \in 1..Len(mails) /\ mails'[i].uidl = mails[i].uidl
                  /\ mails'[i].state = mails[i].state
                  /\ mails'[i].num = IF mails[i].uidl = v THEN num ELSE mails[i].num
               \/ /\ \A j \in 1..Len(mails) : mails[j].uidl # v
                  /\ mails'[i].uidl = v /\ mails'[i].num = num
                  /\ mails'[i].state \in {"BIG", "LOAD_FULL", "LOAD_HEADER"}
          /\ \A i \in 1..Len(mails) : i \in 1..Len(mails') /\ mails'[i].uidl = mails[i].uidl
    BY <1>7, UidlEntryList
  <2>2. TakeLine /\ popState = "GET_UIDL_LIST" /\ UNCHANGED <<popState, hpc, net, server>>
    BY <1>7 DEF UidlEntry, InReply, TakeLine
  <2>3. Ending' => Ending /\ \A n : Coming(n, u) =>
                       Coming(n, u)' \/ (line.k = "entry" /\ line.n = n /\ line.u = u)
    BY <2>2, TakeFlow
  <2>4. u \in Uidl /\ u # Junk
    BY <2>2, UidlAssumption DEF TypeOK
  <2>5. CASE u = v
    <3>1. m = num /\ Coming(num, u) /\ m >= 1
      BY <2>1, <2>4, <2>5 DEF NumberingInv, Has
    <3>2. sock = "open" => Listed(num, u)
      BY <2>2, <3>1 DEF NumbersInv, Coming, OnWay
    <3>. QED
      BY <2>2, <3>1, <3>2 DEF Known, Late, Receiving, Listed
  <2>6. CASE u # v
    <3>1. Has(u, m) /\ Known(u, m)
      BY <1>60, <2>1, <2>2, <2>6 DEF Has
    <3>2. Ending' => \A n : Coming(n, u) => Coming(n, u)'
      BY <2>1, <2>3, <2>6
    <3>. QED
      BY <2>2, <2>3, <3>1, <3>2 DEF Known, Late, Receiving
  <2>. QED
    BY <2>5, <2>6
<1>8. CASE UidlEnds
  <2>1. TakeLine /\ popState = "GET_UIDL_LIST" /\ popState' = "GET_LIST" /\ line.k = "dot"
        /\ UNCHANGED <<mails, hpc, sock, server>>
    BY <1>8 DEF UidlEnds, TakeLine
  <2>2. hpc = "line" /\ buf # <<>> /\ buf[1].k = "dot" /\ Len(buf) >= 1
    BY <2>1 DEF TakeLine, line
  <2>3. Ending /\ Len(buf) = 1 /\ s2c = <<>>
    <3>1. 1 \in 1..Len(buf)
      BY <2>2
    <3>2. 1 = Len(buf) /\ s2c = <<>>
      BY <2>2, <3>1 DEF LockStepInv
    <3>. QED
      BY <2>2, <3>1, <3>2 DEF Ending
  <2>4. \A n : ~Coming(n, u)
    BY <2>2, <2>3 DEF Coming, OnWay
  <2>. QED
    BY <1>61, <2>1, <2>2, <2>3, <2>4 DEF Known, Late, Receiving
<1>9. CASE ListEntry
  <2>1. popState = "GET_LIST" /\ UNCHANGED <<popState, hpc, net, server>>
    BY <1>9 DEF ListEntry, InReply, TakeLine
  <2>2. Has(u, m)
    BY <1>9, ListEntryList DEF Has
  <2>. QED
    BY <1>60, <2>1, <2>2 DEF Known, Late, Receiving
<1>10. CASE ListEnds
  BY <1>10, <1>61, <1>62, <1>63 DEF ListEnds, InReply, TakeLine, Known, Late, Receiving
<1>11. CASE MailBegins
  BY <1>11, <1>61, <1>62, <1>63 DEF MailBegins, ReplyBegins, TakeLine, Known, Late,
     Receiving
<1>12. CASE MailCannotOpen
  BY <1>12, <1>61, <1>62, <1>63 DEF MailCannotOpen, Fault, EndSession, TakeLine, Known,
     Late, Receiving
<1>13. CASE MailText
  BY <1>13, <1>61, <1>62, <1>63 DEF MailText, InReply, TakeLine, Known, Late, Receiving
<1>14. CASE MailEnds
  <2>1. popState \in Receiving /\ UNCHANGED <<popState, net, server>>
    BY <1>14 DEF MailEnds, InReply, TakeLine
  <2>2. Has(u, m)
    BY <1>14, MailEndsList DEF Has
  <2>. QED
    BY <1>60, <2>1, <2>2 DEF Known, Late, Receiving
<1>15. CASE Deleted
  BY <1>15, <1>61, <1>62, <1>63 DEF Deleted, TakeLine, Known, Late, Receiving
<1>16. CASE WriteOpens
  BY <1>16, <1>61, <1>62, <1>63 DEF WriteOpens, Known, Late, Receiving
<1>17. CASE WriteRecord
  BY <1>17, <1>61, <1>62, <1>63 DEF WriteRecord, Known, Late, Receiving
<1>18. CASE WriteCloses
  BY <1>18, <1>61, <1>62, <1>63 DEF WriteCloses, Known, Late, Receiving
<1>19. CASE WriteFails
  BY <1>19, <1>61, <1>62, <1>63 DEF WriteFails, Fault, Known, Late, Receiving
<1>20. CASE DeleteLoaded
  BY <1>20, <1>61, <1>62 DEF DeleteLoaded, Known, Late, Receiving, CommandInv
<1>21. CASE WalkLosted
  <2>1. hpc # "line" /\ UNCHANGED <<popState, sock, server>>
    BY <1>21 DEF WalkLosted, Walking
  <2>2. Has(u, m)
    BY <1>21, RemovedList DEF Has
  <2>. QED
    BY <1>60, <1>63, <2>1, <2>2 DEF Known, Late, Receiving
<1>22. CASE WalkKept
  BY <1>22, <1>61, <1>62, <1>63 DEF WalkKept, Walking, next, Known, Late, Receiving
<1>23. CASE WalkLoads
  BY <1>23, <1>61, <1>62 DEF WalkLoads, Walking, Known, Late, Receiving, CommandInv
<1>24. CASE WalkDeletes
  <2>1. hpc = "walk" /\ popState' = "DELETE_MESSAGE" /\ UNCHANGED <<sock, server>>
    BY <1>24 DEF WalkDeletes, Walking
  <2>2. Has(u, m)
    BY <1>24, RemovedList DEF Has
  <2>. QED
    BY <1>60, <2>1, <2>2 DEF Known, Late, Receiving, CommandInv
<1>25. CASE WalkEnds
  BY <1>25, <1>61, <1>62, <1>63 DEF WalkEnds, Known, Late, Receiving
<1>26. CASE Done
  BY <1>26, <1>61, <1>62, <1>63 DEF Done, EndConnect, EndSession, Known, Late, Receiving
<1>27. CASE Receives
  BY <1>27, <1>61, ReceiveFlow DEF Receives, Idle, Known, Late, Receiving
<1>28. CASE Connects
  <2>1. popState' = "GREETING" /\ UNCHANGED box
    BY <1>28 DEF Connects
  <2>2. \E n \in 1..Len(sess') : sess'[n] = u
    BY <1>28, <2>1, SessionHasBox
  <2>. QED
    BY <2>1, <2>2 DEF Known, Late, Receiving
<1>29. CASE SockClosed
  BY <1>29, <1>61, <1>62, <1>63 DEF SockClosed, Known, Late, Receiving
<1>30. CASE Drops
  BY <1>30, <1>61, <1>62, <1>63 DEF Drops, Fault, Idle, Known, Late, Receiving
<1>31. CASE Stops
  BY <1>31, <1>61, <1>62, <1>63 DEF Stops, Idle, Intervention, EndConnect, EndSession,
     Known, Late, Receiving
<1>32. CASE Crashes
  BY <1>32 DEF Crashes, Has
<1>33. CASE ServerReplies
  <2>1. UNCHANGED <<memory, sock, sess, box>> /\ (sock # "open" => s2c' = s2c) /\ c2s # <<>>
    BY <1>33 DEF ServerReplies, Answers
  <2>2. CASE sock # "open"
    BY <1>61, <1>62, <2>1, <2>2 DEF Known, Late, Receiving
  <2>3. CASE sock = "open"
    <3>1. Known(u, m)
      BY <1>61, <2>1
    <3>2. PICK n \in 1..Len(sess) : Listed(n, u)
      BY <2>3, <3>1 DEF Known, Listed
    <3>3. popState = "GET_UIDL_LIST" => Coming(n, u)'
      BY <1>33, <2>1, <2>3, <3>2, ReplyFlow DEF CommandInv
    <3>4. n \in Nat
      BY <3>2
    <3>. QED
      BY <2>1, <3>1, <3>3, <3>4 DEF Known, Late, Receiving
  <2>. QED
    BY <2>2, <2>3
<1>34. CASE ServerRefuses
  <2>1. UNCHANGED <<memory, sock, server>> /\ (sock # "open" => s2c' = s2c) /\ c2s # <<>>
        /\ (sock = "open" => s2c' = s2c \o <<Status("err")>>)
    BY <1>34 DEF ServerRefuses, Answers
  <2>2. CASE sock # "open"
    BY <1>61, <1>62, <2>1, <2>2 DEF Known, Late, Receiving
  <2>3. CASE sock = "open"
    <3>1. Known(u, m)
      BY <1>61, <2>1
    <3>2. buf' = <<>> /\ s2c' = <<Status("err")>>
      BY <2>1, <2>3 DEF LockStepInv
    <3>3. Status("err").k = "err"
      BY DEF Status
    <3>4. ~Ending'
      BY <3>2, <3>3, StatusFlow
    <3>. QED
      BY <2>1, <3>1, <3>4 DEF Known, Late, Receiving
  <2>. QED
    BY <2>2, <2>3
<1>35. CASE ServerQuits
  <2>1. sock # "open"
    BY <1>35 DEF ServerQuits, Answers, LockStepInv, Cmd
  <2>. QED
    BY <1>35, <1>61, <1>62, <2>1 DEF ServerQuits, Answers, Known
<1>36. CASE ServerGivesUp
  BY <1>36, <1>61, <1>62, <1>63 DEF ServerGivesUp, Known, Late, Receiving
<1>37. CASE MailArrives
  BY <1>37, <1>61, <1>62, <1>63 DEF MailArrives, Known, Late, Receiving
<1>38. CASE MailVanishes
  BY <1>38, <1>61, <1>62, <1>63 DEF MailVanishes, Known, Late, Receiving
<1>39. CASE UserMarks
  BY <1>39, <1>61, <1>62, <1>63 DEF UserMarks, Idle, Intervention, Known, Late, Receiving
<1>40. CASE UserForgets
  BY <1>40, <1>61, <1>62, <1>63 DEF UserForgets, Idle, Intervention, Known, Late, Receiving
<1>41. CASE UserWithdraws
  BY <1>41, <1>61, <1>62, <1>63 DEF UserWithdraws, Idle, Known, Late, Receiving
<1>42. CASE UNCHANGED vars
  BY <1>42, <1>61, <1>62, <1>63 DEF vars, Known, Late, Receiving
<1>. QED
  BY <1>1, <1>2, <1>3, <1>4, <1>5, <1>6, <1>7, <1>8, <1>9, <1>10, <1>11, <1>12, <1>13,
     <1>14, <1>15, <1>16, <1>17, <1>18, <1>19, <1>20, <1>21, <1>22, <1>23, <1>24,
     <1>25, <1>26, <1>27, <1>28, <1>29, <1>30, <1>31, <1>32, <1>33, <1>34, <1>35,
     <1>36, <1>37, <1>38, <1>39, <1>40, <1>41, <1>42
     DEF Next, ProcessLine, HelperLoop, Connection, Server, User

-----------------------------------------------------------------------------
(* Big letters, mails.db and the .eml files.                               *)

\* The actions that change the file, the .eml files, the list and the box.
LEMMA Frames ==
  [Next]_vars =>
    /\ disk' = disk \/ WriteOpens \/ WriteRecord \/ Crashes \/ User
    /\ eml' = eml \/ MailBegins \/ MailEnds \/ WalkLosted \/ WalkDeletes
    /\ \/ mails' = mails \/ UidlEntry \/ ListEntry \/ MailEnds
       \/ WalkLosted \/ WalkDeletes \/ Connects \/ Crashes
    /\ box' \subseteq box \/ MailArrives
<1>. SUFFICES ASSUME [Next]_vars
              PROVE  /\ disk' = disk \/ WriteOpens \/ WriteRecord \/ Crashes \/ User
                     /\ eml' = eml \/ MailBegins \/ MailEnds \/ WalkLosted \/ WalkDeletes
                     /\ \/ mails' = mails \/ UidlEntry \/ ListEntry \/ MailEnds
                        \/ WalkLosted \/ WalkDeletes \/ Connects \/ Crashes
                     /\ box' \subseteq box \/ MailArrives
  OBVIOUS
<1>1. Refused \/ Greeting \/ VerLogin \/ VerPass \/ GetStat \/ UNCHANGED vars =>
        UNCHANGED <<disk, eml, mails, box>>
  BY DEF Refused, Greeting, VerLogin, VerPass, GetStat, Accepted, TakeLine, vars
<1>2. ListBegins \/ UidlEnds \/ ListEnds \/ MailCannotOpen \/ MailText \/ Deleted =>
        UNCHANGED <<disk, eml, mails, box>>
  BY DEF ListBegins, UidlEnds, ListEnds, MailCannotOpen, MailText, Deleted, ReplyBegins,
         InReply, TakeLine
<1>3. UidlEntry \/ ListEntry => UNCHANGED <<disk, eml, box>>
  BY DEF UidlEntry, ListEntry, InReply, TakeLine
<1>4. (MailBegins => UNCHANGED mails) /\ (MailBegins \/ MailEnds => UNCHANGED <<disk, box>>)
  BY DEF MailBegins, MailEnds, ReplyBegins, InReply, TakeLine
<1>5. WriteOpens \/ WriteRecord => UNCHANGED <<eml, mails, box>>
  BY DEF WriteOpens, WriteRecord
<1>6. WriteCloses \/ WriteFails \/ DeleteLoaded \/ WalkKept \/ WalkLoads \/ WalkEnds \/ Done =>
        UNCHANGED <<disk, eml, mails, box>>
  BY DEF WriteCloses, WriteFails, DeleteLoaded, WalkKept, WalkLoads, WalkEnds, Done, Walking
<1>7. WalkLosted \/ WalkDeletes => UNCHANGED <<disk, box>>
  BY DEF WalkLosted, WalkDeletes, Walking
<1>8. Receives \/ SockClosed \/ Drops \/ Stops => UNCHANGED <<disk, eml, mails, box>>
  BY DEF Receives, SockClosed, Drops, Stops
<1>9. (Connects => UNCHANGED disk) /\ (Connects \/ Crashes => UNCHANGED <<eml, box>>)
  BY DEF Connects, Crashes
<1>10. ServerReplies \/ ServerRefuses \/ ServerGivesUp => UNCHANGED <<disk, eml, mails, box>>
  BY DEF ServerReplies, ServerRefuses, ServerGivesUp, Answers
<1>11. ServerQuits \/ MailVanishes => UNCHANGED <<disk, eml, mails>> /\ box' \subseteq box
  BY DEF ServerQuits, MailVanishes, Answers
<1>12. MailArrives => UNCHANGED <<disk, eml, mails>>
  BY DEF MailArrives
<1>13. User => UNCHANGED <<eml, mails, box>>
  BY DEF User, UserMarks, UserWithdraws, UserForgets
<1>. QED
  BY <1>1, <1>2, <1>3, <1>4, <1>5, <1>6, <1>7, <1>8, <1>9, <1>10, <1>11, <1>12, <1>13
     DEF Next, ProcessLine, HelperLoop, Connection, Server, User

LEMMA SizesInMemory ==
  DialogueInv /\ CommandInv /\ HeadInv /\ NumberingInv /\ SizesInv /\ [Next]_vars =>
    \A i \in 1..Len(mails') : mails'[i].uidl \in Uidl =>
      Sized(mails[i].uidl, mails[i].state, mails[i].num)'
<1>. SUFFICES ASSUME DialogueInv, CommandInv, HeadInv, NumberingInv, SizesInv, [Next]_vars
              PROVE  \A i \in 1..Len(mails') : mails'[i].uidl \in Uidl =>
                       Sized(mails[i].uidl, mails[i].state, mails[i].num)'
  OBVIOUS
<1>. /\ TypeOK /\ LockStepInv /\ NumbersInv /\ CommandInv /\ HeadInv /\ NumberingInv /\ SizesInv
  BY DEF DialogueInv
<1>. /\ c2s \in Seq(Command) /\ buf \in Seq(Line) /\ s2c \in Seq(Line)
     /\ Len(buf) \in Nat /\ Len(s2c) \in Nat
  BY DEF TypeOK
<1>. DEFINE Has(u, s, m) ==
       \E i \in 1..Len(mails) : mails[i].uidl = u /\ mails[i].state = s /\ mails[i].num = m
<1>. SUFFICES ASSUME NEW u \in Uidl, NEW s, NEW m, Has(u, s, m)' PROVE Sized(u, s, m)'
  <2>. SUFFICES ASSUME \A u \in Uidl : \A s, m : Has(u, s, m)' => Sized(u, s, m)',
                       NEW i \in 1..Len(mails'), mails'[i].uidl \in Uidl
                PROVE  Sized(mails[i].uidl, mails[i].state, mails[i].num)'
    OBVIOUS
  <2>1. PICK u, s, m : u = mails'[i].uidl /\ s = mails'[i].state /\ m = mails'[i].num
    OBVIOUS
  <2>2. u \in Uidl /\ Has(u, s, m)'
    BY <2>1
  <2>. HIDE DEF Has
  <2>3. Sized(u, s, m)'
    BY <2>2
  <2>4. Coming(mails[i].num, mails[i].uidl)' <=> Coming(m, u)'
    BY <2>1 DEF Coming, OnWay
  <2>. QED
    BY <2>1, <2>3, <2>4 DEF Sized
<1>60. Has(u, s, m) => Sized(u, s, m)
  BY DEF SizesInv
<1>61. mails' = mails => Has(u, s, m) /\ Sized(u, s, m)
  BY <1>60
<1>62. buf' = buf /\ s2c' \in {s2c, <<>>} => (Ending' => Ending /\ (Coming(m, u) => Coming(m, u)'))
  BY KeepFlow
<1>63. hpc # "line" => popState \in Late \cup {"GREETING"}
  BY DEF CommandInv
<1>. HIDE DEF Has
<1>1. CASE Refused
  <2>1. TakeLine /\ ~RespOk /\ UNCHANGED <<hpc, popState, mails>> /\ s2c' = <<>>
        /\ (popState \in MultiLine => ~mesRec)
    BY <1>1 DEF Refused, EndConnect, EndSession, TakeLine
  <2>2. TakeLine => line = buf[1] /\ buf # <<>> /\ hpc = "line" /\ (Len(buf) = 1 => buf' = <<>>)
    BY DEF TakeLine, line
  <2>3. popState = "GET_LIST" => line.k # "ok"
    BY <2>1, <2>2 DEF RespOk, HeadInv, Waiting
  <2>4. popState = "GET_LIST" => buf' = <<>>
    <3>1. popState = "GET_LIST" => Len(buf) + Len(s2c) = 1
      BY <2>1, <2>2, <2>3 DEF HeadInv, FirstLine, MultiLine
    <3>2. Len(buf) >= 1 /\ Len(s2c) >= 0
      BY <2>1, <2>2
    <3>3. \A a, b \in Nat : a >= 1 /\ a + b = 1 => a = 1
      OBVIOUS
    <3>4. popState = "GET_LIST" => Len(buf) = 1
      BY <3>1, <3>2, <3>3
    <3>. QED
      BY <2>1, <2>2, <3>4
  <2>5. popState = "GET_LIST" => ~Ending'
    BY <2>1, <2>4 DEF Ending
  <2>. QED
    BY <1>61, <2>1, <2>5 DEF Sized, Late, Receiving
<1>2. CASE Greeting
  BY <1>2, <1>61, <1>62, <1>63 DEF Greeting, Accepted, TakeLine, Sized, Late, Receiving
<1>3. CASE VerLogin
  BY <1>3, <1>61, <1>62, <1>63 DEF VerLogin, Accepted, TakeLine, Sized, Late, Receiving
<1>4. CASE VerPass
  BY <1>4, <1>61, <1>62, <1>63 DEF VerPass, Accepted, TakeLine, Sized, Late, Receiving
<1>5. CASE GetStat
  <2>1. TakeLine /\ popState' \in {"GET_UIDL_LIST", "GREETING"} /\ hpc = "line" /\ UNCHANGED <<hpc, mails>>
    BY <1>5 DEF GetStat, Accepted, TakeLine
  <2>. QED
    BY <1>61, <2>1 DEF Sized, Late, Receiving
<1>6. CASE ListBegins
  <2>1. TakeLine /\ popState \in {"GET_UIDL_LIST", "GET_LIST"} /\ ~mesRec
        /\ UNCHANGED <<mails, popState, hpc, s2c>>
    BY <1>6 DEF ListBegins, ReplyBegins, TakeLine
  <2>2. line.k # "entry" /\ hpc = "line"
    BY <2>1 DEF HeadInv, TakeLine, line, FirstLine
  <2>3. Ending' => Ending /\ (Coming(m, u) => Coming(m, u)')
    BY <2>1, <2>2, TakeFlow
  <2>. QED
    BY <1>61, <2>1, <2>2, <2>3 DEF Sized, Late, Receiving
<1>7. CASE UidlEntry
  <2>1. PICK num \in Nat, v \in Names :
          /\ \/ v \in Uidl /\ num = line.n /\ v = line.u /\ line.k = "entry" /\ Coming(num, v)
             \/ v = Junk /\ num = 0 /\ line.k # "entry"
          /\ \A i \in 1..Len(mails') :
               \/ /\ i \in 1..Len(mails) /\ mails'[i].uidl = mails[i].uidl
                  /\ mails'[i].state = mails[i].state
                  /\ mails'[i].num = IF mails[i].uidl = v THEN num ELSE mails[i].num
               \/ /\ \A j \in 1..Len(mails) : mails[j].uidl # v
                  /\ mails'[i].uidl = v /\ mails'[i].num = num
                  /\ mails'[i].state \in {"BIG", "LOAD_FULL", "LOAD_HEADER"}
    BY <1>7, UidlEntryList
  <2>2. hpc = "line" /\ popState = "GET_UIDL_LIST" /\ UNCHANGED <<popState, hpc>>
    BY <1>7 DEF UidlEntry, InReply, TakeLine
  <2>3. u # Junk
    BY UidlAssumption
  <2>4. CASE u = v
    <3>1. num >= 1
      BY <2>1, <2>3, <2>4 DEF NumberingInv
    <3>2. m = num /\ (s \in {"BIG", "LOAD_FULL", "LOAD_HEADER"} \/ \E k : Has(u, s, k))
      BY <2>1, <2>4 DEF Has
    <3>3. s # "ODD"
      BY <3>2 DEF SizesInv, Sized, Has
    <3>. QED
      BY <2>2, <3>1, <3>2, <3>3 DEF Sized, Late, Receiving
  <2>5. CASE u # v
    <3>1. Has(u, s, m) /\ Sized(u, s, m)
      BY <1>60, <2>1, <2>5 DEF Has
    <3>. QED
      BY <2>2, <3>1 DEF Sized, Late, Receiving
  <2>. QED
    BY <2>4, <2>5
<1>8. CASE UidlEnds
  <2>1. TakeLine /\ popState' = "GET_LIST" /\ line.k = "dot" /\ UNCHANGED <<mails, hpc, s2c>>
    BY <1>8 DEF UidlEnds, TakeLine
  <2>2. hpc = "line" /\ buf' = <<>> /\ s2c' = <<>>
    BY <2>1, TakeLineDots DEF TakeLine
  <2>3. ~Ending'
    BY <2>2 DEF Ending
  <2>. QED
    BY <1>61, <2>1, <2>2, <2>3 DEF Sized, Late, Receiving
<1>9. CASE ListEntry
  <2>1. TakeLine /\ hpc = "line" /\ line.k = "entry" /\ UNCHANGED <<popState, hpc, s2c>> /\ popState = "GET_LIST"
    BY <1>9 DEF ListEntry, InReply, TakeLine
  <2>2. Coming(line.n, line.u) /\ line.n \in Nat /\ line.u \in Uidl
    <3>1. line \in Line
      BY <2>1, TakeLineType
    <3>. QED
      BY <2>1, <3>1, TakeFlow DEF Line
  <2>3. Ending' => Ending /\ (Coming(m, u) => Coming(m, u)' \/ (line.n = m /\ line.u = u))
    BY <2>1, TakeFlow
  <2>4. PICK i \in 1..Len(mails) : /\ mails[i].uidl = u /\ mails[i].num = m
                                   /\ mails[i].state = s \/ s \in LoadStates
                                   /\ mails'[i].state = s
    BY <1>9, ListEntryList DEF Has
  <2>5. CASE mails[i].state = s
    <3>1. Sized(u, s, m)
      BY <1>60, <2>4, <2>5 DEF Has
    <3>2. s = "BIG" => ~(line.n = m /\ line.u = u)
      <4>1. s = "BIG" /\ line.n = m => \A j \in 1..Len(mails) : mails[j].num = line.n => j = i
        BY <2>4, <3>1 DEF NumberingInv, Sized
      <4>2. mails[i].num = line.n /\ (\A j \in 1..Len(mails) : mails[j].num = line.n => j = i) => s # "BIG"
        BY <1>9, <2>4, ListEntryList
      <4>. QED
        BY <2>4, <4>1, <4>2
    <3>. QED
      BY <2>1, <2>3, <3>1, <3>2 DEF Sized
  <2>6. CASE s \in LoadStates
    BY <2>6 DEF Sized, LoadStates
  <2>. QED
    BY <2>4, <2>5, <2>6
<1>10. CASE ListEnds
  <2>1. /\ popState = "GET_LIST" /\ hpc = "line" /\ TakeLine /\ line.k = "dot"
        /\ mails' = mails
    BY <1>10 DEF ListEnds, InReply, TakeLine
  <2>2. buf # <<>> /\ buf[1].k = "dot" /\ Len(buf) >= 1
    BY <2>1 DEF TakeLine, line
  <2>3. Ending /\ Len(buf) = 1 /\ s2c = <<>>
    <3>1. 1 \in 1..Len(buf)
      BY <2>2
    <3>2. 1 = Len(buf) /\ s2c = <<>>
      BY <2>2, <3>1 DEF LockStepInv
    <3>. QED
      BY <2>2, <3>1, <3>2 DEF Ending
  <2>4. ~Coming(m, u)
    BY <2>2, <2>3 DEF Coming, OnWay
  <2>. QED
    BY <1>61, <2>1, <2>3, <2>4 DEF Sized
<1>11. CASE MailBegins
  BY <1>11, <1>61, <1>62, <1>63 DEF MailBegins, ReplyBegins, TakeLine, Sized, Late,
     Receiving
<1>12. CASE MailCannotOpen
  BY <1>12, <1>61, <1>62, <1>63 DEF MailCannotOpen, Fault, EndSession, TakeLine, Sized,
     Late, Receiving
<1>13. CASE MailText
  BY <1>13, <1>61, <1>62, <1>63 DEF MailText, InReply, TakeLine, Sized, Late, Receiving
<1>14. CASE MailEnds
  <2>1. popState \in Receiving
    BY <1>14 DEF MailEnds, InReply
  <2>2. PICK i \in 1..Len(mails) : mails[i].uidl = u /\ mails'[i].state = s
    BY <1>14, MailEndsList DEF Has
  <2>3. mails[i].state = s \/ s \in {"FULL_LOADED", "HEADERS_LOADED"}
    BY <1>14, <2>2, MailEndsList
  <2>. QED
    BY <2>1, <2>2, <2>3 DEF SizesInv, Sized, Late
<1>15. CASE Deleted
  BY <1>15, <1>61, <1>62, <1>63 DEF Deleted, TakeLine, Sized, Late, Receiving
<1>16. CASE WriteOpens
  BY <1>16, <1>61, <1>62, <1>63 DEF WriteOpens, Sized, Late, Receiving
<1>17. CASE WriteRecord
  BY <1>17, <1>61, <1>62, <1>63 DEF WriteRecord, Sized, Late, Receiving
<1>18. CASE WriteCloses
  BY <1>18, <1>61, <1>62, <1>63 DEF WriteCloses, Sized, Late, Receiving
<1>19. CASE WriteFails
  BY <1>19, <1>61, <1>62, <1>63 DEF WriteFails, Fault, Sized, Late, Receiving
<1>20. CASE DeleteLoaded
  BY <1>20, <1>61, <1>62, <1>63 DEF DeleteLoaded, Sized, Late, Receiving
<1>21. CASE WalkLosted
  <2>1. hpc = "walk"
    BY <1>21 DEF WalkLosted, Walking
  <2>2. Has(u, s, m)
    BY <1>21, RemovedList DEF Has
  <2>. QED
    BY <1>60, <2>1, <2>2 DEF Sized
<1>22. CASE WalkKept
  BY <1>22, <1>61, <1>62, <1>63 DEF WalkKept, Walking, next, Sized, Late, Receiving
<1>23. CASE WalkLoads
  BY <1>23, <1>61, <1>62, <1>63 DEF WalkLoads, Walking, next, Sized, Late, Receiving
<1>24. CASE WalkDeletes
  <2>1. hpc = "walk"
    BY <1>24 DEF WalkDeletes, Walking
  <2>2. Has(u, s, m)
    BY <1>24, RemovedList DEF Has
  <2>. QED
    BY <1>60, <2>1, <2>2 DEF Sized
<1>25. CASE WalkEnds
  BY <1>25, <1>61, <1>62, <1>63 DEF WalkEnds, Sized, Late, Receiving
<1>26. CASE Done
  BY <1>26, <1>61, <1>62, <1>63 DEF Done, EndConnect, EndSession, Sized, Late, Receiving
<1>27. CASE Receives
  BY <1>27, <1>61, ReceiveFlow DEF Receives, Idle, Sized, Late, Receiving
<1>28. CASE Connects
  <2>1. s # "BIG" /\ s # "ODD"
    <3>1. PICK i \in 1..Len(disk) : disk[i].uidl = u /\ disk[i].state = s
      BY <1>28, ConnectsList DEF Has
    <3>2. disk[i] \in Record
      BY <3>1 DEF TypeOK
    <3>. QED
      BY <3>1, <3>2 DEF SizesInv, Record
  <2>. QED
    BY <2>1 DEF Sized
<1>29. CASE SockClosed
  BY <1>29, <1>61, <1>62, <1>63 DEF SockClosed, Sized, Late, Receiving
<1>30. CASE Drops
  BY <1>30, <1>61, <1>62, <1>63 DEF Drops, Fault, Idle, Sized, Late, Receiving
<1>31. CASE Stops
  BY <1>31, <1>61, <1>62, <1>63 DEF Stops, Idle, Intervention, EndConnect, EndSession,
     Sized, Late, Receiving
<1>32. CASE Crashes
  BY <1>32 DEF Crashes, Has
<1>33. CASE ServerReplies
  <2>1. UNCHANGED <<memory, sock>> /\ (sock # "open" => s2c' = s2c) /\ c2s # <<>>
    BY <1>33 DEF ServerReplies, Answers
  <2>2. CASE sock # "open"
    BY <1>61, <1>62, <2>1, <2>2 DEF Sized, Late, Receiving
  <2>3. CASE sock = "open"
    <3>1. Has(u, s, m) /\ Sized(u, s, m)
      BY <1>61, <2>1
    <3>2. s = "BIG" => Listed(m, u)
      BY <2>3, <3>1 DEF Sized, NumbersInv, Has
    <3>3. popState = "GET_LIST" /\ s = "BIG" => Coming(m, u)'
      BY <1>33, <2>1, <2>3, <3>2, ReplyFlow DEF CommandInv
    <3>. QED
      BY <2>1, <3>1, <3>3 DEF Sized, Late, Receiving
  <2>. QED
    BY <2>2, <2>3
<1>34. CASE ServerRefuses
  <2>1. UNCHANGED <<memory, sock>> /\ (sock # "open" => s2c' = s2c) /\ c2s # <<>>
        /\ (sock = "open" => s2c' = s2c \o <<Status("err")>>)
    BY <1>34 DEF ServerRefuses, Answers
  <2>2. CASE sock # "open"
    BY <1>61, <1>62, <2>1, <2>2 DEF Sized, Late, Receiving
  <2>3. CASE sock = "open"
    <3>1. Sized(u, s, m)
      BY <1>61, <2>1
    <3>2. buf' = <<>> /\ s2c' = <<Status("err")>>
      BY <2>1, <2>3 DEF LockStepInv
    <3>3. Status("err").k = "err"
      BY DEF Status
    <3>4. ~Ending'
      BY <3>2, <3>3, StatusFlow
    <3>. QED
      BY <2>1, <3>1, <3>4 DEF Sized, Late, Receiving
  <2>. QED
    BY <2>2, <2>3
<1>35. CASE ServerQuits
  <2>1. sock # "open"
    BY <1>35 DEF ServerQuits, Answers, LockStepInv, Cmd
  <2>. QED
    BY <1>35, <1>61, <1>62, <2>1 DEF ServerQuits, Answers, Sized
<1>36. CASE ServerGivesUp
  BY <1>36, <1>61, <1>62, <1>63 DEF ServerGivesUp, Sized, Late, Receiving
<1>37. CASE MailArrives
  BY <1>37, <1>61, <1>62, <1>63 DEF MailArrives, Sized, Late, Receiving
<1>38. CASE MailVanishes
  BY <1>38, <1>61, <1>62, <1>63 DEF MailVanishes, Sized, Late, Receiving
<1>39. CASE UserMarks
  BY <1>39, <1>61, <1>62, <1>63 DEF UserMarks, Idle, Intervention, Sized, Late, Receiving
<1>40. CASE UserForgets
  BY <1>40, <1>61, <1>62, <1>63 DEF UserForgets, Idle, Intervention, Sized, Late, Receiving
<1>41. CASE UserWithdraws
  BY <1>41, <1>61, <1>62, <1>63 DEF UserWithdraws, Idle, Sized, Late, Receiving
<1>42. CASE UNCHANGED vars
  BY <1>42, <1>61, <1>62, <1>63 DEF vars, Sized, Late, Receiving
<1>. QED
  BY <1>1, <1>2, <1>3, <1>4, <1>5, <1>6, <1>7, <1>8, <1>9, <1>10, <1>11, <1>12, <1>13,
     <1>14, <1>15, <1>16, <1>17, <1>18, <1>19, <1>20, <1>21, <1>22, <1>23, <1>24,
     <1>25, <1>26, <1>27, <1>28, <1>29, <1>30, <1>31, <1>32, <1>33, <1>34, <1>35,
     <1>36, <1>37, <1>38, <1>39, <1>40, <1>41, <1>42
     DEF Next, ProcessLine, HelperLoop, Connection, Server, User

LEMMA SizesInvStep ==
  DialogueInv /\ CommandInv /\ HeadInv /\ NumberingInv /\ SizesInv /\ PrevInv
    /\ [Next]_vars => SizesInv'
<1>. SUFFICES ASSUME DialogueInv, CommandInv, HeadInv, NumberingInv, SizesInv, PrevInv,
                     [Next]_vars
              PROVE  SizesInv'
  OBVIOUS
<1>1. ASSUME NEW i \in 1..Len(disk'), disk'[i].uidl \in Uidl PROVE disk'[i].state # "ODD"
  <2>1. CASE disk' = disk
    BY <1>1, <2>1 DEF SizesInv
  <2>2. CASE WriteOpens
    BY <2>2 DEF WriteOpens
  <2>3. CASE WriteRecord
    <3>1. \A k \in 1..Len(mails) : mails[k].uidl \in Uidl => mails[k].state \notin {"BIG", "ODD"}
      BY <2>3 DEF WriteRecord, SizesInv, Sized
    <3>2. CASE i \in 1..Len(disk) /\ disk'[i] = disk[i]
      BY <1>1, <3>2 DEF SizesInv
    <3>3. CASE i \in 1..Len(mails) /\ disk'[i] = ToRecord(mails[i])
      BY <1>1, <3>1, <3>3 DEF ToRecord
    <3>. QED
      BY <2>3, <3>2, <3>3, WriteRecordList
  <2>4. CASE User
    BY <1>1, <2>4, UserList DEF SizesInv, PrevInv
  <2>5. CASE Crashes
    BY <1>1, <2>5, CrashList, UidlAssumption DEF SizesInv
  <2>. QED
    BY <2>1, <2>2, <2>3, <2>4, <2>5, Frames
<1>2. \A i \in 1..Len(mails') : mails'[i].uidl \in Uidl =>
        Sized(mails[i].uidl, mails[i].state, mails[i].num)'
  BY SizesInMemory
<1>. QED
  BY <1>1, <1>2 DEF SizesInv, Sized, Coming, OnWay

\* The way to POP_GET_UIDL_LIST begins with a connection.
LEMMA BegunStep ==
  DialogueInv /\ [Next]_vars /\ (Waiting /\ popState \in Begun)' =>
    Connects \/ (Waiting /\ popState \in Begun)
<1>. SUFFICES ASSUME DialogueInv, [Next]_vars, (Waiting /\ popState \in Begun)', ~Connects
              PROVE  Waiting /\ popState \in Begun
  OBVIOUS
<1>. LockStepInv
  BY DEF DialogueInv
<1>1. CASE ProcessLine
  <2>1. TakeLine
    BY <1>1, TakesLine
  <2>2. Refused \/ Greeting \/ VerLogin \/ VerPass \/ GetStat => popState \in Begun
    BY DEF Refused, Greeting, VerLogin, VerPass, GetStat, Accepted, Begun
  <2>3. ListBegins \/ MailBegins \/ UidlEntry \/ ListEntry \/ MailText \/ MailCannotOpen =>
          popState' = popState
    BY DEF ListBegins, MailBegins, ReplyBegins, UidlEntry, ListEntry, MailText, InReply,
       MailCannotOpen
  <2>4. ~(UidlEnds \/ ListEnds \/ MailEnds \/ Deleted)
    BY DEF UidlEnds, ListEnds, MailEnds, InReply, Deleted, Begun, Receiving
  <2>. QED
    BY <1>1, <2>1, <2>2, <2>3, <2>4 DEF ProcessLine, TakeLine, Waiting
<1>2. CASE HelperLoop
  <2>1. buf = <<>> /\ buf' = buf /\ hpc # "line"
    BY <1>2 DEF HelperLoop, WriteOpens, WriteRecord, WriteCloses, WriteFails, DeleteLoaded,
                WalkLosted, WalkKept, WalkLoads, WalkDeletes, WalkEnds, Done, Walking, LockStepInv
  <2>2. hpc' = "line" /\ sock' = "open"
    BY <2>1 DEF Waiting
  <2>3. after # "line"
    BY DEF DialogueInv, TypeOK
  <2>4. ~(WriteOpens \/ WriteRecord \/ WriteCloses \/ WriteFails \/ WalkLosted \/ WalkKept \/ WalkEnds)
    BY <2>1, <2>2, <2>3 DEF WriteOpens, WriteRecord, WriteCloses, WriteFails, WalkLosted,
                     WalkKept, WalkEnds, Walking
  <2>5. ~(DeleteLoaded \/ WalkLoads \/ WalkDeletes)
    BY DEF DeleteLoaded, WalkLoads, WalkDeletes, Begun
  <2>6. ~Done
    BY <2>2 DEF Done, EndConnect, EndSession
  <2>. QED
    BY <1>2, <2>4, <2>5, <2>6 DEF HelperLoop
<1>3. CASE Connection
  <2>1. CASE Receives \/ SockClosed \/ Drops
    BY <2>1 DEF Receives, SockClosed, Drops, Idle, Waiting
  <2>2. CASE Stops
    BY <2>2 DEF Stops, EndConnect, EndSession, Idle, Waiting
  <2>3. CASE Crashes
    BY <2>3 DEF Crashes, Waiting
  <2>. QED
    BY <1>3, <2>1, <2>2, <2>3 DEF Connection
<1>4. CASE Server \/ User \/ UNCHANGED vars
  <2>1. UNCHANGED <<memory, sock>>
    BY <1>4 DEF Server, ServerReplies, ServerRefuses, ServerQuits, ServerGivesUp, Answers,
                MailArrives, MailVanishes, User, UserMarks, UserWithdraws, UserForgets, vars
  <2>. QED
    BY <2>1 DEF Waiting
<1>. QED
  BY <1>1, <1>2, <1>3, <1>4 DEF Next

\* What is not in use comes into use by a connection.
LEMMA UseBegins == [Next]_vars /\ InUse' => InUse \/ Connects
<1>. SUFFICES ASSUME [Next]_vars, InUse', ~InUse PROVE Connects
  OBVIOUS
<1>. hpc = "line" /\ buf = <<>> /\ sock # "open"
  BY DEF InUse
<1>1. ~ProcessLine
  BY TakesLine DEF TakeLine
<1>2. ~HelperLoop
  BY DEF HelperLoop, WriteOpens, WriteRecord, WriteCloses, WriteFails, DeleteLoaded,
         WalkLosted, WalkKept, WalkLoads, WalkDeletes, WalkEnds, Done, Walking
<1>3. ~(Receives \/ SockClosed \/ Drops \/ Stops \/ Crashes)
  BY DEF Receives, SockClosed, Drops, Stops, EndConnect, EndSession, Crashes, InUse
<1>4. ~(Server \/ User \/ UNCHANGED vars)
  BY DEF Server, ServerReplies, ServerRefuses, ServerQuits, ServerGivesUp, Answers,
         MailArrives, MailVanishes, User, UserMarks, UserWithdraws, UserForgets, vars, InUse
<1>. QED
  BY <1>1, <1>2, <1>3, <1>4 DEF Next, Connection

LEMMA DiskInvStep ==
  ASSUME "fopen" \notin FaultKinds
  PROVE  DialogueInv /\ DiskInv /\ [Next]_vars => DiskInv'
<1>. SUFFICES ASSUME DialogueInv, DiskInv, [Next]_vars PROVE DiskInv'
  OBVIOUS
<1>. TypeOK /\ NoDuplicates /\ SavedInv
  BY DEF DialogueInv
<1>. SUFFICES ASSUME InUse' \/ (Waiting /\ popState \in Begun)' PROVE DiskInv'
  BY DEF DiskInv
<1>. InUse \/ Connects
  BY UseBegins DEF InUse, Waiting
<1>1. \A i \in 1..Len(disk'), j \in 1..Len(mails') :
         /\ disk'[i].uidl \in Uidl /\ disk'[i].uidl = mails'[j].uidl
         /\ disk'[i].state \in DoneStates
         => mails'[j].state \in DoneStates
  <2>0. CASE Connects
    <3>1. disk' = disk
      BY <2>0 DEF Connects
    <3>. QED
      BY <2>0, <3>1, ConnectsList, UidlAssumption DEF NoDuplicates, UniqueUidl
  <2>. SUFFICES ASSUME InUse, ~Connects
                PROVE  \A i \in 1..Len(disk'), j \in 1..Len(mails') :
                         /\ disk'[i].uidl \in Uidl /\ disk'[i].uidl = mails'[j].uidl
                         /\ disk'[i].state \in DoneStates
                         => mails'[j].state \in DoneStates
    BY <2>0
  <2>1. CASE disk' = disk
    <3>1. CASE mails' = mails
      BY <2>1, <3>1 DEF DiskInv
    <3>2. CASE UidlEntry
      <4>1. Waiting /\ popState \in Begun
        BY <3>2 DEF UidlEntry, InReply, TakeLine, Waiting, Begun
      <4>2. \A i \in 1..Len(disk) : \E j \in 1..Len(mails) : mails[j].uidl = disk[i].uidl
        BY <4>1 DEF DiskInv
      <4>3. PICK u : \A j \in 1..Len(mails') :
              \/ /\ j \in 1..Len(mails) /\ mails'[j].uidl = mails[j].uidl
                 /\ mails'[j].state = mails[j].state
              \/ mails'[j].uidl = u /\ \A k \in 1..Len(mails) : mails[k].uidl # u
        BY <3>2, UidlEntryList
      <4>4. ASSUME NEW i \in 1..Len(disk), NEW j \in 1..Len(mails'),
                   disk[i].uidl \in Uidl, disk[i].uidl = mails'[j].uidl,
                   disk[i].state \in DoneStates
            PROVE  mails'[j].state \in DoneStates
        <5>1. PICK k \in 1..Len(mails) : mails[k].uidl = disk[i].uidl
          BY <4>2
        <5>2. /\ j \in 1..Len(mails) /\ mails'[j].uidl = mails[j].uidl
              /\ mails'[j].state = mails[j].state
          BY <4>3, <4>4, <5>1
        <5>3. mails[j].state \in DoneStates
          BY <4>4, <5>2 DEF DiskInv
        <5>. QED
          BY <5>2, <5>3
      <4>. QED
        BY <2>1, <4>4
    <3>3. CASE ListEntry
      BY <2>1, <3>3, ListEntryList DEF DiskInv, DoneStates
    <3>4. CASE MailEnds
      BY <2>1, <3>4, MailEndsList DEF DiskInv, DoneStates
    <3>5. CASE WalkLosted \/ WalkDeletes
      <4>1. \A i \in 1..Len(mails') : \E j \in 1..Len(mails) : mails'[i] = mails[j]
        BY <3>5, RemovedList
      <4>. QED
        BY <2>1, <4>1 DEF DiskInv
    <3>6. CASE Crashes
      BY <3>6 DEF Crashes
    <3>. QED
      BY <3>1, <3>2, <3>3, <3>4, <3>5, <3>6, Frames
  <2>2. CASE WriteOpens
    BY <2>2 DEF WriteOpens
  <2>3. CASE WriteRecord
    <3>1. mails' = mails
      BY <2>3 DEF WriteRecord
    <3>2. \A i \in 1..Len(mails) : /\ ToRecord(mails[i]).uidl = mails[i].uidl
                                   /\ ToRecord(mails[i]).state \in DoneStates =>
                                        mails[i].state \in DoneStates
      BY DEF ToRecord, DoneStates
    <3>3. \A i \in 1..Len(disk') :
            \/ i \in 1..Len(disk) /\ disk'[i] = disk[i]
            \/ i \in 1..Len(mails) /\ disk'[i] = ToRecord(mails[i])
      BY <2>3, WriteRecordList
    <3>. QED
      BY <3>1, <3>2, <3>3, UidlAssumption DEF DiskInv, NoDuplicates, UniqueUidl
  <2>4. CASE User
    <3>1. mails' = mails
      BY <2>4 DEF User, UserMarks, UserWithdraws, UserForgets
    <3>2. prev = <<>>
      BY DEF DialogueInv, AskedInv
    <3>3. \A i \in 1..Len(disk') : \E j \in 1..Len(disk) :
            /\ disk'[i].uidl = disk[j].uidl
            /\ disk'[i].state = disk[j].state \/ disk'[i].state \in {"LOAD_FULL", "DELETE"}
      BY <2>4, <3>2, UserList
    <3>4. ASSUME NEW i \in 1..Len(disk'), NEW j \in 1..Len(mails),
                 disk'[i].uidl \in Uidl, disk'[i].uidl = mails[j].uidl,
                 disk'[i].state \in DoneStates
          PROVE  mails[j].state \in DoneStates
      <4>1. PICK k \in 1..Len(disk) :
              /\ disk'[i].uidl = disk[k].uidl
              /\ disk'[i].state = disk[k].state \/ disk'[i].state \in {"LOAD_FULL", "DELETE"}
        BY <3>3
      <4>2. disk[k].state \in DoneStates
        BY <3>4, <4>1 DEF DoneStates
      <4>. QED
        BY <3>4, <4>1, <4>2 DEF DiskInv
    <3>. QED
      BY <3>1, <3>4
  <2>5. CASE Crashes
    BY <2>5 DEF Crashes
  <2>. QED
    BY <2>1, <2>2, <2>3, <2>4, <2>5, Frames
<1>2. ASSUME (Waiting /\ popState \in Begun)'
      PROVE  \A i \in 1..Len(disk') : \E j \in 1..Len(mails') : mails'[j].uidl = disk'[i].uidl
  <2>1. CASE Connects
    BY <2>1, ConnectsList DEF Connects
  <2>2. CASE ~Connects
    <3>1. Waiting /\ popState \in Begun /\ hpc = "line"
      BY <1>2, <2>2, BegunStep DEF Waiting
    <3>2. \A i \in 1..Len(disk) : \E j \in 1..Len(mails) : mails[j].uidl = disk[i].uidl
      BY <3>1 DEF DiskInv
    <3>3. \A i \in 1..Len(disk') : \E j \in 1..Len(disk) : disk'[i].uidl = disk[j].uidl
      <4>1. ~WriteOpens /\ ~WriteRecord /\ ~Crashes
        BY <1>2, <3>1 DEF WriteOpens, WriteRecord, Crashes, Waiting
      <4>. QED
        BY <4>1, UserList, Frames
    <3>4. \A i \in 1..Len(mails) : \E j \in 1..Len(mails') : mails'[j].uidl = mails[i].uidl
      <4>1. ~(MailEnds \/ WalkLosted \/ WalkDeletes \/ Crashes)
        BY <1>2, <3>1 DEF MailEnds, InReply, Receiving, Begun, WalkLosted, WalkDeletes,
           Walking,
                          Crashes, Waiting
      <4>. QED
        BY <2>2, <4>1, UidlEntryList, ListEntryList, Frames
    <3>. TAKE i \in 1..Len(disk')
    <3>5. PICK j \in 1..Len(disk) : disk'[i].uidl = disk[j].uidl
      BY <3>3
    <3>6. PICK k \in 1..Len(mails) : mails[k].uidl = disk[j].uidl
      BY <3>2
    <3>. QED
      BY <3>4, <3>5, <3>6
  <2>. QED
    BY <2>1, <2>2
<1>. QED
  BY <1>1, <1>2 DEF DiskInv

LEMMA EmlInvStep ==
  DialogueInv /\ FreshInv /\ DbHonest /\ EmlInv /\ [Next]_vars => EmlInv'
<1>. SUFFICES ASSUME DialogueInv, FreshInv, DbHonest, EmlInv, [Next]_vars PROVE EmlInv'
  OBVIOUS
<1>. TypeOK /\ NoDuplicates /\ CursorInv
  BY DEF DialogueInv
<1>. DEFINE Matches(u, s) == /\ s = "FULL_LOADED" => eml[u] = "full"
                             /\ s = "HEADERS_LOADED" => eml[u] \in {"head", "full"}
<1>1. \A i \in 1..Len(mails) : mails[i].uidl \in box => Matches(mails[i].uidl, mails[i].state)
  BY DEF EmlInv
<1>2. SUFFICES ASSUME NEW i \in 1..Len(mails'), mails'[i].uidl \in box'
               PROVE  Matches(mails[i].uidl, mails[i].state)'
  BY DEF EmlInv
<1>4. mails'[i].uidl \in box
  <2>1. MailArrives => \A j \in 1..Len(mails') : mails'[j].uidl \in box' => mails'[j].uidl \in box
    BY DEF MailArrives, FreshInv
  <2>. QED
    BY <1>2, <2>1, Frames
<1>5. CASE eml' = eml /\ ~MailEnds
  <2>1. CASE mails' = mails
    BY <1>1, <1>4, <1>5, <2>1
  <2>2. CASE UidlEntry
    <3>1. \/ /\ i \in 1..Len(mails) /\ mails'[i].uidl = mails[i].uidl
             /\ mails'[i].state = mails[i].state
          \/ mails'[i].state \in {"BIG", "LOAD_FULL", "LOAD_HEADER"}
      BY <2>2, UidlEntryList
    <3>. QED
      BY <1>1, <1>4, <1>5, <3>1
  <2>3. CASE ListEntry
    <3>1. /\ i \in 1..Len(mails) /\ mails'[i].uidl = mails[i].uidl
          /\ mails'[i].state = mails[i].state \/ mails'[i].state \in LoadStates
      BY <2>3, ListEntryList
    <3>. QED
      BY <1>1, <1>4, <1>5, <3>1 DEF LoadStates
  <2>5. CASE WalkLosted \/ WalkDeletes
    <3>1. \E j \in 1..Len(mails) : mails'[i] = mails[j]
      BY <2>5, RemovedList
    <3>. QED
      BY <1>1, <1>4, <1>5, <3>1
  <2>6. CASE Connects
    BY <1>4, <1>5, <2>6, ConnectsList DEF DbHonest
  <2>7. CASE Crashes
    BY <2>7 DEF Crashes
  <2>. QED
    BY <1>5, <2>1, <2>2, <2>3, <2>5, <2>6, <2>7, Frames
<1>6. CASE MailBegins
  <2>1. /\ cur \in 1..Len(mails) /\ mails[cur].state \in LoadStates /\ mails' = mails
        /\ eml' = [eml EXCEPT ![mails[cur].uidl] = "begun"]
    BY <1>6 DEF MailBegins, ReplyBegins, TakeLine, CursorInv, Waiting
  <2>2. CASE i = cur
    BY <2>1, <2>2 DEF LoadStates
  <2>3. CASE i # cur
    <3>1. mails[i].uidl # mails[cur].uidl
      BY <1>4, <2>1, <2>3, UidlAssumption DEF NoDuplicates, UniqueUidl, TypeOK
    <3>2. eml'[mails[i].uidl] = eml[mails[i].uidl]
      BY <2>1, <3>1 DEF TypeOK
    <3>. QED
      BY <1>1, <1>4, <2>1, <3>2
  <2>. QED
    BY <2>2, <2>3
<1>7. CASE MailEnds
  <2>1. /\ cur \in 1..Len(mails) /\ Len(mails') = Len(mails)
        /\ mails'[cur].uidl = mails[cur].uidl
        /\ eml'[mails[cur].uidl] = IF popState = "RECEIVE_MESSAGE" THEN "full" ELSE "head"
        /\ mails'[cur].state = IF popState = "RECEIVE_MESSAGE" THEN "FULL_LOADED" ELSE "HEADERS_LOADED"
        /\ mails'[i].uidl = mails[i].uidl
        /\ i # cur => mails'[i].state = mails[i].state
        /\ \A u : u # mails[cur].uidl => eml'[u] = eml[u]
    BY <1>7, MailEndsList
  <2>2. CASE i = cur
    BY <2>1, <2>2
  <2>3. CASE i # cur
    <3>1. mails[i].uidl # mails[cur].uidl
      BY <1>4, <2>1, <2>3, UidlAssumption DEF NoDuplicates, UniqueUidl, TypeOK
    <3>. QED
      BY <1>1, <1>4, <2>1, <2>3, <3>1
  <2>. QED
    BY <2>2, <2>3
<1>8. CASE WalkLosted \/ WalkDeletes
  <2>1. PICK j \in 1..Len(mails) :
          /\ mails'[i] = mails[j]
          /\ mails[cur + 1].uidl # Torn => mails[j].uidl # mails[cur + 1].uidl
    BY <1>8, RemovedList
  <2>2. mails[j].uidl # Torn
    BY <1>4, <2>1, UidlAssumption DEF TypeOK
  <2>3. eml'[mails[j].uidl] = eml[mails[j].uidl]
    BY <1>8, <2>1, <2>2, RemovedList
  <2>. QED
    BY <1>1, <1>4, <2>1, <2>3
<1>. QED
  BY <1>5, <1>6, <1>7, <1>8, Frames

\* The .eml file of a mail that mails.db says is loaded does not change, unless
\* do_losted_mes removes the mail.
LEMMA FileChanges ==
  ASSUME DialogueInv, CommandInv, KnownInv, DiskInv, [Next]_vars,
         NEW i \in 1..Len(disk), disk[i].uidl \in Uidl, disk[i].state \in DoneStates
  PROVE  \/ eml'[disk[i].uidl] = eml[disk[i].uidl]
         \/ /\ disk[i].uidl \notin box /\ WalkLosted
            /\ next.uidl = disk[i].uidl /\ next.state # "DELETE"
<1>. TypeOK /\ CursorInv
  BY DEF DialogueInv
<1>1. InUse => \A j \in 1..Len(mails) :
        mails[j].uidl = disk[i].uidl => mails[j].state \in DoneStates
  BY DEF DiskInv
<1>. MailBegins \/ MailEnds \/ WalkLosted \/ WalkDeletes => InUse
  BY DEF MailBegins, ReplyBegins, MailEnds, InReply, TakeLine, WalkLosted, WalkDeletes,
         Walking, InUse
<1>2. CASE MailBegins
  <2>1. /\ cur \in 1..Len(mails) /\ mails[cur].state \in LoadStates
        /\ eml' = [eml EXCEPT ![mails[cur].uidl] = "begun"]
    BY <1>2 DEF MailBegins, ReplyBegins, TakeLine, CursorInv, Waiting
  <2>2. mails[cur].uidl # disk[i].uidl
    BY <1>1, <1>2, <2>1 DEF LoadStates, DoneStates
  <2>. QED
    BY <2>1, <2>2 DEF TypeOK
<1>3. CASE MailEnds
  <2>1. /\ cur \in 1..Len(mails) /\ mails[cur].state \in LoadStates
        /\ \A u : u # mails[cur].uidl => eml'[u] = eml[u]
    BY <1>3, MailEndsList
  <2>2. mails[cur].uidl # disk[i].uidl
    BY <1>1, <1>3, <2>1 DEF LoadStates, DoneStates
  <2>. QED
    BY <2>1, <2>2
<1>4. CASE WalkDeletes
  <2>1. /\ cur + 1 \in 1..Len(mails) /\ mails[cur + 1].state = "DELETE"
        /\ \A u : u # mails[cur + 1].uidl => eml'[u] = eml[u]
    BY <1>4, RemovedList DEF WalkDeletes, next
  <2>2. mails[cur + 1].uidl # disk[i].uidl
    BY <1>1, <1>4, <2>1 DEF DoneStates
  <2>. QED
    BY <2>1, <2>2
<1>5. CASE WalkLosted
  <2>1. /\ cur + 1 \in 1..Len(mails) /\ mails[cur + 1].num = -1 /\ hpc = "walk"
        /\ \A u : u # mails[cur + 1].uidl => eml'[u] = eml[u]
    BY <1>5, RemovedList DEF WalkLosted, Walking, next
  <2>2. mails[cur + 1].uidl \notin box
    BY <2>1 DEF KnownInv, Known, CommandInv
  <2>3. mails[cur + 1].uidl = disk[i].uidl => mails[cur + 1].state # "DELETE"
    BY <1>1, <1>5, <2>1 DEF DoneStates
  <2>. QED
    BY <1>5, <2>1, <2>2, <2>3 DEF next
<1>. QED
  BY <1>2, <1>3, <1>4, <1>5, Frames

LEMMA DbHonestStep ==
  DialogueInv /\ CommandInv /\ FreshInv /\ KnownInv /\ DiskInv /\ EmlInv /\ SizesInv
    /\ SizesInv' /\ PrevInv /\ DbHonest /\ [Next]_vars => DbHonest'
<1>. SUFFICES ASSUME DialogueInv, CommandInv, FreshInv, KnownInv, DiskInv, EmlInv, SizesInv',
                     PrevInv, DbHonest, [Next]_vars
              PROVE  DbHonest'
  OBVIOUS
<1>. TypeOK /\ NoDuplicates /\ CursorInv
  BY DEF DialogueInv
<1>. DEFINE Matches(u, s) == /\ s = "FULL_LOADED" => eml[u] = "full"
                             /\ s = "HEADERS_LOADED" => eml[u] \in {"head", "full"}
<1>1. \A i \in 1..Len(disk) : disk[i].uidl \in box => Matches(disk[i].uidl, disk[i].state)
  BY DEF DbHonest
<1>2. SUFFICES ASSUME NEW i \in 1..Len(disk'), disk'[i].uidl \in box'
               PROVE  Matches(disk[i].uidl, disk[i].state)'
  BY DEF DbHonest, SizesInv
<1>3. CASE disk' # disk
  <2>1. CASE WriteOpens
    BY <2>1 DEF WriteOpens
  <2>2. CASE WriteRecord
    <3>1. UNCHANGED <<eml, box>>
      BY <2>2 DEF WriteRecord
    <3>2. CASE i \in 1..Len(disk) /\ disk'[i] = disk[i]
      BY <1>1, <1>2, <3>1, <3>2
    <3>3. CASE i \in 1..Len(mails) /\ disk'[i] = ToRecord(mails[i])
      <4>1. disk'[i].uidl = mails[i].uidl
            /\ (disk'[i].state \in DoneStates => disk'[i].state = mails[i].state)
        BY <3>3 DEF ToRecord, DoneStates
      <4>. QED
        BY <1>2, <3>1, <3>3, <4>1 DEF EmlInv, DoneStates
    <3>. QED
      BY <2>2, <3>2, <3>3, WriteRecordList
  <2>3. CASE User
    <3>1. UNCHANGED <<eml, box>>
      BY <2>3 DEF User, UserMarks, UserWithdraws, UserForgets
    <3>2. PICK j \in 1..Len(disk) :
            /\ disk'[i].uidl = disk[j].uidl
            /\ \/ disk'[i].state = disk[j].state
               \/ disk'[i].state \in {"LOAD_FULL", "DELETE"}
               \/ prev # <<>> /\ disk'[i].state = prev[j]
      BY <2>3, UserList
    <3>3. prev # <<>> /\ disk[j].uidl \in box => Matches(disk[j].uidl, prev[j])
      BY DEF PrevInv
    <3>. QED
      BY <1>1, <1>2, <3>1, <3>2, <3>3
  <2>4. CASE Crashes
    <3>1. UNCHANGED <<eml, box>> /\ disk'[i].uidl # Torn
      BY <1>2, <2>4, UidlAssumption DEF Crashes, TypeOK
    <3>. QED
      BY <1>1, <1>2, <2>4, <3>1, CrashList
  <2>. QED
    BY <1>3, <2>1, <2>2, <2>3, <2>4, Frames
<1>4. CASE disk' = disk
  <2>1. disk[i].uidl \in box
    <3>1. MailArrives => \A j \in 1..Len(disk) : disk[j].uidl \in box' => disk[j].uidl \in box
      BY DEF MailArrives, FreshInv
    <3>. QED
      BY <1>2, <1>4, <3>1, Frames
  <2>2. SUFFICES ASSUME disk[i].state \in DoneStates PROVE eml'[disk[i].uidl] = eml[disk[i].uidl]
    BY <1>1, <1>4, <2>1 DEF DoneStates
  <2>. QED
    BY <1>4, <2>1, <2>2, FileChanges DEF TypeOK
<1>. QED
  BY <1>3, <1>4

LEMMA OthersKeepPrev == [Next]_vars /\ prev' # <<>> => User \/ (prev' = prev /\ ~Crashes)
<1>. SUFFICES ASSUME [Next]_vars, prev' # <<>>, ~User PROVE prev' = prev /\ ~Crashes
  OBVIOUS
<1>1. CASE ProcessLine
  <2>1. prev' = prev
    BY <1>1, TakesLine DEF TakeLine
  <2>2. ~Crashes
    BY DEF Crashes
  <2>. QED
    BY <2>1, <2>2
<1>2. CASE HelperLoop \/ UNCHANGED vars
  BY <1>2 DEF HelperLoop, WriteOpens, WriteRecord, WriteCloses, WriteFails, DeleteLoaded,
         WalkLosted, WalkKept, WalkLoads, WalkDeletes, WalkEnds, Done, Walking, Crashes, vars
<1>3. CASE Connection
  BY <1>3 DEF Connection, Receives, Connects, SockClosed, Drops, Stops, Crashes
<1>4. CASE Server
  BY <1>4 DEF Server, ServerReplies, ServerRefuses, ServerQuits, ServerGivesUp, Answers,
         MailArrives, MailVanishes, Crashes
<1>. QED
  BY <1>1, <1>2, <1>3, <1>4 DEF Next

\* While a mark may be taken back nothing is written and no .eml file changes.
LEMMA PrevInvStep ==
  DialogueInv /\ FreshInv /\ SizesInv /\ DbHonest /\ PrevInv /\ [Next]_vars => PrevInv'
<1>. SUFFICES ASSUME DialogueInv, FreshInv, SizesInv, DbHonest, PrevInv, [Next]_vars,
                     prev' # <<>>, NEW i \in 1..Len(disk')
              PROVE  /\ disk'[i].uidl \in box' /\ prev'[i] = "FULL_LOADED" =>
                          eml'[disk'[i].uidl] = "full"
                     /\ disk'[i].uidl \in box' /\ prev'[i] = "HEADERS_LOADED" =>
                          eml'[disk'[i].uidl] \in {"head", "full"}
                     /\ disk'[i].uidl \in Uidl => prev'[i] # "ODD"
  BY DEF PrevInv
<1>1. CASE User
  <2>1. UNCHANGED <<eml, box>>
    BY <1>1 DEF User, UserMarks, UserWithdraws, UserForgets
  <2>2. PICK j \in 1..Len(disk) :
          /\ disk'[i].uidl = disk[j].uidl
          /\ prev'[i] = disk[j].state \/ (prev # <<>> /\ prev'[i] = prev[j])
    BY <1>1, PrevList
  <2>. QED
    BY <2>1, <2>2 DEF PrevInv, DbHonest
<1>2. CASE ~User
  <2>1. prev' = prev /\ ~Crashes
    BY <1>2, OthersKeepPrev
  <2>2. hpc = "line" /\ buf = <<>>
    BY <2>1 DEF DialogueInv, AskedInv, InUse
  <2>3. ~(WriteOpens \/ WriteRecord \/ MailBegins \/ MailEnds \/ WalkLosted \/ WalkDeletes)
    BY <2>2 DEF WriteOpens, WriteRecord, MailBegins, ReplyBegins, MailEnds, InReply,
                TakeLine, WalkLosted, WalkDeletes, Walking
  <2>4. UNCHANGED <<disk, eml>>
    BY <1>2, <2>1, <2>3, Frames
  <2>5. disk[i].uidl \in box' => disk[i].uidl \in box
    <3>1. MailArrives => \A j \in 1..Len(disk) : disk[j].uidl \in box' => disk[j].uidl \in box
      BY DEF MailArrives, FreshInv
    <3>. QED
      BY <2>4, <3>1, Frames
  <2>. QED
    BY <2>1, <2>4, <2>5 DEF PrevInv
<1>. QED
  BY <1>1, <1>2

-----------------------------------------------------------------------------
(* What process_line waits for is on its way.                              *)

LEMMA LastStays ==
  ASSUME TypeOK, TakeLine, s2c' = s2c, line.k # "dot", LastLine.k = "dot"
  PROVE  LastLine' = LastLine /\ (buf' # <<>> \/ s2c' # <<>>)
<1>. buf \in Seq(Line) /\ buf # <<>> /\ Len(buf) \in Nat /\ line = buf[1] /\ buf' = Tail(buf)
  BY DEF TypeOK, TakeLine, line
<1>1. CASE s2c # <<>>
  BY <1>1 DEF LastLine
<1>2. CASE s2c = <<>>
  <2>1. buf[Len(buf)].k = "dot" /\ Len(buf) >= 1
    BY <1>2 DEF LastLine
  <2>2. Len(buf) # 1
    BY <2>1
  <2>3. Len(buf) >= 2
    BY <2>1, <2>2
  <2>4. Len(Tail(buf)) = Len(buf) - 1 /\ \A i \in 1..(Len(buf) - 1) : Tail(buf)[i] = buf[i + 1]
    OBVIOUS
  <2>5. Len(buf') = Len(buf) - 1 /\ buf'[Len(buf) - 1] = buf[Len(buf)] /\ Len(buf') >= 1
    BY <2>3, <2>4
  <2>6. buf' # <<>>
    <3>1. buf' = <<>> => Len(buf') = 0
      OBVIOUS
    <3>. QED
      BY <2>3, <2>5, <3>1
  <2>. QED
    BY <1>2, <2>1, <2>5, <2>6 DEF LastLine
<1>. QED
  BY <1>1, <1>2

LEMMA WaitInvStep ==
  ASSUME "err" \notin FaultKinds
  PROVE  DialogueInv /\ CommandInv /\ HeadInv /\ WaitInv /\ [Next]_vars => WaitInv'
<1>. SUFFICES ASSUME DialogueInv, CommandInv, HeadInv, WaitInv, [Next]_vars PROVE WaitInv'
  OBVIOUS
<1>. TypeOK /\ LockStepInv /\ CommandInv /\ HeadInv /\ WaitInv
  BY DEF DialogueInv
<1>. /\ c2s \in Seq(Command) /\ buf \in Seq(Line) /\ s2c \in Seq(Line)
     /\ Len(buf) \in Nat /\ Len(s2c) \in Nat
  BY DEF TypeOK
<1>. SUFFICES ASSUME sock' = "open", hpc' = "line", c2s' = <<>> PROVE WaitInv'
  BY DEF WaitInv
<1>60. ASSUME NEW cmd, Sent(cmd), buf # <<>> \/ hpc # "line" PROVE sock # "open"
  BY <1>60, SentAlone
<1>61. ASSUME TakeLine, s2c' = s2c, popState' = popState, popState \in MultiLine, sock = "open",
              line.k # "dot", mesRec \/ RespOk
       PROVE  WaitInv'
  <2>1. buf # <<>> /\ hpc = "line" /\ line = buf[1] /\ FirstLine = line
    BY <1>61 DEF TakeLine, line, FirstLine
  <2>2. c2s = <<>>
    BY <1>61, <2>1 DEF LockStepInv
  <2>3. part # "none" => popState = "GREETING"
    BY <2>1, <1>61 DEF HeadInv, Waiting
  <2>4. LastLine.k = "dot"
    BY <1>61, <2>1, <2>2, <2>3 DEF WaitInv, RespOk, MultiLine, Receiving
  <2>. QED
    BY <1>61, <2>4, LastStays DEF WaitInv
<1>1. CASE Refused
  BY <1>1 DEF Refused, EndConnect, EndSession
<1>2. CASE Greeting
  BY <1>2, <1>60 DEF Greeting, Accepted, TakeLine
<1>3. CASE VerLogin
  BY <1>3, <1>60 DEF VerLogin, Accepted, TakeLine
<1>4. CASE VerPass
  BY <1>4, <1>60 DEF VerPass, Accepted, TakeLine
<1>5. CASE GetStat
  BY <1>5, <1>60 DEF GetStat, Accepted, TakeLine, EndConnect, EndSession
<1>6. CASE ListBegins
  <2>1. /\ TakeLine /\ UNCHANGED <<popState, s2c, sock>> /\ popState \in MultiLine /\ RespOk
        /\ popState # "GREETING"
    BY <1>6 DEF ListBegins, ReplyBegins, MultiLine, Receiving
  <2>2. line.k # "dot"
    BY <2>1 DEF RespOk, HeadInv, Waiting, TakeLine
  <2>. QED
    BY <1>61, <2>1, <2>2
<1>7. CASE UidlEntry
  <2>1. /\ TakeLine /\ UNCHANGED <<popState, s2c, sock>> /\ popState \in MultiLine /\ mesRec
        /\ line.k # "dot"
    BY <1>7 DEF UidlEntry, InReply, MultiLine, Receiving
  <2>. QED
    BY <1>61, <2>1
<1>8. CASE UidlEnds
  BY <1>8, <1>60 DEF UidlEnds, TakeLine
<1>9. CASE ListEntry
  <2>1. /\ TakeLine /\ UNCHANGED <<popState, s2c, sock>> /\ popState \in MultiLine /\ mesRec
        /\ line.k # "dot"
    BY <1>9 DEF ListEntry, InReply, MultiLine, Receiving
  <2>. QED
    BY <1>61, <2>1
<1>10. CASE ListEnds
  BY <1>10 DEF ListEnds, Walking
<1>11. CASE MailBegins
  <2>1. /\ TakeLine /\ UNCHANGED <<popState, s2c, sock>> /\ popState \in MultiLine /\ RespOk
        /\ popState # "GREETING"
    BY <1>11 DEF MailBegins, ReplyBegins, MultiLine, Receiving
  <2>2. line.k # "dot"
    BY <2>1 DEF RespOk, HeadInv, Waiting, TakeLine
  <2>. QED
    BY <1>61, <2>1, <2>2
<1>12. CASE MailCannotOpen
  BY <1>12 DEF MailCannotOpen, EndSession
<1>13. CASE MailText
  <2>1. /\ TakeLine /\ UNCHANGED <<popState, s2c, sock>> /\ popState \in MultiLine /\ mesRec
        /\ line.k # "dot"
    BY <1>13 DEF MailText, InReply, MultiLine, Receiving
  <2>. QED
    BY <1>61, <2>1
<1>14. CASE MailEnds
  BY <1>14 DEF MailEnds, Walking
<1>15. CASE Deleted
  BY <1>15 DEF Deleted, Walking
<1>16. CASE WriteOpens
  BY <1>16 DEF WriteOpens, Walking
<1>17. CASE WriteRecord
  BY <1>17 DEF WriteRecord, Walking
<1>18. CASE WriteCloses
  BY <1>18 DEF WriteCloses, TypeOK
<1>19. CASE WriteFails
  BY <1>19 DEF WriteFails, TypeOK
<1>20. CASE DeleteLoaded
  BY <1>20, <1>60 DEF DeleteLoaded, Walking
<1>21. CASE WalkLosted
  BY <1>21 DEF WalkLosted, Walking
<1>22. CASE WalkKept
  BY <1>22 DEF WalkKept, Walking
<1>23. CASE WalkLoads
  BY <1>23, <1>60 DEF WalkLoads, Walking
<1>24. CASE WalkDeletes
  BY <1>24, <1>60 DEF WalkDeletes, Walking
<1>25. CASE WalkEnds
  BY <1>25 DEF WalkEnds, Walking
<1>26. CASE Done
  BY <1>26 DEF Done, EndConnect, EndSession
<1>27. CASE Receives
  <2>1. PICK n \in {1, Len(s2c)} :
          /\ buf' = SubSeq(s2c, 1, n)
          /\ s2c' = SubSeq(s2c, n + 1, Len(s2c))
    BY <1>27 DEF Receives
  <2>2. n \in 1..Len(s2c) /\ buf = <<>> /\ s2c # <<>>
        /\ UNCHANGED <<hpc, popState, mesRec, sock, c2s>>
    BY <1>27, <2>1 DEF Receives, Idle
  <2>3. buf' # <<>> /\ buf'[1] = s2c[1] /\ Len(buf') = n
    BY <2>1, <2>2
  <2>4. LastLine = s2c[Len(s2c)] /\ FirstLine = s2c[1] /\ FirstLine' = s2c[1]
    BY <2>2, <2>3 DEF LastLine, FirstLine
  <2>5. LastLine' = LastLine
    <3>1. CASE n = Len(s2c)
      <4>1. s2c' = <<>> /\ buf'[Len(buf')] = s2c[Len(s2c)]
        BY <2>1, <2>2, <2>3, <3>1
      <4>. QED
        BY <2>4, <4>1 DEF LastLine
    <3>2. CASE n # Len(s2c)
      <4>1. Len(s2c) >= 2 /\ s2c' = SubSeq(s2c, 2, Len(s2c))
        BY <2>1, <2>2, <3>2
      <4>2. Len(s2c') = Len(s2c) - 1 /\ \A i \in 1..Len(s2c') : s2c'[i] = s2c[i + 1]
        BY <4>1
      <4>3. \A k \in Nat : k >= 2 => k - 1 \in 1..(k - 1) /\ k - 1 + 1 = k /\ k - 1 # 0
        OBVIOUS
      <4>4. s2c'[Len(s2c')] = s2c[Len(s2c)] /\ Len(s2c') # 0
        BY <4>1, <4>2, <4>3
      <4>5. s2c' = <<>> => Len(s2c') = 0
        OBVIOUS
      <4>6. s2c' # <<>>
        BY <4>4, <4>5
      <4>. QED
        BY <2>4, <4>4, <4>6 DEF LastLine
    <3>. QED
      BY <3>1, <3>2
  <2>. QED
    BY <2>2, <2>3, <2>4, <2>5 DEF WaitInv
<1>28. CASE Connects
  <2>1. s2c' \in {<<Ok>>, <<Status("err")>>} /\ popState' = "GREETING"
    BY <1>28 DEF Connects
  <2>2. \A x : <<x>> # <<>>
    OBVIOUS
  <2>. QED
    BY <2>1, <2>2 DEF WaitInv, MultiLine, Receiving
<1>29. CASE SockClosed
  BY <1>29 DEF SockClosed
<1>30. CASE Drops
  BY <1>30 DEF Drops
<1>31. CASE Stops
  BY <1>31 DEF Stops, EndConnect, EndSession
<1>32. CASE Crashes
  BY <1>32 DEF Crashes
<1>33. CASE ServerReplies
  <2>. DEFINE cmd == Head(c2s)
  <2>1. /\ buf = <<>> /\ s2c = <<>> /\ c2s # <<>> /\ cmd = c2s[1] /\ sock = "open"
        /\ s2c' = s2c \o Reply(cmd) /\ UNCHANGED <<buf, hpc, popState, mesRec, sock>>
    BY <1>33 DEF ServerReplies, Answers, LockStepInv
  <2>2. Reply(cmd) \in Seq(Line)
    BY ReplyType
  <2>3. /\ cmd.c = "UIDL" <=> popState = "GET_UIDL_LIST"
        /\ cmd.c = "LIST" <=> popState = "GET_LIST"
        /\ cmd.c \in {"TOP", "RETR"} <=> popState \in Receiving
        /\ popState \in Receiving => ~mesRec
    BY <2>1 DEF CommandInv, HeadInv
  <2>. HIDE DEF cmd
  <2>4. s2c' = Reply(cmd) /\ Reply(cmd) # <<>>
    BY <2>1, <2>2, ReplyEnds
  <2>5. FirstLine' = Reply(cmd)[1] /\ LastLine' = Reply(cmd)[Len(Reply(cmd))]
    BY <2>1, <2>4 DEF FirstLine, LastLine
  <2>6. popState \in MultiLine => LastLine'.k = "dot" \/ (~mesRec /\ FirstLine'.k = "err")
    BY <2>3, <2>5, ReplyEnds DEF MultiLine
  <2>. QED
    BY <2>1, <2>4, <2>6 DEF WaitInv
<1>34. CASE ServerRefuses
  BY <1>34 DEF ServerRefuses, Fault
<1>35. CASE ServerQuits
  <2>1. sock # "open"
    BY <1>35 DEF ServerQuits, Answers, LockStepInv, Cmd
  <2>. QED
    BY <1>35, <2>1 DEF ServerQuits, Answers
<1>36. CASE ServerGivesUp
  BY <1>36 DEF ServerGivesUp
<1>37. CASE MailArrives
  BY <1>37 DEF MailArrives, WaitInv, FirstLine, LastLine
<1>38. CASE MailVanishes
  BY <1>38 DEF MailVanishes, WaitInv, FirstLine, LastLine
<1>39. CASE UserMarks
  BY <1>39 DEF UserMarks, Idle, Intervention, WaitInv, FirstLine, LastLine
<1>40. CASE UserForgets
  BY <1>40 DEF UserForgets, Idle, Intervention, WaitInv, FirstLine, LastLine
<1>41. CASE UserWithdraws
  BY <1>41 DEF UserWithdraws, Idle, WaitInv, FirstLine, LastLine
<1>42. CASE UNCHANGED vars
  BY <1>42 DEF vars, WaitInv, FirstLine, LastLine
<1>. QED
  BY <1>1, <1>2, <1>3, <1>4, <1>5, <1>6, <1>7, <1>8, <1>9, <1>10, <1>11, <1>12, <1>13,
     <1>14, <1>15, <1>16, <1>17, <1>18, <1>19, <1>20, <1>21, <1>22, <1>23, <1>24,
     <1>25, <1>26, <1>27, <1>28, <1>29, <1>30, <1>31, <1>32, <1>33, <1>34, <1>35,
     <1>36, <1>37, <1>38, <1>39, <1>40, <1>41, <1>42
     DEF Next, ProcessLine, HelperLoop, Connection, Server, User

-----------------------------------------------------------------------------
(* The invariants together.                                                *)

LEMMA DialogueStep == DialogueInv /\ [Next]_vars => DialogueInv'
<1>. SUFFICES ASSUME DialogueInv, [Next]_vars PROVE DialogueInv'
  OBVIOUS
<1>1. TypeOK'
  BY TypeStep DEF DialogueInv
<1>. QED
  BY <1>1, LockStepInvStep, CursorInvStep, SavedInvStep, AskedInvStep,
     NoDuplicatesStep, NumbersInvStep, MarkedInvStep DEF DialogueInv

LEMMA Starts ==
  ASSUME Init
  PROVE  /\ CommandInv /\ HeadInv /\ FreshInv /\ NumberingInv /\ KnownInv /\ SizesInv
         /\ DiskInv /\ EmlInv /\ PrevInv /\ DbHonest /\ WaitInv
<1>. \A i : i \notin 1..0
  OBVIOUS
<1>1. ~Ending /\ \A n, u : ~Coming(n, u)
  BY DEF Init, Ending, Coming, OnWay
<1>. QED
  BY <1>1 DEF Init, CommandInv, Writing, Late, Receiving, HeadInv, Waiting, FreshInv,
     NumberingInv,
     KnownInv, SizesInv, DiskInv, EmlInv, PrevInv, DbHonest, WaitInv

\* Everything that mails.db and the .eml files are judged by.
HonestInv ==
  /\ DialogueInv /\ CommandInv /\ HeadInv /\ FreshInv /\ NumberingInv /\ KnownInv
  /\ SizesInv /\ DiskInv /\ EmlInv /\ PrevInv /\ DbHonest

LEMMA HonestInvStep ==
  ASSUME "fopen" \notin FaultKinds
  PROVE  HonestInv /\ [Next]_vars => HonestInv'
<1>. SUFFICES ASSUME HonestInv, [Next]_vars PROVE HonestInv'
  OBVIOUS
<1>1. DialogueInv' /\ CommandInv' /\ HeadInv' /\ FreshInv' /\ NumberingInv'
  BY DialogueStep, CommandInvStep, HeadInvStep, FreshInvStep, NumberingInvStep DEF HonestInv
<1>2. KnownInv' /\ SizesInv'
  BY KnownInvStep, SizesInvStep DEF HonestInv
<1>3. DiskInv' /\ EmlInv'
  BY DiskInvStep, EmlInvStep DEF HonestInv
<1>4. PrevInv' /\ DbHonest'
  BY <1>2, PrevInvStep, DbHonestStep DEF HonestInv
<1>. QED
  BY <1>1, <1>2, <1>3, <1>4 DEF HonestInv

-----------------------------------------------------------------------------
(* The theorems.                                                           *)

LEMMA DialogueInit == Init => DialogueInv
<1>. SUFFICES ASSUME Init PROVE DialogueInv
  OBVIOUS
<1>1. TypeOK
  <2>1. \A S : <<>> \in Seq(S)
    OBVIOUS
  <2>2. IsFiniteSet({})
    BY FS_EmptySet
  <2>. QED
    BY <2>1, <2>2 DEF Init, TypeOK, Dangling, PopStates
<1>2. NumbersInv /\ LockStepInv /\ CursorInv /\ SavedInv /\ AskedInv
  BY DEF Init, NumbersInv, LockStepInv, CursorInv, Waiting, Writing, SavedInv,
         AskedInv, Receiving, MultiLine
<1>3. NoDuplicates /\ MarkedInv
  BY DEF Init, NoDuplicates, UniqueUidl, MarkedInv
<1>. QED
  BY <1>1, <1>2, <1>3 DEF DialogueInv

\* The inductive invariant: numbers, lines on their way, cursor, file, marks
\* of the user and marks on the server fit together in every reachable state.
THEOREM DialogueInvariant == Spec => []DialogueInv
<1>1. Init => DialogueInv
  BY DialogueInit
<1>2. DialogueInv /\ [Next]_vars => DialogueInv'
  BY DialogueStep
<1>. QED
  BY <1>1, <1>2, PTL DEF Spec

\* Every variable keeps its type, cur_ml included: write_mail_DB and the loop
\* over the list never meet an entry that is not there.
THEOREM TypeCorrect == Spec => []TypeOK
<1>1. DialogueInv => TypeOK
  BY DEF DialogueInv
<1>. QED
  BY <1>1, DialogueInvariant, PTL

\* What the server is told to delete was asked for by the user or is on the
\* phone to its last line, whatever fails and whenever.
THEOREM DeletesOnlyKeptAlways == Spec => []DeletesOnlyKept
<1>1. DialogueInv => DeletesOnlyKept
  BY DEF DialogueInv, NumbersInv, MarkedInv, Marked, DeletesOnlyKept
<1>. QED
  BY <1>1, DialogueInvariant, PTL

\* process_line never follows a cur_ml that InitMailDB has freed.
THEOREM CurValidAlways == Spec => []CurValid
<1>1. DialogueInv => CurValid
  BY DEF DialogueInv, LockStepInv, CursorInv, Waiting, CurValid, TypeOK
<1>. QED
  BY <1>1, DialogueInvariant, PTL

\* No uidl is twice in the list or in mails.db.
THEOREM NoDuplicatesAlways == Spec => []NoDuplicates
<1>1. DialogueInv => NoDuplicates
  BY DEF DialogueInv
<1>. QED
  BY <1>1, DialogueInvariant, PTL

\* While the connection is up process_line never waits for a line that nobody is
\* going to send: a command without its answer, or a line, is on its way.  Only a
\* server that refuses UIDL after a reply was broken off, when mes_rec is still
\* set, gets no further command; lost connections, power cuts and failing fopens
\* are all allowed.
THEOREM NoSilentWaitAlways ==
  ASSUME "err" \notin FaultKinds
  PROVE  Spec => []NoSilentWait
<1>. DEFINE Inv == DialogueInv /\ CommandInv /\ HeadInv /\ WaitInv
<1>1. Init => Inv
  BY DialogueInit, Starts
<1>2. Inv /\ [Next]_vars => Inv'
  BY DialogueStep, CommandInvStep, HeadInvStep, WaitInvStep
<1>3. Inv => NoSilentWait
  BY DEF WaitInv, NoSilentWait
<1>. QED
  BY <1>1, <1>2, <1>3, PTL DEF Spec

\* As long as fopen does not fail, the list, mails.db, the .eml files, the numbers
\* and the mailbox fit together in every reachable state.
THEOREM HonestInvariant ==
  ASSUME "fopen" \notin FaultKinds
  PROVE  Spec => []HonestInv
<1>1. Init => HonestInv
  BY DialogueInit, Starts DEF HonestInv
<1>2. HonestInv /\ [Next]_vars => HonestInv'
  BY HonestInvStep
<1>. QED
  BY <1>1, <1>2, PTL DEF Spec

\* mails.db never claims more of a mail that is on the server than its .eml file
\* holds, and the record of a mail has no state that its one byte cannot hold; power
\* cuts in the middle of write_mail_DB and marks taken back are included.  A status
\* line that a stale mes_rec took for an entry is no mail: its record does hold such
\* a state.
THEOREM DbHonestAlways ==
  ASSUME "fopen" \notin FaultKinds
  PROVE  Spec => []DbHonest
<1>1. HonestInv => DbHonest
  BY DEF HonestInv
<1>. QED
  BY <1>1, HonestInvariant, PTL

\* With IF_DEL_AUX = 1 the only copy of a mail is never deleted, truncated or
\* loaded again, unless the user asked for that.
THEOREM OnlyCopyKeptAlways ==
  ASSUME "fopen" \notin FaultKinds, IF_DEL_AUX = 1
  PROVE  Spec => OnlyCopyKept
<1>1. HonestInv /\ [Next]_vars =>
        [\A u \in Uidl \ (box \cup asked) :
           Saved(u, {"FULL_LOADED"}) /\ eml[u] = "full" => eml'[u] = "full"]_vars
  <2>. SUFFICES ASSUME HonestInv, [Next]_vars, NEW u \in Uidl \ (box \cup asked),
                       Saved(u, {"FULL_LOADED"}), eml[u] = "full"
                PROVE  eml'[u] = "full"
    OBVIOUS
  <2>1. PICK i \in 1..Len(disk) : disk[i].uidl = u /\ disk[i].state = "FULL_LOADED"
    BY DEF Saved
  <2>2. \/ eml'[u] = eml[u]
        \/ WalkLosted /\ next.uidl = u /\ next.state # "DELETE"
    BY <2>1, FileChanges DEF HonestInv, DoneStates
  <2>3. WalkLosted => next.state = "DELETE"
    BY DEF WalkLosted, Losted
  <2>. QED
    BY <2>2, <2>3
<1>. QED
  BY <1>1, HonestInvariant, PTL DEF Spec, OnlyCopyKept
=============================================================================
