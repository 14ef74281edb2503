---------------------------- MODULE NatChat_proofs ----------------------------
(***************************************************************************)
(* The window of a contact, its log, and the counters of what is unread.   *)
(*                                                                         *)
(* No acknowledgement is shown at the wrong message: the number of a       *)
(* message is looked for in the log of a contact, where those of earlier   *)
(* connections, with numbers of their own, may be.  NumberInv makes it     *)
(* right: a number that is still in a log is that of a message of this     *)
(* connection, and the server has that message under it.  It is so until a *)
(* connection is made over another one, or the numbers begin anew (Clean). *)
(*                                                                         *)
(* messages_unread is the sum of what is unread of each contact.  What the *)
(* proof needs of a sum over a finite set, that it changes with one of its *)
(* terms, is shown by well-founded induction (TotalChanges).               *)
(*                                                                         *)
(* The window shows the log (ViewInv): its last lines are the messages of  *)
(* the log up to the first that waits, which is where AddMsgToChat goes    *)
(* on, and their colours are those of the log unless all are to be drawn.  *)
(***************************************************************************)
EXTENDS NatChat, SequenceTheorems, FiniteSetTheorems, TLAPS

-----------------------------------------------------------------------------
Sent == [to : Contact, key : Key]

TypeOK ==
  /\ conn \in {"off", "login", "on"} /\ SENDMSGCOUNT \in Nat
  /\ server \in Seq(Sent) /\ keys \in Nat
  /\ cl \subseteq Contact /\ chat \in Contact \cup {None}
  /\ log \in [Contact -> Seq(Entry)]

\* No connection has taken the place of another one, and none has used up the numbers.
Clean == odd \cap {"over", "wrap"} = {}

\* A number is that of a message that the server has got in this connection.
Numbered(e) ==
  Clean /\ e.ID \in Nat =>
    conn # "off" /\ e.ID \in DOMAIN server /\ server[e.ID].key = e.key

Shows(e) == Clean /\ e.ack # 0 => e.key \in known

NumberInv ==
  /\ Clean => SENDMSGCOUNT < Numbers /\ (conn # "off" => Len(server) = SENDMSGCOUNT)
  /\ \A t \in Contact : \A i \in DOMAIN log[t] : Numbered(log[t][i]) /\ Shows(log[t][i])

-----------------------------------------------------------------------------
(* The log and what is added to it.                                        *)

\* A message of the log, with what is not a number in place of its number, maybe.
Kept(e, es) ==
  \E j \in DOMAIN es : /\ e.key = es[j].key /\ e.ack = es[j].ack
                       /\ e.ID = es[j].ID \/ e.ID \in {Plain, Old}

LEMMA OddStays ==
  ASSUME NEW what, NEW so, Notes(what, so)
  PROVE  odd \subseteq odd' /\ (so => what \in odd')
  BY DEF Notes

LEMMA OddKept == [Next]_vars => odd \subseteq odd'
<1> SUFFICES ASSUME [Next]_vars
             PROVE  odd \subseteq odd'
  OBVIOUS
<1>1. CASE ProcessPacket
  <2>1. CASE T_ACK
    <3>1. UNCHANGED odd \/ \E so : Notes("ack", so)
      BY <2>1 DEF T_ACK
    <3> QED
      BY <3>1, OddStays
  <2>2. CASE T_CONTACTREMOVED
    BY <2>2, OddStays DEF T_CONTACTREMOVED
  <2> QED
    BY <1>1, <2>1, <2>2 DEF ProcessPacket, T_CLENTRY, T_RECVMSG, SameXText, T_XTEXT_ACK
<1>2. CASE ENIP_SOCK_CONNECTED \/ T_LOGIN \/ ENIP_SOCK_CLOSED \/ IPC_SENDMSG
  <2>1. CASE ENIP_SOCK_CONNECTED
    BY <2>1, OddStays DEF ENIP_SOCK_CONNECTED
  <2>2. CASE IPC_SENDMSG
    BY <2>2, OddStays DEF IPC_SENDMSG
  <2> QED
    BY <1>2, <2>1, <2>2 DEF T_LOGIN, ENIP_SOCK_CLOSED
<1>3. CASE Window
  <2>1. CASE OnFocus
    BY <2>1, OddStays DEF OnFocus
  <2>2. CASE GREEN_BUTTON
    BY <2>2, OddStays DEF GREEN_BUTTON
  <2>3. CASE ClearLog
    BY <2>3, OddStays DEF ClearLog
  <2> QED
    BY <1>3, <2>1, <2>2, <2>3 DEF Window, CreateEditChat, ClosesChat, Covered, BeginsWord,
                                  EndsWord, OnRedraw, MenuSends
<1> QED
  BY <1>1, <1>2, <1>3 DEF Next, vars

LEMMA Kinds == Plain \notin Nat /\ Old \notin Nat /\ Key \subseteq Nat
  BY BoundAssumption DEF Plain, Old, Key

LEMMA LoggedIs ==
  ASSUME TypeOK, NEW t \in Contact, keys < MaxMsg, NEW id \in Nat \cup {Plain},
         NEW es \in Logged(t, keys + 1, id)
  PROVE  /\ es \in Seq(Entry)
         /\ \A i \in DOMAIN es :
              \/ Kept(es[i], log[t])
              \/ es[i] = [key |-> keys + 1, ID |-> id, ack |-> 0, drawn |-> FALSE]
<1> DEFINE e == [key |-> keys + 1, ID |-> id, ack |-> 0, drawn |-> FALSE]
           all == Append(log[t], e)
<1>1. e \in Entry
  <2>1. keys + 1 \in Key
    BY BoundAssumption DEF TypeOK, Key
  <2> QED
    BY <2>1 DEF Entry
<1>2. PICK n \in Nat : n <= Len(all) /\ es = LastOf(all, n)
  <2>1. PICK n \in 1..(IF Len(all) > MAXLOGMSG THEN MAXLOGMSG ELSE Len(all)) :
          es = LastOf(all, n)
    BY DEF Logged
  <2>2. Len(all) \in Nat
    BY <1>1 DEF TypeOK
  <2> HIDE DEF all
  <2>3. n \in Nat /\ n <= Len(all)
    BY <2>2, LogAssumption
  <2> QED
    BY <2>1, <2>3
<1>3. /\ all \in Seq(Entry) /\ Len(all) = Len(log[t]) + 1 /\ Len(log[t]) \in Nat
      /\ all[Len(log[t]) + 1] = e
      /\ \A i \in 1..Len(log[t]) : all[i] = log[t][i]
      /\ DOMAIN log[t] = 1..Len(log[t])
  BY <1>1 DEF TypeOK
<1> HIDE DEF all, e
<1>4. /\ es \in Seq(Entry) /\ DOMAIN es = 1..n
      /\ \A i \in 1..n : i + (Len(all) - n) \in 1..Len(all) /\ es[i] = all[i + (Len(all) - n)]
  <2> DEFINE l == Len(all)
  <2>1. es = SubSeq(all, l - n + 1, l)
    BY <1>2 DEF LastOf
  <2>2. l \in Nat /\ n \in Nat /\ n <= l
    BY <1>2, <1>3
  <2>3. \A i \in (l - n + 1)..l : all[i] \in Entry
    BY <1>3, <2>2
  <2> HIDE DEF l
  <2>4. l - n + 1 \in Int /\ l - (l - n + 1) + 1 = n
    BY <2>2
  <2>5. /\ es \in Seq(Entry) /\ Len(es) = IF l - n + 1 <= l THEN l - (l - n + 1) + 1 ELSE 0
        /\ \A i \in 1..(l - (l - n + 1) + 1) : es[i] = all[(l - n + 1) + i - 1]
    BY <2>1, <2>2, <2>3, <2>4, SubSeqProperties
  <2>6. /\ Len(es) = n
        /\ \A i \in 1..n : (l - n + 1) + i - 1 = i + (l - n) /\ i + (l - n) \in 1..l
    BY <2>2, <2>5
  <2>7. \A i \in 1..n : es[i] = all[i + (l - n)]
    BY <2>4, <2>5, <2>6
  <2> QED
    BY <2>5, <2>6, <2>7 DEF l
<1>5. ASSUME NEW i \in DOMAIN es, es[i] # e
      PROVE  Kept(es[i], log[t])
  <2> DEFINE j == i + (Len(all) - n)
  <2>1. j \in 1..Len(all) /\ es[i] = all[j]
    BY <1>4, <1>5
  <2>2. j \in 1..Len(log[t])
    BY <1>3, <1>5, <2>1
  <2> QED
    BY <1>3, <2>1, <2>2 DEF Kept
<1> QED
  BY <1>4, <1>5 DEF e

\* The log of t changes, but no message in it gets a number or an acknowledgement.
LEMMA LogStep ==
  ASSUME NumberInv, Clean' => Clean, UNCHANGED <<conn, server, SENDMSGCOUNT>>,
         known \subseteq known',
         log \in [Contact -> Seq(Entry)],
         NEW t \in Contact, NEW es, log' = [log EXCEPT ![t] = es],
         \A i \in DOMAIN es : Kept(es[i], log[t]) \/ (es[i].ID \notin Nat /\ es[i].ack = 0)
  PROVE  NumberInv'
<1>1. ASSUME NEW i \in DOMAIN es
      PROVE  Numbered(es[i])' /\ Shows(es[i])'
  <2>1. CASE es[i].ID \notin Nat /\ es[i].ack = 0
    BY <2>1 DEF Numbered, Shows
  <2>2. CASE Kept(es[i], log[t])
    <3>1. PICK j \in DOMAIN log[t] :
                  /\ es[i].key = log[t][j].key /\ es[i].ack = log[t][j].ack
                  /\ es[i].ID = log[t][j].ID \/ es[i].ID \in {Plain, Old}
      BY <2>2 DEF Kept
    <3>2. Numbered(log[t][j]) /\ Shows(log[t][j])
      BY DEF NumberInv
    <3> QED
      BY <3>1, <3>2, Kinds DEF Numbered, Shows
  <2> QED
    BY <1>1, <2>1, <2>2
<1>2. ASSUME NEW u \in Contact, NEW i \in DOMAIN (log[u])'
      PROVE  Numbered(log[u][i])' /\ Shows(log[u][i])'
  <2>1. CASE u = t
    <3>1. log'[u] = es
      BY <2>1
    <3> QED
      BY <1>1, <1>2, <3>1 DEF Numbered, Shows
  <2>2. CASE u # t
    <3>1. log'[u] = log[u]
      BY <2>2
    <3>2. Numbered(log[u][i]) /\ Shows(log[u][i])
      BY <1>2, <3>1 DEF NumberInv
    <3> QED
      BY <3>1, <3>2 DEF Numbered, Shows
  <2> QED
    BY <2>1, <2>2
<1>3. Clean' => /\ SENDMSGCOUNT' < Numbers
                /\ conn' # "off" => Len(server') = SENDMSGCOUNT'
  BY DEF NumberInv
<1> QED
  BY <1>2, <1>3 DEF NumberInv

LEMMA LogSame ==
  ASSUME NumberInv, Clean' => Clean, UNCHANGED <<conn, server, SENDMSGCOUNT, log>>,
         known \subseteq known'
  PROVE  NumberInv'
  BY DEF NumberInv, Numbered, Shows

LEMMA Least ==
  ASSUME NEW S, S \subseteq Nat, S # {}
  PROVE  \E i \in S : \A j \in S : i <= j
<1> DEFINE T == {1..i : i \in S}
<1>1. T \subseteq FiniteSubsetsOf(Nat) /\ T # {}
  <2>1. ASSUME NEW i \in S
        PROVE  1..i \in FiniteSubsetsOf(Nat)
    <3>1. 1 \in Int /\ i \in Int
      OBVIOUS
    <3>2. IsFiniteSet(1..i)
      BY <3>1, FS_Interval
    <3>3. 1..i \in SUBSET Nat
      OBVIOUS
    <3> QED
      BY <3>2, <3>3 DEF FiniteSubsetsOf
  <2>2. T \subseteq FiniteSubsetsOf(Nat)
    BY <2>1
  <2> QED
    BY <2>2
<1>2. PICK X \in T : \A Y \in T : ~ (<<Y, X>> \in StrictSubsetOrdering(Nat))
  <2> HIDE DEF T
  <2> QED
    BY <1>1, FS_StrictSubsetOrderingWellFounded, WFMin
<1>3. PICK i \in S : X = 1..i
  BY <1>2
<1>4. ASSUME NEW j \in S, j < i
      PROVE  FALSE
  <2>1. 1..j \subseteq 1..i /\ i \in 1..i /\ i \notin 1..j
    BY <1>4
  <2>2. 1..j \in SUBSET Nat /\ 1..i \in SUBSET Nat
    BY <1>4
  <2>3. <<1..j, 1..i>> \in StrictSubsetOrdering(Nat)
    BY <2>1, <2>2 DEF StrictSubsetOrdering
  <2> QED
    BY <1>2, <1>3, <1>4, <2>3
<1>5. \A j \in S : i <= j
  BY <1>4
<1> QED
  BY <1>5

\* FindContactLOGQByAck finds a message with the number.
LEMMA Found ==
  ASSUME NEW es \in Seq(Entry), NEW n, ByAck(es, n) # 0
  PROVE  ByAck(es, n) \in DOMAIN es /\ es[ByAck(es, n)].ID = n
<1> DEFINE hits == {i \in DOMAIN es : es[i].ID = n}
<1>1. hits # {} /\ ByAck(es, n) = CHOOSE i \in hits : \A j \in hits : i <= j
  BY DEF ByAck
<1>2. hits \subseteq Nat
  OBVIOUS
<1>3. \E i \in hits : \A j \in hits : i <= j
  <2> HIDE DEF hits
  <2> QED
    BY <1>1, <1>2, Least
<1> QED
  BY <1>1, <1>3

-----------------------------------------------------------------------------
(* Every action keeps the invariant.                                       *)

Inv == TypeOK /\ NumberInv

\* What the drawing of the colours does to a log.
LEMMA Redrawn ==
  ASSUME NEW es \in Seq(Entry), NEW ds, ds = [i \in DOMAIN es |-> ds[i]],
         \A i \in DOMAIN es : ds[i] = es[i] \/ ds[i] = [es[i] EXCEPT !.drawn = TRUE]
  PROVE  ds \in Seq(Entry) /\ \A i \in DOMAIN ds : Kept(ds[i], es)
<1>1. ASSUME NEW i \in DOMAIN es
      PROVE  /\ ds[i] \in Entry /\ ds[i].key = es[i].key
             /\ ds[i].ack = es[i].ack /\ ds[i].ID = es[i].ID
  <2>1. es[i] \in Entry
    OBVIOUS
  <2>2. ds[i] = es[i] \/ ds[i] = [es[i] EXCEPT !.drawn = TRUE]
    OBVIOUS
  <2> QED
    BY <2>1, <2>2 DEF Entry
<1>2. DOMAIN ds = 1..Len(es) /\ Len(es) \in Nat /\ DOMAIN es = 1..Len(es)
  OBVIOUS
<1>3. ds \in [1..Len(es) -> Entry]
  BY <1>1, <1>2
<1>4. ds \in Seq(Entry)
  BY <1>2, <1>3
<1>5. \A i \in DOMAIN ds : Kept(ds[i], es)
  BY <1>1, <1>2 DEF Kept
<1> QED
  BY <1>4, <1>5

LEMMA Colours ==
  ASSUME Inv, Clean' => Clean, NEW t \in Contact, NEW ds \in Seq(Entry),
         \A i \in DOMAIN ds : Kept(ds[i], log[t]),
         log' = [log EXCEPT ![t] = ds],
         UNCHANGED <<conn, SENDMSGCOUNT, server, known, cl, chat, keys>>
  PROVE  Inv'
<1>1. TypeOK'
  BY DEF Inv, TypeOK
<1>2. NumberInv'
  BY LogStep DEF Inv, TypeOK
<1> QED
  BY <1>1, <1>2 DEF Inv

\* A message without a number is added.
LEMMA AddsPlain ==
  ASSUME Inv, Clean' => Clean, NEW t \in Contact, keys < MaxMsg, NEW es \in Logged(t, keys + 1, Plain),
         log' = [log EXCEPT ![t] = es], keys' = keys + 1, cl' \subseteq Contact,
         UNCHANGED <<conn, SENDMSGCOUNT, server, known, chat>>
  PROVE  Inv'
<1>1. /\ es \in Seq(Entry)
      /\ \A i \in DOMAIN es :
           \/ Kept(es[i], log[t])
           \/ es[i] = [key |-> keys + 1, ID |-> Plain, ack |-> 0, drawn |-> FALSE]
  BY LoggedIs DEF Inv
<1>2. TypeOK'
  BY <1>1 DEF Inv, TypeOK
<1>3. \A i \in DOMAIN es : Kept(es[i], log[t]) \/ (es[i].ID \notin Nat /\ es[i].ack = 0)
  BY <1>1, Kinds
<1>4. NumberInv'
  BY <1>3, LogStep DEF Inv, TypeOK
<1> QED
  BY <1>2, <1>4 DEF Inv

\* The log of t is emptied.
LEMMA Empties ==
  ASSUME Inv, Clean' => Clean, NEW t \in Contact, log' = [log EXCEPT ![t] = <<>>],
         cl' \subseteq Contact, chat' \in {chat, None},
         UNCHANGED <<conn, SENDMSGCOUNT, server, known, keys>>
  PROVE  Inv'
<1>1. <<>> \in Seq(Entry) /\ DOMAIN <<>> = {}
  OBVIOUS
<1>2. TypeOK'
  BY <1>1 DEF Inv, TypeOK
<1>3. \A i \in DOMAIN <<>> : Kept(<<>>[i], log[t]) \/ (<<>>[i].ID \notin Nat /\ <<>>[i].ack = 0)
  BY <1>1
<1>4. NumberInv'
  BY <1>3, LogStep DEF Inv, TypeOK
<1> QED
  BY <1>2, <1>4 DEF Inv

LEMMA Stays ==
  ASSUME Inv, Clean' => Clean, UNCHANGED <<conn, SENDMSGCOUNT, server, known, log, keys>>,
         cl' \subseteq Contact, chat' \in Contact \cup {None}
  PROVE  Inv'
<1>1. TypeOK'
  BY DEF Inv, TypeOK
<1>2. NumberInv'
  BY LogSame DEF Inv
<1> QED
  BY <1>1, <1>2 DEF Inv

LEMMA RecvStep ==
  ASSUME Inv, Clean' => Clean, T_RECVMSG \/ SameXText \/ T_XTEXT_ACK
  PROVE  Inv'
<1>1. CASE T_RECVMSG
  <2>1. PICK t \in Contact :
          /\ keys < MaxMsg /\ cl' = cl \cup {t}
          /\ \E es \in Logged(t, keys + 1, Plain) : CountsAnd(t, keys + 1, es, 1)
          /\ UNCHANGED <<wire, chat>>
    BY <1>1 DEF T_RECVMSG
  <2>2. PICK es \in Logged(t, keys + 1, Plain) : CountsAnd(t, keys + 1, es, 1)
    BY <2>1
  <2>3. log' = [log EXCEPT ![t] = es] /\ keys' = keys + 1
    BY <2>2 DEF CountsAnd
  <2>4. cl' \subseteq Contact
    BY <2>1 DEF Inv, TypeOK
  <2>5. UNCHANGED <<conn, SENDMSGCOUNT, server, known, chat>>
    BY <2>1 DEF wire
  <2> QED
    BY <2>1, <2>3, <2>4, <2>5, AddsPlain
<1>2. CASE T_XTEXT_ACK
  <2>1. PICK t \in cl :
          /\ keys < MaxMsg
          /\ \E es \in Logged(t, keys + 1, Plain) :
               CountsAnd(t, keys + 1, es, IF chat = t THEN 1 ELSE 0)
          /\ UNCHANGED <<wire, cl, chat>>
    BY <1>2 DEF T_XTEXT_ACK
  <2>2. PICK es \in Logged(t, keys + 1, Plain) :
          CountsAnd(t, keys + 1, es, IF chat = t THEN 1 ELSE 0)
    BY <2>1
  <2>3. log' = [log EXCEPT ![t] = es] /\ keys' = keys + 1
    BY <2>2 DEF CountsAnd
  <2>4. cl' \subseteq Contact /\ t \in Contact
    BY <2>1 DEF Inv, TypeOK
  <2>5. UNCHANGED <<conn, SENDMSGCOUNT, server, known, chat>>
    BY <2>1 DEF wire
  <2> QED
    BY <2>1, <2>3, <2>4, <2>5, AddsPlain
<1>3. CASE SameXText
  <2>1. UNCHANGED <<wire, cl, log, chat, keys>>
    BY <1>3 DEF SameXText
  <2>2. UNCHANGED <<conn, SENDMSGCOUNT, server, known, log, keys, cl, chat>>
    BY <2>1 DEF wire
  <2> QED
    BY <2>2, Stays DEF Inv, TypeOK
<1> QED
  BY <1>1, <1>2, <1>3

\* The message that is found has number n, so it is the n-th that the server got.
LEMMA AckStep ==
  ASSUME Inv, Clean' => Clean, T_ACK
  PROVE  Inv'
<1>1. PICK n \in DOMAIN server, kind \in 1..2 :
        LET t == server[n].to
            i == ByAck(log[t], n % Numbers)
            es == [log[t] EXCEPT ![i].ack = kind, ![i].drawn = FALSE]
        IN  /\ conn = "on"
            /\ known' = known \cup {server[n].key}
            /\ IF t \in cl /\ i # 0
               THEN IF chat = t /\ ~busy
                    THEN DrawAck(t, es)
                    ELSE log' = [log EXCEPT ![t] = es]
               ELSE UNCHANGED log
            /\ UNCHANGED <<conn, SENDMSGCOUNT, server, cl, chat, keys>>
  BY DEF T_ACK
<1> DEFINE t == server[n].to
           i == ByAck(log[t], n % Numbers)
           acked == [log[t] EXCEPT ![i].ack = kind, ![i].drawn = FALSE]
<1>2. t \in Contact /\ n \in Nat /\ n \in DOMAIN server
  <2>1. server[n] \in Sent /\ n \in Nat
    BY DEF Inv, TypeOK
  <2> QED
    BY <2>1 DEF Sent
<1>3. known' = known \cup {server[n].key} /\ UNCHANGED <<conn, SENDMSGCOUNT, server, cl, chat, keys>>
  BY <1>1
<1>4. CASE ~ (t \in cl /\ i # 0)
  <2>1. UNCHANGED log
    BY <1>1, <1>4
  <2>2. TypeOK'
    BY <1>3, <2>1 DEF Inv, TypeOK
  <2>3. NumberInv'
    BY <1>3, <2>1, LogSame DEF Inv
  <2> QED
    BY <2>2, <2>3 DEF Inv
<1>5. CASE t \in cl /\ i # 0
  <2>1. log[t] \in Seq(Entry)
    BY <1>2 DEF Inv, TypeOK
  <2>2. i \in DOMAIN log[t] /\ log[t][i].ID = n % Numbers
    BY <1>5, <2>1, Found
  <2>3. log[t][i] \in Entry
    BY <2>1, <2>2
  <2>n. Clean => n % Numbers = n
    <3>1. ASSUME Clean
          PROVE  n < Numbers
      <4>1. Len(server) < Numbers /\ DOMAIN server = 1..Len(server)
        BY <1>1, <3>1 DEF Inv, TypeOK, NumberInv
      <4> QED
        BY <1>2, <4>1, LogAssumption DEF Inv, TypeOK
    <3> QED
      BY <1>2, <3>1, LogAssumption
  <2>4. Clean => log[t][i].key = server[n].key
    <3>1. Numbered(log[t][i])
      BY <1>2, <2>2 DEF Inv, NumberInv
    <3> QED
      BY <1>2, <2>2, <2>n, <3>1 DEF Numbered
  <2>0. PICK es : es = acked
    OBVIOUS
  <2>5. /\ es = [j \in DOMAIN log[t] |-> es[j]]
        /\ \A j \in DOMAIN log[t] : j # i => es[j] = log[t][j]
        /\ es[i] = [log[t][i] EXCEPT !.ack = kind, !.drawn = FALSE]
    BY <2>0, <2>1, <2>2, <2>3
  <2>6. es[i] \in Entry /\ (Clean => es[i].key = server[n].key /\ es[i].ID = n)
    <3>1. PICK e : e = log[t][i]
      OBVIOUS
    <3>2. e \in Entry /\ es[i] = [e EXCEPT !.ack = kind, !.drawn = FALSE]
      BY <2>3, <2>5, <3>1
    <3>3. kind \in 0..2
      OBVIOUS
    <3>4. [e EXCEPT !.ack = kind, !.drawn = FALSE] \in Entry
      BY <3>2, <3>3 DEF Entry
    <3>5. es[i].key = e.key /\ es[i].ID = e.ID
      BY <3>2 DEF Entry
    <3> QED
      BY <2>2, <2>n, <2>4, <3>1, <3>2, <3>4, <3>5
  <2>7. es \in Seq(Entry)
    <3>1. DOMAIN log[t] = 1..Len(log[t]) /\ Len(log[t]) \in Nat
      BY <2>1
    <3>2. \A j \in 1..Len(log[t]) : es[j] \in Entry
      <4>1. \A j \in 1..Len(log[t]) : log[t][j] \in Entry
        BY <2>1, <3>1
      <4> QED
        BY <2>5, <2>6, <3>1, <4>1
    <3>3. es \in [1..Len(log[t]) -> Entry]
      BY <2>5, <3>1, <3>2
    <3> QED
      BY <3>1, <3>3
  <2>8. PICK ds \in Seq(Entry) : /\ log' = [log EXCEPT ![t] = ds]
                                 /\ \A j \in DOMAIN ds : Kept(ds[j], es)
    <3>1. CASE log' = [log EXCEPT ![t] = es]
      <4>1. \A j \in DOMAIN es : Kept(es[j], es)
        BY DEF Kept
      <4> QED
        BY <2>7, <3>1, <4>1
    <3>2. CASE DrawAck(t, es)
      <4> DEFINE ds == [j \in DOMAIN es |->
                          IF j > Len(es) - Len(view) /\ ~es[j].drawn
                          THEN [es[j] EXCEPT !.drawn = TRUE] ELSE es[j]]
      <4>1. log' = [log EXCEPT ![t] = ds]
        BY <3>2 DEF DrawAck
      <4>2. /\ ds = [j \in DOMAIN es |-> ds[j]]
            /\ \A j \in DOMAIN es : ds[j] = es[j] \/ ds[j] = [es[j] EXCEPT !.drawn = TRUE]
        OBVIOUS
      <4> HIDE DEF ds
      <4>3. ds \in Seq(Entry) /\ \A j \in DOMAIN ds : Kept(ds[j], es)
        BY <2>7, <4>2, Redrawn
      <4> QED
        BY <4>1, <4>3
    <3>3. DrawAck(t, es) \/ log' = [log EXCEPT ![t] = es]
      BY <1>1, <1>5, <2>0
    <3> QED
      BY <3>1, <3>2, <3>3
  <2>9. TypeOK'
    BY <1>2, <1>3, <2>8 DEF Inv, TypeOK
  <2>10. ASSUME NEW j \in DOMAIN es
         PROVE  Numbered(es[j])' /\ Shows(es[j])'
    <3>1. CASE j = i
      <4>1. conn' # "off" /\ server'[n].key = server[n].key /\ n \in DOMAIN server'
        BY <1>1, <1>2, <1>3
      <4>2. server[n].key \in known'
        BY <1>3
      <4> QED
        BY <2>6, <3>1, <4>1, <4>2 DEF Numbered, Shows
    <3>2. CASE j # i
      <4>1. es[j] = log[t][j] /\ j \in DOMAIN log[t]
        BY <2>5, <2>10, <3>2
      <4>2. Numbered(log[t][j]) /\ Shows(log[t][j])
        BY <1>2, <4>1 DEF Inv, NumberInv
      <4> QED
        BY <1>3, <4>1, <4>2 DEF Numbered, Shows
    <3> QED
      BY <3>1, <3>2
  <2>11. ASSUME NEW u \in Contact, NEW j \in DOMAIN (log[u])'
         PROVE  Numbered(log[u][j])' /\ Shows(log[u][j])'
    <3>1. CASE u = t
      <4>1. (log[u])' = ds
        BY <1>2, <2>8, <3>1 DEF Inv, TypeOK
      <4>2. PICK k \in DOMAIN es :
              /\ ds[j].key = es[k].key /\ ds[j].ack = es[k].ack
              /\ ds[j].ID = es[k].ID \/ ds[j].ID \in {Plain, Old}
        BY <2>8, <2>11, <4>1 DEF Kept
      <4>3. Numbered(es[k])' /\ Shows(es[k])'
        BY <2>10
      <4> QED
        BY <4>1, <4>2, <4>3, Kinds DEF Numbered, Shows
    <3>2. CASE u # t
      <4>1. (log[u])' = log[u]
        BY <1>2, <2>8, <3>2 DEF Inv, TypeOK
      <4>2. Numbered(log[u][j]) /\ Shows(log[u][j])
        BY <2>11, <4>1 DEF Inv, NumberInv
      <4> QED
        BY <1>3, <4>1, <4>2 DEF Numbered, Shows
    <3> QED
      BY <3>1, <3>2
  <2>12. Clean' => /\ SENDMSGCOUNT' < Numbers
                   /\ conn' # "off" => Len(server') = SENDMSGCOUNT'
    BY <1>3 DEF Inv, NumberInv
  <2>13. NumberInv'
    BY <2>11, <2>12 DEF NumberInv
  <2> QED
    BY <2>9, <2>13 DEF Inv
<1> QED
  BY <1>4, <1>5

LEMMA PacketStep ==
  ASSUME Inv, Clean' => Clean, ProcessPacket
  PROVE  Inv'
<1>1. CASE T_CLENTRY
  <2>1. cl' \subseteq Contact /\ UNCHANGED <<wire, log, window, keys>>
    BY <1>1 DEF T_CLENTRY, Inv, TypeOK
  <2>2. UNCHANGED <<conn, SENDMSGCOUNT, server, known, log, keys>> /\ chat' = chat
    BY <2>1 DEF wire, window
  <2> QED
    BY <2>1, <2>2, Stays DEF Inv, TypeOK
<1>2. CASE T_CONTACTREMOVED
  <2>1. PICK t \in cl :
          /\ cl' = cl \ {t} /\ log' = [log EXCEPT ![t] = <<>>]
          /\ IF chat = t THEN chat' = None ELSE UNCHANGED window
          /\ UNCHANGED <<wire, keys>>
    BY <1>2 DEF T_CONTACTREMOVED
  <2>2. chat' \in {chat, None} /\ UNCHANGED <<conn, SENDMSGCOUNT, server, known, keys>>
    BY <2>1 DEF wire, window
  <2>3. t \in Contact /\ cl' \subseteq Contact
    BY <2>1 DEF Inv, TypeOK
  <2> QED
    BY <2>1, <2>2, <2>3, Empties
<1> QED
  BY <1>1, <1>2, RecvStep, AckStep DEF ProcessPacket

LEMMA ConnStep ==
  ASSUME Inv, Clean' => Clean, ENIP_SOCK_CONNECTED \/ T_LOGIN \/ ENIP_SOCK_CLOSED \/ IPC_SENDMSG
  PROVE  Inv'
\* No log has a number in it, so the numbers may begin anew.
<1>1. CASE ENIP_SOCK_CONNECTED
  <2>1. /\ conn' = "login" /\ SENDMSGCOUNT' = 0 /\ server' = <<>>
        /\ UNCHANGED <<known, cl, log, chat, keys>>
    BY <1>1 DEF ENIP_SOCK_CONNECTED, window
  <2>0. Clean' => conn = "off"
    BY <1>1 DEF ENIP_SOCK_CONNECTED, Notes, Clean
  <2>2. server' \in Seq(Sent) /\ Len(server') = 0
    BY <2>1
  <2>3. TypeOK'
    BY <2>1, <2>2 DEF Inv, TypeOK
  <2>4. ASSUME NEW u \in Contact, NEW j \in DOMAIN (log[u])'
        PROVE  Numbered(log[u][j])' /\ Shows(log[u][j])'
    <3>1. Numbered(log[u][j]) /\ Shows(log[u][j])
      BY <2>1, <2>4 DEF Inv, NumberInv
    <3> QED
      BY <2>0, <2>1, <3>1 DEF Numbered, Shows
  <2>5. NumberInv'
    BY <2>1, <2>2, <2>4, LogAssumption DEF NumberInv
  <2> QED
    BY <2>3, <2>5 DEF Inv
<1>2. CASE T_LOGIN
  <2>1. /\ conn = "login" /\ conn' = "on"
        /\ UNCHANGED <<SENDMSGCOUNT, server, known, cl, log, chat, keys>>
    BY <1>2 DEF T_LOGIN, window
  <2>2. TypeOK'
    BY <2>1 DEF Inv, TypeOK
  <2>3. ASSUME NEW u \in Contact, NEW j \in DOMAIN (log[u])'
        PROVE  Numbered(log[u][j])' /\ Shows(log[u][j])'
    <3>1. Numbered(log[u][j]) /\ Shows(log[u][j])
      BY <2>1, <2>3 DEF Inv, NumberInv
    <3> QED
      BY <2>1, <3>1 DEF Numbered, Shows
  <2>4. NumberInv'
    BY <2>1, <2>3 DEF Inv, NumberInv
  <2> QED
    BY <2>2, <2>4 DEF Inv
\* Every number of a log is taken away.
<1>3. CASE ENIP_SOCK_CLOSED
  <2>1. /\ conn' = "off" /\ log' = [t \in Contact |-> Aged(log[t])]
        /\ UNCHANGED <<SENDMSGCOUNT, server, known, cl, chat, keys>>
    BY <1>3 DEF ENIP_SOCK_CLOSED, window
  <2>2. ASSUME NEW u \in Contact
        PROVE  /\ Aged(log[u]) \in Seq(Entry) /\ DOMAIN Aged(log[u]) = DOMAIN log[u]
               /\ \A j \in DOMAIN log[u] :
                    /\ Aged(log[u])[j].ID \in {Plain, Old}
                    /\ Aged(log[u])[j].key = log[u][j].key
                    /\ Aged(log[u])[j].ack = log[u][j].ack
    <3>1. log[u] \in Seq(Entry)
      BY DEF Inv, TypeOK
    <3>2. PICK es \in Seq(Entry) : es = log[u]
      BY <3>1
    <3>3. ASSUME NEW j \in DOMAIN es
          PROVE  /\ Aged(es)[j] \in Entry /\ Aged(es)[j].ID \in {Plain, Old}
                 /\ Aged(es)[j].key = es[j].key /\ Aged(es)[j].ack = es[j].ack
      <4>1. PICK e \in Entry : e = es[j]
        OBVIOUS
      <4>2. Aged(es)[j] = IF e.ID = Plain THEN e ELSE [e EXCEPT !.ID = Old]
        BY <4>1 DEF Aged
      <4> QED
        BY <4>1, <4>2 DEF Entry
    <3>4. DOMAIN es = 1..Len(es) /\ Len(es) \in Nat
      OBVIOUS
    <3>5. DOMAIN Aged(es) = DOMAIN es /\ Aged(es) = [j \in DOMAIN es |-> Aged(es)[j]]
      BY DEF Aged
    <3>6. Aged(es) \in [1..Len(es) -> Entry]
      BY <3>3, <3>4, <3>5
    <3>7. Aged(es) \in Seq(Entry)
      BY <3>4, <3>6
    <3> QED
      BY <3>2, <3>3, <3>5, <3>7
  <2>3. TypeOK'
    BY <2>1, <2>2 DEF Inv, TypeOK
  <2>4. ASSUME NEW u \in Contact, NEW j \in DOMAIN (log[u])'
        PROVE  Numbered(log[u][j])' /\ Shows(log[u][j])'
    <3>1. log'[u] = Aged(log[u]) /\ j \in DOMAIN log[u]
      BY <2>1, <2>2, <2>4
    <3>2. Shows(log[u][j])
      BY <3>1 DEF Inv, NumberInv
    <3>3. /\ log'[u][j].ID \notin Nat /\ log'[u][j].key = log[u][j].key
          /\ log'[u][j].ack = log[u][j].ack
      BY <2>2, <3>1, Kinds
    <3> QED
      BY <2>1, <3>2, <3>3 DEF Numbered, Shows
  <2>5. NumberInv'
    BY <2>1, <2>4 DEF Inv, NumberInv
  <2> QED
    BY <2>3, <2>5 DEF Inv
\* The server gets it, if there is one; then the count goes on with what it has got.
<1>4. CASE IPC_SENDMSG
  <2>1. PICK t \in Contact :
          /\ keys < MaxMsg /\ keys' = keys + 1 /\ SENDMSGCOUNT' = SENDMSGCOUNT + 1
          /\ server' = IF conn = "off" THEN server
                       ELSE Append(server, [to |-> t, key |-> keys + 1])
          /\ UNCHANGED <<conn, known, cl, log, chat>>
    BY <1>4 DEF IPC_SENDMSG, window
  <2>0. Clean' => SENDMSGCOUNT' < Numbers
    <3>1. Clean' => ~ (SENDMSGCOUNT + 1 >= Numbers)
      BY <1>4 DEF IPC_SENDMSG, Notes, Clean
    <3> QED
      BY <2>1, <3>1, LogAssumption DEF Inv, TypeOK
  <2>2. [to |-> t, key |-> keys + 1] \in Sent
    BY <2>1, BoundAssumption DEF Inv, TypeOK, Sent, Key
  <2>3. server' \in Seq(Sent)
    BY <2>1, <2>2 DEF Inv, TypeOK
  <2>4. TypeOK'
    BY <2>1, <2>3 DEF Inv, TypeOK
  <2>5. conn # "off" => /\ Clean' => Len(server') = SENDMSGCOUNT'
                        /\ \A n \in DOMAIN server :
                             n \in DOMAIN server' /\ server'[n] = server[n]
    BY <2>1, <2>2 DEF Inv, TypeOK, NumberInv
  <2>6. ASSUME NEW u \in Contact, NEW j \in DOMAIN (log[u])'
        PROVE  Numbered(log[u][j])' /\ Shows(log[u][j])'
    <3>1. Numbered(log[u][j]) /\ Shows(log[u][j])
      BY <2>1, <2>6 DEF Inv, NumberInv
    <3> QED
      BY <2>1, <2>5, <3>1 DEF Numbered, Shows
  <2>7. NumberInv'
    BY <2>0, <2>1, <2>5, <2>6 DEF NumberInv
  <2> QED
    BY <2>4, <2>7 DEF Inv
<1> QED
  BY <1>1, <1>2, <1>3, <1>4

\* The number of the new message is the place where the server has it.
LEMMA GreenStep ==
  ASSUME Inv, Clean' => Clean, GREEN_BUTTON
  PROVE  Inv'
<1> DEFINE id == (SENDMSGCOUNT + 1) % Numbers
<1>1. /\ chat # None /\ conn = "on" /\ keys < MaxMsg /\ keys' = keys + 1
      /\ SENDMSGCOUNT' = SENDMSGCOUNT + 1
      /\ server' = Append(server, [to |-> chat, key |-> keys + 1])
      /\ UNCHANGED <<conn, known, cl, chat>>
  BY DEF GREEN_BUTTON, Writes
<1>0. Clean' => SENDMSGCOUNT' < Numbers /\ id = SENDMSGCOUNT + 1
  <2>1. Clean' => ~ (SENDMSGCOUNT + 1 >= Numbers)
    BY DEF GREEN_BUTTON, Notes, Clean
  <2>2. PICK c : c = SENDMSGCOUNT + 1
    OBVIOUS
  <2>3. c \in Nat /\ Numbers \in Nat \ {0} /\ id = c % Numbers
    BY <2>2, LogAssumption DEF Inv, TypeOK
  <2>4. c < Numbers => c % Numbers = c
    BY <2>3
  <2>5. c >= Numbers \/ c < Numbers
    BY <2>3
  <2> QED
    BY <1>1, <2>1, <2>2, <2>3, <2>4, <2>5
<1>2. PICK es \in Logged(chat, keys + 1, id) : log' = [log EXCEPT ![chat] = es]
  BY DEF GREEN_BUTTON, Writes
<1>3. chat \in Contact /\ id \in Nat
  BY <1>1, LogAssumption DEF Inv, TypeOK
<1> HIDE DEF id
<1>4. /\ es \in Seq(Entry)
      /\ \A i \in DOMAIN es :
           \/ Kept(es[i], log[chat])
           \/ es[i] = [key |-> keys + 1, ID |-> id, ack |-> 0, drawn |-> FALSE]
  BY <1>1, <1>3, LoggedIs DEF Inv
<1>5. [to |-> chat, key |-> keys + 1] \in Sent
  BY <1>1, <1>3, BoundAssumption DEF Inv, TypeOK, Sent, Key
<1>6. server' \in Seq(Sent)
  BY <1>1, <1>5 DEF Inv, TypeOK
<1>7. TypeOK'
  BY <1>1, <1>2, <1>4, <1>6 DEF Inv, TypeOK
<1>8. /\ \A n \in DOMAIN server : n \in DOMAIN server' /\ server'[n] = server[n]
      /\ Clean' => /\ Len(server') = SENDMSGCOUNT'
                   /\ SENDMSGCOUNT + 1 \in DOMAIN server'
                   /\ server'[SENDMSGCOUNT + 1] = [to |-> chat, key |-> keys + 1]
  BY <1>1, <1>5 DEF Inv, TypeOK, NumberInv
<1>9. Clean' => server'[SENDMSGCOUNT + 1].key = keys + 1
  BY <1>8
<1>10. ASSUME NEW e, NEW u \in Contact, NEW k \in DOMAIN log[u],
              e.key = log[u][k].key, e.ack = log[u][k].ack,
              e.ID = log[u][k].ID \/ e.ID \in {Plain, Old}
       PROVE  Numbered(e)' /\ Shows(e)'
  <2>1. Numbered(log[u][k]) /\ Shows(log[u][k])
    BY DEF Inv, NumberInv
  <2> QED
    BY <1>1, <1>8, <1>10, <2>1, Kinds DEF Numbered, Shows
<1>11. ASSUME NEW u \in Contact, NEW j \in DOMAIN (log[u])'
       PROVE  Numbered(log[u][j])' /\ Shows(log[u][j])'
  <2>1. PICK e : e = log'[u][j]
    OBVIOUS
  <2>2. CASE u # chat
    <3>1. e = log[u][j] /\ j \in DOMAIN log[u]
      BY <1>2, <1>3, <1>11, <2>1, <2>2 DEF Inv, TypeOK
    <3>2. Numbered(e)' /\ Shows(e)'
      BY <1>10, <3>1
    <3> QED
      BY <2>1, <3>2 DEF Numbered, Shows
  <2>3. CASE u = chat
    <3>1. j \in DOMAIN es /\ e = es[j]
      BY <1>2, <1>3, <1>11, <2>1, <2>3 DEF Inv, TypeOK
    <3>2. CASE Kept(es[j], log[chat])
      <4>1. PICK k \in DOMAIN log[chat] :
              /\ e.key = log[chat][k].key /\ e.ack = log[chat][k].ack
              /\ e.ID = log[chat][k].ID \/ e.ID \in {Plain, Old}
        BY <3>1, <3>2 DEF Kept
      <4>2. Numbered(e)' /\ Shows(e)'
        BY <1>3, <1>10, <4>1
      <4> QED
        BY <2>1, <4>2 DEF Numbered, Shows
    <3>3. CASE es[j] = [key |-> keys + 1, ID |-> id, ack |-> 0, drawn |-> FALSE]
      <4>1. e.key = keys + 1 /\ e.ID = id /\ e.ack = 0
        BY <3>1, <3>3
      <4>2. Numbered(e)' /\ Shows(e)'
        BY <1>0, <1>1, <1>8, <1>9, <4>1 DEF Numbered, Shows
      <4> QED
        BY <2>1, <4>2 DEF Numbered, Shows
    <3> QED
      BY <1>4, <3>1, <3>2, <3>3
  <2> QED
    BY <2>2, <2>3
<1>12. NumberInv'
  BY <1>0, <1>8, <1>11 DEF NumberInv
<1> QED
  BY <1>7, <1>12 DEF Inv

LEMMA WindowStep ==
  ASSUME Inv, Clean' => Clean, Window
  PROVE  Inv'
<1>1. CASE CreateEditChat
  <2>1. chat' \in cl /\ UNCHANGED <<conn, SENDMSGCOUNT, server, known, log, keys, cl>>
    BY <1>1 DEF CreateEditChat, wire
  <2> QED
    BY <2>1, Stays DEF Inv, TypeOK
<1>2. CASE ClosesChat \/ Covered \/ OnFocus \/ BeginsWord \/ EndsWord
  <2>1. chat' \in {chat, None} /\ UNCHANGED <<wire, log, keys, cl>>
    BY <1>2 DEF ClosesChat, Covered, OnFocus, BeginsWord, EndsWord
  <2>2. UNCHANGED <<conn, SENDMSGCOUNT, server, known, log, keys, cl>>
    BY <2>1 DEF wire
  <2> QED
    BY <2>1, <2>2, Stays DEF Inv, TypeOK
<1>3. CASE OnRedraw
  <2>1. chat # None /\ UNCHANGED <<conn, SENDMSGCOUNT, server, known, cl, chat, keys>>
    BY <1>3 DEF OnRedraw, wire
  <2>2. chat \in Contact
    BY <2>1 DEF Inv, TypeOK
  <2>3. log[chat] \in Seq(Entry)
    BY <2>2 DEF Inv, TypeOK
  <2>4. PICK ds : /\ log' = [log EXCEPT ![chat] = ds]
                  /\ ds = [i \in DOMAIN log[chat] |-> ds[i]]
                  /\ \A i \in DOMAIN log[chat] :
                       ds[i] = log[chat][i] \/ ds[i] = [log[chat][i] EXCEPT !.drawn = TRUE]
    <3>1. PICK at :
            log' = [log EXCEPT ![chat] = [i \in DOMAIN log[chat] |->
                      IF req_drawack[chat] /\ i > at /\ ~log[chat][i].drawn
                      THEN [log[chat][i] EXCEPT !.drawn = TRUE] ELSE log[chat][i]]]
      BY <1>3 DEF OnRedraw
    <3>2. PICK ds : ds = [i \in DOMAIN log[chat] |->
                      IF req_drawack[chat] /\ i > at /\ ~log[chat][i].drawn
                      THEN [log[chat][i] EXCEPT !.drawn = TRUE] ELSE log[chat][i]]
      OBVIOUS
    <3>3. log' = [log EXCEPT ![chat] = ds]
      BY <3>1, <3>2
    <3>4. \A i \in DOMAIN log[chat] :
            ds[i] = log[chat][i] \/ ds[i] = [log[chat][i] EXCEPT !.drawn = TRUE]
      BY <3>2
    <3>5. ds = [i \in DOMAIN log[chat] |-> ds[i]]
      <4>1. PICK es : es = log[chat]
        OBVIOUS
      <4> QED
        BY <3>2, <4>1
    <3> QED
      BY <3>3, <3>4, <3>5
  <2>5. ds \in Seq(Entry) /\ \A i \in DOMAIN ds : Kept(ds[i], log[chat])
    BY <2>3, <2>4, Redrawn
  <2> QED
    BY <2>1, <2>2, <2>4, <2>5, Colours
<1>4. CASE MenuSends
  <2>1. /\ chat # None /\ keys < MaxMsg /\ keys' = keys + 1
        /\ UNCHANGED <<conn, SENDMSGCOUNT, server, known, cl, chat>>
    BY <1>4 DEF MenuSends, Writes
  <2>2. PICK es \in Logged(chat, keys + 1, Plain) : log' = [log EXCEPT ![chat] = es]
    BY <1>4 DEF MenuSends, Writes
  <2>3. chat \in Contact /\ cl' \subseteq Contact
    BY <2>1 DEF Inv, TypeOK
  <2> QED
    BY <2>1, <2>2, <2>3, AddsPlain
<1>5. CASE ClearLog
  <2>1. /\ chat # None /\ log' = [log EXCEPT ![chat] = <<>>]
        /\ UNCHANGED <<conn, SENDMSGCOUNT, server, known, cl, chat, keys>>
    BY <1>5 DEF ClearLog, wire
  <2>2. chat \in Contact /\ cl' \subseteq Contact
    BY <2>1 DEF Inv, TypeOK
  <2> QED
    BY <2>1, <2>2, Empties
<1> QED
  BY <1>1, <1>2, <1>3, <1>4, <1>5, GreenStep DEF Window

LEMMA Start == Init => Inv
<1> SUFFICES ASSUME Init
             PROVE  Inv
  OBVIOUS
<1>1. <<>> \in Seq(Sent) /\ <<>> \in Seq(Entry) /\ DOMAIN <<>> = {}
  OBVIOUS
<1>2. TypeOK
  BY <1>1 DEF Init, TypeOK
<1>3. NumberInv
  BY <1>1, LogAssumption DEF Init, NumberInv
<1> QED
  BY <1>2, <1>3 DEF Inv

LEMMA Step == Inv /\ [Next]_vars => Inv'
<1> SUFFICES ASSUME Inv, [Next]_vars
             PROVE  Inv'
  OBVIOUS
<1>0. Clean' => Clean
  BY OddKept DEF Clean
<1>1. CASE Next
  BY <1>0, <1>1, PacketStep, ConnStep, WindowStep DEF Next
<1>2. CASE UNCHANGED vars
  <2>1. UNCHANGED <<conn, SENDMSGCOUNT, server, known, log, keys, cl, chat>>
    BY <1>2 DEF vars, wire, window
  <2> QED
    BY <1>0, <2>1, Stays DEF Inv, TypeOK
<1> QED
  BY <1>1, <1>2

-----------------------------------------------------------------------------
\* An acknowledgement is shown at the message that it was sent for, through any
\* number of connections (main.c:912-930, 2404-2446, cl_work.c:47-52), however many
\* contacts, messages and connections there are, as long as each connection has ended
\* before the next one is made and none has used up the numbers.
THEOREM AckTrueAlways == Spec => []AckTrue
<1>1. Inv => AckTrue
  BY DEF Inv, NumberInv, Shows, Clean, AckTrue
<1> QED
  BY <1>1, Start, Step, PTL DEF Spec

-----------------------------------------------------------------------------
(* The sum over a finite set, which is a recursive function on its subsets. *)

Pick(s) == CHOOSE x \in s : TRUE

\* it sums g up over the subsets of D.
SumsUp(D, g, it) ==
  \A s \in SUBSET D : it[s] = IF s = {} THEN 0 ELSE g[Pick(s)] + it[s \ {Pick(s)}]

Total(g) == FoldFunction(+, 0, g)

\* Induction on the natural numbers, for a set of them.
LEMMA Induction ==
  ASSUME NEW S, 0 \in S, \A n \in Nat : n \in S => n + 1 \in S
  PROVE  Nat \subseteq S
<1> SUFFICES ASSUME Nat \ S # {}
             PROVE  FALSE
  OBVIOUS
<1>1. PICK m \in Nat \ S : \A j \in Nat \ S : m <= j
  BY Least
<1>2. m # 0
  OBVIOUS
<1>3. m - 1 \in Nat /\ ~(m <= m - 1) /\ m = (m - 1) + 1
  BY <1>2
<1>4. m - 1 \in S
  BY <1>1, <1>3
<1> QED
  BY <1>3, <1>4

\* A set of n + 1 elements, and what it is without one.
LEMMA OneLess ==
  ASSUME NEW s, IsFiniteSet(s), NEW n \in Nat, Cardinality(s) = n + 1
  PROVE  /\ s # {} /\ Pick(s) \in s
         /\ \A t \in s : IsFiniteSet(s \ {t}) /\ Cardinality(s \ {t}) = n
<1>1. s # {}
  BY FS_EmptySet
<1>2. \A t \in s : IsFiniteSet(s \ {t}) /\ Cardinality(s \ {t}) = n
  BY FS_RemoveElement
<1> QED
  BY <1>1, <1>2 DEF Pick

LEMMA SumThere ==
  ASSUME NEW D, IsFiniteSet(D), NEW g
  PROVE  \E it : it = [s \in SUBSET D |-> it[s]] /\ SumsUp(D, g, it)
<1> DEFINE Up(n, it) == \A s \in SUBSET D : Cardinality(s) <= n =>
             it[s] = IF s = {} THEN 0 ELSE g[Pick(s)] + it[s \ {Pick(s)}]
           S == {n \in Nat : \E it : it = [s \in SUBSET D |-> it[s]] /\ Up(n, it)}
<1>0. \A s \in SUBSET D : IsFiniteSet(s) /\ Cardinality(s) \in Nat
  BY FS_Subset, FS_CardinalityType
<1>1. 0 \in S
  <2> DEFINE it == [s \in SUBSET D |-> 0]
  <2>1. \A s \in SUBSET D : Cardinality(s) <= 0 => s = {}
    BY <1>0, FS_EmptySet
  <2>2. Up(0, it)
    BY <2>1
  <2>3. it = [s \in SUBSET D |-> it[s]]
    OBVIOUS
  <2> QED
    BY <2>2, <2>3
<1>2. ASSUME NEW n \in Nat, n \in S
      PROVE  n + 1 \in S
  <2>1. PICK it : it = [s \in SUBSET D |-> it[s]] /\ Up(n, it)
    BY <1>2
  <2> DEFINE up == [s \in SUBSET D |->
                     IF Cardinality(s) <= n THEN it[s] ELSE g[Pick(s)] + it[s \ {Pick(s)}]]
  <2>2. ASSUME NEW s \in SUBSET D, Cardinality(s) <= n + 1
        PROVE  up[s] = IF s = {} THEN 0 ELSE g[Pick(s)] + up[s \ {Pick(s)}]
    <3>1. CASE s = {}
      <4>1. Cardinality(s) = 0
        BY <3>1, FS_EmptySet
      <4>2. Cardinality(s) <= n
        BY <4>1
      <4>3. it[s] = 0
        BY <2>1, <3>1, <4>2
      <4> QED
        BY <3>1, <4>2, <4>3
    <3>2. CASE s # {}
      <4> DEFINE r == s \ {Pick(s)}
      <4>1. Pick(s) \in s /\ r \in SUBSET D
        BY <3>2 DEF Pick
      <4>2. Cardinality(r) = Cardinality(s) - 1
        BY <1>0, <4>1, FS_RemoveElement
      <4>3. Cardinality(r) <= n
        BY <1>0, <2>2, <4>2
      <4>4. up[r] = it[r]
        BY <4>1, <4>3
      <4>5. up[s] = g[Pick(s)] + it[r]
        <5>1. CASE Cardinality(s) <= n
          BY <2>1, <3>2, <5>1
        <5>2. CASE ~(Cardinality(s) <= n)
          BY <5>2
        <5> QED
          BY <5>1, <5>2
      <4> QED
        BY <3>2, <4>4, <4>5
    <3> QED
      BY <3>1, <3>2
  <2>3. up = [s \in SUBSET D |-> up[s]]
    OBVIOUS
  <2>4. Up(n + 1, up)
    BY <2>2
  <2>5. n + 1 \in Nat
    OBVIOUS
  <2> HIDE DEF up, Up
  <2> QED
    BY <2>3, <2>4, <2>5
<1>3. Cardinality(D) \in S
  <2>1. Nat \subseteq S
    <3> HIDE DEF S
    <3> QED
      BY <1>1, <1>2, Induction
  <2>2. Cardinality(D) \in Nat
    BY <1>0
  <2> HIDE DEF S
  <2> QED
    BY <2>1, <2>2
<1>4. PICK it : it = [s \in SUBSET D |-> it[s]] /\ Up(Cardinality(D), it)
  BY <1>3
<1>5. \A s \in SUBSET D : Cardinality(s) <= Cardinality(D)
  BY FS_Subset
<1>6. SumsUp(D, g, it)
  BY <1>4, <1>5 DEF SumsUp
<1> QED
  BY <1>4, <1>6

\* FoldFunction is such a sum.
LEMMA TotalIs ==
  ASSUME NEW D, IsFiniteSet(D), NEW g, DOMAIN g = D
  PROVE  \E it : SumsUp(D, g, it) /\ Total(g) = it[D]
<1> DEFINE Sums(it) == it = [s \in SUBSET DOMAIN g |->
                              IF s = {} THEN 0 ELSE g[Pick(s)] + it[s \ {Pick(s)}]]
           it0 == CHOOSE it : Sums(it)
<1>1. Total(g) = it0[DOMAIN g]
  BY DEF Total, FoldFunction, FoldFunctionOnSet, MapThenFoldSet, Pick
<1>2. PICK it : it = [s \in SUBSET D |-> it[s]] /\ SumsUp(D, g, it)
  BY SumThere
<1>3. Sums(it)
  BY <1>2 DEF SumsUp
<1>4. Sums(it0)
  <2> HIDE DEF Sums
  <2> QED
    BY <1>3
<1>5. SumsUp(D, g, it0)
  <2> HIDE DEF it0
  <2> QED
    BY <1>4 DEF SumsUp
<1> QED
  BY <1>1, <1>5

LEMMA TakesAny ==
  ASSUME NEW D, IsFiniteSet(D), NEW g \in [D -> Int], NEW it, SumsUp(D, g, it)
  PROVE  \A s \in SUBSET D : it[s] \in Int /\ \A t \in s : it[s] = g[t] + it[s \ {t}]
<1> DEFINE Good(s) == it[s] \in Int /\ \A t \in s : it[s] = g[t] + it[s \ {t}]
           S == {n \in Nat : \A s \in SUBSET D : Cardinality(s) <= n => Good(s)}
<1>0. \A s \in SUBSET D : IsFiniteSet(s) /\ Cardinality(s) \in Nat
  BY FS_Subset, FS_CardinalityType
<1>1. 0 \in S
  <2>1. ASSUME NEW s \in SUBSET D, Cardinality(s) <= 0
        PROVE  Good(s)
    <3>1. s = {}
      BY <1>0, <2>1, FS_EmptySet
    <3>2. it[s] = 0
      BY <3>1 DEF SumsUp
    <3> QED
      BY <3>1, <3>2
  <2> QED
    BY <2>1
<1>2. ASSUME NEW n \in Nat, n \in S
      PROVE  n + 1 \in S
  <2>1. ASSUME NEW s \in SUBSET D, Cardinality(s) = n + 1
        PROVE  Good(s)
    <3> DEFINE x == Pick(s)
    <3>1. /\ x \in s /\ s # {}
          /\ \A t \in s : s \ {t} \in SUBSET D /\ Cardinality(s \ {t}) = n
      BY <1>0, <2>1, OneLess
    <3>2. \A t \in s : Good(s \ {t})
      <4>1. \A r \in SUBSET D : Cardinality(r) <= n => Good(r)
        BY <1>2
      <4>2. \A t \in s : Cardinality(s \ {t}) <= n
        BY <3>1
      <4> HIDE DEF Good
      <4> QED
        BY <3>1, <4>1, <4>2
    <3>3. it[s] = g[x] + it[s \ {x}]
      BY <3>1 DEF SumsUp
    <3>4. \A t \in s : g[t] \in Int /\ it[s \ {t}] \in Int
      BY <3>2
    <3> HIDE DEF x
    <3>5. ASSUME NEW t \in s
          PROVE  it[s] = g[t] + it[s \ {t}]
      <4>1. CASE t = x
        BY <3>3, <4>1
      <4>2. CASE t # x
        <5> DEFINE r == s \ {x, t}
        <5>1. (s \ {x}) \ {t} = r /\ (s \ {t}) \ {x} = r
          OBVIOUS
        <5>2. it[s \ {x}] = g[t] + it[r]
          <6>1. t \in s \ {x}
            BY <4>2
          <6> QED
            BY <3>1, <3>2, <5>1, <6>1
        <5>3. it[s \ {t}] = g[x] + it[r]
          <6>1. x \in s \ {t}
            BY <3>1, <4>2
          <6> QED
            BY <3>1, <3>2, <5>1, <6>1
        <5>4. it[r] \in Int
          <6>1. /\ s \ {x} \in SUBSET D /\ r \in SUBSET (s \ {x})
                /\ Cardinality(s \ {x}) = n
            BY <3>1
          <6>2. Cardinality(r) <= n
            BY <1>0, <6>1, FS_Subset
          <6> QED
            BY <1>2, <6>1, <6>2
        <5>5. g[x] \in Int /\ g[t] \in Int
          BY <3>1, <3>4
        <5> QED
          BY <3>3, <5>2, <5>3, <5>4, <5>5
      <4> QED
        BY <4>1, <4>2
    <3>6. it[s] \in Int
      BY <3>1, <3>3, <3>4
    <3> QED
      BY <3>5, <3>6
  <2>2. ASSUME NEW s \in SUBSET D, Cardinality(s) <= n + 1
        PROVE  Cardinality(s) <= n \/ Cardinality(s) = n + 1
    BY <1>0, <2>2
  <2>3. n + 1 \in Nat /\ \A s \in SUBSET D : Cardinality(s) <= n => Good(s)
    BY <1>2
  <2> HIDE DEF Good
  <2> QED
    BY <2>1, <2>2, <2>3
<1>3. Nat \subseteq S
  <2> HIDE DEF S
  <2> QED
    BY <1>1, <1>2, Induction
<1>4. ASSUME NEW s \in SUBSET D
      PROVE  Good(s)
  <2>1. Cardinality(s) \in S
    BY <1>0, <1>3
  <2>2. Cardinality(s) <= Cardinality(s)
    BY <1>0
  <2> QED
    BY <2>1, <2>2
<1> QED
  BY <1>4

\* The sum of nothing but zeros.
LEMMA TotalZero ==
  ASSUME NEW D, IsFiniteSet(D)
  PROVE  Total([t \in D |-> 0]) = 0
<1> DEFINE g == [t \in D |-> 0]
<1>1. PICK it : SumsUp(D, g, it) /\ Total(g) = it[D]
  BY TotalIs
<1> DEFINE S == {n \in Nat : \A s \in SUBSET D : Cardinality(s) = n => it[s] = 0}
<1>0. \A s \in SUBSET D : IsFiniteSet(s) /\ Cardinality(s) \in Nat
  BY FS_Subset, FS_CardinalityType
<1>2. 0 \in S
  <2>1. \A s \in SUBSET D : Cardinality(s) = 0 => s = {}
    BY <1>0, FS_EmptySet
  <2> HIDE DEF g
  <2> QED
    BY <1>1, <2>1 DEF SumsUp
<1>3. ASSUME NEW n \in Nat, n \in S
      PROVE  n + 1 \in S
  <2>1. ASSUME NEW s \in SUBSET D, Cardinality(s) = n + 1
        PROVE  it[s] = 0
    <3>1. /\ Pick(s) \in s /\ s # {}
          /\ s \ {Pick(s)} \in SUBSET D /\ Cardinality(s \ {Pick(s)}) = n
      BY <1>0, <2>1, OneLess
    <3>2. it[s] = g[Pick(s)] + it[s \ {Pick(s)}]
      <4> HIDE DEF g
      <4> QED
        BY <1>1, <3>1 DEF SumsUp
    <3>3. it[s \ {Pick(s)}] = 0
      BY <1>3, <3>1
    <3> QED
      BY <3>1, <3>2, <3>3
  <2> QED
    BY <2>1
<1>4. Nat \subseteq S
  <2> HIDE DEF S
  <2> QED
    BY <1>2, <1>3, Induction
<1>5. Cardinality(D) \in S
  BY <1>0, <1>4
<1> QED
  BY <1>1, <1>5

\* A sum when one summand changes.
LEMMA TotalChanges ==
  ASSUME NEW D, IsFiniteSet(D), NEW g \in [D -> Int], NEW t \in D, NEW v \in Int
  PROVE  Total([g EXCEPT ![t] = v]) = Total(g) - g[t] + v
<1> DEFINE h == [g EXCEPT ![t] = v]
<1>1. h \in [D -> Int] /\ h[t] = v /\ \A u \in D : u # t => h[u] = g[u]
  OBVIOUS
<1> HIDE DEF h
<1>2. PICK it : SumsUp(D, g, it) /\ Total(g) = it[D]
  BY TotalIs
<1>3. PICK up : SumsUp(D, h, up) /\ Total(h) = up[D]
  BY <1>1, TotalIs
<1> DEFINE S == {n \in Nat : \A s \in SUBSET D : Cardinality(s) = n /\ t \notin s => up[s] = it[s]}
<1>0. \A s \in SUBSET D : IsFiniteSet(s) /\ Cardinality(s) \in Nat
  BY FS_Subset, FS_CardinalityType
<1>4. 0 \in S
  <2>1. \A s \in SUBSET D : Cardinality(s) = 0 => s = {}
    BY <1>0, FS_EmptySet
  <2> QED
    BY <1>2, <1>3, <2>1 DEF SumsUp
<1>5. ASSUME NEW n \in Nat, n \in S
      PROVE  n + 1 \in S
  <2>1. ASSUME NEW s \in SUBSET D, Cardinality(s) = n + 1, t \notin s
        PROVE  up[s] = it[s]
    <3>1. /\ Pick(s) \in s /\ s # {}
          /\ s \ {Pick(s)} \in SUBSET D /\ Cardinality(s \ {Pick(s)}) = n
      BY <1>0, <2>1, OneLess
    <3>2. /\ it[s] = g[Pick(s)] + it[s \ {Pick(s)}]
          /\ up[s] = h[Pick(s)] + up[s \ {Pick(s)}]
      BY <1>2, <1>3, <3>1 DEF SumsUp
    <3>3. up[s \ {Pick(s)}] = it[s \ {Pick(s)}]
      BY <1>5, <2>1, <3>1
    <3>4. h[Pick(s)] = g[Pick(s)]
      BY <1>1, <2>1, <3>1
    <3> QED
      BY <3>2, <3>3, <3>4
  <2> QED
    BY <2>1
<1>6. Nat \subseteq S
  <2> HIDE DEF S
  <2> QED
    BY <1>4, <1>5, Induction
<1>7. up[D \ {t}] = it[D \ {t}]
  <2>1. D \ {t} \in SUBSET D
    OBVIOUS
  <2>2. Cardinality(D \ {t}) \in S
    BY <1>0, <1>6, <2>1
  <2> QED
    BY <2>1, <2>2
<1>8. it[D] = g[t] + it[D \ {t}] /\ it[D \ {t}] \in Int
  <2>1. \A s \in SUBSET D : it[s] \in Int /\ \A u \in s : it[s] = g[u] + it[s \ {u}]
    BY <1>2, TakesAny
  <2>2. D \in SUBSET D /\ D \ {t} \in SUBSET D
    OBVIOUS
  <2> QED
    BY <2>1, <2>2
<1>9. up[D] = v + up[D \ {t}]
  <2>1. \A s \in SUBSET D : up[s] \in Int /\ \A u \in s : up[s] = h[u] + up[s \ {u}]
    BY <1>1, <1>3, TakesAny
  <2>2. D \in SUBSET D
    OBVIOUS
  <2> QED
    BY <1>1, <2>1, <2>2
<1>10. Total(h) = Total(g) - g[t] + v
  BY <1>2, <1>3, <1>7, <1>8, <1>9
<1> QED
  BY <1>10 DEF h

-----------------------------------------------------------------------------
(* The counters of unread messages.                                        *)

CountInv ==
  /\ unreaded \in [Contact -> Nat] /\ isunread \in [Contact -> BOOLEAN]
  /\ messages_unread \in Int
  /\ \A t \in Contact : isunread[t] <=> unreaded[t] > 0
  /\ "removed" \notin odd => messages_unread = Total(unreaded)

\* The counter of t becomes v, and the mark of t tells whether there is something.
LEMMA CountStep ==
  ASSUME CountInv, NEW t \in Contact, NEW v \in Nat, NEW b \in BOOLEAN, b <=> v > 0,
         unreaded' = [unreaded EXCEPT ![t] = v], isunread' = [isunread EXCEPT ![t] = b],
         messages_unread' \in Int, odd \subseteq odd',
         "removed" \notin odd' => messages_unread' = messages_unread - unreaded[t] + v
  PROVE  CountInv'
<1>1. unreaded' \in [Contact -> Nat]
  BY DEF CountInv
<1>2. isunread' \in [Contact -> BOOLEAN]
  BY DEF CountInv
<1>3. ASSUME NEW u \in Contact
      PROVE  isunread'[u] <=> unreaded'[u] > 0
  <2>1. CASE u = t
    <3>1. isunread'[u] = b
      BY <2>1 DEF CountInv
    <3>2. unreaded'[u] = v
      BY <2>1 DEF CountInv
    <3> QED
      BY <3>1, <3>2
  <2>2. CASE u # t
    <3>1. isunread'[u] = isunread[u]
      BY <2>2 DEF CountInv
    <3>2. unreaded'[u] = unreaded[u]
      BY <2>2 DEF CountInv
    <3> QED
      BY <3>1, <3>2 DEF CountInv
  <2> QED
    BY <2>1, <2>2
<1>4. ASSUME "removed" \notin odd'
      PROVE  messages_unread' = Total(unreaded')
  <2>1. unreaded \in [Contact -> Int] /\ v \in Int
    BY DEF CountInv
  <2>2. Total(unreaded') = Total(unreaded) - unreaded[t] + v
    BY <2>1, ContactAssumption, TotalChanges
  <2>3. messages_unread = Total(unreaded)
    BY <1>4 DEF CountInv
  <2>4. messages_unread' = messages_unread - unreaded[t] + v
    BY <1>4
  <2> QED
    BY <2>2, <2>3, <2>4
<1> QED
  BY <1>1, <1>2, <1>3, <1>4 DEF CountInv

LEMMA CountSame ==
  ASSUME CountInv, UNCHANGED count, odd \subseteq odd'
  PROVE  CountInv'
  BY DEF CountInv, count

\* The messages of t are read.
LEMMA ReadCounts ==
  ASSUME CountInv, NEW t \in Contact, Read(t), odd \subseteq odd'
  PROVE  CountInv'
<1>1. unreaded[t] \in Nat /\ messages_unread \in Int
  BY DEF CountInv
<1>2. /\ messages_unread' = messages_unread - unreaded[t]
      /\ unreaded' = [unreaded EXCEPT ![t] = 0] /\ isunread' = [isunread EXCEPT ![t] = FALSE]
  BY DEF Read
<1>3. messages_unread' \in Int /\ messages_unread' = messages_unread - unreaded[t] + 0
  BY <1>1, <1>2
<1>4. FALSE <=> 0 > 0
  OBVIOUS
<1> QED
  BY <1>2, <1>3, <1>4, CountStep

\* A message is put into the window, of which there are un unread then.
LEMMA ChatCounts ==
  ASSUME CountInv, NEW t \in Contact, NEW es, NEW k, NEW inc \in Nat,
         unreaded[t] + inc > 0, odd \subseteq odd',
         AddMsgToChat(t, es, k, unreaded[t] + inc, messages_unread + inc)
  PROVE  CountInv'
<1> DEFINE un == unreaded[t] + inc
           mu == messages_unread + inc
<1>1. unreaded[t] \in Nat /\ messages_unread \in Int
  BY DEF CountInv
<1>2. CASE top
  <2>1. /\ messages_unread' = mu - un
        /\ unreaded' = [unreaded EXCEPT ![t] = 0] /\ isunread' = [isunread EXCEPT ![t] = FALSE]
    BY <1>2 DEF AddMsgToChat
  <2>2. messages_unread' \in Int /\ messages_unread' = messages_unread - unreaded[t] + 0
    BY <1>1, <2>1
  <2>3. FALSE <=> 0 > 0
    OBVIOUS
  <2> QED
    BY <2>1, <2>2, <2>3, CountStep
<1>3. CASE ~top
  <2>1. /\ messages_unread' = mu
        /\ unreaded' = [unreaded EXCEPT ![t] = un] /\ isunread' = [isunread EXCEPT ![t] = TRUE]
    BY <1>3 DEF AddMsgToChat
  <2>2. un \in Nat /\ (TRUE <=> un > 0)
    BY <1>1
  <2>3. messages_unread' \in Int /\ messages_unread' = messages_unread - unreaded[t] + un
    BY <1>1, <2>1
  <2> HIDE DEF un
  <2> QED
    BY <2>1, <2>2, <2>3, CountStep
<1> QED
  BY <1>2, <1>3

\* A message comes; one that does not count changes no counter.
LEMMA ComesCounts ==
  ASSUME CountInv, NEW t \in Contact, NEW k, NEW es, NEW inc \in 0..1,
         inc = 0 => chat # t, CountsAnd(t, k, es, inc), odd \subseteq odd'
  PROVE  CountInv'
<1>1. unreaded[t] \in Nat /\ messages_unread \in Int
  BY DEF CountInv
<1>2. CASE chat = t /\ ~busy
  <2>1. inc = 1
    BY <1>2
  <2>2. /\ AddMsgToChat(t, es, LastLogged(t, es), unreaded[t] + inc, messages_unread + inc)
        /\ unreaded[t] + inc > 0 /\ inc \in Nat
    BY <1>1, <1>2, <2>1 DEF CountsAnd
  <2> QED
    BY <2>2, ChatCounts
<1>3. CASE ~ (chat = t /\ ~busy)
  <2> DEFINE v == unreaded[t] + inc
             b == isunread[t] \/ inc = 1
  <2>1. /\ messages_unread' = messages_unread + inc
        /\ unreaded' = [unreaded EXCEPT ![t] = v] /\ isunread' = [isunread EXCEPT ![t] = b]
    BY <1>3 DEF CountsAnd
  <2>2. isunread[t] <=> unreaded[t] > 0
    BY DEF CountInv
  <2>3. v \in Nat /\ b \in BOOLEAN /\ (b <=> v > 0)
    <3>1. CASE inc = 1
      <4>1. v \in Nat /\ v > 0
        BY <1>1, <3>1
      <4> QED
        BY <3>1, <4>1
    <3>2. CASE inc = 0
      <4>1. v = unreaded[t] /\ inc # 1
        BY <1>1, <3>2
      <4>2. b <=> isunread[t]
        BY <4>1
      <4> QED
        BY <1>1, <2>2, <4>1, <4>2
    <3> QED
      BY <3>1, <3>2
  <2>4. messages_unread' \in Int /\ messages_unread' = messages_unread - unreaded[t] + v
    BY <1>1, <2>1
  <2> HIDE DEF v, b
  <2> QED
    BY <2>1, <2>3, <2>4, CountStep
<1> QED
  BY <1>2, <1>3

LEMMA CountsStay == TypeOK /\ CountInv /\ [Next]_vars => CountInv'
<1> SUFFICES ASSUME TypeOK, CountInv, [Next]_vars
             PROVE  CountInv'
  OBVIOUS
<1>0. odd \subseteq odd'
  BY OddKept
<1>1. CASE T_RECVMSG
  <2>1. PICK t \in Contact : (\E es : CountsAnd(t, keys + 1, es, 1)) /\ UNCHANGED odd
    BY <1>1 DEF T_RECVMSG
  <2>2. PICK es : CountsAnd(t, keys + 1, es, 1)
    BY <2>1
  <2> QED
    BY <2>1, <2>2, ComesCounts
<1>2. CASE T_XTEXT_ACK
  <2>1. PICK t \in cl : /\ \E es : CountsAnd(t, keys + 1, es, IF chat = t THEN 1 ELSE 0)
                        /\ UNCHANGED odd
    BY <1>2 DEF T_XTEXT_ACK
  <2>2. PICK es : CountsAnd(t, keys + 1, es, IF chat = t THEN 1 ELSE 0)
    BY <2>1
  <2>3. t \in Contact
    BY DEF TypeOK
  <2> QED
    BY <2>1, <2>2, <2>3, ComesCounts
<1>3. CASE T_CONTACTREMOVED
  <2>1. PICK t \in cl :
          /\ unreaded' = [unreaded EXCEPT ![t] = 0] /\ isunread' = [isunread EXCEPT ![t] = FALSE]
          /\ Notes("removed", unreaded[t] > 0) /\ UNCHANGED messages_unread
    BY <1>3 DEF T_CONTACTREMOVED
  <2>2. t \in Contact
    BY DEF TypeOK
  <2>3. odd \subseteq odd' /\ (unreaded[t] > 0 => "removed" \in odd')
    BY <2>1, OddStays
  <2>4. unreaded[t] \in Nat /\ messages_unread \in Int
    BY <2>2 DEF CountInv
  <2>5. "removed" \notin odd' => messages_unread' = messages_unread - unreaded[t] + 0
    BY <2>1, <2>3, <2>4
  <2>6. FALSE <=> 0 > 0
    OBVIOUS
  <2> QED
    BY <2>1, <2>2, <2>3, <2>4, <2>5, <2>6, CountStep
<1>4. CASE CreateEditChat
  <2>1. PICK t \in cl : Read(t) /\ UNCHANGED odd
    BY <1>4 DEF CreateEditChat
  <2>2. t \in Contact
    BY DEF TypeOK
  <2> QED
    BY <2>1, <2>2, ReadCounts
<1>5. CASE OnFocus
  <2>1. Read(chat) /\ chat # None /\ odd \subseteq odd'
    BY <1>5, OddStays DEF OnFocus
  <2>2. chat \in Contact
    BY <2>1 DEF TypeOK
  <2> QED
    BY <2>1, <2>2, ReadCounts
<1>6. CASE OnRedraw
  <2>1. (Read(chat) \/ UNCHANGED count) /\ chat # None /\ UNCHANGED odd
    BY <1>6 DEF OnRedraw
  <2>2. chat \in Contact
    BY <2>1 DEF TypeOK
  <2> QED
    BY <2>1, <2>2, ReadCounts, CountSame
<1>7. CASE GREEN_BUTTON \/ MenuSends
  <2>1. PICK es : /\ AddMsgToChat(chat, es, LastLogged(chat, es), unreaded[chat] + 1,
                                  messages_unread + 1)
                  /\ chat # None
    BY <1>7 DEF GREEN_BUTTON, MenuSends, Writes
  <2>2. chat \in Contact
    BY <2>1 DEF TypeOK
  <2>3. unreaded[chat] + 1 > 0
    BY <2>2 DEF CountInv
  <2> QED
    BY <1>0, <2>1, <2>2, <2>3, ChatCounts
<1>8. CASE T_CLENTRY \/ ENIP_SOCK_CONNECTED \/ T_LOGIN \/ ENIP_SOCK_CLOSED \/ IPC_SENDMSG
           \/ ClosesChat \/ Covered \/ BeginsWord \/ EndsWord \/ UNCHANGED vars
  <2>1. UNCHANGED count
    BY <1>8 DEF T_CLENTRY, ENIP_SOCK_CONNECTED, T_LOGIN, ENIP_SOCK_CLOSED, IPC_SENDMSG,
                ClosesChat, Covered, BeginsWord, EndsWord, vars
  <2> QED
    BY <1>0, <2>1, CountSame
<1>9. CASE T_ACK \/ ClearLog
  <2>1. UNCHANGED count /\ odd \subseteq odd'
    <3>1. CASE T_ACK
      BY <3>1, OddStays DEF T_ACK
    <3>2. CASE ClearLog
      BY <3>2, OddStays DEF ClearLog
    <3> QED
      BY <1>9, <3>1, <3>2
  <2> QED
    BY <2>1, CountSame
\* What waits is put into the window, which shows the contact then if it is on top.
<1>10. CASE SameXText
  <2>1. PICK t \in cl :
          IF chat = t /\ ~busy /\ isunread[t]
          THEN AddMsgToChat(t, log[t], last_log[t], unreaded[t], messages_unread)
          ELSE UNCHANGED count
    BY <1>10 DEF SameXText
  <2>2. t \in Contact
    BY DEF TypeOK
  <2>3. CASE UNCHANGED count
    BY <1>0, <2>3, CountSame
  <2>4. CASE isunread[t] /\ AddMsgToChat(t, log[t], last_log[t], unreaded[t], messages_unread)
    <3>1. /\ unreaded[t] + 0 = unreaded[t] /\ messages_unread + 0 = messages_unread
          /\ unreaded[t] + 0 > 0
      BY <2>2, <2>4 DEF CountInv
    <3>2. AddMsgToChat(t, log[t], last_log[t], unreaded[t] + 0, messages_unread + 0)
      BY <2>4, <3>1
    <3> QED
      BY <1>0, <2>2, <3>1, <3>2, ChatCounts
  <2> QED
    BY <2>1, <2>3, <2>4
<1> QED
  BY <1>1, <1>2, <1>3, <1>4, <1>5, <1>6, <1>7, <1>8, <1>9, <1>10 DEF Next, ProcessPacket, Window

LEMMA CountsStart == Init => CountInv
<1> SUFFICES ASSUME Init
             PROVE  CountInv
  OBVIOUS
<1>1. unreaded \in [Contact -> Nat] /\ messages_unread \in Int
  BY DEF Init
<1>2. isunread \in [Contact -> BOOLEAN]
  BY DEF Init
<1>3. \A t \in Contact : ~isunread[t]
  BY DEF Init
<1>4. \A t \in Contact : ~ (unreaded[t] > 0)
  BY DEF Init
<1>5. Total(unreaded) = 0
  BY ContactAssumption, TotalZero DEF Init
<1>6. messages_unread = Total(unreaded)
  BY <1>5 DEF Init
<1> QED
  BY <1>1, <1>2, <1>3, <1>4, <1>6 DEF CountInv

-----------------------------------------------------------------------------
\* messages_unread is the number of unread messages, and a contact is marked as
\* unread exactly if it has some (main.c:1866-1878, 2013-2031, 3914-3923,
\* 4088-4094), unless an unread contact has been removed, however many contacts
\* and messages there are.
THEOREM MessagesCountedAlways == Spec => []MessagesCounted
<1>1. CountInv => MessagesCounted
  BY DEF CountInv, MessagesCounted, Total
<1>2. Inv => TypeOK
  BY DEF Inv
<1> QED
  BY <1>1, <1>2, Start, Step, CountsStart, CountsStay, PTL DEF Spec

-----------------------------------------------------------------------------
(* The window and the log of its contact.                                  *)

Line == [key : Key, colour : {Plain, 0, 1, 2}]

Ordered(es) == \A i, j \in DOMAIN es : i < j => es[i].key < es[j].key

OrderInv == \A t \in Contact :
  Ordered(log[t]) /\ \A i \in DOMAIN log[t] : log[t][i].key <= keys

\* The last p - 1 lines of the window v are the first p - 1 messages of the log
\* es, with the colours of those that are drawn, or of all.
Fits(es, v, p, all) ==
  /\ p \in 1..(Len(es) + 1) /\ p - 1 <= Len(v)
  /\ \A i \in 1..(p - 1) :
       /\ v[Len(v) - (p - 1) + i].key = es[i].key
       /\ es[i].drawn \/ all => v[Len(v) - (p - 1) + i].colour = Colour(es[i])

\* The window v is the log es.
Whole(es, v, all) == Len(v) = Len(es) /\ Fits(es, v, Len(es) + 1, all)

Watched == chat # None /\ odd \cap {"focus", "ack", "clear"} = {}

\* What is not in the window v of the log es begins with message l, and waits.
UpToDate(es, v, l, waits, unread, all) ==
  /\ v \in Seq(Line)
  /\ l = None => Whole(es, v, all)
  /\ l # None => /\ waits /\ unread
                 /\ \E p \in DOMAIN es : es[p].key = l /\ Fits(es, v, p, all)

ShowInv == Watched =>
  UpToDate(log[chat], view, last_log[chat], req_add[chat], isunread[chat], ~req_drawack[chat])

FlagTypes ==
  /\ last_log = [t \in Contact |-> last_log[t]]
  /\ req_add \in [Contact -> BOOLEAN] /\ req_drawack \in [Contact -> BOOLEAN]
  /\ isunread \in [Contact -> BOOLEAN]

ViewInv == FlagTypes /\ OrderInv /\ ShowInv

-----------------------------------------------------------------------------
(* Sequences of messages and of lines.                                     *)

LEMMA Item1 ==
  ASSUME NEW e \in Entry
  PROVE  Item(e) \in Line /\ Item(e).key = e.key /\ Item(e).colour = Colour(e)
<1>1. Colour(e) \in {Plain, 0, 1, 2}
  BY DEF Colour, Entry
<1>2. e.key \in Key
  BY DEF Entry
<1> QED
  BY <1>1, <1>2 DEF Item, Line

LEMMA ItemsAre ==
  ASSUME NEW es \in Seq(Entry)
  PROVE  /\ Items(es) \in Seq(Line) /\ Len(Items(es)) = Len(es)
         /\ \A i \in 1..Len(es) : Items(es)[i] = Item(es[i])
<1>1. DOMAIN es = 1..Len(es) /\ Len(es) \in Nat /\ \A i \in 1..Len(es) : es[i] \in Entry
  OBVIOUS
<1>2. \A i \in 1..Len(es) : Item(es[i]) \in Line
  BY <1>1, Item1
<1>3. Items(es) = [i \in 1..Len(es) |-> Item(es[i])]
  BY <1>1 DEF Items
<1>4. Items(es) \in [1..Len(es) -> Line]
  BY <1>2, <1>3
<1>5. Items(es) \in Seq(Line) /\ Len(Items(es)) = Len(es)
  BY <1>1, <1>4, LenProperties, SeqDef
<1> QED
  BY <1>3, <1>5

\* The end of a sequence.
LEMMA LastOfIs ==
  ASSUME NEW S, NEW s \in Seq(S), NEW n \in Nat, n <= Len(s)
  PROVE  /\ LastOf(s, n) \in Seq(S) /\ Len(LastOf(s, n)) = n
         /\ \A i \in 1..n : i + (Len(s) - n) \in 1..Len(s)
                            /\ LastOf(s, n)[i] = s[i + (Len(s) - n)]
<1> DEFINE l == Len(s)
<1>1. l \in Nat /\ LastOf(s, n) = SubSeq(s, l - n + 1, l)
  BY DEF LastOf
<1>2. \A i \in (l - n + 1)..l : s[i] \in S
  BY <1>1
<1> HIDE DEF l
<1>3. l - n + 1 \in Int /\ l - (l - n + 1) + 1 = n /\ n <= l
  BY <1>1 DEF l
<1>4. /\ SubSeq(s, l - n + 1, l) \in Seq(S)
      /\ Len(SubSeq(s, l - n + 1, l)) = IF l - n + 1 <= l THEN l - (l - n + 1) + 1 ELSE 0
      /\ \A i \in 1..(l - (l - n + 1) + 1) :
           SubSeq(s, l - n + 1, l)[i] = s[(l - n + 1) + i - 1]
  BY <1>1, <1>2, <1>3, SubSeqProperties
<1>5. /\ Len(LastOf(s, n)) = n
      /\ \A i \in 1..n : (l - n + 1) + i - 1 = i + (l - n) /\ i + (l - n) \in 1..l
  BY <1>1, <1>3, <1>4
<1>6. \A i \in 1..n : LastOf(s, n)[i] = s[i + (l - n)]
  BY <1>1, <1>3, <1>4, <1>5
<1> QED
  BY <1>1, <1>4, <1>5, <1>6 DEF l

\* Where a key is in a log.
LEMMA Place ==
  ASSUME NEW es \in Seq(Entry), Ordered(es), NEW q \in DOMAIN es, NEW k, es[q].key = k
  PROVE  /\ HasKey(es, k)
         /\ (CHOOSE i \in DOMAIN es : es[i].key = k) = q
<1>1. \A i \in DOMAIN es : es[i].key \in Nat /\ i \in Nat
  <2>1. \A i \in DOMAIN es : es[i] \in Entry /\ i \in Nat
    OBVIOUS
  <2> QED
    BY <2>1 DEF Entry, Key
<1>2. \A i \in DOMAIN es : es[i].key = k => i = q
  BY <1>1 DEF Ordered
<1> QED
  BY <1>2 DEF HasKey

\* The window with what was not in it.
LEMMA ShownIs ==
  ASSUME view \in Seq(Line), NEW es \in Seq(Entry), Ordered(es), NEW all \in BOOLEAN,
         NEW q \in DOMAIN es, NEW k, es[q].key = k, Fits(es, view, q, all)
  PROVE  HasKey(es, k) /\ Shown(es, k) \in Seq(Line) /\ Whole(es, Shown(es, k), all)
<1>1. PICK n \in Nat, m \in Nat, d \in Nat :
        n = Len(es) /\ m = Len(view) /\ q \in 1..n /\ d = m - (q - 1)
  <2>1. Len(es) \in Nat /\ Len(view) \in Nat /\ q \in 1..Len(es) /\ q - 1 <= Len(view)
    BY DEF Fits
  <2>2. Len(view) - (q - 1) \in Nat
    BY <2>1
  <2> QED
    BY <2>1, <2>2
<1>2. HasKey(es, k) /\ From(es, k) = SubSeq(es, q, n)
  <2>1. HasKey(es, k) /\ (CHOOSE i \in DOMAIN es : es[i].key = k) = q
    BY Place
  <2>2. From(es, k) = SubSeq(es, q, Len(es))
    BY <2>1 DEF From
  <2> QED
    BY <1>1, <2>1, <2>2
<1>3. PICK rest : rest = From(es, k)
  OBVIOUS
<1>4. /\ rest \in Seq(Entry) /\ Len(rest) = n - q + 1
      /\ \A i \in 1..(n - q + 1) : rest[i] = es[q + i - 1]
  <2>1. \A i \in q..n : es[i] \in Entry
    BY <1>1
  <2>2. /\ SubSeq(es, q, n) \in Seq(Entry)
        /\ Len(SubSeq(es, q, n)) = IF q <= n THEN n - q + 1 ELSE 0
        /\ \A i \in 1..(n - q + 1) : SubSeq(es, q, n)[i] = es[q + i - 1]
    BY <1>1, <2>1, SubSeqProperties
  <2> QED
    BY <1>1, <1>2, <1>3, <2>2
<1>5. PICK tail : tail = Items(rest)
  OBVIOUS
<1>6. /\ tail \in Seq(Line) /\ Len(tail) = n - q + 1
      /\ \A i \in 1..(n - q + 1) : tail[i] = Item(es[q + i - 1])
  BY <1>4, <1>5, ItemsAre
<1>7. PICK long : long = view \o tail
  OBVIOUS
<1>8. /\ long \in Seq(Line) /\ Len(long) = m + (n - q + 1)
      /\ \A i \in 1..m : long[i] = view[i]
      /\ \A i \in 1..(n - q + 1) : long[m + i] = tail[i]
  <2>1. long \in Seq(Line)
    BY <1>6, <1>7
  <2>2. Len(long) = m + (n - q + 1)
    <3>1. Len(long) = Len(view) + Len(tail)
      BY <1>6, <1>7, ConcatProperties
    <3> QED
      BY <1>1, <1>6, <3>1
  <2>3. \A i \in 1..m : long[i] = view[i]
    BY <1>1, <1>6, <1>7
  <2>4. \A i \in 1..Len(tail) : long[Len(view) + i] = tail[i]
    BY <1>6, <1>7
  <2> QED
    BY <1>1, <1>6, <2>1, <2>2, <2>3, <2>4
<1>9. n <= Len(long) /\ Len(long) - n = d
  BY <1>1, <1>8
<1>10. PICK now : now = Shown(es, k)
  OBVIOUS
<1>11. now = IF Len(long) > n THEN LastOf(long, n) ELSE long
  BY <1>1, <1>3, <1>5, <1>7, <1>10 DEF Shown
<1>12. now \in Seq(Line) /\ Len(now) = n /\ \A i \in 1..n : now[i] = long[i + d]
  <2>1. CASE Len(long) > n
    <3>1. long \in Seq(Line) /\ n \in Nat /\ n <= Len(long)
      BY <1>8, <1>9
    <3>2. /\ LastOf(long, n) \in Seq(Line) /\ Len(LastOf(long, n)) = n
          /\ \A i \in 1..n : LastOf(long, n)[i] = long[i + (Len(long) - n)]
      BY <3>1, LastOfIs
    <3> QED
      BY <1>9, <1>11, <2>1, <3>2
  <2>2. CASE ~ (Len(long) > n)
    <3>1. Len(long) = n /\ d = 0
      BY <1>8, <1>9, <2>2
    <3> QED
      BY <1>8, <1>11, <2>2, <3>1
  <2> QED
    BY <2>1, <2>2
<1>13. ASSUME NEW i \in 1..n
       PROVE  /\ now[i].key = es[i].key
              /\ es[i].drawn \/ all => now[i].colour = Colour(es[i])
  <2>1. CASE i <= q - 1
    <3>1. i + d \in 1..m /\ i + d = d + i /\ i \in 1..(q - 1)
      BY <1>1, <2>1
    <3>2. now[i] = view[d + i]
      BY <1>8, <1>12, <3>1
    <3>3. /\ view[d + i].key = es[i].key
          /\ es[i].drawn \/ all => view[d + i].colour = Colour(es[i])
      BY <1>1, <3>1 DEF Fits
    <3> QED
      BY <3>2, <3>3
  <2>2. CASE ~ (i <= q - 1)
    <3>1. PICK j : j = i - (q - 1)
      OBVIOUS
    <3>2. j \in 1..(n - q + 1) /\ i + d = m + j /\ q + j - 1 = i
      BY <1>1, <2>2, <3>1
    <3>3. now[i] = Item(es[i])
      BY <1>6, <1>8, <1>12, <3>2
    <3>4. es[i] \in Entry
      BY <1>1
    <3> QED
      BY <3>3, <3>4, Item1
  <2> QED
    BY <2>1, <2>2
<1>14. Fits(es, now, n + 1, all)
  <2>1. n + 1 \in 1..(Len(es) + 1) /\ (n + 1) - 1 = n /\ n <= Len(now)
    BY <1>1, <1>12
  <2>2. \A i \in 1..n : Len(now) - ((n + 1) - 1) + i = i
    BY <1>1, <1>12
  <2> QED
    BY <1>13, <2>1, <2>2 DEF Fits
<1> QED
  BY <1>1, <1>2, <1>10, <1>12, <1>14 DEF Whole

\* What the window shows may be told of another log, in which no more is drawn.
LEMMA FitsAlike ==
  ASSUME NEW es \in Seq(Entry), NEW fs \in Seq(Entry), Len(es) = Len(fs), NEW v,
         NEW p, NEW all \in BOOLEAN, NEW some \in BOOLEAN, Fits(es, v, p, all),
         \A i \in DOMAIN es :
           /\ fs[i].key = es[i].key
           /\ fs[i].drawn \/ some => /\ es[i].drawn \/ all
                                     /\ Colour(fs[i]) = Colour(es[i])
  PROVE  Fits(fs, v, p, some)
<1>1. PICK n \in Nat : n = Len(es) /\ n = Len(fs) /\ DOMAIN es = 1..n /\ p \in 1..(n + 1)
  BY DEF Fits
<1>2. \A i \in 1..(p - 1) : i \in 1..n
  BY <1>1
<1> QED
  BY <1>1, <1>2 DEF Fits

\* The log ds and the window w are es and v with their colours drawn.
Drawing(es, v, at, ds, w) ==
  /\ at = Len(es) - Len(v)
  /\ w = [j \in DOMAIN v |->
            IF j + at \in DOMAIN es /\ j + at > at /\ ~es[j + at].drawn
            THEN [v[j] EXCEPT !.colour = Colour(es[j + at])] ELSE v[j]]
  /\ ds = [i \in DOMAIN es |->
             IF i > at /\ ~es[i].drawn
             THEN [es[i] EXCEPT !.drawn = TRUE] ELSE es[i]]

LEMMA AsSeq ==
  ASSUME NEW S, NEW n \in Nat, NEW f \in [1..n -> S]
  PROVE  f \in Seq(S) /\ Len(f) = n /\ DOMAIN f = 1..n
  OBVIOUS

LEMMA DrawnOne ==
  ASSUME NEW e \in Entry, NEW f, f = [e EXCEPT !.drawn = TRUE]
  PROVE  f \in Entry /\ f.key = e.key /\ Colour(f) = Colour(e)
<1>1. f \in Entry /\ f.key = e.key /\ f.ack = e.ack /\ f.ID = e.ID
  BY DEF Entry
<1> QED
  BY <1>1 DEF Colour

LEMMA ColouredOne ==
  ASSUME NEW l \in Line, NEW c \in {Plain, 0, 1, 2}, NEW m, m = [l EXCEPT !.colour = c]
  PROVE  m \in Line /\ m.key = l.key /\ m.colour = c
  BY DEF Line

\* The colours are drawn.
LEMMA DrawnIs ==
  ASSUME NEW es \in Seq(Entry), NEW v \in Seq(Line), Whole(es, v, FALSE),
         NEW at, NEW ds, NEW w, Drawing(es, v, at, ds, w)
  PROVE  /\ ds \in Seq(Entry) /\ DOMAIN ds = DOMAIN es
         /\ \A i \in DOMAIN es : ds[i].key = es[i].key
         /\ w \in Seq(Line) /\ Whole(ds, w, TRUE)
<1>1. PICK n \in Nat : /\ n = Len(es) /\ n = Len(v) /\ DOMAIN es = 1..n /\ DOMAIN v = 1..n
  BY DEF Whole
<1>2. at = 0 /\ \A i \in 1..n : i + at = i /\ i > at
  BY <1>1 DEF Drawing
<1>3. ASSUME NEW i \in 1..n
      PROVE  /\ w[i] = IF ~es[i].drawn
                       THEN [v[i] EXCEPT !.colour = Colour(es[i])] ELSE v[i]
             /\ ds[i] = IF ~es[i].drawn
                        THEN [es[i] EXCEPT !.drawn = TRUE] ELSE es[i]
  <2>1. i \in DOMAIN v /\ i \in DOMAIN es /\ i + at = i /\ i > at
    BY <1>1, <1>2
  <2> QED
    BY <2>1 DEF Drawing
<1>4. ASSUME NEW i \in 1..n
      PROVE  /\ v[i].key = es[i].key
             /\ es[i].drawn => v[i].colour = Colour(es[i])
  <2>1. i \in 1..((n + 1) - 1) /\ Len(v) - ((n + 1) - 1) + i = i
    BY <1>1
  <2>2. Fits(es, v, n + 1, FALSE)
    BY <1>1 DEF Whole
  <2> QED
    BY <2>1, <2>2 DEF Fits
<1>5. ASSUME NEW i \in 1..n
      PROVE  /\ ds[i] \in Entry /\ ds[i].key = es[i].key /\ Colour(ds[i]) = Colour(es[i])
             /\ w[i] \in Line /\ w[i].key = es[i].key /\ w[i].colour = Colour(es[i])
  <2>1. PICK e \in Entry : e = es[i]
    BY <1>1
  <2>2. PICK l \in Line : l = v[i]
    BY <1>1
  <2>3. Colour(e) \in {Plain, 0, 1, 2}
    BY DEF Colour, Entry
  <2>4. CASE ~e.drawn
    <3>1. ds[i] = [e EXCEPT !.drawn = TRUE] /\ w[i] = [l EXCEPT !.colour = Colour(e)]
      BY <1>3, <2>1, <2>2, <2>4
    <3>2. ds[i] \in Entry /\ ds[i].key = e.key /\ Colour(ds[i]) = Colour(e)
      BY <3>1, DrawnOne
    <3>3. w[i] \in Line /\ w[i].key = l.key /\ w[i].colour = Colour(e)
      <4>1. PICK c \in {Plain, 0, 1, 2} : c = Colour(e)
        BY <2>3
      <4>2. PICK m : m = w[i]
        OBVIOUS
      <4>3. m = [l EXCEPT !.colour = c]
        BY <3>1, <4>1, <4>2
      <4> QED
        BY <4>1, <4>2, <4>3, ColouredOne
    <3>4. l.key = e.key
      BY <1>4, <2>1, <2>2
    <3>5. w[i].key = e.key
      BY <3>3, <3>4
    <3> QED
      BY <2>1, <3>2, <3>3, <3>5
  <2>5. CASE e.drawn
    <3>1. ds[i] = e /\ w[i] = l
      BY <1>3, <2>1, <2>2, <2>5
    <3> QED
      BY <1>4, <2>1, <2>2, <2>5, <3>1
  <2>6. e.drawn \in BOOLEAN
    BY DEF Entry
  <2> QED
    BY <2>4, <2>5, <2>6
<1>6. ds \in Seq(Entry) /\ Len(ds) = n /\ DOMAIN ds = 1..n
  <2>0. ds = [i \in 1..n |-> ds[i]]
    BY <1>1 DEF Drawing
  <2>1. \A i \in 1..n : ds[i] \in Entry
    BY <1>5
  <2>2. ds \in [1..n -> Entry]
    BY <2>0, <2>1
  <2> QED
    BY <2>2, AsSeq
<1>7. w \in Seq(Line) /\ Len(w) = n
  <2>0. w = [i \in 1..n |-> w[i]]
    BY <1>1 DEF Drawing
  <2>1. \A i \in 1..n : w[i] \in Line
    BY <1>5
  <2>2. w \in [1..n -> Line]
    BY <2>0, <2>1
  <2> QED
    BY <2>2, AsSeq
<1>8. Fits(ds, w, n + 1, TRUE)
  <2>1. n + 1 \in 1..(Len(ds) + 1) /\ (n + 1) - 1 = n /\ n <= Len(w)
    BY <1>6, <1>7
  <2>2. \A i \in 1..n : Len(w) - ((n + 1) - 1) + i = i
    BY <1>7
  <2> QED
    BY <1>5, <2>1, <2>2 DEF Fits
<1> QED
  BY <1>1, <1>5, <1>6, <1>7, <1>8 DEF Whole

\* A log with message k: d messages less than it had are before it.
LEMMA LoggedAt ==
  ASSUME TypeOK, NEW t \in Contact, keys < MaxMsg, NEW id \in Nat \cup {Plain},
         NEW es \in Logged(t, keys + 1, id)
  PROVE  \E d \in Nat, n \in Nat :
           LET e == [key |-> keys + 1, ID |-> id, ack |-> 0, drawn |-> FALSE]
           IN  /\ es \in Seq(Entry) /\ Len(es) = n + 1 /\ Len(log[t]) = n + d
               /\ es[n + 1] = e
               /\ \A i \in 1..n : es[i] = log[t][i + d]
<1>1. PICK e : e = [key |-> keys + 1, ID |-> id, ack |-> 0, drawn |-> FALSE]
  OBVIOUS
<1>2. e \in Entry
  <2>1. keys + 1 \in Key
    BY BoundAssumption DEF TypeOK, Key
  <2> QED
    BY <1>1, <2>1 DEF Entry
<1>3. PICK all : all = Append(log[t], e)
  OBVIOUS
<1>4. PICK l \in Nat :
        /\ l = Len(log[t]) /\ all \in Seq(Entry) /\ Len(all) = l + 1 /\ all[l + 1] = e
        /\ \A i \in 1..l : all[i] = log[t][i]
  BY <1>2, <1>3 DEF TypeOK
<1>5. PICK k \in Nat : k >= 1 /\ k <= l + 1 /\ es = LastOf(all, k)
  <2>1. PICK k \in 1..(IF Len(all) > MAXLOGMSG THEN MAXLOGMSG ELSE Len(all)) :
          es = LastOf(all, k)
    BY <1>1, <1>3 DEF Logged
  <2>2. k \in 1..Len(all)
    BY <1>4, <2>1, LogAssumption
  <2> QED
    BY <1>4, <2>1, <2>2
<1>6. /\ es \in Seq(Entry) /\ Len(es) = k
      /\ \A i \in 1..k : es[i] = all[i + (l + 1 - k)]
  <2>1. all \in Seq(Entry) /\ k \in Nat /\ k <= Len(all)
    BY <1>4, <1>5
  <2>2. /\ LastOf(all, k) \in Seq(Entry) /\ Len(LastOf(all, k)) = k
        /\ \A i \in 1..k : LastOf(all, k)[i] = all[i + (Len(all) - k)]
    BY <2>1, LastOfIs
  <2> QED
    BY <1>4, <1>5, <2>2
<1>7. PICK n \in Nat : n = k - 1
  BY <1>5
<1>8. PICK d \in Nat : d = l + 1 - k
  <2>1. k <= l + 1
    BY <1>5
  <2>2. l + 1 - k \in Nat
    BY <2>1
  <2> QED
    BY <2>2
<1>9. Len(es) = n + 1 /\ Len(log[t]) = n + d
  BY <1>4, <1>6, <1>7, <1>8
<1>10. es[n + 1] = e
  <2>1. n + 1 \in 1..k /\ (n + 1) + (l + 1 - k) = l + 1
    BY <1>5, <1>7
  <2> QED
    BY <1>4, <1>6, <2>1
<1>11. \A i \in 1..n : es[i] = log[t][i + d]
  <2>1. \A i \in 1..n : i \in 1..k /\ i + (l + 1 - k) = i + d /\ i + d \in 1..l
    BY <1>5, <1>7, <1>8
  <2> QED
    BY <1>4, <1>6, <2>1
<1> QED
  BY <1>1, <1>6, <1>9, <1>10, <1>11

LEMMA LoggedOrder ==
  ASSUME TypeOK, OrderInv, NEW t \in Contact, keys < MaxMsg, NEW id \in Nat \cup {Plain},
         NEW es \in Logged(t, keys + 1, id)
  PROVE  es \in Seq(Entry) /\ Ordered(es) /\ \A i \in DOMAIN es : es[i].key <= keys + 1
<1>1. PICK d \in Nat, n \in Nat :
        /\ es \in Seq(Entry) /\ Len(es) = n + 1 /\ Len(log[t]) = n + d
        /\ es[n + 1] = [key |-> keys + 1, ID |-> id, ack |-> 0, drawn |-> FALSE]
        /\ \A i \in 1..n : es[i] = log[t][i + d]
  BY LoggedAt
<1>2. DOMAIN es = 1..(n + 1) /\ es[n + 1].key = keys + 1 /\ keys \in Nat
  BY <1>1 DEF TypeOK
<1>3. /\ log[t] \in Seq(Entry) /\ DOMAIN log[t] = 1..(n + d)
      /\ \A i \in 1..n : i + d \in DOMAIN log[t]
  BY <1>1 DEF TypeOK
<1>4. \A i \in DOMAIN log[t] : log[t][i].key \in Nat /\ log[t][i].key <= keys
  <2>1. \A i \in DOMAIN log[t] : log[t][i] \in Entry
    BY <1>3
  <2> QED
    BY <2>1 DEF OrderInv, Entry, Key
<1>5. \A i \in 1..n : es[i].key \in Nat /\ es[i].key <= keys
  BY <1>1, <1>3, <1>4
<1>6. ASSUME NEW i \in DOMAIN es, NEW j \in DOMAIN es, i < j
      PROVE  es[i].key < es[j].key
  <2>1. CASE j = n + 1
    <3>1. i \in 1..n
      BY <1>2, <1>6, <2>1
    <3> QED
      BY <1>2, <1>5, <2>1, <3>1
  <2>2. CASE j # n + 1
    <3>1. i \in 1..n /\ j \in 1..n /\ i + d < j + d
      BY <1>2, <1>6, <2>2
    <3> QED
      BY <1>1, <1>3, <3>1 DEF OrderInv, Ordered
  <2> QED
    BY <2>1, <2>2
<1>7. \A i \in DOMAIN es : es[i].key <= keys + 1
  BY <1>2, <1>5
<1> QED
  BY <1>1, <1>6, <1>7 DEF Ordered

\* last_log is the first message that is not in the window, after one was added.
LEMMA LoggedFits ==
  ASSUME TypeOK, ViewInv, Watched, NEW id \in Nat \cup {Plain}, keys < MaxMsg,
         NEW es \in Logged(chat, keys + 1, id)
  PROVE  \E q \in DOMAIN es : /\ es[q].key = LastLogged(chat, es)
                              /\ Fits(es, view, q, ~req_drawack[chat])
<1> DEFINE all == ~req_drawack[chat]
           k == last_log[chat]
<1>0. chat \in Contact
  BY DEF TypeOK, Watched
<1>1. PICK d \in Nat, n \in Nat :
        /\ es \in Seq(Entry) /\ Len(es) = n + 1 /\ Len(log[chat]) = n + d
        /\ es[n + 1] = [key |-> keys + 1, ID |-> id, ack |-> 0, drawn |-> FALSE]
        /\ \A i \in 1..n : es[i] = log[chat][i + d]
  BY <1>0, LoggedAt
<1>2. /\ es \in Seq(Entry) /\ DOMAIN es = 1..(n + 1) /\ Ordered(es)
      /\ log[chat] \in Seq(Entry) /\ DOMAIN log[chat] = 1..(n + d) /\ Ordered(log[chat])
  <2>1. Ordered(es)
    BY <1>0, LoggedOrder DEF ViewInv
  <2> QED
    BY <1>0, <1>1, <2>1 DEF TypeOK, ViewInv, OrderInv
<1>3. view \in Seq(Line)
  BY DEF ViewInv, ShowInv, UpToDate
<1>4. PICK m \in Nat : m = Len(view)
  BY <1>3
<1>5. CASE k = None
  <2>1. m = n + d /\ Fits(log[chat], view, n + d + 1, all)
    BY <1>1, <1>4, <1>5 DEF ViewInv, ShowInv, UpToDate, Whole
  <2>2. LastLogged(chat, es) = es[n + 1].key /\ n + 1 \in DOMAIN es
    BY <1>1, <1>2, <1>5 DEF LastLogged, Last
  <2>3. ASSUME NEW i \in 1..n
        PROVE  /\ view[m - n + i].key = es[i].key
               /\ es[i].drawn \/ all => view[m - n + i].colour = Colour(es[i])
    <3>1. i + d \in 1..((n + d + 1) - 1) /\ m - ((n + d + 1) - 1) + (i + d) = m - n + i
      BY <2>1
    <3>2. es[i] = log[chat][i + d]
      BY <1>1
    <3> QED
      BY <1>4, <2>1, <3>1, <3>2 DEF Fits
  <2>4. n + 1 \in 1..(Len(es) + 1) /\ (n + 1) - 1 = n /\ n <= m
    BY <1>1, <2>1
  <2>5. Fits(es, view, n + 1, all)
    BY <1>4, <2>3, <2>4 DEF Fits
  <2> QED
    BY <2>2, <2>5
<1>6. CASE k # None
  <2>1. PICK p \in DOMAIN log[chat] :
               log[chat][p].key = k /\ Fits(log[chat], view, p, all)
    BY <1>6 DEF ViewInv, ShowInv, UpToDate
  <2>2. p \in 1..(n + d) /\ p - 1 <= m
    BY <1>2, <1>4, <2>1 DEF Fits
  <2>3. CASE p > d
    <3>1. PICK q \in Nat : q = p - d
      BY <2>2, <2>3
    <3>2. q \in 1..n /\ q + d = p /\ q \in DOMAIN es
      BY <1>2, <2>2, <2>3, <3>1
    <3>3. es[q].key = k
      BY <1>1, <2>1, <3>2
    <3>4. HasKey(es, k)
      BY <3>2, <3>3 DEF HasKey
    <3>5. LastLogged(chat, es) = k
      BY <1>6, <3>4 DEF LastLogged
    <3>6. ASSUME NEW i \in 1..(q - 1)
          PROVE  /\ view[m - (q - 1) + i].key = es[i].key
                 /\ es[i].drawn \/ all => view[m - (q - 1) + i].colour = Colour(es[i])
      <4>1. i + d \in 1..(p - 1) /\ m - (p - 1) + (i + d) = m - (q - 1) + i /\ i \in 1..n
        BY <3>1, <3>2
      <4>2. es[i] = log[chat][i + d]
        BY <1>1, <4>1
      <4> QED
        BY <1>4, <2>1, <4>1, <4>2 DEF Fits
    <3>7. q \in 1..(Len(es) + 1) /\ q - 1 <= m
      BY <1>1, <2>2, <3>1, <3>2
    <3>8. Fits(es, view, q, all)
      BY <1>4, <3>6, <3>7 DEF Fits
    <3> QED
      BY <3>2, <3>3, <3>5, <3>8
  <2>4. CASE ~ (p > d)
    <3>1. ~HasKey(es, k)
      <4> SUFFICES ASSUME NEW i \in DOMAIN es, es[i].key = k
                   PROVE  FALSE
        BY DEF HasKey
      <4>1. log[chat][p].key \in Nat /\ log[chat][p].key <= keys /\ keys \in Nat
        <5>1. log[chat][p] \in Entry
          BY <1>2
        <5> QED
          BY <1>0, <5>1 DEF Entry, Key, ViewInv, OrderInv, TypeOK
      <4>2. CASE i = n + 1
        <5>1. es[i].key = keys + 1
          BY <1>1, <4>2
        <5> QED
          BY <2>1, <4>1, <5>1
      <4>3. CASE i # n + 1
        <5>1. i \in 1..n /\ i + d \in DOMAIN log[chat] /\ p < i + d
          BY <1>2, <2>2, <2>4, <4>3
        <5>2. log[chat][p].key < log[chat][i + d].key
          BY <1>2, <5>1 DEF Ordered
        <5>3. es[i] = log[chat][i + d]
          BY <1>1, <5>1
        <5> QED
          BY <2>1, <4>1, <5>2, <5>3
      <4> QED
        BY <4>2, <4>3
    <3>2. HasKey(log[chat], k)
      BY <2>1 DEF HasKey
    <3>3. LastLogged(chat, es) = es[1].key
      BY <1>6, <3>1, <3>2 DEF LastLogged
    <3>4. 1 \in DOMAIN es
      BY <1>2
    <3>5. Fits(es, view, 1, all)
      <4>1. 1 \in 1..(Len(es) + 1) /\ 1 - 1 <= Len(view) /\ 1..(1 - 1) = {}
        BY <1>1, <1>4
      <4> QED
        BY <4>1 DEF Fits
    <3> QED
      BY <3>3, <3>4, <3>5
  <2> QED
    BY <2>3, <2>4
<1> QED
  BY <1>5, <1>6

-----------------------------------------------------------------------------
(* Every action keeps what is shown.                                       *)

LEMMA OrderStep ==
  ASSUME TypeOK, OrderInv, NEW t \in Contact, NEW es, log' = [log EXCEPT ![t] = es],
         Ordered(es), keys' \in {keys, keys + 1}, \A i \in DOMAIN es : es[i].key <= keys'
  PROVE  OrderInv'
<1>1. ASSUME NEW u \in Contact
      PROVE  Ordered(log[u])' /\ \A i \in DOMAIN (log[u])' : log'[u][i].key <= keys'
  <2>1. CASE u = t
    <3>1. log'[u] = es
      BY <2>1 DEF TypeOK
    <3> QED
      BY <3>1 DEF Ordered
  <2>2. CASE u # t
    <3>1. log'[u] = log[u]
      BY <2>2 DEF TypeOK
    <3>2. keys \in Nat /\ \A i \in DOMAIN log[u] : log[u][i].key \in Nat
      <4>1. log[u] \in Seq(Entry)
        BY DEF TypeOK
      <4>2. \A i \in DOMAIN log[u] : log[u][i] \in Entry
        BY <4>1
      <4> QED
        BY <4>2 DEF TypeOK, Entry, Key
    <3>3. Ordered(log[u]) /\ \A i \in DOMAIN log[u] : log[u][i].key <= keys
      BY DEF OrderInv
    <3>4. \A i \in DOMAIN log[u] : log[u][i].key <= keys'
      BY <3>2, <3>3
    <3> QED
      BY <3>1, <3>3, <3>4 DEF Ordered
  <2> QED
    BY <2>1, <2>2
<1> QED
  BY <1>1 DEF OrderInv

LEMMA OrderSame ==
  ASSUME TypeOK, OrderInv, log' = log, keys' \in {keys, keys + 1}
  PROVE  OrderInv'
<1>1. ASSUME NEW u \in Contact
      PROVE  Ordered(log[u]) /\ \A i \in DOMAIN log[u] : log[u][i].key <= keys'
  <2>1. keys \in Nat /\ \A i \in DOMAIN log[u] : log[u][i].key \in Nat
    <3>1. log[u] \in Seq(Entry)
      BY DEF TypeOK
    <3>2. \A i \in DOMAIN log[u] : log[u][i] \in Entry
      BY <3>1
    <3> QED
      BY <3>2 DEF TypeOK, Entry, Key
  <2>2. Ordered(log[u]) /\ \A i \in DOMAIN log[u] : log[u][i].key <= keys
    BY DEF OrderInv
  <2> QED
    BY <2>1, <2>2
<1> QED
  BY <1>1 DEF OrderInv, Ordered

\* Nothing changes for the contact of the window.
LEMMA ShowSame ==
  ASSUME ShowInv, odd \subseteq odd', UNCHANGED <<chat, view>>,
         chat # None => /\ log'[chat] = log[chat] /\ last_log'[chat] = last_log[chat]
                        /\ req_add'[chat] = req_add[chat] /\ isunread'[chat] = isunread[chat]
                        /\ req_drawack'[chat] = req_drawack[chat]
  PROVE  ShowInv'
<1> SUFFICES ASSUME Watched'
             PROVE  ShowInv'
  BY DEF ShowInv
<1>1. Watched /\ chat # None
  BY DEF Watched
<1> QED
  BY <1>1 DEF ShowInv

LEMMA NoWindow ==
  ASSUME ~Watched'
  PROVE  ShowInv'
  BY DEF ShowInv

\* Nothing changes but the counters.
LEMMA ViewStays ==
  ASSUME TypeOK, ViewInv, odd \subseteq odd', keys' \in {keys, keys + 1},
         UNCHANGED <<log, last_log, isunread, req_add, req_drawack, chat, view>>
  PROVE  ViewInv'
<1>1. OrderInv'
  BY OrderSame DEF ViewInv
<1>2. ShowInv'
  BY ShowSame DEF ViewInv
<1> QED
  BY <1>1, <1>2 DEF ViewInv, FlagTypes

\* A message is put into the window.
LEMMA PutsView ==
  ASSUME TypeOK, ViewInv, chat # None, NEW id \in Nat \cup {Plain}, keys < MaxMsg,
         NEW es \in Logged(chat, keys + 1, id), NEW un, NEW mu,
         AddMsgToChat(chat, es, LastLogged(chat, es), un, mu),
         log' = [log EXCEPT ![chat] = es], keys' = keys + 1, odd \subseteq odd',
         UNCHANGED <<chat, req_add, req_drawack>>
  PROVE  ViewInv'
<1>0. chat \in Contact
  BY DEF TypeOK
<1>1. es \in Seq(Entry) /\ Ordered(es) /\ \A i \in DOMAIN es : es[i].key <= keys'
  BY <1>0, LoggedOrder DEF ViewInv
<1>2. OrderInv'
  BY <1>0, <1>1, OrderStep DEF ViewInv
<1>3. last_log' = [last_log EXCEPT ![chat] = None] /\ last_log'[chat] = None
  BY <1>0 DEF AddMsgToChat, ViewInv, FlagTypes
<1>4. FlagTypes'
  <2>1. isunread' \in [Contact -> BOOLEAN]
    BY DEF AddMsgToChat, ViewInv, FlagTypes
  <2>2. last_log' = [t \in Contact |-> last_log'[t]]
    BY <1>3 DEF ViewInv, FlagTypes
  <2> QED
    BY <2>1, <2>2 DEF ViewInv, FlagTypes
<1>5. ShowInv'
  <2> SUFFICES ASSUME Watched'
               PROVE  ShowInv'
    BY NoWindow
  <2>1. Watched
    BY DEF Watched
  <2>2. PICK q \in DOMAIN es : /\ es[q].key = LastLogged(chat, es)
                               /\ Fits(es, view, q, ~req_drawack[chat])
    BY <2>1, LoggedFits
  <2>3. view \in Seq(Line)
    BY <2>1 DEF ViewInv, ShowInv, UpToDate
  <2> DEFINE now == Shown(es, LastLogged(chat, es))
  <2>4. (~req_drawack[chat]) \in BOOLEAN
    OBVIOUS
  <2>5. HasKey(es, LastLogged(chat, es)) /\ now \in Seq(Line) /\ Whole(es, now, ~req_drawack[chat])
    BY <1>1, <2>2, <2>3, <2>4, ShownIs
  <2>6. view' = now
    BY <2>5 DEF AddMsgToChat
  <2>7. log'[chat] = es
    BY <1>0 DEF TypeOK
  <2> HIDE DEF now
  <2> QED
    <3>1. UpToDate(es, now, None, req_add[chat], isunread'[chat], ~req_drawack[chat])
      BY <2>5 DEF UpToDate
    <3> QED
      BY <1>3, <2>6, <2>7, <3>1 DEF ShowInv
<1> QED
  BY <1>2, <1>4, <1>5 DEF ViewInv

\* A message comes.
LEMMA ComesView ==
  ASSUME TypeOK, ViewInv, NEW t \in Contact, keys < MaxMsg,
         NEW es \in Logged(t, keys + 1, Plain), NEW inc \in 0..1, inc = 0 => chat # t,
         CountsAnd(t, keys + 1, es, inc), UNCHANGED <<chat, odd, req_drawack>>
  PROVE  ViewInv'
<1>0. log' = [log EXCEPT ![t] = es] /\ keys' = keys + 1
  BY DEF CountsAnd
<1>1. es \in Seq(Entry) /\ Ordered(es) /\ \A i \in DOMAIN es : es[i].key <= keys'
  BY <1>0, LoggedOrder DEF ViewInv
<1>2. CASE chat = t /\ ~busy
  <2>1. /\ AddMsgToChat(chat, es, LastLogged(chat, es), unreaded[t] + inc, messages_unread + inc)
        /\ UNCHANGED req_add
    BY <1>2 DEF CountsAnd
  <2>2. chat # None
    BY <1>2, LogAssumption
  <2> QED
    BY <1>0, <1>2, <2>1, <2>2, PutsView
<1>3. CASE ~ (chat = t /\ ~busy)
  <2>1. /\ last_log' = [last_log EXCEPT ![t] = LastLogged(t, es)]
        /\ isunread' = [isunread EXCEPT ![t] = isunread[t] \/ inc = 1]
        /\ req_add' = [req_add EXCEPT ![t] = req_add[t] \/ chat = t]
        /\ UNCHANGED view
    BY <1>3 DEF CountsAnd
  <2>2. OrderInv'
    BY <1>0, <1>1, OrderStep DEF ViewInv
  <2>3. FlagTypes'
    BY <2>1 DEF ViewInv, FlagTypes
  <2>4. CASE chat # t
    <3>1. chat # None =>
            /\ log'[chat] = log[chat] /\ last_log'[chat] = last_log[chat]
            /\ req_add'[chat] = req_add[chat] /\ isunread'[chat] = isunread[chat]
            /\ req_drawack'[chat] = req_drawack[chat]
      BY <1>0, <2>1, <2>4 DEF TypeOK, ViewInv, FlagTypes
    <3>2. ShowInv'
      BY <2>1, <3>1, ShowSame DEF ViewInv
    <3> QED
      BY <2>2, <2>3, <3>2 DEF ViewInv
  <2>5. CASE chat = t
    <3>1. ShowInv'
      <4> SUFFICES ASSUME Watched'
                   PROVE  ShowInv'
        BY NoWindow
      <4>1. Watched
        BY DEF Watched
      <4>2. PICK q \in DOMAIN es : /\ es[q].key = LastLogged(chat, es)
                                   /\ Fits(es, view, q, ~req_drawack[chat])
        BY <2>5, <4>1, LoggedFits
      <4>3. view \in Seq(Line)
        BY <4>1 DEF ViewInv, ShowInv, UpToDate
      <4>4. log'[chat] = es
        BY <1>0, <2>5 DEF TypeOK
      <4>5. last_log'[chat] = es[q].key
        BY <2>1, <2>5, <4>2 DEF ViewInv, FlagTypes
      <4>6. last_log'[chat] # None
        <5>1. es[q] \in Entry
          BY <1>1
        <5> QED
          BY <4>5, <5>1, LogAssumption DEF Entry, Key
      <4>7. req_add'[chat]
        BY <2>1, <2>5 DEF ViewInv, FlagTypes
      <4>8. isunread'[chat]
        <5>1. inc = 1
          BY <2>5
        <5> QED
          BY <2>1, <2>5, <5>1 DEF ViewInv, FlagTypes
      <4> QED
        <5>1. UpToDate(es, view, last_log'[chat], req_add'[chat], isunread'[chat],
                       ~req_drawack[chat])
          BY <1>1, <4>2, <4>3, <4>5, <4>6, <4>7, <4>8 DEF UpToDate
        <5> QED
          BY <2>1, <4>4, <5>1 DEF ShowInv
    <3> QED
      BY <2>2, <2>3, <3>1 DEF ViewInv
  <2> QED
    BY <2>4, <2>5
<1> QED
  BY <1>2, <1>3

\* The log of a contact that is not in the window is emptied, or is closed.
LEMMA RemovedView == TypeOK /\ ViewInv /\ T_CONTACTREMOVED => ViewInv'
<1> SUFFICES ASSUME TypeOK, ViewInv, T_CONTACTREMOVED
             PROVE  ViewInv'
  OBVIOUS
<1>1. PICK t \in cl :
        /\ log' = [log EXCEPT ![t] = <<>>] /\ last_log' = [last_log EXCEPT ![t] = None]
        /\ isunread' = [isunread EXCEPT ![t] = FALSE]
        /\ req_add' = [req_add EXCEPT ![t] = FALSE]
        /\ req_drawack' = [req_drawack EXCEPT ![t] = FALSE]
        /\ IF chat = t THEN chat' = None ELSE UNCHANGED window
        /\ Notes("removed", unreaded[t] > 0) /\ UNCHANGED keys
  BY DEF T_CONTACTREMOVED
<1>2. t \in Contact /\ odd \subseteq odd'
  BY <1>1, OddStays DEF TypeOK
<1>3. OrderInv'
  <2>1. Ordered(<<>>) /\ \A i \in DOMAIN <<>> : <<>>[i].key <= keys'
    BY DEF Ordered
  <2> QED
    BY <1>1, <1>2, <2>1, OrderStep DEF ViewInv
<1>4. FlagTypes'
  BY <1>1 DEF ViewInv, FlagTypes
<1>5. ShowInv'
  <2>1. CASE chat = t
    <3>1. ~Watched'
      BY <1>1, <2>1 DEF Watched
    <3> QED
      BY <3>1, NoWindow
  <2>2. CASE chat # t
    <3>1. UNCHANGED <<chat, view>>
      BY <1>1, <2>2 DEF window
    <3>2. chat # None =>
            /\ log'[chat] = log[chat] /\ last_log'[chat] = last_log[chat]
            /\ req_add'[chat] = req_add[chat] /\ isunread'[chat] = isunread[chat]
            /\ req_drawack'[chat] = req_drawack[chat]
      BY <1>1, <2>2 DEF TypeOK, ViewInv, FlagTypes
    <3> QED
      BY <1>2, <3>1, <3>2, ShowSame DEF ViewInv
  <2> QED
    BY <2>1, <2>2
<1> QED
  BY <1>3, <1>4, <1>5 DEF ViewInv

\* A log with other colours, the keys of which are the same.
LEMMA OrderAlike ==
  ASSUME NEW es \in Seq(Entry), NEW fs, DOMAIN fs = DOMAIN es,
         \A i \in DOMAIN es : fs[i].key = es[i].key, Ordered(es),
         NEW n, \A i \in DOMAIN es : es[i].key <= n
  PROVE  Ordered(fs) /\ \A i \in DOMAIN fs : fs[i].key <= n
  BY DEF Ordered

\* One message is acknowledged.
LEMMA AckView == TypeOK /\ ViewInv /\ T_ACK => ViewInv'
<1> SUFFICES ASSUME TypeOK, ViewInv, T_ACK
             PROVE  ViewInv'
  OBVIOUS
<1>1. PICK n \in DOMAIN server, kind \in 1..2 :
        LET t == server[n].to
            i == ByAck(log[t], n % Numbers)
            es == [log[t] EXCEPT ![i].ack = kind, ![i].drawn = FALSE]
        IN  /\ IF t \in cl /\ i # 0
               THEN IF chat = t /\ ~busy
                    THEN /\ DrawAck(t, es) /\ UNCHANGED req_drawack
                         /\ Notes("ack", last_log[t] # None)
                    ELSE /\ log' = [log EXCEPT ![t] = es]
                         /\ req_drawack' = [req_drawack EXCEPT ![t] = @ \/ chat = t]
                         /\ UNCHANGED <<view, odd>>
               ELSE UNCHANGED <<log, view, req_drawack, odd>>
            /\ UNCHANGED <<last_log, isunread, req_add, chat, keys>>
  BY DEF T_ACK, count
<1> DEFINE t == server[n].to
           i == ByAck(log[t], n % Numbers)
<1>2. UNCHANGED <<last_log, isunread, req_add, chat, keys>>
  BY <1>1
<1>3. t \in Contact
  <2>1. server[n] \in Sent
    BY DEF TypeOK
  <2> QED
    BY <2>1 DEF Sent
<1>4. CASE ~ (t \in cl /\ i # 0)
  <2>1. UNCHANGED <<log, view, req_drawack, odd>>
    BY <1>1, <1>4
  <2> QED
    BY <1>2, <2>1, ViewStays
<1>5. CASE t \in cl /\ i # 0
  <2>0. PICK es : es = [log[t] EXCEPT ![i].ack = kind, ![i].drawn = FALSE]
    OBVIOUS
  <2>1. log[t] \in Seq(Entry)
    BY <1>3 DEF TypeOK
  <2>2. i \in DOMAIN log[t]
    BY <1>5, <2>1, Found
  <2>3. /\ es = [j \in DOMAIN log[t] |-> es[j]]
        /\ \A j \in DOMAIN log[t] : j # i => es[j] = log[t][j]
        /\ es[i] = [log[t][i] EXCEPT !.ack = kind, !.drawn = FALSE]
    BY <2>0, <2>1, <2>2
  <2>4. es[i] \in Entry /\ es[i].key = log[t][i].key /\ es[i].drawn = FALSE
    <3>1. PICK e \in Entry : e = log[t][i]
      BY <2>1, <2>2
    <3>2. kind \in 0..2
      OBVIOUS
    <3>3. PICK f : f = es[i]
      OBVIOUS
    <3>4. f = [e EXCEPT !.ack = kind, !.drawn = FALSE]
      BY <2>3, <3>1, <3>3
    <3>5. f \in Entry /\ f.key = e.key /\ f.drawn = FALSE
      BY <3>2, <3>4 DEF Entry
    <3> QED
      BY <3>1, <3>3, <3>5
  <2>5. es \in Seq(Entry) /\ Len(es) = Len(log[t]) /\ DOMAIN es = DOMAIN log[t]
    <3>1. DOMAIN log[t] = 1..Len(log[t]) /\ Len(log[t]) \in Nat
      BY <2>1
    <3>2. \A j \in 1..Len(log[t]) : es[j] \in Entry
      <4>1. \A j \in 1..Len(log[t]) : log[t][j] \in Entry
        BY <2>1, <3>1
      <4> QED
        BY <2>3, <2>4, <3>1, <4>1
    <3>3. es \in [1..Len(log[t]) -> Entry]
      BY <2>3, <3>1, <3>2
    <3> QED
      BY <3>1, <3>3
  <2>6. \A j \in DOMAIN log[t] : es[j].key = log[t][j].key
    BY <2>3, <2>4
  <2>7. Ordered(es) /\ \A j \in DOMAIN es : es[j].key <= keys
    BY <1>3, <2>1, <2>5, <2>6, OrderAlike DEF ViewInv, OrderInv
  <2>8. \A j \in DOMAIN log[t] : es[j].drawn =>
          log[t][j].drawn /\ Colour(es[j]) = Colour(log[t][j])
    BY <2>3, <2>4
  <2>9. CASE ~ (chat = t /\ ~busy)
    <3>1. /\ log' = [log EXCEPT ![t] = es]
          /\ req_drawack' = [req_drawack EXCEPT ![t] = req_drawack[t] \/ chat = t]
          /\ UNCHANGED <<view, odd>>
      BY <1>1, <1>5, <2>0, <2>9
    <3>2. OrderInv'
      BY <1>2, <1>3, <2>7, <3>1, OrderStep DEF ViewInv
    <3>3. FlagTypes'
      BY <1>2, <3>1 DEF ViewInv, FlagTypes
    <3>4. ShowInv'
      <4>1. CASE chat # t
        <5>1. chat # None =>
                log'[chat] = log[chat] /\ req_drawack'[chat] = req_drawack[chat]
          BY <1>3, <3>1, <4>1 DEF TypeOK, ViewInv, FlagTypes
        <5> QED
          BY <1>2, <3>1, <5>1, ShowSame DEF ViewInv
      <4>2. CASE chat = t
        <5> SUFFICES ASSUME Watched'
                     PROVE  ShowInv'
          BY NoWindow
        <5>1. Watched /\ view \in Seq(Line)
          BY <1>2, <3>1 DEF Watched, ViewInv, ShowInv, UpToDate
        <5>2. log'[t] = es /\ req_drawack'[t] = TRUE
          BY <1>3, <3>1, <4>2 DEF TypeOK, ViewInv, FlagTypes
        <5> DEFINE all == ~req_drawack[t]
        <5>3. ASSUME NEW p, Fits(log[t], view, p, all)
              PROVE  Fits(es, view, p, FALSE)
          <6>1. all \in BOOLEAN
            OBVIOUS
          <6> HIDE DEF all
          <6> QED
            BY <2>1, <2>5, <2>6, <2>8, <5>3, <6>1, FitsAlike
        <5>4. CASE last_log[t] = None
          <6>1. Whole(log[t], view, all)
            BY <4>2, <5>1, <5>4 DEF ViewInv, ShowInv, UpToDate
          <6>2. Whole(es, view, FALSE)
            BY <2>5, <5>3, <6>1 DEF Whole
          <6>3. UpToDate(es, view, last_log[t], req_add[t], isunread[t], FALSE)
            BY <5>1, <5>4, <6>2 DEF UpToDate
          <6> QED
            BY <1>2, <3>1, <4>2, <5>2, <6>3 DEF ShowInv
        <5>5. CASE last_log[t] # None
          <6>1. PICK p \in DOMAIN log[t] :
                       log[t][p].key = last_log[t] /\ Fits(log[t], view, p, all)
            BY <4>2, <5>1, <5>5 DEF ViewInv, ShowInv, UpToDate
          <6>2. p \in DOMAIN es /\ es[p].key = last_log[t] /\ Fits(es, view, p, FALSE)
            BY <2>5, <2>6, <5>3, <6>1
          <6>3. req_add[t] /\ isunread[t]
            BY <4>2, <5>1, <5>5 DEF ViewInv, ShowInv, UpToDate
          <6>4. UpToDate(es, view, last_log[t], req_add[t], isunread[t], FALSE)
            BY <5>1, <5>5, <6>2, <6>3 DEF UpToDate
          <6> QED
            BY <1>2, <3>1, <4>2, <5>2, <6>4 DEF ShowInv
        <5> QED
          BY <5>4, <5>5
      <4> QED
        BY <4>1, <4>2
    <3> QED
      BY <3>2, <3>3, <3>4 DEF ViewInv
  <2>10. CASE chat = t /\ ~busy
    <3>1. DrawAck(t, es) /\ UNCHANGED req_drawack /\ Notes("ack", last_log[t] # None)
      BY <1>1, <1>5, <2>0, <2>10
    <3>2. PICK at : at = Len(es) - Len(view)
      OBVIOUS
    <3>3. PICK ds : ds = [j \in DOMAIN es |->
                            IF j > at /\ ~es[j].drawn
                            THEN [es[j] EXCEPT !.drawn = TRUE] ELSE es[j]]
      OBVIOUS
    <3>4. PICK w : w = [j \in DOMAIN view |->
                          IF j + at \in DOMAIN es /\ j + at > at /\ ~es[j + at].drawn
                          THEN [view[j] EXCEPT !.colour = Colour(es[j + at])] ELSE view[j]]
      OBVIOUS
    <3>5. log' = [log EXCEPT ![t] = ds] /\ view' = w
      BY <3>1, <3>2, <3>3, <3>4 DEF DrawAck
    <3>6. FlagTypes'
      BY <1>2, <3>1 DEF ViewInv, FlagTypes
    <3>7. DOMAIN ds = DOMAIN es /\ \A j \in DOMAIN es : ds[j].key = es[j].key
      <4>1. DOMAIN ds = DOMAIN es
        BY <3>3
      <4>2. ASSUME NEW j \in DOMAIN es
            PROVE  ds[j].key = es[j].key
        <5>1. PICK e \in Entry : e = es[j]
          BY <2>5
        <5>2. PICK f : f = ds[j]
          OBVIOUS
        <5>3. f = e \/ f = [e EXCEPT !.drawn = TRUE]
          BY <3>3, <5>1, <5>2
        <5>4. f.key = e.key
          BY <5>3, DrawnOne
        <5> QED
          BY <5>1, <5>2, <5>4
      <4> QED
        BY <4>1, <4>2
    <3>8. Ordered(ds) /\ \A j \in DOMAIN ds : ds[j].key <= keys
      BY <2>5, <2>7, <3>7, OrderAlike
    <3>9. OrderInv'
      BY <1>2, <1>3, <3>5, <3>8, OrderStep DEF ViewInv
    <3>10. ShowInv'
      <4> SUFFICES ASSUME Watched'
                   PROVE  ShowInv'
        BY NoWindow
      <4>1. odd \subseteq odd' /\ (last_log[t] # None => "ack" \in odd')
        BY <3>1, OddStays
      <4>2. Watched /\ last_log[t] = None /\ view \in Seq(Line)
        BY <1>2, <4>1 DEF Watched, ViewInv, ShowInv, UpToDate
      <4>3. Whole(log[t], view, ~req_drawack[t])
        BY <2>10, <4>2 DEF ViewInv, ShowInv, UpToDate
      <4>4. Whole(es, view, FALSE)
        <5>1. PICK was \in BOOLEAN : was = ~req_drawack[t]
          OBVIOUS
        <5>2. Len(view) = Len(log[t]) /\ Fits(log[t], view, Len(log[t]) + 1, was)
          BY <4>3, <5>1 DEF Whole
        <5>3. Fits(es, view, Len(log[t]) + 1, FALSE)
          BY <2>1, <2>5, <2>6, <2>8, <5>2, FitsAlike
        <5> QED
          BY <2>5, <5>2, <5>3 DEF Whole
      <4>5. w \in Seq(Line) /\ Whole(ds, w, TRUE)
        <5>1. Drawing(es, view, at, ds, w)
          BY <3>2, <3>3, <3>4 DEF Drawing
        <5> QED
          BY <2>5, <4>2, <4>4, <5>1, DrawnIs
      <4>6. log'[t] = ds
        BY <1>3, <3>5 DEF TypeOK
      <4>7. /\ UpToDate(ds, w, None, req_add[t], isunread[t], TRUE)
            /\ UpToDate(ds, w, None, req_add[t], isunread[t], FALSE)
        BY <4>5 DEF UpToDate, Whole, Fits
      <4>8. last_log'[t] = None /\ chat' = t /\ req_drawack'[t] = req_drawack[t]
        BY <1>2, <2>10, <3>1, <4>2
      <4>9. UpToDate(ds, w, None, req_add[t], isunread[t], ~req_drawack'[t])
        BY <4>7, <4>8 DEF ViewInv, FlagTypes
      <4> QED
        BY <1>2, <3>5, <4>6, <4>8, <4>9 DEF ShowInv
    <3> QED
      BY <3>6, <3>9, <3>10 DEF ViewInv
  <2> QED
    BY <2>9, <2>10
<1> QED
  BY <1>4, <1>5

\* No message of a log has a number any more; its colour is the same.
LEMMA AgedIs ==
  ASSUME NEW es \in Seq(Entry)
  PROVE  /\ Aged(es) \in Seq(Entry) /\ Len(Aged(es)) = Len(es) /\ DOMAIN Aged(es) = DOMAIN es
         /\ \A i \in DOMAIN es : /\ Aged(es)[i].key = es[i].key
                                 /\ Aged(es)[i].drawn = es[i].drawn
                                 /\ Colour(Aged(es)[i]) = Colour(es[i])
<1>1. ASSUME NEW i \in DOMAIN es
      PROVE  /\ Aged(es)[i] \in Entry /\ Aged(es)[i].key = es[i].key
             /\ Aged(es)[i].drawn = es[i].drawn /\ Colour(Aged(es)[i]) = Colour(es[i])
  <2>1. PICK e \in Entry : e = es[i]
    OBVIOUS
  <2>2. PICK f : f = Aged(es)[i]
    OBVIOUS
  <2>3. f = IF e.ID = Plain THEN e ELSE [e EXCEPT !.ID = Old]
    BY <2>1, <2>2 DEF Aged
  <2>4. /\ f \in Entry /\ f.key = e.key /\ f.drawn = e.drawn /\ f.ack = e.ack
        /\ f.ID = Plain <=> e.ID = Plain
    BY <2>3 DEF Entry, Old, Plain
  <2>5. Colour(f) = Colour(e)
    BY <2>4 DEF Colour
  <2> QED
    BY <2>1, <2>2, <2>4, <2>5
<1>2. DOMAIN es = 1..Len(es) /\ Len(es) \in Nat
  OBVIOUS
<1>3. DOMAIN Aged(es) = DOMAIN es /\ Aged(es) = [i \in DOMAIN es |-> Aged(es)[i]]
  BY DEF Aged
<1>4. Aged(es) \in [1..Len(es) -> Entry]
  BY <1>1, <1>2, <1>3
<1>5. Aged(es) \in Seq(Entry) /\ Len(Aged(es)) = Len(es)
  BY <1>2, <1>4, AsSeq
<1> QED
  BY <1>1, <1>3, <1>5

LEMMA ClosedView == TypeOK /\ ViewInv /\ ENIP_SOCK_CLOSED => ViewInv'
<1> SUFFICES ASSUME TypeOK, ViewInv, ENIP_SOCK_CLOSED
             PROVE  ViewInv'
  OBVIOUS
<1>1. /\ log' = [t \in Contact |-> Aged(log[t])]
      /\ UNCHANGED <<last_log, isunread, req_add, req_drawack, chat, view, keys, odd>>
  BY DEF ENIP_SOCK_CLOSED, count, window
<1>2. ASSUME NEW t \in Contact
      PROVE  log[t] \in Seq(Entry) /\ log'[t] = Aged(log[t])
  BY <1>1 DEF TypeOK
<1>3. OrderInv'
  <2>1. ASSUME NEW t \in Contact
        PROVE  Ordered(log'[t]) /\ \A i \in DOMAIN log'[t] : log'[t][i].key <= keys
    <3>1. Ordered(log[t]) /\ \A i \in DOMAIN log[t] : log[t][i].key <= keys
      BY DEF ViewInv, OrderInv
    <3> QED
      BY <1>2, <3>1, AgedIs, OrderAlike
  <2> QED
    BY <1>1, <2>1 DEF OrderInv, Ordered
<1>4. FlagTypes'
  BY <1>1 DEF ViewInv, FlagTypes
<1>5. ShowInv'
  <2> SUFFICES ASSUME Watched'
               PROVE  ShowInv'
    BY NoWindow
  <2>1. Watched /\ chat \in Contact
    BY <1>1 DEF Watched, TypeOK
  <2>2. PICK all \in BOOLEAN : all = ~req_drawack[chat]
    OBVIOUS
  <2> DEFINE es == log[chat]
             fs == Aged(log[chat])
  <2>3. UpToDate(es, view, last_log[chat], req_add[chat], isunread[chat], all)
    BY <2>1, <2>2 DEF ViewInv, ShowInv
  <2>4. /\ es \in Seq(Entry) /\ fs \in Seq(Entry) /\ Len(fs) = Len(es) /\ DOMAIN fs = DOMAIN es
        /\ \A i \in DOMAIN es : /\ fs[i].key = es[i].key /\ fs[i].drawn = es[i].drawn
                                /\ Colour(fs[i]) = Colour(es[i])
    BY <1>2, <2>1, AgedIs
  <2> HIDE DEF es, fs
  <2>5. ASSUME NEW p, Fits(es, view, p, all)
        PROVE  Fits(fs, view, p, all)
    BY <2>4, <2>5, FitsAlike
  <2>6. UpToDate(fs, view, last_log[chat], req_add[chat], isunread[chat], all)
    <3>1. CASE last_log[chat] = None
      BY <2>3, <2>4, <2>5, <3>1 DEF UpToDate, Whole
    <3>2. CASE last_log[chat] # None
      BY <2>3, <2>4, <2>5, <3>2 DEF UpToDate
    <3> QED
      BY <3>1, <3>2
  <2>7. log'[chat] = fs
    BY <1>2, <2>1 DEF fs
  <2> QED
    BY <1>1, <2>2, <2>6, <2>7 DEF ShowInv
<1> QED
  BY <1>3, <1>4, <1>5 DEF ViewInv

LEMMA CreateView == TypeOK /\ ViewInv /\ CreateEditChat => ViewInv'
<1> SUFFICES ASSUME TypeOK, ViewInv, CreateEditChat
             PROVE  ViewInv'
  OBVIOUS
<1>1. PICK t \in cl :
        /\ chat' = t /\ view' = Items(log[t]) /\ Read(t)
        /\ req_add' = [req_add EXCEPT ![t] = FALSE]
        /\ last_log' = [last_log EXCEPT ![t] = None]
        /\ UNCHANGED <<log, req_drawack, keys, odd>>
  BY DEF CreateEditChat
<1>2. t \in Contact /\ log[t] \in Seq(Entry)
  BY DEF TypeOK
<1>3. OrderInv'
  BY <1>1, OrderSame DEF ViewInv
<1>4. FlagTypes'
  BY <1>1 DEF ViewInv, FlagTypes, Read
<1>5. ShowInv'
  <2>1. PICK v : v = Items(log[t])
    OBVIOUS
  <2>2. v \in Seq(Line) /\ Len(v) = Len(log[t]) /\ \A i \in 1..Len(log[t]) : v[i] = Item(log[t][i])
    BY <1>2, <2>1, ItemsAre
  <2>3. PICK n \in Nat : n = Len(log[t]) /\ DOMAIN log[t] = 1..n
    BY <1>2
  <2>4. ASSUME NEW i \in 1..n
        PROVE  v[i].key = log[t][i].key /\ v[i].colour = Colour(log[t][i])
    <3>1. log[t][i] \in Entry
      BY <1>2, <2>3
    <3> QED
      BY <2>2, <2>3, <3>1, Item1
  <2>5. ASSUME NEW all
        PROVE  Whole(log[t], v, all)
    <3>1. n + 1 \in 1..(Len(log[t]) + 1) /\ (n + 1) - 1 = n /\ n <= Len(v)
      BY <2>2, <2>3
    <3>2. \A i \in 1..n : Len(v) - ((n + 1) - 1) + i = i
      BY <2>2, <2>3
    <3> QED
      BY <2>2, <2>3, <2>4, <3>1, <3>2 DEF Whole, Fits
  <2>6. last_log'[t] = None
    BY <1>1, <1>2 DEF ViewInv, FlagTypes
  <2>7. UpToDate(log[t], v, None, req_add'[t], isunread'[t], ~req_drawack[t])
    BY <2>2, <2>5 DEF UpToDate
  <2> QED
    BY <1>1, <2>1, <2>6, <2>7 DEF ShowInv
<1> QED
  BY <1>3, <1>4, <1>5 DEF ViewInv

\* What was put off is done.
LEMMA RedrawView == TypeOK /\ ViewInv /\ OnRedraw => ViewInv'
<1> SUFFICES ASSUME TypeOK, ViewInv, OnRedraw
             PROVE  ViewInv'
  OBVIOUS
<1> DEFINE es == log[chat]
           k == last_log[chat]
           adds == req_add[chat] /\ isunread[chat]
           now == IF adds /\ k # None /\ HasKey(es, k) THEN Shown(es, k) ELSE view
           at == Len(es) - Len(now)
           isDrawn(i) == req_drawack[chat] /\ i > at /\ ~es[i].drawn
           ds == [i \in DOMAIN es |->
                   IF isDrawn(i) THEN [es[i] EXCEPT !.drawn = TRUE] ELSE es[i]]
           w == [j \in DOMAIN now |->
                   IF j + at \in DOMAIN es /\ isDrawn(j + at)
                   THEN [now[j] EXCEPT !.colour = Colour(es[j + at])] ELSE now[j]]
<1>1. /\ chat # None
      /\ req_add' = [req_add EXCEPT ![chat] = FALSE]
      /\ req_drawack' = [req_drawack EXCEPT ![chat] = FALSE]
      /\ view' = w /\ log' = [log EXCEPT ![chat] = ds]
      /\ IF adds THEN Read(chat) /\ last_log' = [last_log EXCEPT ![chat] = None]
                 ELSE UNCHANGED <<count, last_log>>
      /\ UNCHANGED <<chat, keys, odd>>
  BY DEF OnRedraw
<1>2. chat \in Contact /\ es \in Seq(Entry)
  BY <1>1 DEF TypeOK
<1>3. OrderInv'
  <2>1. DOMAIN ds = DOMAIN es
    OBVIOUS
  <2>2. ASSUME NEW i \in DOMAIN es
        PROVE  ds[i].key = es[i].key
    <3>1. PICK e \in Entry : e = es[i]
      BY <1>2
    <3>2. PICK f : f = ds[i]
      OBVIOUS
    <3>3. f = e \/ f = [e EXCEPT !.drawn = TRUE]
      BY <3>1, <3>2
    <3>4. f.key = e.key
      BY <3>3, DrawnOne
    <3> QED
      BY <3>1, <3>2, <3>4
  <2> HIDE DEF ds
  <2>3. Ordered(ds) /\ \A i \in DOMAIN ds : ds[i].key <= keys
    BY <1>2, <2>1, <2>2, OrderAlike DEF ViewInv, OrderInv
  <2> QED
    BY <1>1, <1>2, <2>3, OrderStep DEF ViewInv
<1>4. FlagTypes'
  BY <1>1 DEF ViewInv, FlagTypes, Read, count
<1>5. ShowInv'
  <2> SUFFICES ASSUME Watched'
               PROVE  ShowInv'
    BY NoWindow
  <2>1. Watched
    BY <1>1 DEF Watched
  <2>2. UpToDate(es, view, k, req_add[chat], isunread[chat], ~req_drawack[chat])
    BY <2>1 DEF ViewInv, ShowInv
  <2>3. now \in Seq(Line) /\ Whole(es, now, ~req_drawack[chat])
    <3>1. CASE k = None
      BY <2>2, <3>1 DEF UpToDate
    <3>2. CASE k # None
      <4>1. PICK p \in DOMAIN es : es[p].key = k /\ Fits(es, view, p, ~req_drawack[chat])
        BY <2>2, <3>2 DEF UpToDate
      <4>2. adds /\ view \in Seq(Line)
        BY <2>2, <3>2 DEF UpToDate
      <4>3. Ordered(es) /\ (~req_drawack[chat]) \in BOOLEAN
        BY <1>2 DEF ViewInv, OrderInv
      <4>4. HasKey(es, k) /\ Shown(es, k) \in Seq(Line) /\ Whole(es, Shown(es, k), ~req_drawack[chat])
        BY <1>2, <4>1, <4>2, <4>3, ShownIs
      <4>5. now = Shown(es, k)
        BY <3>2, <4>2, <4>4
      <4> QED
        BY <4>4, <4>5
    <3> QED
      BY <3>1, <3>2
  <2>4. last_log'[chat] = None
    <3>1. CASE adds
      BY <1>1, <1>2, <3>1 DEF ViewInv, FlagTypes
    <3>2. CASE ~adds
      <4>1. k = None
        BY <2>2, <3>2 DEF UpToDate
      <4> QED
        BY <1>1, <3>2, <4>1
    <3> QED
      BY <3>1, <3>2
  <2>5. w \in Seq(Line) /\ Whole(ds, w, TRUE)
    <3> HIDE DEF now, es
    <3>1. CASE req_drawack[chat]
      <4>1. Whole(es, now, FALSE)
        BY <2>3, <3>1 DEF Whole, Fits
      <4>2. Drawing(es, now, at, ds, w)
        BY <3>1 DEF Drawing
      <4> HIDE DEF at, ds, w
      <4> QED
        BY <1>2, <2>3, <4>1, <4>2, DrawnIs
    <3>2. CASE ~req_drawack[chat]
      <4>1. ds = es
        BY <1>2, <3>2
      <4>2. w = now
        BY <2>3, <3>2
      <4>3. Whole(es, now, TRUE)
        BY <2>3, <3>2 DEF Whole, Fits
      <4> QED
        BY <2>3, <4>1, <4>2, <4>3
    <3> QED
      BY <3>1, <3>2
  <2>6. log'[chat] = ds
    BY <1>1, <1>2 DEF TypeOK
  <2>7. req_drawack'[chat] = FALSE
    BY <1>1, <1>2 DEF ViewInv, FlagTypes
  <2>8. UpToDate(log'[chat], view', last_log'[chat], req_add'[chat], isunread'[chat],
                 ~req_drawack'[chat])
    <3> HIDE DEF ds, w
    <3> QED
      BY <1>1, <2>4, <2>5, <2>6, <2>7 DEF UpToDate, Whole, Fits
  <2> QED
    BY <1>1, <2>8 DEF ShowInv
<1> QED
  BY <1>3, <1>4, <1>5 DEF ViewInv

LEMMA ClearView == TypeOK /\ ViewInv /\ ClearLog => ViewInv'
<1> SUFFICES ASSUME TypeOK, ViewInv, ClearLog
             PROVE  ViewInv'
  OBVIOUS
<1>1. /\ chat # None /\ log' = [log EXCEPT ![chat] = <<>>]
      /\ view' = IF log[chat] = <<>> THEN view ELSE <<>>
      /\ Notes("clear", last_log[chat] # None)
      /\ UNCHANGED <<last_log, isunread, req_add, req_drawack, chat, keys>>
  BY DEF ClearLog, count
<1>2. chat \in Contact
  BY <1>1 DEF TypeOK
<1>3. odd \subseteq odd' /\ (last_log[chat] # None => "clear" \in odd')
  BY <1>1, OddStays
<1>4. OrderInv'
  <2>1. Ordered(<<>>) /\ \A i \in DOMAIN <<>> : <<>>[i].key <= keys'
    BY DEF Ordered
  <2> QED
    BY <1>1, <1>2, <2>1, OrderStep DEF ViewInv
<1>5. FlagTypes'
  BY <1>1 DEF ViewInv, FlagTypes
<1>6. ShowInv'
  <2> SUFFICES ASSUME Watched'
               PROVE  ShowInv'
    BY NoWindow
  <2>1. Watched /\ last_log[chat] = None
    BY <1>1, <1>3 DEF Watched
  <2>2. view \in Seq(Line) /\ Len(view) = Len(log[chat])
    BY <2>1 DEF ViewInv, ShowInv, UpToDate, Whole
  <2>3. view' = <<>>
    <3>1. CASE log[chat] = <<>>
      <4>1. Len(view) = 0
        BY <2>2, <3>1
      <4>2. view = <<>>
        BY <2>2, <4>1
      <4> QED
        BY <1>1, <3>1, <4>2
    <3>2. CASE log[chat] # <<>>
      BY <1>1, <3>2
    <3> QED
      BY <3>1, <3>2
  <2>4. UpToDate(<<>>, <<>>, None, req_add[chat], isunread[chat], ~req_drawack[chat])
    <3>1. <<>> \in Seq(Line) /\ Len(<<>>) = 0 /\ 0 + 1 \in 1..(0 + 1) /\ 1..((0 + 1) - 1) = {}
      OBVIOUS
    <3> QED
      BY <3>1 DEF UpToDate, Whole, Fits
  <2>5. log'[chat] = <<>>
    BY <1>1, <1>2 DEF TypeOK
  <2> QED
    BY <1>1, <2>1, <2>3, <2>4, <2>5 DEF ShowInv
<1> QED
  BY <1>4, <1>5, <1>6 DEF ViewInv

\* What waits may be put into the window, and nothing else.
LEMMA SameView == TypeOK /\ ViewInv /\ SameXText => ViewInv'
<1> SUFFICES ASSUME TypeOK, ViewInv, SameXText
             PROVE  ViewInv'
  OBVIOUS
<1>1. PICK t \in cl :
        /\ IF chat = t /\ ~busy /\ isunread[t]
           THEN AddMsgToChat(t, log[t], last_log[t], unreaded[t], messages_unread)
                /\ UNCHANGED req_add
           ELSE /\ req_add' = [req_add EXCEPT ![t] = req_add[t] \/ (chat = t /\ busy)]
                /\ UNCHANGED <<view, last_log, count>>
        /\ UNCHANGED <<log, req_drawack, chat, keys, odd>>
  BY DEF SameXText
<1>2. t \in Contact
  BY DEF TypeOK
<1>3. OrderInv'
  BY <1>1, OrderSame DEF ViewInv
<1>4. CASE ~ (chat = t /\ ~busy /\ isunread[t])
  <2>1. /\ req_add' = [req_add EXCEPT ![t] = req_add[t] \/ (chat = t /\ busy)]
        /\ UNCHANGED <<view, last_log, isunread>>
    BY <1>1, <1>4 DEF count
  <2>2. FlagTypes'
    BY <1>1, <2>1 DEF ViewInv, FlagTypes
  <2>3. ShowInv'
    <3> SUFFICES ASSUME Watched'
                 PROVE  ShowInv'
      BY NoWindow
    <3>1. Watched
      BY <1>1 DEF Watched
    <3>2. UpToDate(log[chat], view, last_log[chat], req_add[chat], isunread[chat],
                   ~req_drawack[chat])
      BY <3>1 DEF ViewInv, ShowInv
    <3>3. chat \in Contact
      BY <3>1 DEF Watched, TypeOK
    <3>4. req_add[chat] => req_add'[chat]
      BY <2>1, <3>3 DEF ViewInv, FlagTypes
    <3>5. UpToDate(log[chat], view, last_log[chat], req_add'[chat], isunread[chat],
                   ~req_drawack[chat])
      BY <3>2, <3>4 DEF UpToDate
    <3> QED
      BY <1>1, <2>1, <3>5 DEF ShowInv
  <2> QED
    BY <1>3, <2>2, <2>3 DEF ViewInv
<1>5. CASE chat = t /\ ~busy /\ isunread[t]
  <2> DEFINE es == log[chat]
             k == last_log[chat]
             all == ~req_drawack[chat]
  <2>1. /\ view' = IF HasKey(es, k) THEN Shown(es, k) ELSE view
        /\ last_log' = [last_log EXCEPT ![chat] = None] /\ UNCHANGED req_add
        /\ \/ isunread' = [isunread EXCEPT ![chat] = FALSE]
           \/ isunread' = [isunread EXCEPT ![chat] = TRUE]
    BY <1>1, <1>5 DEF AddMsgToChat
  <2>2. last_log'[chat] = None
    BY <1>2, <1>5, <2>1 DEF ViewInv, FlagTypes
  <2>3. FlagTypes'
    <3>1. isunread' \in [Contact -> BOOLEAN]
      BY <2>1 DEF ViewInv, FlagTypes
    <3>2. last_log' = [u \in Contact |-> last_log'[u]]
      BY <2>1 DEF ViewInv, FlagTypes
    <3> QED
      BY <1>1, <2>1, <3>1, <3>2 DEF ViewInv, FlagTypes
  <2>4. ShowInv'
    <3> SUFFICES ASSUME Watched'
                 PROVE  ShowInv'
      BY NoWindow
    <3>1. Watched
      BY <1>1 DEF Watched
    <3>2. UpToDate(es, view, k, req_add[chat], isunread[chat], all)
      BY <3>1 DEF ViewInv, ShowInv
    <3>3. es \in Seq(Entry) /\ Ordered(es)
      BY <1>2, <1>5 DEF TypeOK, ViewInv, OrderInv
    <3>4. view' \in Seq(Line) /\ Whole(es, view', all)
      <4>1. CASE k = None
        <5>1. \A i \in DOMAIN es : es[i] \in Entry
          BY <3>3
        <5>2. ~HasKey(es, k)
          BY <4>1, <5>1, LogAssumption DEF HasKey, Entry, Key
        <5> QED
          BY <2>1, <3>2, <4>1, <5>2 DEF UpToDate
      <4>2. CASE k # None
        <5>1. PICK p \in DOMAIN es : es[p].key = k /\ Fits(es, view, p, all)
          BY <3>2, <4>2 DEF UpToDate
        <5>2. view \in Seq(Line) /\ all \in BOOLEAN
          BY <3>2 DEF UpToDate
        <5>3. HasKey(es, k) /\ Shown(es, k) \in Seq(Line) /\ Whole(es, Shown(es, k), all)
          BY <3>3, <5>1, <5>2, ShownIs
        <5> QED
          BY <2>1, <5>3
      <4> QED
        BY <4>1, <4>2
    <3>5. UpToDate(es, view', None, req_add'[chat], isunread'[chat], all)
      BY <3>4 DEF UpToDate
    <3> QED
      BY <1>1, <2>2, <3>5 DEF ShowInv
  <2> QED
    BY <1>3, <2>3, <2>4 DEF ViewInv
<1> QED
  BY <1>4, <1>5

LEMMA ViewsStay == TypeOK /\ ViewInv /\ [Next]_vars => ViewInv'
<1> SUFFICES ASSUME TypeOK, ViewInv, [Next]_vars
             PROVE  ViewInv'
  OBVIOUS
<1>0. odd \subseteq odd'
  BY OddKept
<1>1. CASE T_RECVMSG
  <2>1. PICK t \in Contact : /\ keys < MaxMsg
                             /\ \E es \in Logged(t, keys + 1, Plain) : CountsAnd(t, keys + 1, es, 1)
                             /\ UNCHANGED <<req_drawack, chat, odd>>
    BY <1>1 DEF T_RECVMSG
  <2>2. PICK es \in Logged(t, keys + 1, Plain) : CountsAnd(t, keys + 1, es, 1)
    BY <2>1
  <2> QED
    BY <2>1, <2>2, ComesView
<1>2. CASE T_XTEXT_ACK
  <2>1. PICK t \in cl : /\ keys < MaxMsg
                        /\ \E es \in Logged(t, keys + 1, Plain) :
                             CountsAnd(t, keys + 1, es, IF chat = t THEN 1 ELSE 0)
                        /\ UNCHANGED <<req_drawack, chat, odd>>
    BY <1>2 DEF T_XTEXT_ACK
  <2>2. PICK es \in Logged(t, keys + 1, Plain) :
               CountsAnd(t, keys + 1, es, IF chat = t THEN 1 ELSE 0)
    BY <2>1
  <2>3. t \in Contact
    BY DEF TypeOK
  <2> QED
    BY <2>1, <2>2, <2>3, ComesView
<1>3. CASE OnFocus
  <2>1. /\ chat # None /\ Read(chat) /\ Notes("focus", last_log[chat] # None)
        /\ UNCHANGED <<log, last_log, req_add, req_drawack, chat, view, keys>>
    BY <1>3 DEF OnFocus
  <2>2. odd \subseteq odd' /\ (last_log[chat] # None => "focus" \in odd')
    BY <2>1, OddStays
  <2>3. OrderInv'
    BY <2>1, OrderSame DEF ViewInv
  <2>4. FlagTypes'
    BY <2>1 DEF ViewInv, FlagTypes, Read
  <2>5. ShowInv'
    <3> SUFFICES ASSUME Watched'
                 PROVE  ShowInv'
      BY NoWindow
    <3>1. Watched /\ last_log[chat] = None
      BY <2>1, <2>2 DEF Watched
    <3>2. UpToDate(log[chat], view, last_log[chat], req_add[chat], isunread'[chat],
                   ~req_drawack[chat])
      BY <3>1 DEF ViewInv, ShowInv, UpToDate
    <3> QED
      BY <2>1, <3>2 DEF ShowInv
  <2> QED
    BY <2>3, <2>4, <2>5 DEF ViewInv
<1>4. CASE GREEN_BUTTON \/ MenuSends
  <2>1. PICK id \in Nat \cup {Plain} : Writes(id)
    <3>1. ASSUME GREEN_BUTTON
          PROVE  \E id \in Nat : Writes(id)
      <4>1. (SENDMSGCOUNT + 1) % Numbers \in Nat
        BY LogAssumption DEF TypeOK
      <4> QED
        BY <3>1, <4>1 DEF GREEN_BUTTON
    <3>2. ASSUME MenuSends
          PROVE  Writes(Plain)
      BY <3>2 DEF MenuSends
    <3> QED
      BY <1>4, <3>1, <3>2
  <2>2. PICK es \in Logged(chat, keys + 1, id) :
          /\ log' = [log EXCEPT ![chat] = es]
          /\ AddMsgToChat(chat, es, LastLogged(chat, es), unreaded[chat] + 1,
                          messages_unread + 1)
    BY <2>1 DEF Writes
  <2>3. /\ chat # None /\ keys < MaxMsg /\ keys' = keys + 1
        /\ UNCHANGED <<chat, req_add, req_drawack>>
    BY <2>1 DEF Writes
  <2> QED
    BY <1>0, <2>2, <2>3, PutsView
<1>5. CASE ClosesChat
  <2>1. chat' = None /\ UNCHANGED <<log, last_log, isunread, req_add, req_drawack, keys>>
    BY <1>5 DEF ClosesChat, count
  <2>2. OrderInv'
    BY <2>1, OrderSame DEF ViewInv
  <2>3. ShowInv'
    BY <2>1, NoWindow DEF Watched
  <2> QED
    BY <2>1, <2>2, <2>3 DEF ViewInv, FlagTypes
<1>6. CASE T_CLENTRY \/ ENIP_SOCK_CONNECTED \/ T_LOGIN \/ IPC_SENDMSG \/ Covered
           \/ BeginsWord \/ EndsWord \/ UNCHANGED vars
  <2>1. /\ keys' \in {keys, keys + 1}
        /\ UNCHANGED <<log, last_log, isunread, req_add, req_drawack, chat, view>>
    BY <1>6 DEF T_CLENTRY, ENIP_SOCK_CONNECTED, T_LOGIN, IPC_SENDMSG, Covered,
                BeginsWord, EndsWord, vars, window, count
  <2> QED
    BY <1>0, <2>1, ViewStays
<1> QED
  BY <1>1, <1>2, <1>3, <1>4, <1>5, <1>6, SameView, RemovedView, AckView, ClosedView, CreateView,
     RedrawView, ClearView DEF Next, ProcessPacket, Window

LEMMA ViewsStart == Init => ViewInv
<1> SUFFICES ASSUME Init
             PROVE  ViewInv
  OBVIOUS
<1>1. FlagTypes
  BY DEF Init, FlagTypes
<1>2. OrderInv
  BY DEF Init, OrderInv, Ordered
<1>3. ShowInv
  BY DEF Init, ShowInv, Watched
<1> QED
  BY <1>1, <1>2, <1>3 DEF ViewInv

-----------------------------------------------------------------------------
\* The window shows the log of its contact, whole and in order, but for what
\* waits for the end of a word, and each message with the colour of its
\* acknowledgement (main.c:2013-2060, 3905-3936), whatever is cut off the log
\* and whatever comes while the user writes, unless the window comes on top
\* again, or is drawn, or the log is cleared, with messages waiting.
THEOREM ViewOfLogAlways == Spec => []ViewOfLog
<1>1. TypeOK /\ ViewInv => ViewOfLog
  <2> SUFFICES ASSUME TypeOK, ViewInv, Watched
               PROVE  /\ last_log[chat] = None => KeysOf(view) = KeysOf(log[chat])
                      /\ last_log[chat] # None => /\ req_add[chat] /\ isunread[chat]
                                                  /\ HasKey(log[chat], last_log[chat])
                      /\ last_log[chat] = None /\ ~req_drawack[chat] => view = Items(log[chat])
    BY DEF ViewOfLog, Watched
  <2> DEFINE es == log[chat]
  <2>1. UpToDate(es, view, last_log[chat], req_add[chat], isunread[chat], ~req_drawack[chat])
    BY DEF ViewInv, ShowInv
  <2>2. es \in Seq(Entry) /\ view \in Seq(Line)
    BY <2>1 DEF UpToDate, Watched, TypeOK
  <2> HIDE DEF es
  <2>3. ASSUME last_log[chat] # None
        PROVE  req_add[chat] /\ isunread[chat] /\ HasKey(es, last_log[chat])
    BY <2>1, <2>3 DEF UpToDate, HasKey
  <2>4. ASSUME last_log[chat] = None
        PROVE  /\ KeysOf(view) = KeysOf(es)
               /\ ~req_drawack[chat] => view = Items(es)
    <3>1. PICK n \in Nat : n = Len(es) /\ n = Len(view) /\ DOMAIN es = 1..n /\ DOMAIN view = 1..n
      BY <2>1, <2>2, <2>4 DEF UpToDate, Whole
    <3>2. ASSUME NEW i \in 1..n
          PROVE  /\ view[i].key = es[i].key
                 /\ ~req_drawack[chat] => view[i].colour = Colour(es[i])
      <4>1. i \in 1..((n + 1) - 1) /\ Len(view) - ((n + 1) - 1) + i = i
        BY <3>1
      <4>2. Fits(es, view, n + 1, ~req_drawack[chat])
        BY <2>1, <2>4, <3>1 DEF UpToDate, Whole
      <4> QED
        BY <4>1, <4>2 DEF Fits
    <3>3. KeysOf(view) = KeysOf(es)
      BY <3>1, <3>2 DEF KeysOf
    <3>4. ASSUME ~req_drawack[chat]
          PROVE  view = Items(es)
      <4>1. ASSUME NEW i \in 1..n
            PROVE  view[i] = Item(es[i])
        <5>1. PICK l \in Line : l = view[i]
          BY <2>2, <3>1
        <5>2. l = [key |-> l.key, colour |-> l.colour]
          BY DEF Line
        <5>3. l.key = es[i].key /\ l.colour = Colour(es[i])
          BY <3>2, <3>4, <5>1
        <5> QED
          BY <5>1, <5>2, <5>3 DEF Item
      <4>2. view = [i \in 1..n |-> view[i]]
        BY <2>2, <3>1
      <4>3. Items(es) = [i \in 1..n |-> Item(es[i])]
        BY <3>1 DEF Items
      <4> QED
        BY <4>1, <4>2, <4>3
    <3> QED
      BY <3>3, <3>4
  <2> QED
    BY <2>3, <2>4 DEF es
<1>2. Inv => TypeOK
  BY DEF Inv
<1> QED
  BY <1>1, <1>2, Start, Step, ViewsStart, ViewsStay, PTL DEF Spec
=============================================================================
