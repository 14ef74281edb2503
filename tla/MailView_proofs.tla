---------------------------- MODULE MailView_proofs ----------------------------
(***************************************************************************)
(* The viewer and the daemon do not write over each other's mails.db, for  *)
(* any number of mails, keys and sessions, as long as the user waits for   *)
(* the phone and every session is asked for and ended in the viewer.       *)
(*                                                                         *)
(* The argument is about the screen.  A session goes on only under the     *)
(* statistics, or with their coming or going on its way (CoverInv), so     *)
(* nothing that the user changes is still to be written then (ActiveInv);  *)
(* and what a session has changed is read again before the list can be     *)
(* seen (FreshInv).                                                        *)
(***************************************************************************)
EXTENDS MailView, SequenceTheorems, TLAPS

-----------------------------------------------------------------------------
Guis   == {"list", "stat", "options", "view"}
Stages == {"idle", "asked", "connecting", "session", "listed", "quit"}
Job    == {"write_mail_DB", "write_empty", "create_connect", "end_connect"}
Letter == {Ipc(what) : what \in {"CHECK", "STOP", "ACCEPTED", "REFUSED", "FINISHED",
                                 "CONNECTED", "CLOSED"}}
          \cup {Destroyed("options", flag) : flag \in 1..2}
          \cup {Destroyed("stat", flag) : flag \in 1..3}

Types ==
  /\ mails \in [Mail -> States] /\ prev \in [Mail -> States]
  /\ db \in [Mail -> States] /\ daemon \in [Mail -> States]
  /\ guis \in Seq(Guis) /\ at \in Mail \cup {NoMail} /\ freed \in BOOLEAN
  /\ stage \in Stages /\ inbox \in Seq(Letter) /\ jobs \in Seq(Job)
  /\ touched \subseteq Mail /\ keys \in Nat /\ sessions \in Nat
  /\ haste \in Nat /\ trouble \in Nat

Gone(gui, flag) == Destroyed(gui, flag) \in Range(inbox)
Due(job) == job \in Range(jobs)

\* What is below the screen in front: the list first, and texts.
ShapeInv ==
  \A n \in DOMAIN guis : /\ n < Len(guis) => guis[n] \in {"list", "view"}
                         /\ guis[n] = "list" => n = 1

\* The options are open over the list, which is neither read nor closed then.
OptionsInv ==
  haste = 0 =>
    /\ freed = FALSE
    /\ Open("options") => Open("list") /\ ~Gone("stat", 2) /\ ~Gone("stat", 3)

Active == stage \in {"asked", "connecting", "session", "listed"}
Saving == Due("write_mail_DB") \/ Gone("options", 2)

\* A check is asked for when nothing else is on its way, and one at a time.
CheckInv ==
  /\ \A i \in DOMAIN inbox : inbox[i] = Ipc("CHECK") =>
       i = 1 /\ jobs = <<>> /\ (stage \in {"idle", "asked"} => Len(inbox) = 1)
  /\ stage = "asked" => ~Told("STOP") /\ ~Due("end_connect")

\* The viewer is told that the check begins before its connection is there.
AcceptedFirst ==
  \A i, j \in DOMAIN inbox :
    inbox[i] = Ipc("ACCEPTED") /\ inbox[j] = Ipc("CONNECTED") => i < j
\* Until then nothing ends it, and no statistics are being closed.
AcceptedAlone ==
  Told("ACCEPTED") =>
    /\ stage \notin {"session", "listed"} /\ ~Told("STOP") /\ ~Told("FINISHED")
    /\ ~Due("end_connect") /\ \A f \in {1, 2, 3} : ~Gone("stat", f)
AcceptedInv == AcceptedFirst /\ AcceptedAlone

\* What the stack says of a socket: that it is connected, that it is closed.
ConnectedFirst ==
  \A i, j \in DOMAIN inbox :
    i < j /\ {inbox[i], inbox[j]} \subseteq {Ipc("CONNECTED"), Ipc("CLOSED")} =>
      inbox[i] = Ipc("CONNECTED") /\ inbox[j] = Ipc("CLOSED")
SocketInv ==
  /\ Told("CONNECTED") \/ Told("CLOSED") => stage \in {"connecting", "quit"}
  /\ Told("CONNECTED") /\ Told("CLOSED") => stage = "quit"
  /\ ConnectedFirst

\* While a session goes on nothing is saved by the viewer, and nothing that ends
\* a session is on its way.
ActiveInv ==
  /\ ~Due("write_empty")
  /\ Active => ~Saving /\ ~Told("FINISHED") /\ ~Gone("stat", 2)

\* The statistics cover the list.
CoverInv ==
  /\ stage = "asked" => Open("stat") \/ Told("ACCEPTED")
  /\ Active /\ Open("list") => Open("stat") \/ Told("ACCEPTED") \/ Gone("stat", 3)

\* The list is what mails.db says, or will be.
FreshInv ==
  Open("list") =>
    \/ mails = db \/ Saving \/ stage \in {"session", "listed"}
    \/ Told("FINISHED") /\ Open("stat")
    \/ Gone("stat", 2)
    \/ Gone("stat", 3) /\ stage \notin {"asked", "connecting"}

SaveInv == Saving => \A m \in Mail \ touched : mails[m] = db[m]

DaemonInv ==
  /\ stage = "session" => daemon = db
  /\ stage = "listed" /\ IF_DEL_AUX =>
       \A m \in Mail : db[m] = "loaded" => daemon[m] = "loaded"

PhoneInv == CheckInv /\ AcceptedInv /\ SocketInv
ListInv  == ActiveInv /\ CoverInv /\ FreshInv /\ SaveInv /\ DaemonInv
ViewInv  == ShapeInv /\ OptionsInv /\ (Orderly => PhoneInv /\ ListInv)

-----------------------------------------------------------------------------
(* Sequences, messages and screens.                                        *)

LEMMA Added ==
  ASSUME NEW S, NEW q \in Seq(S), NEW e \in S
  PROVE  /\ Append(q, e) \in Seq(S) /\ Len(Append(q, e)) = Len(q) + 1 /\ Len(q) \in Nat
         /\ \A i \in 1..Len(q) : Append(q, e)[i] = q[i]
         /\ Append(q, e)[Len(q) + 1] = e
         /\ DOMAIN q = 1..Len(q) /\ DOMAIN Append(q, e) = 1..(Len(q) + 1)
         /\ Range(Append(q, e)) = Range(q) \cup {e}
<1>1. /\ Append(q, e) \in Seq(S) /\ Len(Append(q, e)) = Len(q) + 1 /\ Len(q) \in Nat
      /\ \A i \in 1..Len(q) : Append(q, e)[i] = q[i]
      /\ Append(q, e)[Len(q) + 1] = e
      /\ DOMAIN q = 1..Len(q) /\ DOMAIN Append(q, e) = 1..(Len(q) + 1)
  OBVIOUS
<1>2. ASSUME NEW x
      PROVE  x \in Range(Append(q, e)) <=> x \in Range(q) \cup {e}
  BY <1>1 DEF Range
<1> QED
  BY <1>1, <1>2

LEMMA Taken ==
  ASSUME NEW S, NEW q \in Seq(S), q # <<>>
  PROVE  /\ Tail(q) \in Seq(S) /\ Len(Tail(q)) = Len(q) - 1
         /\ Len(q) \in Nat \ {0} /\ Head(q) = q[1] /\ Head(q) \in S
         /\ \A i \in 1..(Len(q) - 1) : Tail(q)[i] = q[i + 1]
         /\ DOMAIN q = 1..Len(q) /\ DOMAIN Tail(q) = 1..(Len(q) - 1)
         /\ Range(q) = Range(Tail(q)) \cup {Head(q)}
<1>1. /\ Tail(q) \in Seq(S) /\ Len(Tail(q)) = Len(q) - 1
      /\ Len(q) \in Nat \ {0} /\ Head(q) = q[1] /\ Head(q) \in S
      /\ \A i \in 1..(Len(q) - 1) : Tail(q)[i] = q[i + 1]
      /\ DOMAIN q = 1..Len(q) /\ DOMAIN Tail(q) = 1..(Len(q) - 1)
  OBVIOUS
<1>2. ASSUME NEW x
      PROVE  x \in Range(q) <=> x \in Range(Tail(q)) \cup {Head(q)}
  <2>1. ASSUME x \in Range(q), x # Head(q)
        PROVE  x \in Range(Tail(q))
    <3>1. PICK i \in 1..Len(q) : q[i] = x
      BY <1>1, <2>1 DEF Range
    <3>2. i - 1 \in 1..(Len(q) - 1) /\ Tail(q)[i - 1] = x
      BY <1>1, <2>1, <3>1
    <3> QED
      BY <1>1, <3>2 DEF Range
  <2>2. ASSUME x \in Range(Tail(q))
        PROVE  x \in Range(q)
    <3>1. PICK i \in 1..(Len(q) - 1) : Tail(q)[i] = x
      BY <1>1, <2>2 DEF Range
    <3>2. i + 1 \in 1..Len(q) /\ q[i + 1] = x
      BY <1>1, <3>1
    <3> QED
      BY <1>1, <3>2 DEF Range
  <2>3. Head(q) \in Range(q)
    BY <1>1 DEF Range
  <2> QED
    BY <2>1, <2>2, <2>3
<1> QED
  BY <1>1, <1>2

LEMMA OneLess ==
  ASSUME NEW S, NEW q \in Seq(S), NEW k \in 1..Len(q)
  PROVE  /\ RemoveAt(q, k) \in Seq(S) /\ Len(RemoveAt(q, k)) = Len(q) - 1
         /\ \A i \in 1..(Len(q) - 1) :
              RemoveAt(q, k)[i] = IF i < k THEN q[i] ELSE q[i + 1]
<1>0. Len(q) \in Nat /\ \A i \in 1..Len(q) : q[i] \in S
  OBVIOUS
<1>1. /\ SubSeq(q, 1, k - 1) \in Seq(S) /\ Len(SubSeq(q, 1, k - 1)) = k - 1
      /\ \A i \in 1..(k - 1) : SubSeq(q, 1, k - 1)[i] = q[i]
  BY <1>0
<1>2. /\ SubSeq(q, k + 1, Len(q)) \in Seq(S) /\ Len(SubSeq(q, k + 1, Len(q))) = Len(q) - k
      /\ \A i \in 1..(Len(q) - k) : SubSeq(q, k + 1, Len(q))[i] = q[k + i]
  BY <1>0
<1>3. ASSUME NEW a \in Seq(S), NEW b \in Seq(S), Len(a) = k - 1, Len(b) = Len(q) - k,
             \A i \in 1..(k - 1) : a[i] = q[i], \A i \in 1..(Len(q) - k) : b[i] = q[k + i]
      PROVE  /\ a \o b \in Seq(S) /\ Len(a \o b) = Len(q) - 1
             /\ \A i \in 1..(Len(q) - 1) : (a \o b)[i] = IF i < k THEN q[i] ELSE q[i + 1]
  <2>1. a \o b \in Seq(S) /\ Len(a \o b) = Len(a) + Len(b)
    BY a \in Seq(S), b \in Seq(S), ConcatProperties, Zenon
  <2>2. ASSUME NEW i \in 1..(Len(q) - 1), i < k
        PROVE  (a \o b)[i] = q[i]
    BY <1>0, <1>3, <2>2
  <2>3. ASSUME NEW i \in 1..(Len(q) - 1), ~(i < k)
        PROVE  (a \o b)[i] = q[i + 1]
    <3>1. (a \o b)[i] = b[i - (k - 1)]
      BY <1>0, <1>3, <2>3
    <3> QED
      BY <1>0, <1>3, <2>3, <3>1
  <2> QED
    BY <1>0, <1>3, <2>1, <2>2, <2>3
<1> QED
  BY <1>1, <1>2, <1>3 DEF RemoveAt

LEMMA Nothing == Range(<<>>) = {}
  BY DEF Range

LEMMA Letters ==
  /\ \A what \in {"CHECK", "STOP", "ACCEPTED", "REFUSED", "FINISHED", "CONNECTED", "CLOSED"} :
       Ipc(what) \in Letter
  /\ \A flag \in 1..2 : Destroyed("options", flag) \in Letter
  /\ \A flag \in 1..3 : Destroyed("stat", flag) \in Letter
  /\ \A a, b : Ipc(a) = Ipc(b) <=> a = b
  /\ \A g, h, e, f : Destroyed(g, e) = Destroyed(h, f) <=> g = h /\ e = f
  /\ \A a, g, f : a # "DESTROYED" => Ipc(a) # Destroyed(g, f)
<1>1. /\ \A what \in {"CHECK", "STOP", "ACCEPTED", "REFUSED", "FINISHED", "CONNECTED", "CLOSED"} :
           Ipc(what) \in Letter
      /\ \A flag \in 1..2 : Destroyed("options", flag) \in Letter
      /\ \A flag \in 1..3 : Destroyed("stat", flag) \in Letter
  BY DEF Letter
<1>2. /\ \A a, b : Ipc(a) = Ipc(b) <=> a = b
      /\ \A g, h, e, f : Destroyed(g, e) = Destroyed(h, f) <=> g = h /\ e = f
      /\ \A a, g, f : a # "DESTROYED" => Ipc(a) # Destroyed(g, f)
  BY DEF Ipc, Destroyed
<1> QED
  BY <1>1, <1>2

\* The screens, one above the other.
Screens == guis \in Seq(Guis) /\ ShapeInv

LEMMA InFront ==
  ASSUME Screens, NEW gui \in Guis, Top = gui
  PROVE  /\ guis # <<>> /\ Len(guis) \in Nat \ {0} /\ DOMAIN guis = 1..Len(guis)
         /\ guis[Len(guis)] = gui /\ Open(gui)
         /\ Open("options") <=> gui = "options"
         /\ Open("stat") <=> gui = "stat"
<1>1. guis # <<>>
  BY DEF Top, Guis
<1>2. /\ guis # <<>> /\ Len(guis) \in Nat \ {0} /\ DOMAIN guis = 1..Len(guis)
      /\ guis[Len(guis)] = gui
  BY <1>1 DEF Top, Last, Screens
<1> QED
  BY <1>2 DEF Open, Range, ShapeInv, Screens

LEMMA NoneInFront ==
  ASSUME Screens, Top = "main"
  PROVE  guis = <<>> /\ \A gui : ~Open(gui)
<1>1. ASSUME guis # <<>>
      PROVE  FALSE
  <2>1. Top = guis[Len(guis)] /\ guis[Len(guis)] \in Guis
    BY <1>1 DEF Top, Last, Screens
  <2> QED
    BY <2>1 DEF Guis
<1> QED
  BY <1>1, Nothing DEF Open

\* The screen in front is closed.
LEMMA FrontCloses ==
  ASSUME Screens, NEW gui \in Guis, Top = gui, guis' = Front(guis)
  PROVE  /\ Screens' /\ \A g : Open(g)' => Open(g)
         /\ gui # "view" => ~Open(gui)'
         /\ \A g : g # gui /\ Open(g) => Open(g)'
<1>1. /\ guis # <<>> /\ Len(guis) \in Nat \ {0} /\ DOMAIN guis = 1..Len(guis)
      /\ guis[Len(guis)] = gui
  BY InFront
<1>2. /\ guis' \in Seq(Guis) /\ Len(guis') = Len(guis) - 1 /\ DOMAIN guis' = 1..(Len(guis) - 1)
      /\ \A n \in 1..(Len(guis) - 1) : guis'[n] = guis[n]
  BY <1>1 DEF Front, Screens
<1>3. ShapeInv'
  BY <1>1, <1>2 DEF ShapeInv, Screens
<1>4. \A g : Open(g)' => Open(g)
  BY <1>1, <1>2 DEF Open, Range
<1>5. gui # "view" => ~Open(gui)'
  BY <1>1, <1>2 DEF Open, Range, ShapeInv, Screens, Guis
<1>6. ASSUME NEW g, g # gui, Open(g)
      PROVE  Open(g)'
  BY <1>1, <1>2, <1>6 DEF Open, Range
<1> QED
  BY <1>2, <1>3, <1>4, <1>5, <1>6 DEF Screens

\* A screen is opened in front.
LEMMA Opens ==
  ASSUME Screens, NEW gui \in Guis \ {"list"}, ~Open("stat"), ~Open("options"),
         guis' = Append(guis, gui)
  PROVE  Screens' /\ \A g : Open(g)' <=> Open(g) \/ g = gui
<1>1. /\ Append(guis, gui) \in Seq(Guis) /\ Len(guis') = Len(guis) + 1 /\ Len(guis) \in Nat
      /\ \A i \in 1..Len(guis) : guis'[i] = guis[i]
      /\ guis'[Len(guis) + 1] = gui
      /\ DOMAIN guis = 1..Len(guis) /\ DOMAIN guis' = 1..(Len(guis) + 1)
      /\ Range(guis') = Range(guis) \cup {gui}
  BY Added DEF Screens
<1>2. \A n \in 1..Len(guis) : guis[n] \in {"list", "view"}
  BY <1>1 DEF Open, Range, Screens, Guis
<1> QED
  BY <1>1, <1>2 DEF Open, ShapeInv, Screens

\* A screen is closed wherever it is.
LEMMA Removed ==
  ASSUME Screens, NEW gui \in {"list", "stat", "options"}, NEW STATE q, q = Without(gui)
  PROVE  /\ q \in Seq(Guis) /\ Len(q) \in Nat /\ DOMAIN q = 1..Len(q)
         /\ \A n \in 1..Len(q) : /\ n < Len(q) => q[n] \in {"list", "view"}
                                 /\ q[n] = "list" => n = 1
         /\ \A g : g \in Range(q) <=> Open(g) /\ g # gui
<1>1. guis \in Seq(Guis) /\ Len(guis) \in Nat /\ DOMAIN guis = 1..Len(guis) /\ ShapeInv
  BY DEF Screens
<1>2. CASE ~Open(gui)
  BY <1>1, <1>2 DEF Without, ShapeInv, Open, Range
<1>3. CASE Open(gui)
  <2> DEFINE k == CHOOSE n \in DOMAIN guis : guis[n] = gui
  <2>1. k \in 1..Len(guis) /\ guis[k] = gui
    BY <1>1, <1>3 DEF Open, Range
  <2>2. q = RemoveAt(guis, k)
    BY <1>3 DEF Without
  <2> HIDE DEF k
  <2>5. /\ q \in Seq(Guis) /\ Len(q) = Len(guis) - 1 /\ DOMAIN q = 1..(Len(guis) - 1)
        /\ \A i \in 1..(Len(guis) - 1) : q[i] = IF i < k THEN guis[i] ELSE guis[i + 1]
    <3>1. /\ RemoveAt(guis, k) \in Seq(Guis) /\ Len(RemoveAt(guis, k)) = Len(guis) - 1
          /\ \A i \in 1..(Len(guis) - 1) :
               RemoveAt(guis, k)[i] = IF i < k THEN guis[i] ELSE guis[i + 1]
      BY <1>1, <2>1, OneLess
    <3> QED
      BY <2>2, <3>1
  <2>6. \A n \in 1..Len(guis) : guis[n] = gui => n = k
    BY <1>1, <2>1 DEF ShapeInv
  <2>7. \A n \in 1..Len(q) : /\ n < Len(q) => q[n] \in {"list", "view"}
                             /\ q[n] = "list" => n = 1
    BY <1>1, <2>1, <2>5 DEF ShapeInv
  <2>8. ASSUME NEW g
        PROVE  g \in Range(q) <=> Open(g) /\ g # gui
    <3>1. ASSUME g \in Range(q)
          PROVE  Open(g) /\ g # gui
      BY <1>1, <2>1, <2>5, <2>6, <3>1 DEF Open, Range
    <3>2. ASSUME Open(g), g # gui
          PROVE  g \in Range(q)
      <4>1. PICK n \in 1..Len(guis) : guis[n] = g
        BY <1>1, <3>2 DEF Open, Range
      <4>2. n < k \/ (n - 1 \in 1..(Len(guis) - 1) /\ n - 1 >= k)
        BY <1>1, <2>1, <3>2, <4>1
      <4>3. CASE n < k
        <5>1. n \in 1..(Len(guis) - 1) /\ q[n] = g
          BY <1>1, <2>1, <2>5, <4>1, <4>3
        <5> QED
          BY <2>5, <5>1 DEF Range
      <4>4. CASE n - 1 \in 1..(Len(guis) - 1) /\ n - 1 >= k
        <5>1. q[n - 1] = g
          BY <1>1, <2>1, <2>5, <4>1, <4>4
        <5> QED
          BY <2>5, <4>4, <5>1 DEF Range
      <4> QED
        BY <4>2, <4>3, <4>4
    <3> QED
      BY <3>1, <3>2
  <2> QED
    BY <1>1, <2>1, <2>5, <2>7, <2>8
<1> QED
  BY <1>2, <1>3

LEMMA Closing ==
  ASSUME Screens, NEW gui \in {"list", "stat", "options"}, guis' = Without(gui)
  PROVE  Screens' /\ \A g : Open(g)' <=> Open(g) /\ g # gui
  BY Removed DEF Screens, ShapeInv, Open

LEMMA Replaces ==
  ASSUME Screens, NEW gui \in {"list", "stat", "options"}, NEW new \in Guis \ {"list"},
         NEW STATE q, q = Without(gui), ~Open("stat") \/ gui = "stat", ~Open("options") \/ gui = "options",
         guis' = Append(q, new)
  PROVE  Screens' /\ \A g : Open(g)' <=> (Open(g) /\ g # gui) \/ g = new
<1>1. /\ q \in Seq(Guis) /\ Len(q) \in Nat /\ DOMAIN q = 1..Len(q)
      /\ \A n \in 1..Len(q) : q[n] = "list" => n = 1
      /\ \A g : g \in Range(q) <=> Open(g) /\ g # gui
  BY Removed
<1>2. /\ Append(q, new) \in Seq(Guis) /\ Len(guis') = Len(q) + 1
      /\ \A i \in 1..Len(q) : guis'[i] = q[i]
      /\ guis'[Len(q) + 1] = new
      /\ DOMAIN guis' = 1..(Len(q) + 1)
      /\ Range(guis') = Range(q) \cup {new}
  BY <1>1, Added
<1>3. \A n \in 1..Len(q) : q[n] \in {"list", "view"}
  BY <1>1 DEF Range, Guis
<1>4. ShapeInv'
  BY <1>1, <1>2, <1>3 DEF ShapeInv
<1> QED
  BY <1>1, <1>2, <1>4 DEF Open, Screens

-----------------------------------------------------------------------------
(* Types, and the screens.                                                 *)

LEMMA Rooms == Types /\ ShapeInv <=> Types /\ Screens
  BY DEF Types, Screens

LEMMA Pressed ==
  ASSUME Types, NEW gui, NEW done, KeyBefore(gui, done)
  PROVE  /\ Top = gui /\ haste' \in Nat /\ haste' >= haste
         /\ haste' = 0 => haste = 0 /\ inbox = <<>> /\ jobs = <<>> /\ done
<1>1. Top = gui /\ haste' = IF inbox = <<>> /\ jobs = <<>> /\ done THEN haste ELSE haste + 1
  BY DEF KeyBefore
<1> QED
  BY <1>1 DEF Types

\* Keys that send no message.
Mute ==
  Incoming \/ StatScr \/ Exit \/ CloseList \/ create_options_menu \/ create_view \/ CloseView

\* What they do to the screens.
LEMMA MuteScreens ==
  ASSUME Types, ShapeInv, Mute
  PROVE  /\ Screens' /\ haste' \in Nat /\ haste' >= haste
         /\ haste' = 0 => haste = 0 /\ inbox = <<>> /\ jobs = <<>>
         /\ Incoming => /\ \A g : ~Open(g)
                        /\ \A g : Open(g)' <=> g = "list" \/ (g = "stat" /\ ConnectState # 0)
         /\ StatScr => \A g : ~Open(g) /\ (Open(g)' <=> g = "stat")
         /\ Exit => \A g : ~Open(g) /\ ~Open(g)'
         /\ CloseList => ~Open("list")' /\ ~Open("options")' /\ ~Open("stat")
         /\ create_options_menu => /\ Open("list") /\ ~Open("stat")
                                   /\ \A g : Open(g)' <=> Open(g) \/ g = "options"
         /\ create_view => /\ Open("list") /\ ~Open("stat") /\ ~Open("options")
                           /\ \A g : Open(g)' <=> Open(g) \/ g = "view"
         /\ CloseView => \A g : g # "view" => (Open(g)' <=> Open(g))
<1>1. Screens
  BY Rooms
<1>2. PICK gui \in {"main", "list", "view"} : Key(gui)
  BY DEF Mute, Incoming, StatScr, Exit, CloseList, create_options_menu, create_view, CloseView
<1>3. /\ Top = gui /\ haste' \in Nat /\ haste' >= haste
      /\ haste' = 0 => haste = 0 /\ inbox = <<>> /\ jobs = <<>>
  BY <1>2, Pressed DEF Key
<1>4. ASSUME NEW g \in Guis
      PROVE  /\ <<g>> \in Seq(Guis) /\ Len(<<g>>) = 1 /\ <<g>>[1] = g
             /\ Range(<<g>>) = {g} /\ DOMAIN <<g>> = {1}
  BY DEF Range
<1>5. /\ <<"list", "stat">> \in Seq(Guis) /\ Range(<<"list", "stat">>) = {"list", "stat"}
      /\ DOMAIN <<"list", "stat">> = {1, 2} /\ Len(<<"list", "stat">>) = 2
      /\ <<"list", "stat">>[1] = "list" /\ <<"list", "stat">>[2] = "stat"
  <2>1. DOMAIN <<"list", "stat">> = {1, 2}
    OBVIOUS
  <2> QED
    BY <2>1 DEF Range, Guis
<1>6. ASSUME Incoming
      PROVE  /\ Screens' /\ \A g : ~Open(g)
             /\ \A g : Open(g)' <=> g = "list" \/ (g = "stat" /\ ConnectState # 0)
  <2>1. \A g : ~Open(g)
    BY <1>1, <1>6, Pressed, NoneInFront DEF Incoming, Key
  <2>2. guis' = IF ConnectState # 0 THEN <<"list", "stat">> ELSE <<"list">>
    BY <1>6 DEF Incoming
  <2>3. CASE ConnectState # 0
    BY <1>5, <2>1, <2>2, <2>3 DEF Screens, ShapeInv, Open
  <2>4. CASE ~(ConnectState # 0)
    BY <1>4, <2>1, <2>2, <2>4 DEF Screens, ShapeInv, Open, Guis
  <2> QED
    BY <2>1, <2>3, <2>4
<1>7. ASSUME StatScr
      PROVE  Screens' /\ \A g : ~Open(g) /\ (Open(g)' <=> g = "stat")
  <2>1. \A g : ~Open(g)
    BY <1>1, <1>7, Pressed, NoneInFront DEF StatScr, Key
  <2>2. guis' = <<"stat">>
    BY <1>7 DEF StatScr
  <2> QED
    BY <1>4, <2>1, <2>2 DEF Screens, ShapeInv, Open, Guis
<1>8. ASSUME Exit
      PROVE  Screens' /\ \A g : ~Open(g) /\ ~Open(g)'
  <2>1. \A g : ~Open(g)
    BY <1>1, <1>8, Pressed, NoneInFront DEF Exit, Key
  <2>2. guis' = guis
    BY <1>8 DEF Exit
  <2> QED
    BY <1>1, <2>1, <2>2 DEF Screens, ShapeInv, Open
<1>9. ASSUME CloseList
      PROVE  Screens' /\ ~Open("list")' /\ ~Open("options")' /\ ~Open("stat")
  <2>1. Top = "list" /\ guis' = Front(guis) /\ "list" \in Guis
    BY <1>9, Pressed DEF CloseList, Key, Guis
  <2>2. ~Open("options") /\ ~Open("stat")
    BY <1>1, <2>1, InFront
  <2> QED
    BY <1>1, <2>1, <2>2, FrontCloses
<1>10. ASSUME create_options_menu
       PROVE  /\ Screens' /\ Open("list") /\ ~Open("stat")
              /\ \A g : Open(g)' <=> Open(g) \/ g = "options"
  <2>1. Top = "list" /\ guis' = Append(guis, "options")
    BY <1>10, Pressed DEF create_options_menu, Key
  <2>2. "list" \in Guis /\ "options" \in Guis \ {"list"}
    BY DEF Guis
  <2>3. ~Open("options") /\ ~Open("stat") /\ Open("list")
    BY <1>1, <2>1, <2>2, InFront
  <2> QED
    BY <1>1, <2>1, <2>2, <2>3, Opens
<1>11. ASSUME create_view
       PROVE  /\ Screens' /\ Open("list") /\ ~Open("stat") /\ ~Open("options")
              /\ \A g : Open(g)' <=> Open(g) \/ g = "view"
  <2>1. Top = "list" /\ guis' = Append(guis, "view")
    BY <1>11, Pressed DEF create_view, Key
  <2>2. "list" \in Guis /\ "view" \in Guis \ {"list"}
    BY DEF Guis
  <2>3. ~Open("options") /\ ~Open("stat") /\ Open("list")
    BY <1>1, <2>1, <2>2, InFront
  <2> QED
    BY <1>1, <2>1, <2>2, <2>3, Opens
<1>12. ASSUME CloseView
       PROVE  Screens' /\ \A g : g # "view" => (Open(g)' <=> Open(g))
  <2>1. Top = "view" /\ guis' = Front(guis) /\ "view" \in Guis
    BY <1>12, Pressed DEF CloseView, Key, Guis
  <2> QED
    BY <1>1, <2>1, FrontCloses
<1> QED
  BY <1>3, <1>6, <1>7, <1>8, <1>9, <1>10, <1>11, <1>12 DEF Mute

LEMMA MuteTypes ==
  ASSUME Types, ShapeInv, Mute
  PROVE  /\ mails' \in [Mail -> States] /\ prev' \in [Mail -> States] /\ jobs' \in Seq(Job)
         /\ at' \in Mail \cup {NoMail} /\ freed' \in BOOLEAN
         /\ UNCHANGED <<db, server, inbox, count>>
<1>1. CASE Incoming
  BY <1>1 DEF Incoming, InitMailDB, Types
<1>2. CASE StatScr \/ CloseList \/ CloseView
  BY <1>2 DEF StatScr, CloseList, CloseView, Types
<1>3. CASE Exit
  <2>1. Empty \in [Mail -> States]
    BY DEF Empty, States
  <2>2. jobs' \in Seq(Job)
    <3>1. /\ jobs \in Seq(Job)
          /\ jobs' = [n \in DOMAIN jobs |->
                        IF jobs[n] = "write_mail_DB" THEN "write_empty" ELSE jobs[n]]
      BY <1>3 DEF Exit, Types
    <3>2. /\ Len(jobs) \in Nat /\ DOMAIN jobs = 1..Len(jobs)
          /\ \A n \in 1..Len(jobs) : jobs[n] \in Job
      BY <3>1
    <3>3. jobs' \in [1..Len(jobs) -> Job]
      BY <3>1, <3>2 DEF Job
    <3> QED
      BY <3>2, <3>3, SeqDef
  <2> QED
    BY <1>3, <2>1, <2>2 DEF Exit, Types
<1>4. CASE create_options_menu
  <2>1. at' \in Mail \cup {NoMail} /\ freed' = FALSE
    BY <1>4 DEF create_options_menu, Listed
  <2> QED
    BY <1>4, <2>1 DEF create_options_menu, Types
<1>5. CASE create_view
  <2>1. jobs' = jobs \/ jobs' = Append(jobs, "write_mail_DB")
    BY <1>5 DEF create_view
  <2>2. jobs' \in Seq(Job)
    <3>1. jobs \in Seq(Job) /\ "write_mail_DB" \in Job
      BY DEF Types, Job
    <3> QED
      BY <2>1, <3>1, Added
  <2> QED
    BY <1>5, <2>2 DEF create_view, Types
<1> QED
  BY <1>1, <1>2, <1>3, <1>4, <1>5 DEF Mute

\* Keys that close the options.
Marks ==
  \/ set_state_download \/ set_state_delete \/ set_state_not_download \/ set_state_not_delete
  \/ set_state_download_all \/ set_state_delete_all \/ delete_record \/ delete_all_records
Chooses == back \/ show_info \/ Marks

LEMMA MarksIs ==
  ASSUME Types, Marks
  PROVE  /\ \E these \in SUBSET Mail :
              /\ Changes(these)
              /\ \A m \in Mail \ these : mails'[m] = mails[m]
         /\ mails' \in [Mail -> States] /\ prev' \in [Mail -> States]
<1>1. /\ \A s \in {"none", "full", "delete"} : s \in States
      /\ mails \in [Mail -> States] /\ prev \in [Mail -> States]
      /\ Listed \subseteq Mail /\ at \in Mail \cup {NoMail}
  BY DEF States, Listed, Types
<1>2. ASSUME NEW these \in SUBSET Mail, NEW s \in {"full", "delete"}, Sets(these, s)
      PROVE  /\ \A m \in Mail \ these : mails'[m] = mails[m]
             /\ mails' \in [Mail -> States] /\ prev' \in [Mail -> States]
  BY <1>1, <1>2 DEF Sets
<1>3. ASSUME NEW these \in SUBSET Mail, Drops(these)
      PROVE  /\ \A m \in Mail \ these : mails'[m] = mails[m]
             /\ mails' \in [Mail -> States] /\ prev' \in [Mail -> States]
  BY <1>1, <1>3 DEF Drops
<1>4. CASE set_state_download \/ set_state_delete
  <2>1. /\ Changes({at}) /\ at \in Mail
        /\ Sets({at}, "full") \/ Sets({at}, "delete")
    BY <1>1, <1>4 DEF set_state_download, set_state_delete, Changes
  <2> QED
    BY <1>2, <2>1
<1>5. CASE set_state_not_download \/ set_state_not_delete
  <2>1. Undoes("full") \/ Undoes("delete")
    BY <1>5 DEF set_state_not_download, set_state_not_delete
  <2>2. /\ Changes({at}) /\ at \in Mail /\ prev' = prev
        /\ mails' = [mails EXCEPT ![at] = prev[at]]
    BY <1>1, <2>1 DEF Undoes, Changes
  <2>3. /\ \A m \in Mail \ {at} : mails'[m] = mails[m]
        /\ mails' \in [Mail -> States] /\ prev' \in [Mail -> States]
    BY <1>1, <2>2
  <2> QED
    BY <2>2, <2>3
<1>6. CASE set_state_download_all \/ set_state_delete_all
  <2>1. Changes(Listed) /\ (Sets(Listed, "full") \/ Sets(Listed, "delete"))
    BY <1>6 DEF set_state_download_all, set_state_delete_all
  <2> QED
    BY <1>1, <1>2, <2>1
<1>7. CASE delete_record \/ delete_all_records
  <2>1. \/ Changes({at}) /\ at \in Mail /\ Drops({at})
        \/ Changes(Listed) /\ Drops(Listed)
    BY <1>1, <1>7 DEF delete_record, delete_all_records, Changes
  <2> QED
    BY <1>1, <1>3, <2>1
<1> QED
  BY <1>4, <1>5, <1>6, <1>7 DEF Marks

LEMMA ChoosesIs ==
  ASSUME Types, ShapeInv, Chooses
  PROVE  /\ Key("options") /\ Open("options") /\ ~Open("stat")
         /\ Screens' /\ haste' \in Nat /\ haste' >= haste
         /\ haste' = 0 => haste = 0 /\ inbox = <<>> /\ jobs = <<>>
         /\ ~Open("options")' /\ ~Open("stat")' /\ (Open("list")' <=> Open("list"))
         /\ freed' = FALSE /\ at' = NoMail
         /\ \E flag \in 1..2 : inbox' = Append(inbox, Destroyed("options", flag))
         /\ mails' \in [Mail -> States] /\ prev' \in [Mail -> States]
         /\ touched \subseteq touched' /\ touched' \subseteq Mail
         /\ keys' \in Nat /\ sessions' \in Nat
         /\ \A m \in Mail \ touched' : mails'[m] = mails[m]
         /\ mails' = mails \/ inbox' = Append(inbox, Destroyed("options", 2))
         /\ UNCHANGED <<db, server, jobs>>
<1>1. Screens
  BY Rooms
<1>2. /\ Key("options") /\ freed' = FALSE /\ at' = NoMail
      /\ \E flag \in 1..2 : inbox' = Append(inbox, Destroyed("options", flag))
      /\ mails' \in [Mail -> States] /\ prev' \in [Mail -> States]
      /\ touched \subseteq touched' /\ touched' \subseteq Mail
      /\ keys' \in Nat /\ sessions' \in Nat
      /\ \A m \in Mail \ touched' : mails'[m] = mails[m]
      /\ mails' = mails \/ inbox' = Append(inbox, Destroyed("options", 2))
      /\ UNCHANGED <<db, server, jobs>>
      /\ guis' = Front(guis) \/ guis' = Append(Front(guis), "view")
  <2>1. CASE back \/ show_info
    <3>1. /\ Key("options") /\ freed' = FALSE /\ at' = NoMail
          /\ \E flag \in 1..2 : inbox' = Append(inbox, Destroyed("options", flag))
          /\ guis' = Front(guis) \/ guis' = Append(Front(guis), "view")
      BY <2>1 DEF back, show_info, ClosesOptions
    <3>2. UNCHANGED <<mails, prev, db, server, jobs, count>>
      BY <2>1 DEF back, show_info
    <3> QED
      BY <3>1, <3>2 DEF Types, count
  <2>2. CASE Marks
    <3>1. PICK these \in SUBSET Mail : /\ Changes(these)
                                       /\ \A m \in Mail \ these : mails'[m] = mails[m]
      BY <2>2, MarksIs
    <3>2. /\ Key("options") /\ freed' = FALSE /\ at' = NoMail
          /\ inbox' = Append(inbox, Destroyed("options", 2))
          /\ guis' = Front(guis)
          /\ touched' = touched \cup these /\ keys' = keys + 1
          /\ UNCHANGED <<db, server, jobs, sessions>>
      BY <3>1 DEF Changes, ClosesOptions
    <3>3. mails' \in [Mail -> States] /\ prev' \in [Mail -> States]
      BY <2>2, MarksIs
    <3> QED
      BY <3>1, <3>2, <3>3 DEF Types
  <2> QED
    BY <2>1, <2>2 DEF Chooses
<1>3. /\ Top = "options" /\ haste' \in Nat /\ haste' >= haste
      /\ haste' = 0 => haste = 0 /\ inbox = <<>> /\ jobs = <<>>
  BY <1>2, Pressed DEF Key
<1>4. "options" \in Guis /\ Open("options") /\ ~Open("stat")
  BY <1>1, <1>3, InFront DEF Guis
<1>5. /\ Screens' /\ ~Open("options")' /\ ~Open("stat")'
      /\ Open("list")' <=> Open("list")
  <2>1. CASE guis' = Front(guis)
    BY <1>1, <1>3, <1>4, <2>1, FrontCloses
  <2>2. CASE guis' = Append(Front(guis), "view")
    <3> DEFINE q == Front(guis)
    <3>1. /\ guis # <<>> /\ Len(guis) \in Nat \ {0} /\ DOMAIN guis = 1..Len(guis)
          /\ guis[Len(guis)] = "options" /\ guis \in Seq(Guis)
      BY <1>1, <1>3, <1>4, InFront DEF Screens
    <3>2. /\ q \in Seq(Guis) /\ Len(q) = Len(guis) - 1 /\ DOMAIN q = 1..(Len(guis) - 1)
          /\ \A n \in 1..(Len(guis) - 1) : q[n] = guis[n]
      BY <3>1 DEF Front
    <3>3. \A n \in 1..Len(q) : q[n] \in {"list", "view"} /\ (q[n] = "list" => n = 1)
      BY <1>1, <3>1, <3>2 DEF Screens, ShapeInv
    <3> HIDE DEF q
    <3>4. guis' = Append(q, "view") /\ "view" \in Guis
      BY <2>2 DEF q, Guis
    <3>5. /\ guis' \in Seq(Guis) /\ Len(guis') = Len(q) + 1
          /\ \A i \in 1..Len(q) : guis'[i] = q[i]
          /\ guis'[Len(q) + 1] = "view"
          /\ DOMAIN guis' = 1..(Len(q) + 1) /\ Range(guis') = Range(q) \cup {"view"}
      BY <3>2, <3>4, Added
    <3>6. ShapeInv'
      BY <3>1, <3>2, <3>3, <3>5 DEF ShapeInv
    <3>7. "list" \in Range(q) <=> Open("list")
      BY <3>1, <3>2 DEF Open, Range
    <3>8. "options" \notin Range(q) /\ "stat" \notin Range(q)
      BY <3>2, <3>3 DEF Range
    <3> QED
      BY <3>5, <3>6, <3>7, <3>8 DEF Open, Screens
  <2> QED
    BY <1>2, <2>1, <2>2
<1> QED
  BY <1>2, <1>3, <1>4, <1>5

\* Keys that ask the daemon for something, and "Close".
Asks == send_req_checkmailbox \/ send_req_stopcheck \/ CloseStat

LEMMA AsksIs ==
  ASSUME Types, ShapeInv, Asks
  PROVE  /\ Screens' /\ haste' \in Nat /\ haste' >= haste
         /\ haste' = 0 => haste = 0 /\ inbox = <<>> /\ jobs = <<>>
         /\ UNCHANGED <<mails, prev, at, freed, db, server, jobs, touched, sessions>>
         /\ keys' \in Nat
         /\ \/ /\ inbox' = Append(inbox, Ipc("CHECK")) /\ guis' = guis
            \/ /\ inbox' = Append(inbox, Ipc("STOP")) /\ guis' = guis
               /\ haste' = 0 => stage # "asked"
            \/ /\ \E flag \in {1, 3} :
                    /\ inbox' = Append(inbox, Destroyed("stat", flag))
                    /\ flag = 1 <=> ConnectState = 0
               /\ haste' = 0 => stage # "asked"
               /\ Open("stat") /\ ~Open("options")
               /\ ~Open("stat")' /\ ~Open("options")' /\ (Open("list")' <=> Open("list"))
<1>1. Screens
  BY Rooms
<1>2. CASE send_req_checkmailbox
  <2>1. PICK gui \in Guis : Key(gui)
    BY <1>2 DEF send_req_checkmailbox, Guis
  <2>2. /\ haste' \in Nat /\ haste' >= haste
        /\ haste' = 0 => haste = 0 /\ inbox = <<>> /\ jobs = <<>>
    BY <2>1, Pressed DEF Key
  <2>3. /\ UNCHANGED <<viewer, db, server, jobs, touched, sessions>>
        /\ inbox' = Append(inbox, Ipc("CHECK")) /\ keys' = keys + 1
    BY <1>2 DEF send_req_checkmailbox
  <2>4. Screens'
    BY <1>1, <2>3 DEF Screens, ShapeInv, viewer
  <2> QED
    BY <2>2, <2>3, <2>4 DEF viewer, Types
<1>3. CASE send_req_stopcheck
  <2>1. /\ haste' \in Nat /\ haste' >= haste
        /\ haste' = 0 => haste = 0 /\ inbox = <<>> /\ jobs = <<>> /\ stage # "asked"
    BY <1>3, Pressed DEF send_req_stopcheck
  <2>3. /\ UNCHANGED <<viewer, db, server, jobs, touched, sessions>>
        /\ inbox' = Append(inbox, Ipc("STOP")) /\ keys' = keys + 1
    BY <1>3 DEF send_req_stopcheck
  <2>4. Screens'
    BY <1>1, <2>3 DEF Screens, ShapeInv, viewer
  <2> QED
    BY <2>1, <2>3, <2>4 DEF viewer, Types
<1>4. CASE CloseStat
  <2>1. /\ Top = "stat" /\ haste' \in Nat /\ haste' >= haste
        /\ haste' = 0 => haste = 0 /\ inbox = <<>> /\ jobs = <<>> /\ stage # "asked"
    BY <1>4, Pressed DEF CloseStat
  <2>2. /\ UNCHANGED <<mails, prev, at, freed, db, server, jobs, count>>
        /\ inbox' = Append(inbox, Destroyed("stat", IF ConnectState = 0 THEN 1 ELSE 3))
        /\ guis' = Front(guis)
    BY <1>4 DEF CloseStat
  <2>3. "stat" \in Guis /\ Open("stat") /\ ~Open("options")
    BY <1>1, <2>1, InFront DEF Guis
  <2>4. /\ Screens' /\ ~Open("stat")' /\ ~Open("options")'
        /\ Open("list")' <=> Open("list")
    BY <1>1, <2>1, <2>2, <2>3, FrontCloses
  <2>5. \E flag \in {1, 3} : /\ inbox' = Append(inbox, Destroyed("stat", flag))
                             /\ flag = 1 <=> ConnectState = 0
    BY <2>2
  <2> QED
    BY <2>1, <2>2, <2>3, <2>4, <2>5 DEF Types, count
<1> QED
  BY <1>2, <1>3, <1>4 DEF Asks

-----------------------------------------------------------------------------
\* The message at the front is read, and perhaps answered with another.
LEMMA Reading ==
  ASSUME Types, NEW m, Handles(m), NEW r \in Letter
  PROVE  /\ Tail(inbox) \in Seq(Letter) /\ Append(Tail(inbox), r) \in Seq(Letter)
         /\ m \in Letter /\ inbox[1] = m /\ m \in Range(inbox)
         /\ Len(inbox) \in Nat \ {0} /\ DOMAIN inbox = 1..Len(inbox)
         /\ Len(Tail(inbox)) = Len(inbox) - 1
         /\ Len(Append(Tail(inbox), r)) = Len(inbox)
         /\ DOMAIN Tail(inbox) = 1..(Len(inbox) - 1)
         /\ DOMAIN Append(Tail(inbox), r) = 1..Len(inbox)
         /\ \A i \in 1..(Len(inbox) - 1) : /\ Tail(inbox)[i] = inbox[i + 1]
                                           /\ Append(Tail(inbox), r)[i] = inbox[i + 1]
         /\ Append(Tail(inbox), r)[Len(inbox)] = r
         /\ Range(inbox) = Range(Tail(inbox)) \cup {m}
         /\ Range(Append(Tail(inbox), r)) = Range(Tail(inbox)) \cup {r}
<1>1. inbox \in Seq(Letter) /\ inbox # <<>> /\ Head(inbox) = m
  BY DEF Types, Handles
<1>2. /\ Tail(inbox) \in Seq(Letter) /\ Len(Tail(inbox)) = Len(inbox) - 1
      /\ Len(inbox) \in Nat \ {0} /\ m = inbox[1] /\ m \in Letter
      /\ \A i \in 1..(Len(inbox) - 1) : Tail(inbox)[i] = inbox[i + 1]
      /\ DOMAIN inbox = 1..Len(inbox) /\ DOMAIN Tail(inbox) = 1..(Len(inbox) - 1)
      /\ Range(inbox) = Range(Tail(inbox)) \cup {m}
  BY <1>1, Taken
<1> DEFINE q == Tail(inbox)
<1>3. /\ Append(q, r) \in Seq(Letter) /\ Len(Append(q, r)) = Len(q) + 1
      /\ \A i \in 1..Len(q) : Append(q, r)[i] = q[i]
      /\ Append(q, r)[Len(q) + 1] = r
      /\ DOMAIN Append(q, r) = 1..(Len(q) + 1)
      /\ Range(Append(q, r)) = Range(q) \cup {r}
  <2> HIDE DEF q
  <2>1. q \in Seq(Letter)
    BY <1>2 DEF q
  <2> QED
    BY <2>1, Added
<1>4. Len(q) = Len(inbox) - 1 /\ Len(q) + 1 = Len(inbox)
  BY <1>2
<1> HIDE DEF q
<1>5. /\ Len(Append(q, r)) = Len(inbox) /\ DOMAIN Append(q, r) = 1..Len(inbox)
      /\ \A i \in 1..(Len(inbox) - 1) : Append(q, r)[i] = q[i]
      /\ Append(q, r)[Len(inbox)] = r
  BY <1>3, <1>4
<1> QED
  BY <1>2, <1>3, <1>5 DEF q

LEMMA Running ==
  ASSUME Types, NEW job, Runs(job)
  PROVE  /\ jobs' \in Seq(Job) /\ jobs # <<>> /\ job \in Job /\ Due(job)
         /\ Range(jobs) = Range(jobs') \cup {job}
<1>1. jobs \in Seq(Job) /\ jobs # <<>> /\ Head(jobs) = job /\ jobs' = Tail(jobs)
  BY DEF Types, Runs
<1>2. /\ Tail(jobs) \in Seq(Job) /\ Head(jobs) \in Job
      /\ Range(jobs) = Range(Tail(jobs)) \cup {Head(jobs)}
  BY <1>1, Taken
<1> QED
  BY <1>1, <1>2 DEF Due

LEMMA Posting ==
  ASSUME Types, NEW job \in Job, jobs' = Append(jobs, job)
  PROVE  jobs' \in Seq(Job) /\ Range(jobs') = Range(jobs) \cup {job} /\ jobs' # <<>>
<1>1. jobs \in Seq(Job)
  BY DEF Types
<1>2. /\ Append(jobs, job) \in Seq(Job) /\ Len(Append(jobs, job)) = Len(jobs) + 1
      /\ Len(jobs) \in Nat
      /\ Range(Append(jobs, job)) = Range(jobs) \cup {job}
  BY <1>1, Added
<1> QED
  BY <1>2

LEMMA Sending ==
  ASSUME Types, NEW m \in Letter, inbox' = Append(inbox, m)
  PROVE  /\ inbox' \in Seq(Letter) /\ Range(inbox') = Range(inbox) \cup {m}
         /\ Len(inbox) \in Nat /\ Len(inbox') = Len(inbox) + 1
         /\ DOMAIN inbox = 1..Len(inbox) /\ DOMAIN inbox' = 1..(Len(inbox) + 1)
         /\ \A i \in 1..Len(inbox) : inbox'[i] = inbox[i]
         /\ inbox'[Len(inbox) + 1] = m
<1>1. inbox \in Seq(Letter)
  BY DEF Types
<1> QED
  BY <1>1, Added

-----------------------------------------------------------------------------
(* What messages do to the screens and the list.                           *)

LEMMA AcceptedIs ==
  ASSUME Types, ShapeInv, Accepted
  PROVE  /\ Handles(Ipc("ACCEPTED")) /\ Screens' /\ at' \in Mail \cup {NoMail}
         /\ UNCHANGED <<mails, prev, db, server, jobs, count>>
         /\ Open("stat")' \/ \E f \in {1, 2, 3} : Gone("stat", f)
         /\ Open("list")' <=> Open("list")
         /\ Open("options")' => Open("options")
         /\ freed' = freed \/ freed' = FALSE
         /\ inbox' = Tail(inbox) \/ inbox' = Append(Tail(inbox), Destroyed("options", 1))
<1>1. Screens
  BY Rooms
<1>2. /\ Handles(Ipc("ACCEPTED"))
      /\ UNCHANGED <<mails, prev, db, server, jobs, count>>
  BY DEF Accepted
<1>3. CASE HasStat
  <2>1. inbox' = Tail(inbox) /\ UNCHANGED <<guis, at, freed>>
    BY <1>3 DEF Accepted
  <2>2. ASSUME ~Open("stat")
        PROVE  \E f \in {1, 2, 3} : Gone("stat", f)
    <3>1. PICK n \in DOMAIN inbox : inbox[n].what = "DESTROYED" /\ inbox[n].gui = "stat"
      BY <1>3, <2>2 DEF HasStat
    <3>2. inbox[n] \in Letter /\ inbox[n] \in Range(inbox)
      BY <3>1 DEF Types, Range
    <3>3. ASSUME NEW what \in {"CHECK", "STOP", "ACCEPTED", "REFUSED", "FINISHED",
                               "CONNECTED", "CLOSED"},
                 inbox[n] = Ipc(what)
          PROVE  FALSE
      <4>1. Ipc(what).what = what
        BY DEF Ipc
      <4> QED
        BY <3>1, <3>3, <4>1
    <3>4. ASSUME NEW flag, inbox[n] = Destroyed("options", flag)
          PROVE  FALSE
      BY <3>1, <3>4 DEF Destroyed
    <3>5. PICK f \in {1, 2, 3} : inbox[n] = Destroyed("stat", f)
      BY <3>2, <3>3, <3>4 DEF Letter
    <3> QED
      BY <3>2, <3>5 DEF Gone
  <2> QED
    BY <1>1, <1>2, <2>1, <2>2 DEF Screens, ShapeInv, Open, Types
<1>4. CASE ~HasStat
  <2>0. ~Open("stat")
    BY <1>4 DEF HasStat
  <2>1. /\ guis' = Append(Without("options"), "stat")
        /\ \/ /\ at' = NoMail /\ freed' = FALSE
              /\ inbox' = Append(Tail(inbox), Destroyed("options", 1))
           \/ inbox' = Tail(inbox) /\ UNCHANGED <<at, freed>>
    BY <1>4 DEF Accepted
  <2>2. "stat" \in Guis \ {"list"}
    BY DEF Guis
  <2>3. Screens' /\ \A g : Open(g)' <=> (Open(g) /\ g # "options") \/ g = "stat"
    BY <1>1, <2>0, <2>1, <2>2, Replaces
  <2> QED
    BY <1>2, <1>4, <2>1, <2>3 DEF Types
<1> QED
  BY <1>3, <1>4

LEMMA FinishedIs ==
  ASSUME Types, ShapeInv, Finished
  PROVE  /\ Handles(Ipc("FINISHED")) /\ Screens'
         /\ UNCHANGED <<mails, prev, at, freed, db, server, jobs, count>>
         /\ Open("list")' <=> Open("list")
         /\ Open("options")' <=> Open("options")
         /\ \/ /\ Open("list") /\ Open("stat") /\ ~Open("stat")' /\ ~Open("options")
               /\ inbox' = Append(Tail(inbox), Destroyed("stat", 2))
            \/ /\ ~Open("list") \/ ~Open("stat")
               /\ inbox' = Tail(inbox) /\ (Open("stat")' <=> Open("stat"))
<1>1. Screens
  BY Rooms
<1>2. /\ Handles(Ipc("FINISHED"))
      /\ UNCHANGED <<mails, prev, at, freed, db, server, jobs, count>>
  BY DEF Finished
<1>3. CASE Open("list") /\ Open("stat")
  <2>1. guis' = Without("stat") /\ inbox' = Append(Tail(inbox), Destroyed("stat", 2))
    BY <1>3 DEF Finished
  <2>2. Screens' /\ \A g : Open(g)' <=> Open(g) /\ g # "stat"
    BY <1>1, <2>1, Closing
  <2>3. ~Open("options")
    <3>1. PICK n \in DOMAIN guis : guis[n] = "stat"
      BY <1>3 DEF Open, Range
    <3>2. Len(guis) \in Nat /\ DOMAIN guis = 1..Len(guis)
      BY <1>1 DEF Screens
    <3> QED
      BY <1>1, <3>1, <3>2 DEF Open, Range, Screens, ShapeInv
  <2> QED
    BY <1>2, <1>3, <2>1, <2>2, <2>3
<1>4. CASE ~(Open("list") /\ Open("stat"))
  <2>1. inbox' = Tail(inbox) /\ guis' = guis
    BY <1>4 DEF Finished
  <2> QED
    BY <1>1, <1>2, <1>4, <2>1 DEF Screens, ShapeInv, Open
<1> QED
  BY <1>3, <1>4

LEMMA StatDestroyedIs ==
  ASSUME Types, ShapeInv, StatDestroyed
  PROVE  /\ Screens' /\ inbox' = Tail(inbox)
         /\ mails' \in [Mail -> States] /\ prev' \in [Mail -> States] /\ freed' \in BOOLEAN
         /\ \E flag \in {1, 2, 3} :
              /\ Handles(Destroyed("stat", flag))
              /\ flag = 2 /\ Open("list") => mails' = db
              /\ ~(flag = 2 /\ Open("list")) => mails' = mails /\ freed' = freed
              /\ flag = 3 => ~Open("list")'
              /\ flag # 3 => (Open("list")' <=> Open("list"))
         /\ ~Open("options") /\ freed = FALSE => freed' = FALSE
         /\ Open("stat")' <=> Open("stat")
         /\ Open("options")' <=> Open("options")
         /\ UNCHANGED <<at, db, server, jobs, count>>
<1>1. Screens
  BY Rooms
<1>2. PICK flag \in {1, 2, 3} :
        /\ Reads(Destroyed("stat", flag))
        /\ IF flag = 2 /\ Open("list") THEN InitMailDB ELSE UNCHANGED <<mails, prev, freed>>
        /\ guis' = IF flag = 3 THEN Without("list") ELSE guis
        /\ UNCHANGED <<at, db, server, jobs, count>>
  BY DEF StatDestroyed
<1>3. Handles(Destroyed("stat", flag)) /\ inbox' = Tail(inbox)
  BY <1>2 DEF Reads
<1>4. CASE flag = 3
  <2>1. guis' = Without("list") /\ UNCHANGED <<mails, prev, freed>>
    BY <1>2, <1>4
  <2>2. Screens' /\ \A g : Open(g)' <=> Open(g) /\ g # "list"
    BY <1>1, <2>1, Closing
  <2> QED
    BY <1>2, <1>3, <1>4, <2>1, <2>2 DEF Types
<1>5. CASE flag # 3
  <2>1. guis' = guis
    BY <1>2, <1>5
  <2>2. Screens' /\ \A g : Open(g)' <=> Open(g)
    BY <1>1, <2>1 DEF Screens, ShapeInv, Open
  <2>3. CASE flag = 2 /\ Open("list")
    <3>1. mails' = db /\ prev' = db /\ freed' = (freed \/ Open("options"))
      BY <1>2, <2>3 DEF InitMailDB
    <3>2. freed' \in BOOLEAN /\ (~Open("options") /\ freed = FALSE => freed' = FALSE)
      BY <3>1, Zenon
    <3> QED
      BY <1>2, <1>3, <1>5, <2>2, <2>3, <3>1, <3>2 DEF Types
  <2>4. CASE ~(flag = 2 /\ Open("list"))
    <3>1. UNCHANGED <<mails, prev, freed>>
      BY <1>2, <2>4
    <3> QED
      BY <1>2, <1>3, <1>5, <2>2, <2>4, <3>1 DEF Types
  <2> QED
    BY <2>3, <2>4
<1> QED
  BY <1>4, <1>5

-----------------------------------------------------------------------------
LEMMA SessionTypes ==
  ASSUME Types, Lists \/ Loads \/ Removes \/ Done
  PROVE  /\ daemon' \in [Mail -> States] /\ db' \in [Mail -> States] /\ stage' \in Stages
         /\ inbox' = inbox \/ inbox' = Append(inbox, Ipc("FINISHED"))
         /\ UNCHANGED <<viewer, jobs, count>>
<1>1. /\ {"none", "loaded", "hloaded"} \subseteq States /\ Default \in States
      /\ {"listed", "quit"} \subseteq Stages
      /\ daemon \in [Mail -> States] /\ db \in [Mail -> States] /\ stage \in Stages
  BY ConfigAssumption DEF States, Stages, Types
<1>2. CASE Lists
  <2>1. PICK new \in SUBSET Mail :
          daemon' = [m \in Mail |-> IF m \in new THEN Default ELSE daemon[m]]
    BY <1>2 DEF Lists
  <2>2. daemon' \in [Mail -> States]
    BY <1>1, <2>1
  <2> QED
    BY <1>1, <1>2, <2>2 DEF Lists
<1>3. CASE Loads
  <2>1. PICK m \in Mail :
          daemon' = [daemon EXCEPT ![m] = IF @ = "full" THEN "loaded" ELSE "hloaded"]
    BY <1>3 DEF Loads
  <2>2. daemon' \in [Mail -> States]
    BY <1>1, <2>1
  <2> QED
    BY <1>1, <1>3, <2>2 DEF Loads
<1>4. CASE Removes
  <2>1. PICK m \in Mail : daemon' = [daemon EXCEPT ![m] = "none"]
    BY <1>4 DEF Removes
  <2>2. daemon' \in [Mail -> States]
    BY <1>1, <2>1
  <2> QED
    BY <1>1, <1>4, <2>2 DEF Removes
<1>5. CASE Done
  BY <1>1, <1>5 DEF Done, EndConnect
<1> QED
  BY <1>2, <1>3, <1>4, <1>5

\* Messages that the viewer does not answer on the screen, jobs, and what the
\* daemon and the network do.
Quiet ==
  \/ CheckMailbox \/ StopChecking \/ Refused \/ OptionsDestroyed \/ Connected \/ Closed
  \/ write_mail_DB \/ create_connect \/ end_connect
  \/ Lists \/ Loads \/ Removes \/ Done
  \/ NameFound \/ Connects \/ Closes \/ Fails \/ Lost \/ ChecksItself

LEMMA QuietTypes ==
  ASSUME Types, Quiet
  PROVE  /\ UNCHANGED <<viewer, keys, touched>> /\ sessions' \in Nat
         /\ daemon' \in [Mail -> States] /\ db' \in [Mail -> States] /\ stage' \in Stages
         /\ inbox' \in Seq(Letter) /\ jobs' \in Seq(Job)
         /\ \A f \in {2, 3} : Gone("stat", f)' => Gone("stat", f)
<1>1. /\ mails \in [Mail -> States] /\ db \in [Mail -> States] /\ daemon \in [Mail -> States]
      /\ stage \in Stages /\ inbox \in Seq(Letter) /\ jobs \in Seq(Job) /\ sessions \in Nat
  BY DEF Types
<1>2. /\ \A what \in {"ACCEPTED", "REFUSED", "FINISHED", "CONNECTED", "CLOSED"} :
           Ipc(what) \in Letter /\ \A f : Ipc(what) # Destroyed("stat", f)
      /\ \A job \in {"write_mail_DB", "create_connect", "end_connect"} : job \in Job
      /\ \A s \in {"idle", "asked", "connecting", "session", "listed", "quit"} : s \in Stages
  BY Letters DEF Job, Stages
<1>3. ASSUME NEW what \in {"FINISHED", "CONNECTED", "CLOSED"}, inbox' = Append(inbox, Ipc(what))
      PROVE  inbox' \in Seq(Letter) /\ \A f : Gone("stat", f)' => Gone("stat", f)
  <2>1. inbox' \in Seq(Letter) /\ Range(inbox') = Range(inbox) \cup {Ipc(what)}
    BY <1>2, <1>3, Sending
  <2> QED
    BY <1>2, <2>1 DEF Gone
<1>4. ASSUME NEW m, Handles(m),
             inbox' = Tail(inbox) \/ inbox' = Append(Tail(inbox), Ipc("ACCEPTED"))
             \/ inbox' = Append(Tail(inbox), Ipc("REFUSED"))
      PROVE  inbox' \in Seq(Letter) /\ \A f : Gone("stat", f)' => Gone("stat", f)
  <2>1. \A r \in {Ipc("ACCEPTED"), Ipc("REFUSED")} :
          /\ Tail(inbox) \in Seq(Letter) /\ Append(Tail(inbox), r) \in Seq(Letter)
          /\ Range(inbox) = Range(Tail(inbox)) \cup {m}
          /\ Range(Append(Tail(inbox), r)) = Range(Tail(inbox)) \cup {r}
    BY <1>2, <1>4, Reading
  <2> QED
    BY <1>2, <1>4, <2>1 DEF Gone
<1>5. inbox' = inbox => inbox' \in Seq(Letter) /\ \A f : Gone("stat", f)' => Gone("stat", f)
  BY <1>1 DEF Gone
<1>6. \A job \in {"write_mail_DB", "create_connect", "end_connect"} :
        jobs' = Append(jobs, job) => jobs' \in Seq(Job)
  BY <1>2, Posting
<1>7. CASE CheckMailbox
  <2>1. /\ Handles(Ipc("CHECK")) /\ UNCHANGED <<viewer, db, daemon, touched, keys>>
        /\ \/ /\ stage' = "asked" /\ sessions' = sessions + 1
              /\ jobs' = Append(jobs, "create_connect")
              /\ inbox' = Append(Tail(inbox), Ipc("ACCEPTED"))
           \/ /\ inbox' = Append(Tail(inbox), Ipc("REFUSED"))
              /\ UNCHANGED <<stage, sessions, jobs>>
    BY <1>7 DEF CheckMailbox
  <2> QED
    BY <1>1, <1>2, <1>4, <1>6, <2>1
<1>8. CASE StopChecking
  <2>1. /\ Handles(Ipc("STOP")) /\ inbox' = Tail(inbox) /\ UNCHANGED <<viewer, db, server, count>>
        /\ jobs' = Append(jobs, "end_connect")
    BY <1>8 DEF StopChecking, Reads
  <2> QED
    BY <1>1, <1>2, <1>4, <1>6, <2>1 DEF server, count
<1>9. CASE Refused
  <2>1. /\ Handles(Ipc("REFUSED")) /\ inbox' = Tail(inbox)
        /\ UNCHANGED <<viewer, db, server, jobs, count>>
    BY <1>9 DEF Refused, Reads
  <2> QED
    BY <1>1, <1>2, <1>4, <2>1 DEF server, count
<1>10. CASE OptionsDestroyed
  <2>1. PICK flag \in {1, 2} :
          /\ Handles(Destroyed("options", flag)) /\ inbox' = Tail(inbox)
          /\ jobs' = IF flag = 2 THEN Append(jobs, "write_mail_DB") ELSE jobs
          /\ UNCHANGED <<viewer, db, server, count>>
    BY <1>10 DEF OptionsDestroyed, Reads
  <2> QED
    BY <1>1, <1>2, <1>4, <1>6, <2>1 DEF server, count
<1>11. CASE Connected
  <2>1. /\ Handles(Ipc("CONNECTED")) /\ inbox' = Tail(inbox)
        /\ stage' \in {"session", stage} /\ daemon' \in {db, daemon}
        /\ UNCHANGED <<viewer, db, jobs, count>>
    BY <1>11 DEF Connected, Reads, server
  <2> QED
    BY <1>1, <1>2, <1>4, <2>1 DEF count
<1>12. CASE Closed
  <2>1. /\ Handles(Ipc("CLOSED")) /\ inbox' = Tail(inbox) /\ stage' = "idle"
        /\ UNCHANGED <<viewer, db, daemon, jobs, count>>
    BY <1>12 DEF Closed, Reads
  <2> QED
    BY <1>1, <1>2, <1>4, <2>1 DEF count
<1>13. CASE write_mail_DB
  <2>1. /\ \E job : Runs(job)
        /\ db' \in {mails, Empty} /\ UNCHANGED <<viewer, server, inbox, count>>
    BY <1>13 DEF write_mail_DB
  <2>2. jobs' \in Seq(Job)
    BY <2>1, Running
  <2>3. Empty \in [Mail -> States]
    BY DEF Empty, States
  <2> QED
    BY <1>1, <1>5, <2>1, <2>2, <2>3 DEF server, count
<1>14. CASE create_connect
  <2>1. /\ Runs("create_connect") /\ stage' \in {"asked", "connecting", "idle", stage}
        /\ UNCHANGED <<viewer, db, daemon, inbox, count>>
    BY <1>14 DEF create_connect
  <2>2. jobs' \in Seq(Job)
    BY <2>1, Running
  <2> QED
    BY <1>1, <1>2, <1>5, <2>1, <2>2 DEF count
<1>15. CASE end_connect
  <2>1. /\ Runs("end_connect") /\ inbox' = Append(inbox, Ipc("FINISHED"))
        /\ stage' \in {stage, "quit"} /\ UNCHANGED <<viewer, db, daemon, count>>
    BY <1>15 DEF end_connect, EndConnect
  <2>2. jobs' \in Seq(Job)
    BY <2>1, Running
  <2> QED
    BY <1>1, <1>2, <1>3, <2>1, <2>2 DEF count
<1>16. CASE Lists \/ Loads \/ Removes \/ Done
  BY <1>1, <1>3, <1>5, <1>16, SessionTypes DEF count
<1>17. CASE NameFound \/ Connects \/ Closes \/ Fails \/ Lost
  <2>1. /\ \/ inbox' = inbox
           \/ \E what \in {"FINISHED", "CONNECTED", "CLOSED"} : inbox' = Append(inbox, Ipc(what))
        /\ stage' \in {stage, "connecting", "idle", "quit"}
        /\ UNCHANGED <<viewer, db, daemon, jobs, count>>
    BY <1>17 DEF NameFound, Connects, Closes, Fails, Lost, EndConnect, server
  <2> QED
    BY <1>1, <1>2, <1>3, <1>5, <2>1 DEF count
<1>18. CASE ChecksItself
  <2>1. /\ stage' = "asked" /\ sessions' = sessions + 1 /\ jobs' = Append(jobs, "create_connect")
        /\ UNCHANGED <<viewer, db, daemon, inbox, touched, keys>>
    BY <1>18 DEF ChecksItself
  <2> QED
    BY <1>1, <1>2, <1>5, <1>6, <2>1
<1> QED
  BY <1>7, <1>8, <1>9, <1>10, <1>11, <1>12, <1>13, <1>14, <1>15, <1>16, <1>17, <1>18 DEF Quiet

\* What a step is.
LEMMA Steps ==
  ASSUME Next
  PROVE  \/ (Mute \/ Chooses \/ Asks) /\ UNCHANGED trouble
         \/ (Accepted \/ Finished \/ StatDestroyed \/ Quiet) /\ UNCHANGED haste
  BY DEF Next, Keys, Messages, Jobs, Session, Network, Trouble, Mute, Chooses, Marks, Asks, Quiet

LEMMA TypesStep == Types /\ ShapeInv /\ [Next]_vars => Types' /\ ShapeInv'
<1> SUFFICES ASSUME Types, ShapeInv, [Next]_vars
             PROVE  Types' /\ ShapeInv'
  OBVIOUS
<1>1. Screens' => guis' \in Seq(Guis) /\ ShapeInv'
  BY DEF Screens
<1>2. ASSUME Next
      PROVE  trouble' \in Nat
  BY <1>2 DEF Next, Keys, Messages, Jobs, Session, Network, Trouble, Types
<1>3. CASE Mute /\ UNCHANGED trouble
  <2>1. Screens' /\ haste' \in Nat
    BY <1>3, MuteScreens
  <2> QED
    BY <1>1, <1>3, <2>1, MuteTypes DEF Types, server, count
<1>4. CASE Chooses /\ UNCHANGED trouble
  <2>1. inbox' \in Seq(Letter)
    <3>1. \A flag \in 1..2 : Destroyed("options", flag) \in Letter
      BY Letters
    <3> QED
      BY <1>4, <3>1, ChoosesIs, Sending
  <2> QED
    BY <1>1, <1>4, <2>1, ChoosesIs DEF Types, server
<1>5. CASE Asks /\ UNCHANGED trouble
  <2>1. inbox' \in Seq(Letter)
    <3>1. /\ Ipc("CHECK") \in Letter /\ Ipc("STOP") \in Letter
          /\ \A flag \in {1, 3} : Destroyed("stat", flag) \in Letter
      BY Letters
    <3> QED
      BY <1>5, <3>1, AsksIs, Sending
  <2>2. /\ Screens' /\ haste' \in Nat /\ keys' \in Nat
        /\ UNCHANGED <<mails, prev, at, freed, db, server, jobs, touched, sessions>>
    BY <1>5, AsksIs
  <2> QED
    BY <1>1, <1>5, <2>1, <2>2 DEF Types, server
<1>6. CASE Accepted /\ Next /\ UNCHANGED haste
  <2>1. /\ Handles(Ipc("ACCEPTED")) /\ Screens' /\ at' \in Mail \cup {NoMail}
        /\ UNCHANGED <<mails, prev, db, server, jobs, count>>
        /\ freed' = freed \/ freed' = FALSE
        /\ inbox' = Tail(inbox) \/ inbox' = Append(Tail(inbox), Destroyed("options", 1))
    BY <1>6, AcceptedIs
  <2>2. inbox' \in Seq(Letter)
    <3>1. Destroyed("options", 1) \in Letter
      BY Letters
    <3> QED
      BY <2>1, <3>1, Reading
  <2>3. freed' \in BOOLEAN
    BY <2>1 DEF Types
  <2> QED
    BY <1>1, <1>2, <1>6, <2>1, <2>2, <2>3 DEF Types, server, count
<1>7. CASE Finished /\ Next /\ UNCHANGED haste
  <2>1. /\ Handles(Ipc("FINISHED")) /\ Screens'
        /\ UNCHANGED <<mails, prev, at, freed, db, server, jobs, count>>
        /\ inbox' = Tail(inbox) \/ inbox' = Append(Tail(inbox), Destroyed("stat", 2))
    BY <1>7, FinishedIs
  <2>2. inbox' \in Seq(Letter)
    <3>1. Destroyed("stat", 2) \in Letter
      BY Letters
    <3> QED
      BY <2>1, <3>1, Reading
  <2> QED
    BY <1>1, <1>2, <1>7, <2>1, <2>2 DEF Types, server, count
<1>8. CASE StatDestroyed /\ Next /\ UNCHANGED haste
  <2>1. /\ Screens' /\ inbox' = Tail(inbox) /\ \E m : Handles(m)
        /\ mails' \in [Mail -> States] /\ prev' \in [Mail -> States] /\ freed' \in BOOLEAN
        /\ UNCHANGED <<at, db, server, jobs, count>>
    BY <1>8, StatDestroyedIs
  <2>2. inbox' \in Seq(Letter)
    <3>1. Destroyed("stat", 2) \in Letter
      BY Letters
    <3> QED
      BY <2>1, <3>1, Reading
  <2> QED
    BY <1>1, <1>2, <1>8, <2>1, <2>2 DEF Types, server, count
<1>9. CASE Quiet /\ Next /\ UNCHANGED haste
  <2>1. /\ UNCHANGED <<viewer, keys, touched>> /\ sessions' \in Nat
        /\ daemon' \in [Mail -> States] /\ db' \in [Mail -> States] /\ stage' \in Stages
        /\ inbox' \in Seq(Letter) /\ jobs' \in Seq(Job)
    BY <1>9, QuietTypes
  <2> QED
    BY <1>2, <1>9, <2>1 DEF Types, viewer, ShapeInv
<1>10. CASE UNCHANGED vars
  BY <1>10 DEF Types, ShapeInv, vars, viewer, server, count
<1> QED
  BY <1>3, <1>4, <1>5, <1>6, <1>7, <1>8, <1>9, <1>10, Steps

LEMMA TypesInit == Init => Types /\ ShapeInv
<1> SUFFICES ASSUME Init
             PROVE  Types /\ ShapeInv
  OBVIOUS
<1>1. Empty \in [Mail -> States] /\ db \in [Mail -> States]
  BY DEF Init, Empty, States
<1>2. /\ mails = Empty /\ prev = Empty /\ daemon = Empty /\ guis = <<>> /\ at = NoMail
      /\ freed = FALSE /\ stage = "idle" /\ inbox = <<>> /\ jobs = <<>>
      /\ touched = {} /\ keys = 0 /\ sessions = 0 /\ haste = 0 /\ trouble = 0
  BY DEF Init
<1>3. \A S : <<>> \in Seq(S) /\ DOMAIN <<>> = {}
  OBVIOUS
<1>4. /\ guis \in Seq(Guis) /\ inbox \in Seq(Letter) /\ jobs \in Seq(Job) /\ ShapeInv
      /\ touched \subseteq Mail /\ stage \in Stages /\ at \in Mail \cup {NoMail}
      /\ freed \in BOOLEAN
  BY <1>2, <1>3 DEF ShapeInv, Stages
<1> QED
  BY <1>1, <1>2, <1>4 DEF Types

-----------------------------------------------------------------------------
(* The options.                                                            *)

LEMMA OptionsStep == Types /\ ShapeInv /\ OptionsInv /\ [Next]_vars => OptionsInv'
<1> SUFFICES ASSUME Types, ShapeInv, OptionsInv, [Next]_vars, haste' = 0
             PROVE  /\ freed' = FALSE
                    /\ Open("options")' => /\ Open("list")' /\ ~Gone("stat", 2)'
                                           /\ ~Gone("stat", 3)'
  BY DEF OptionsInv
<1>1. ASSUME haste = 0
      PROVE  /\ freed = FALSE
             /\ Open("options") => Open("list") /\ ~Gone("stat", 2) /\ ~Gone("stat", 3)
  BY <1>1 DEF OptionsInv
<1>2. inbox = <<>> => ~Gone("stat", 2) /\ ~Gone("stat", 3)
  BY Nothing DEF Gone
<1>3. CASE Mute
  <2>1. /\ haste = 0 /\ inbox = <<>> /\ UNCHANGED <<db, server, inbox, count>>
    BY <1>3, MuteScreens, MuteTypes
  <2>2. ~Gone("stat", 2)' /\ ~Gone("stat", 3)'
    BY <1>2, <2>1 DEF Gone
  <2>3. CASE Incoming
    <3>1. /\ \A g : ~Open(g)
          /\ \A g : Open(g)' <=> g = "list" \/ (g = "stat" /\ ConnectState # 0)
      BY <1>3, <2>3, MuteScreens
    <3>2. freed' = (freed \/ Open("options"))
      BY <2>3 DEF Incoming, InitMailDB
    <3>3. freed' = FALSE
      BY <1>1, <2>1, <3>1, <3>2, Zenon
    <3> QED
      BY <3>1, <3>3
  <2>4. CASE ~Incoming
    <3>1. freed' = FALSE
      BY <1>1, <1>3, <2>1, <2>4
         DEF Mute, StatScr, Exit, CloseList, create_options_menu, create_view, CloseView
    <3>2. Open("options")' => Open("list")'
      BY <1>1, <1>3, <2>1, <2>4, MuteScreens DEF Mute
    <3> QED
      BY <2>2, <3>1, <3>2
  <2> QED
    BY <2>3, <2>4
<1>4. CASE Chooses
  BY <1>4, ChoosesIs
<1>5. CASE Asks
  <2>1. haste = 0 /\ inbox = <<>> /\ freed' = freed
    BY <1>5, AsksIs
  <2>2. CASE guis' = guis /\ (inbox' = Append(inbox, Ipc("CHECK"))
                              \/ inbox' = Append(inbox, Ipc("STOP")))
    <3>1. Ipc("CHECK") \in Letter /\ Ipc("STOP") \in Letter
      BY Letters
    <3>2. Range(inbox') \subseteq Range(inbox) \cup {Ipc("CHECK"), Ipc("STOP")}
      BY <2>2, <3>1, Sending
    <3>3. \A f : Destroyed("stat", f) # Ipc("CHECK") /\ Destroyed("stat", f) # Ipc("STOP")
      BY Letters
    <3>4. ~Gone("stat", 2)' /\ ~Gone("stat", 3)'
      BY <1>2, <2>1, <3>2, <3>3 DEF Gone
    <3> QED
      BY <1>1, <2>1, <2>2, <3>4 DEF Open
  <2>3. CASE ~Open("options")'
    BY <1>1, <2>1, <2>3
  <2> QED
    BY <1>5, <2>2, <2>3, AsksIs
<1>6. CASE Accepted /\ UNCHANGED haste
  <2>1. haste = 0 /\ freed = FALSE
    BY <1>1, <1>6
  <2>2. /\ Handles(Ipc("ACCEPTED")) /\ (Open("list")' <=> Open("list"))
        /\ Open("options")' => Open("options")
        /\ freed' = freed \/ freed' = FALSE
        /\ inbox' = Tail(inbox) \/ inbox' = Append(Tail(inbox), Destroyed("options", 1))
    BY <1>6, AcceptedIs
  <2>3. Range(inbox') \subseteq Range(inbox) \cup {Destroyed("options", 1)}
    <3>1. Destroyed("options", 1) \in Letter
      BY Letters
    <3> QED
      BY <2>2, <3>1, Reading
  <2>4. \A f : Gone("stat", f)' => Gone("stat", f)
    BY <2>3, Letters DEF Gone
  <2> QED
    BY <1>1, <2>1, <2>2, <2>4
<1>7. CASE Finished /\ UNCHANGED haste
  <2>1. haste = 0 /\ freed = FALSE
    BY <1>1, <1>7
  <2>2. /\ Handles(Ipc("FINISHED")) /\ freed' = freed
        /\ Open("list")' <=> Open("list")
        /\ Open("options")' <=> Open("options")
        /\ ~Open("options") \/ inbox' = Tail(inbox)
    BY <1>7, FinishedIs
  <2>3. inbox' = Tail(inbox) => \A f : Gone("stat", f)' => Gone("stat", f)
    <3>1. Destroyed("stat", 2) \in Letter
      BY Letters
    <3> QED
      BY <2>2, <3>1, Reading DEF Gone
  <2> QED
    BY <1>1, <2>1, <2>2, <2>3
<1>8. CASE StatDestroyed /\ UNCHANGED haste
  <2>1. haste = 0 /\ freed = FALSE
    BY <1>1, <1>8
  <2>2. PICK flag \in {1, 2, 3} :
              /\ Handles(Destroyed("stat", flag)) /\ inbox' = Tail(inbox)
              /\ ~(flag = 2 /\ Open("list")) => freed' = freed
              /\ flag # 3 => (Open("list")' <=> Open("list"))
              /\ ~Open("options") /\ freed = FALSE => freed' = FALSE
              /\ Open("options")' <=> Open("options")
    BY <1>8, StatDestroyedIs
  <2>3. \A f : Gone("stat", f)' => Gone("stat", f)
    <3>1. Destroyed("stat", 2) \in Letter
      BY Letters
    <3> QED
      BY <2>2, <3>1, Reading DEF Gone
  <2>4. flag \in {2, 3} => ~Open("options")
    <3>1. Destroyed("stat", 2) \in Letter
      BY Letters
    <3>2. Gone("stat", flag)
      BY <2>2, <3>1, Reading DEF Gone
    <3> QED
      BY <1>1, <2>1, <3>2
  <2>5. freed' = FALSE
    BY <2>1, <2>2, <2>4
  <2> QED
    BY <1>1, <2>1, <2>2, <2>3, <2>4, <2>5
<1>9. CASE Quiet /\ UNCHANGED haste
  <2>1. UNCHANGED viewer /\ \A f \in {2, 3} : Gone("stat", f)' => Gone("stat", f)
    BY <1>9, QuietTypes
  <2> QED
    BY <1>1, <1>9, <2>1 DEF viewer, Open
<1>10. CASE UNCHANGED vars
  BY <1>1, <1>10 DEF vars, viewer, Open, Gone
<1> QED
  BY <1>3, <1>4, <1>5, <1>6, <1>7, <1>8, <1>9, <1>10, Steps

\* The options are not open for a record that has been freed, for any number of
\* mails, keys and sessions, for a user that waits for the phone.
THEOREM RecordLivesAlways == Spec => []RecordLives
<1>1. Init => Types /\ ShapeInv /\ OptionsInv
  <2>1. Init => freed = FALSE /\ ~Open("options")
    BY Nothing DEF Init, Open
  <2> QED
    BY <2>1, TypesInit DEF OptionsInv
<1>2. Types /\ ShapeInv /\ OptionsInv /\ [Next]_vars => (Types /\ ShapeInv /\ OptionsInv)'
  BY TypesStep, OptionsStep
<1>3. OptionsInv => RecordLives
  BY DEF OptionsInv, RecordLives
<1> QED
  BY <1>1, <1>2, <1>3, PTL DEF Spec

-----------------------------------------------------------------------------
(* A key that the user of an orderly phone presses: nothing is on its way. *)

Asked == {Ipc("CHECK"), Ipc("STOP"), Destroyed("options", 1), Destroyed("options", 2),
          Destroyed("stat", 1), Destroyed("stat", 3)}

Pressing ==
  /\ inbox = <<>> /\ jobs = <<>> /\ UNCHANGED <<db, server>>
  /\ \/ inbox' = <<>> /\ (jobs' = <<>> \/ jobs' = <<"write_mail_DB">>)
     \/ /\ \E m \in Asked : inbox' = <<m>> /\ (m = Ipc("STOP") => stage # "asked")
        /\ jobs' = <<>>
  /\ Saving' => /\ Open("list") /\ ~Open("stat")
                /\ \A m \in Mail \ touched' : mails'[m] = mails[m]
  /\ Open("list")' => mails' = db \/ (Open("list") /\ (mails' = mails \/ Saving'))
  /\ Open("list")' /\ ~Open("stat")' =>
       \/ Open("list") /\ ~Open("stat")
       \/ ConnectState = 0 /\ (stage # "asked" \/ ~Open("stat"))
       \/ Gone("stat", 3)'
  /\ stage = "asked" /\ Open("stat") => Open("stat")'

LEMMA Alone ==
  ASSUME NEW x
  PROVE  /\ Append(<<>>, x) = <<x>> /\ Len(<<x>>) = 1 /\ DOMAIN <<x>> = {1} /\ <<x>>[1] = x
         /\ Range(<<x>>) = {x}
<1>1. Append(<<>>, x) = <<x>> /\ Len(<<x>>) = 1 /\ DOMAIN <<x>> = {1} /\ <<x>>[1] = x
  OBVIOUS
<1> QED
  BY <1>1 DEF Range

LEMMA PressingKeeps ==
  ASSUME PhoneInv, ListInv, Pressing
  PROVE  PhoneInv' /\ ListInv'
<1>1. /\ Range(inbox) = {} /\ Range(jobs) = {} /\ stage' = stage /\ daemon' = daemon
      /\ db' = db
  BY Nothing DEF Pressing, server
<1>2. /\ \A what : ~Told(what)
      /\ \A g, f : ~Gone(g, f)
      /\ \A job : ~Due(job)
      /\ ~Saving
  BY <1>1 DEF Told, Gone, Due, Saving
<1>3. /\ \A what \in {"ACCEPTED", "FINISHED", "CONNECTED", "CLOSED"} : ~Told(what)'
      /\ Told("STOP")' => stage # "asked"
      /\ ~Gone("stat", 2)'
      /\ \A job : Due(job)' => job = "write_mail_DB"
      /\ \A i \in DOMAIN inbox' : inbox'[i] \in Asked /\ i = 1 /\ Len(inbox') = 1 /\ jobs' = <<>>
  <2>1. jobs' = <<>> \/ jobs' = <<"write_mail_DB">>
    BY DEF Pressing
  <2>2. \A job : Due(job)' => job = "write_mail_DB"
    BY <2>1, Nothing, Alone DEF Due
  <2>3. CASE inbox' = <<>>
    <3>1. Range(inbox') = {} /\ DOMAIN inbox' = {}
      BY <2>3, Nothing
    <3> QED
      BY <2>2, <3>1 DEF Told, Gone
  <2>4. CASE /\ \E m \in Asked : inbox' = <<m>> /\ (m = Ipc("STOP") => stage # "asked")
             /\ jobs' = <<>>
    <3>1. PICK m \in Asked : inbox' = <<m>> /\ (m = Ipc("STOP") => stage # "asked")
      BY <2>4
    <3>2. /\ Range(inbox') = {m} /\ DOMAIN inbox' = {1} /\ Len(inbox') = 1 /\ inbox'[1] = m
      BY <3>1, Alone
    <3>3. \A what \in {"ACCEPTED", "FINISHED", "CONNECTED", "CLOSED"} : m # Ipc(what)
      BY Letters DEF Asked
    <3>4. m # Destroyed("stat", 2)
      BY Letters DEF Asked
    <3>5. Told("STOP")' => m = Ipc("STOP")
      BY <3>2 DEF Told
    <3>6. /\ \A what \in {"ACCEPTED", "FINISHED", "CONNECTED", "CLOSED"} : ~Told(what)'
          /\ ~Gone("stat", 2)'
      BY <3>2, <3>3, <3>4 DEF Told, Gone
    <3> QED
      BY <2>2, <2>4, <3>1, <3>2, <3>5, <3>6
  <2> QED
    BY <2>3, <2>4 DEF Pressing
<1>4. CheckInv'
  BY <1>1, <1>3 DEF CheckInv
<1>5. AcceptedInv'
  <2>1. ~Told("ACCEPTED")'
    BY <1>3
  <2>2. AcceptedFirst'
    BY <1>3, <2>1 DEF AcceptedFirst, Told, Range
  <2> QED
    BY <2>1, <2>2 DEF AcceptedInv, AcceptedAlone
<1>6. SocketInv'
  <2>1. ~Told("CONNECTED")' /\ ~Told("CLOSED")'
    BY <1>3
  <2>2. \A i, j \in DOMAIN inbox' : ~(i < j)
    BY <1>3
  <2> QED
    BY <2>1, <2>2 DEF SocketInv, ConnectedFirst
<1>7. Open("list") /\ ~Open("stat") => ~Active
  BY <1>2 DEF ListInv, CoverInv
<1>8. Active' <=> Active
  BY <1>1 DEF Active
<1>9. ActiveInv'
  BY <1>3, <1>7, <1>8 DEF ActiveInv, Pressing
<1>10. CoverInv'
  <2>1. stage = "asked" => Open("stat")
    BY <1>2 DEF ListInv, CoverInv
  <2>2. Active /\ ConnectState = 0 => stage = "asked"
    BY DEF Active, ConnectState
  <2>3. stage = "asked" => Open("stat")'
    BY <2>1 DEF Pressing
  <2>4. Active /\ Open("list")' => Open("stat")' \/ Gone("stat", 3)'
    BY <1>7, <2>1, <2>2 DEF Pressing
  <2> QED
    BY <1>1, <1>8, <2>3, <2>4 DEF CoverInv
<1>11. FreshInv'
  <2>1. Open("list") => mails = db \/ stage \in {"session", "listed"}
    BY <1>2 DEF ListInv, FreshInv
  <2>2. Open("list")' => mails' = db' \/ Saving' \/ stage' \in {"session", "listed"}
    BY <1>1, <2>1 DEF Pressing
  <2> QED
    BY <2>2 DEF FreshInv
<1>12. SaveInv'
  <2>1. Open("list") /\ ~Open("stat") => mails = db
    BY <1>2, <1>7 DEF ListInv, FreshInv, Active
  <2> QED
    BY <1>1, <2>1 DEF Pressing, SaveInv
<1>13. DaemonInv'
  BY <1>1 DEF ListInv, DaemonInv
<1> QED
  BY <1>4, <1>5, <1>6, <1>9, <1>10, <1>11, <1>12, <1>13 DEF PhoneInv, ListInv

LEMMA Orders ==
  ASSUME Types, [Next]_vars, Orderly'
  PROVE  Orderly
<1>1. Next => haste' >= haste /\ trouble' >= trouble
  BY DEF Next, Keys, Messages, Jobs, Session, Network, Trouble, Types, Incoming, StatScr, Exit,
         CloseList, create_options_menu, create_view, CloseView, back, show_info,
         set_state_download, set_state_delete, set_state_not_download, set_state_not_delete,
         set_state_download_all, set_state_delete_all, delete_record, delete_all_records,
         send_req_checkmailbox, send_req_stopcheck, CloseStat, Key, KeyBefore, Changes, Undoes
<1>2. UNCHANGED vars => haste' >= haste /\ trouble' >= trouble
  BY DEF vars, Types
<1> QED
  BY <1>1, <1>2 DEF Orderly, Types

LEMMA KeysPress ==
  ASSUME Types, ShapeInv, OptionsInv, Mute \/ Chooses \/ Asks, haste' = 0
  PROVE  Pressing
<1>1. CASE Mute
  <2>1. /\ inbox = <<>> /\ jobs = <<>> /\ inbox' = <<>>
        /\ UNCHANGED <<db, server, count>>
    BY <1>1, MuteScreens, MuteTypes
  <2>2. ~Gone("options", 2)'
    BY <2>1, Nothing DEF Gone
  <2>3. jobs' = <<>> => ~Saving'
    BY <2>2, Nothing DEF Saving, Due
  <2>4. CASE Incoming
    <3>1. jobs' = <<>> /\ mails' = db
      BY <2>1, <2>4 DEF Incoming, InitMailDB
    <3>2. /\ ~Open("stat") /\ (Open("stat")' <=> ConnectState # 0)
      BY <1>1, <2>4, MuteScreens
    <3> QED
      BY <2>1, <2>3, <3>1, <3>2 DEF Pressing
  <2>5. CASE StatScr \/ Exit \/ CloseList
    <3>1. jobs' = <<>>
      <4>1. CASE Exit
        <5>1. DOMAIN jobs = {}
          BY <2>1
        <5>2. jobs' = [n \in {} |-> IF jobs[n] = "write_mail_DB" THEN "write_empty" ELSE jobs[n]]
          BY <4>1, <5>1 DEF Exit
        <5>3. jobs' \in Seq(Job) /\ DOMAIN jobs' = {}
          BY <1>1, <5>2, MuteTypes
        <5>4. Len(jobs') \in Nat /\ DOMAIN jobs' = 1..Len(jobs')
          BY <5>3
        <5>5. Len(jobs') = 0
          BY <5>3, <5>4
        <5> QED
          BY <5>3, <5>5
      <4>2. CASE StatScr \/ CloseList
        BY <2>1, <4>2 DEF StatScr, CloseList
      <4> QED
        BY <2>5, <4>1, <4>2
    <3>2. ~Open("list")' /\ ~Open("stat")
      BY <1>1, <2>5, MuteScreens
    <3> QED
      BY <2>1, <2>3, <3>1, <3>2 DEF Pressing
  <2>6. CASE create_options_menu
    <3>1. jobs' = <<>> /\ mails' = mails
      BY <2>1, <2>6 DEF create_options_menu
    <3>2. Open("list") /\ ~Open("stat")
      BY <1>1, <2>6, MuteScreens
    <3> QED
      BY <2>1, <2>3, <3>1, <3>2 DEF Pressing
  <2>7. CASE create_view
    <3>1. /\ jobs' = <<>> \/ jobs' = <<"write_mail_DB">>
          /\ mails' = mails
      BY <2>1, <2>7, Alone DEF create_view
    <3>2. Open("list") /\ ~Open("stat")
      BY <1>1, <2>7, MuteScreens
    <3> QED
      BY <2>1, <3>1, <3>2 DEF Pressing
  <2>8. CASE CloseView
    <3>1. jobs' = <<>> /\ mails' = mails
      BY <2>1, <2>8 DEF CloseView
    <3>2. (Open("list")' <=> Open("list")) /\ (Open("stat")' <=> Open("stat"))
      BY <1>1, <2>8, MuteScreens
    <3> QED
      BY <2>1, <2>3, <3>1, <3>2 DEF Pressing
  <2> QED
    BY <1>1, <2>4, <2>5, <2>6, <2>7, <2>8 DEF Mute
<1>2. CASE Chooses
  <2>1. /\ haste = 0 /\ inbox = <<>> /\ jobs = <<>> /\ jobs' = <<>>
        /\ Open("options") /\ ~Open("stat")
        /\ UNCHANGED <<db, server>>
        /\ \A m \in Mail \ touched' : mails'[m] = mails[m]
    BY <1>2, ChoosesIs
  <2>2. Open("list")
    BY <2>1 DEF OptionsInv
  <2>3. PICK flag \in 1..2 : inbox' = Append(inbox, Destroyed("options", flag))
    BY <1>2, ChoosesIs
  <2>4. inbox' = <<Destroyed("options", flag)>> /\ Destroyed("options", flag) \in Asked
    <3>1. flag = 1 \/ flag = 2
      OBVIOUS
    <3> QED
      BY <2>1, <2>3, <3>1, Alone DEF Asked
  <2>5. mails' = mails \/ Saving'
    <3>1. CASE mails' # mails
      <4>1. inbox' = <<Destroyed("options", 2)>>
        BY <1>2, <2>1, <3>1, ChoosesIs, Alone
      <4> QED
        BY <4>1, Alone DEF Saving, Gone
    <3> QED
      BY <3>1
  <2>6. Destroyed("options", flag) # Ipc("STOP")
    BY Letters
  <2> QED
    BY <2>1, <2>2, <2>4, <2>5, <2>6 DEF Pressing
<1>3. CASE Asks
  <2>1. /\ inbox = <<>> /\ jobs = <<>> /\ jobs' = <<>> /\ UNCHANGED <<mails, db, server>>
    BY <1>3, AsksIs
  <2>2. CASE /\ inbox' = Append(inbox, Ipc("CHECK")) \/ inbox' = Append(inbox, Ipc("STOP"))
             /\ inbox' = Append(inbox, Ipc("STOP")) => stage # "asked"
             /\ guis' = guis
    <3>1. PICK m \in {Ipc("CHECK"), Ipc("STOP")} : inbox' = <<m>>
      BY <2>1, <2>2, Alone
    <3>2. m = Ipc("STOP") => stage # "asked"
      BY <2>1, <2>2, <3>1, Alone
    <3>3. ~Saving'
      BY <2>1, <3>1, Alone, Nothing, Letters DEF Saving, Gone, Due
    <3>4. m \in Asked
      BY DEF Asked
    <3> QED
      BY <2>1, <2>2, <3>1, <3>2, <3>3, <3>4 DEF Pressing, Open
  <2>3. CASE /\ \E flag \in {1, 3} :
                    /\ inbox' = Append(inbox, Destroyed("stat", flag))
                    /\ flag = 1 <=> ConnectState = 0
             /\ stage # "asked" /\ (Open("list")' <=> Open("list"))
    <3>1. PICK flag \in {1, 3} : /\ inbox' = <<Destroyed("stat", flag)>>
                                 /\ flag = 1 <=> ConnectState = 0
      BY <2>1, <2>3, Alone
    <3>2. ~Saving'
      BY <2>1, <3>1, Alone, Nothing, Letters DEF Saving, Gone, Due
    <3>3. Destroyed("stat", flag) \in Asked /\ Destroyed("stat", flag) # Ipc("STOP")
      BY Letters DEF Asked
    <3>4. flag = 3 => Gone("stat", 3)'
      BY <3>1, Alone DEF Gone
    <3> QED
      BY <2>1, <2>3, <3>1, <3>2, <3>3, <3>4 DEF Pressing
  <2>4. Append(inbox, Ipc("CHECK")) # Append(inbox, Ipc("STOP"))
    BY <2>1, Alone, Letters
  <2> QED
    BY <1>3, <2>2, <2>3, <2>4, AsksIs
<1> QED
  BY <1>1, <1>2, <1>3

-----------------------------------------------------------------------------
(* The other steps: what becomes of the messages.                          *)

Sound == Types /\ ShapeInv /\ PhoneInv /\ ListInv

LEMMA Whole ==
  Sound => /\ Types /\ CheckInv /\ AcceptedInv /\ SocketInv
           /\ ActiveInv /\ CoverInv /\ FreshInv /\ SaveInv /\ DaemonInv
  BY DEF Sound, PhoneInv, ListInv

\* A message is read, and perhaps answered.
LEMMA ReadOrder ==
  ASSUME Sound, NEW m, Handles(m),
         NEW r \in Letter, r \notin {Ipc("CHECK"), Ipc("CONNECTED"), Ipc("CLOSED")},
         r = Ipc("ACCEPTED") => ~Told("CONNECTED"),
         inbox' = Tail(inbox) \/ inbox' = Append(Tail(inbox), r)
  PROVE  /\ AcceptedFirst' /\ ConnectedFirst'
         /\ \A i \in DOMAIN inbox' : inbox'[i] # Ipc("CHECK")
         /\ m = Ipc("CONNECTED") => ~Told("CONNECTED")' /\ ~Told("ACCEPTED")
         /\ m = Ipc("CLOSED") => ~Told("CONNECTED")' /\ ~Told("CLOSED")'
         /\ m = Ipc("CHECK") => jobs = <<>> /\ (stage \in {"idle", "asked"} => Len(inbox) = 1)
         /\ m \in Range(inbox)
         /\ \A x : x \in Range(inbox') /\ x # r => x \in Range(inbox)
         /\ \A x : x \in Range(inbox) /\ x # m => x \in Range(inbox')
<1>1. /\ m \in Letter /\ inbox[1] = m /\ m \in Range(inbox)
      /\ Len(inbox) \in Nat \ {0} /\ DOMAIN inbox = 1..Len(inbox)
      /\ Len(Tail(inbox)) = Len(inbox) - 1
      /\ Len(Append(Tail(inbox), r)) = Len(inbox)
      /\ DOMAIN Tail(inbox) = 1..(Len(inbox) - 1)
      /\ DOMAIN Append(Tail(inbox), r) = 1..Len(inbox)
      /\ \A i \in 1..(Len(inbox) - 1) : /\ Tail(inbox)[i] = inbox[i + 1]
                                        /\ Append(Tail(inbox), r)[i] = inbox[i + 1]
      /\ Append(Tail(inbox), r)[Len(inbox)] = r
      /\ Range(inbox) = Range(Tail(inbox)) \cup {m}
      /\ Range(Append(Tail(inbox), r)) = Range(Tail(inbox)) \cup {r}
  BY Whole, Reading
<1>2. \A i \in DOMAIN inbox' : \/ i + 1 \in DOMAIN inbox /\ i \in Nat /\ i > 0
                                  /\ inbox'[i] = inbox[i + 1]
                               \/ i = Len(inbox) /\ inbox'[i] = r
  <2>1. CASE inbox' = Tail(inbox)
    BY <1>1, <2>1
  <2>2. CASE inbox' = Append(Tail(inbox), r)
    BY <1>1, <2>2
  <2> QED
    BY <2>1, <2>2
<1>3. /\ \A i \in DOMAIN inbox' : i \in 1..Len(inbox)
      /\ Range(inbox') \subseteq Range(Tail(inbox)) \cup {r}
      /\ Range(Tail(inbox)) \subseteq Range(inbox')
  <2>1. CASE inbox' = Tail(inbox)
    BY <1>1, <2>1
  <2>2. CASE inbox' = Append(Tail(inbox), r)
    <3>1. Range(inbox') = Range(Tail(inbox)) \cup {r} /\ DOMAIN inbox' = 1..Len(inbox)
      BY <1>1, <2>2
    <3> QED
      BY <3>1
  <2> QED
    BY <2>1, <2>2
<1>4. CheckInv /\ AcceptedFirst /\ ConnectedFirst
  BY Whole DEF AcceptedInv, AcceptedAlone, SocketInv
<1>5. /\ Ipc("CHECK") # Ipc("CONNECTED") /\ Ipc("CONNECTED") # Ipc("CLOSED")
      /\ Ipc("ACCEPTED") # Ipc("CONNECTED")
  BY Letters
<1>6. ASSUME NEW i \in DOMAIN inbox', inbox'[i] = Ipc("CHECK")
      PROVE  FALSE
  <2>1. i + 1 \in DOMAIN inbox /\ i \in Nat /\ i > 0 /\ inbox[i + 1] = Ipc("CHECK")
    BY <1>2, <1>6
  <2>2. i + 1 = 1
    BY <1>4, <2>1 DEF CheckInv
  <2> QED
    BY <2>1, <2>2
<1>7. AcceptedFirst'
  <2> SUFFICES ASSUME NEW i \in DOMAIN inbox', NEW j \in DOMAIN inbox',
                      inbox'[i] = Ipc("ACCEPTED"), inbox'[j] = Ipc("CONNECTED")
               PROVE  i < j
    BY DEF AcceptedFirst
  <2>1. j + 1 \in DOMAIN inbox /\ j \in Nat /\ inbox[j + 1] = Ipc("CONNECTED")
    BY <1>2
  <2>2. CASE r = Ipc("ACCEPTED")
    BY <2>1, <2>2 DEF Told, Range
  <2>3. CASE r # Ipc("ACCEPTED")
    <3>1. i + 1 \in DOMAIN inbox /\ i \in Nat /\ inbox[i + 1] = Ipc("ACCEPTED")
      BY <1>2, <2>3
    <3>2. i + 1 < j + 1
      BY <1>4, <2>1, <3>1 DEF AcceptedFirst
    <3> QED
      BY <2>1, <3>1, <3>2
  <2> QED
    BY <2>2, <2>3
<1>8. ConnectedFirst'
  <2> SUFFICES ASSUME NEW i \in DOMAIN inbox', NEW j \in DOMAIN inbox', i < j,
                      {inbox'[i], inbox'[j]} \subseteq {Ipc("CONNECTED"), Ipc("CLOSED")}
               PROVE  inbox'[i] = Ipc("CONNECTED") /\ inbox'[j] = Ipc("CLOSED")
    BY DEF ConnectedFirst
  <2>1. /\ i + 1 \in DOMAIN inbox /\ i \in Nat /\ inbox'[i] = inbox[i + 1]
        /\ j + 1 \in DOMAIN inbox /\ j \in Nat /\ inbox'[j] = inbox[j + 1]
    BY <1>2
  <2>2. i + 1 < j + 1
    BY <2>1
  <2> QED
    BY <1>4, <2>1, <2>2 DEF ConnectedFirst
<1>9. ASSUME NEW x, x \in Range(Tail(inbox))
      PROVE  \E j \in DOMAIN inbox : 1 < j /\ inbox[j] = x
  <2>1. PICK i \in 1..(Len(inbox) - 1) : Tail(inbox)[i] = x
    BY <1>1, <1>9 DEF Range
  <2>2. i + 1 \in DOMAIN inbox /\ 1 < i + 1 /\ inbox[i + 1] = x
    BY <1>1, <2>1
  <2> QED
    BY <2>2
<1>10. 1 \in DOMAIN inbox
  BY <1>1
<1>11. m \in {Ipc("CONNECTED"), Ipc("CLOSED")} => Ipc("CONNECTED") \notin Range(Tail(inbox))
  BY <1>1, <1>4, <1>5, <1>9, <1>10 DEF ConnectedFirst
<1>12. m = Ipc("CLOSED") => Ipc("CLOSED") \notin Range(Tail(inbox))
  BY <1>1, <1>4, <1>5, <1>9, <1>10 DEF ConnectedFirst
<1>13. m = Ipc("CONNECTED") => ~Told("ACCEPTED")
  <2>1. ASSUME m = Ipc("CONNECTED"), Told("ACCEPTED")
        PROVE  FALSE
    <3>1. PICK i \in 1..Len(inbox) : inbox[i] = Ipc("ACCEPTED")
      BY <1>1, <2>1 DEF Told, Range
    <3>2. i < 1
      BY <1>1, <1>4, <1>10, <2>1, <3>1 DEF AcceptedFirst
    <3> QED
      BY <3>1, <3>2
  <2> QED
    BY <2>1
<1>14. m = Ipc("CHECK") => jobs = <<>> /\ (stage \in {"idle", "asked"} => Len(inbox) = 1)
  BY <1>1, <1>4, <1>10 DEF CheckInv
<1> QED
  BY <1>1, <1>3, <1>6, <1>7, <1>8, <1>11, <1>12, <1>13, <1>14 DEF Told

\* A message is sent.
LEMMA SendOrder ==
  ASSUME Sound, NEW m \in {Ipc("FINISHED"), Ipc("CONNECTED"), Ipc("CLOSED")},
         m = Ipc("CONNECTED") => ~Told("CONNECTED") /\ ~Told("CLOSED"),
         m = Ipc("CLOSED") => ~Told("CLOSED"),
         inbox' = Append(inbox, m)
  PROVE  /\ AcceptedFirst' /\ ConnectedFirst'
         /\ \A i \in DOMAIN inbox' : inbox'[i] = Ipc("CHECK") =>
              i = 1 /\ jobs = <<>> /\ (stage \in {"idle", "asked"} => Len(inbox) = 1)
         /\ Range(inbox') = Range(inbox) \cup {m}
<1>1. /\ m \in Letter /\ m # Ipc("CHECK") /\ m # Ipc("ACCEPTED")
      /\ Ipc("CLOSED") # Ipc("CONNECTED") /\ Ipc("FINISHED") # Ipc("CONNECTED")
      /\ Ipc("FINISHED") # Ipc("CLOSED")
  BY Letters
<1>2. /\ Range(inbox') = Range(inbox) \cup {m}
      /\ Len(inbox) \in Nat /\ Len(inbox') = Len(inbox) + 1
      /\ DOMAIN inbox = 1..Len(inbox) /\ DOMAIN inbox' = 1..(Len(inbox) + 1)
      /\ \A i \in 1..Len(inbox) : inbox'[i] = inbox[i]
      /\ inbox'[Len(inbox) + 1] = m
  BY <1>1, Whole, Sending
<1>3. CheckInv /\ AcceptedFirst /\ ConnectedFirst
  BY Whole DEF AcceptedInv, AcceptedAlone, SocketInv
<1>4. ASSUME NEW i \in DOMAIN inbox'
      PROVE  (i \in 1..Len(inbox) /\ inbox'[i] = inbox[i]) \/ (i = Len(inbox) + 1 /\ inbox'[i] = m)
  BY <1>2
<1>5. AcceptedFirst'
  <2> SUFFICES ASSUME NEW i \in DOMAIN inbox', NEW j \in DOMAIN inbox',
                      inbox'[i] = Ipc("ACCEPTED"), inbox'[j] = Ipc("CONNECTED")
               PROVE  i < j
    BY DEF AcceptedFirst
  <2>1. i \in 1..Len(inbox) /\ inbox[i] = Ipc("ACCEPTED")
    BY <1>1, <1>4
  <2> QED
    BY <1>2, <1>3, <1>4, <2>1 DEF AcceptedFirst
<1>6. ConnectedFirst'
  <2> SUFFICES ASSUME NEW i \in DOMAIN inbox', NEW j \in DOMAIN inbox', i < j,
                      {inbox'[i], inbox'[j]} \subseteq {Ipc("CONNECTED"), Ipc("CLOSED")}
               PROVE  inbox'[i] = Ipc("CONNECTED") /\ inbox'[j] = Ipc("CLOSED")
    BY DEF ConnectedFirst
  <2>1. i \in 1..Len(inbox) /\ inbox'[i] = inbox[i]
    BY <1>2
  <2>2. CASE j \in 1..Len(inbox) /\ inbox'[j] = inbox[j]
    BY <1>2, <1>3, <2>1, <2>2 DEF ConnectedFirst
  <2>3. CASE j = Len(inbox) + 1 /\ inbox'[j] = m
    <3>1. inbox[i] \in Range(inbox)
      BY <1>2, <2>1 DEF Range
    <3> QED
      BY <1>1, <2>1, <2>3, <3>1 DEF Told
  <2> QED
    BY <1>4, <2>2, <2>3
<1>7. ASSUME NEW i \in DOMAIN inbox', inbox'[i] = Ipc("CHECK")
      PROVE  i = 1 /\ jobs = <<>> /\ (stage \in {"idle", "asked"} => Len(inbox) = 1)
  <2>1. i \in DOMAIN inbox /\ inbox[i] = Ipc("CHECK")
    BY <1>1, <1>2, <1>4, <1>7
  <2> QED
    BY <1>3, <2>1 DEF CheckInv
<1> QED
  BY <1>2, <1>5, <1>6, <1>7

-----------------------------------------------------------------------------
(* The other steps: the list.                                              *)

\* What does not concern the list.
LEMMA Keeps ==
  ASSUME Sound, UNCHANGED <<mails, db, daemon, stage, touched>>,
         Open("list")' <=> Open("list"), Open("stat")' <=> Open("stat"),
         Told("ACCEPTED")' <=> Told("ACCEPTED"), Told("FINISHED")' <=> Told("FINISHED"),
         Gone("stat", 2)' <=> Gone("stat", 2), Gone("stat", 3)' <=> Gone("stat", 3),
         Saving' <=> Saving, Due("write_empty")' => Due("write_empty")
  PROVE  ListInv'
<1>1. ActiveInv /\ CoverInv /\ FreshInv /\ SaveInv /\ DaemonInv
  BY Whole
<1>2. ActiveInv' /\ CoverInv'
  BY <1>1 DEF ActiveInv, CoverInv, Active
<1>3. FreshInv'
  BY <1>1 DEF FreshInv
<1>4. SaveInv' /\ DaemonInv'
  BY <1>1 DEF SaveInv, DaemonInv
<1> QED
  BY <1>2, <1>3, <1>4 DEF ListInv

\* The list is not what mails.db says only for one of these reasons.
LEMMA FreshWhy ==
  ASSUME Sound, Open("list"), stage \in {"asked", "connecting"}
  PROVE  mails = db /\ ~Saving
  BY Whole DEF FreshInv, ActiveInv, Active

LEMMA Told7 ==
  /\ \A a, b \in {"CHECK", "STOP", "ACCEPTED", "REFUSED", "FINISHED", "CONNECTED", "CLOSED"} :
       a # b => Ipc(a) # Ipc(b)
  /\ \A a \in {"CHECK", "STOP", "ACCEPTED", "REFUSED", "FINISHED", "CONNECTED", "CLOSED"} :
       Ipc(a) \in Letter /\ \A g, f : Ipc(a) # Destroyed(g, f)
  BY Letters

LEMMA CheckKeeps == Sound /\ CheckMailbox => PhoneInv' /\ ListInv'
<1> SUFFICES ASSUME Sound, CheckMailbox
             PROVE  PhoneInv' /\ ListInv'
  OBVIOUS
<1>1. /\ Handles(Ipc("CHECK")) /\ UNCHANGED <<mails, guis, db, daemon, touched>>
  BY DEF CheckMailbox, viewer
<1>2. jobs = <<>> /\ Ipc("CHECK") \in Range(inbox)
      /\ (stage \in {"idle", "asked"} => Len(inbox) = 1)
  <2>1. inbox[1] = Ipc("CHECK") /\ 1 \in DOMAIN inbox /\ Ipc("CHECK") \in Range(inbox)
    <3>1. Ipc("REFUSED") \in Letter
      BY Letters
    <3>2. /\ inbox[1] = Ipc("CHECK") /\ Ipc("CHECK") \in Range(inbox)
          /\ Len(inbox) \in Nat \ {0} /\ DOMAIN inbox = 1..Len(inbox)
      BY <1>1, <3>1, Whole, Reading
    <3> QED
      BY <3>2
  <2> QED
    BY <2>1, Whole DEF CheckInv
<1>3. CASE /\ ConnectState = 0 /\ stage' = "asked" /\ jobs' = Append(jobs, "create_connect")
           /\ inbox' = Append(Tail(inbox), Ipc("ACCEPTED"))
  <2>1. stage \in {"idle", "asked"}
    <3>1. stage \in Stages
      BY Whole DEF Types
    <3> QED
      BY <1>3, <3>1 DEF ConnectState, Stages
  <2>2. inbox' = <<Ipc("ACCEPTED")>> /\ inbox = <<Ipc("CHECK")>>
    <3>1. inbox \in Seq(Letter) /\ inbox # <<>> /\ Head(inbox) = Ipc("CHECK") /\ Len(inbox) = 1
      BY <1>1, <1>2, <2>1, Whole DEF Types, Handles
    <3>2. Tail(inbox) \in Seq(Letter) /\ Len(Tail(inbox)) = 0 /\ inbox[1] = Ipc("CHECK")
      BY <3>1, Taken
    <3>3. Tail(inbox) = <<>>
      BY <3>2, EmptySeq
    <3>4. inbox = <<Ipc("CHECK")>>
      BY <3>1, <3>2
    <3> QED
      BY <1>3, <3>3, <3>4, Alone
  <2>3. jobs' = <<"create_connect">>
    BY <1>2, <1>3, Alone
  <2>4. /\ Range(inbox') = {Ipc("ACCEPTED")} /\ DOMAIN inbox' = {1}
        /\ inbox'[1] = Ipc("ACCEPTED") /\ Range(jobs') = {"create_connect"}
        /\ Range(inbox) = {Ipc("CHECK")} /\ Range(jobs) = {}
    BY <1>2, <2>2, <2>3, Alone, Nothing
  <2>5. /\ \A what \in {"STOP", "CONNECTED", "CLOSED", "FINISHED"} : ~Told(what)' /\ ~Told(what)
        /\ Told("ACCEPTED")'
        /\ \A g, f : ~Gone(g, f)' /\ ~Gone(g, f)
        /\ ~Saving /\ ~Saving' /\ ~Due("write_empty")' /\ ~Due("end_connect")'
    BY <2>4, Told7 DEF Told, Gone, Saving, Due
  <2>6. PhoneInv'
    BY <1>3, <2>4, <2>5, Told7 DEF PhoneInv, CheckInv, AcceptedInv, AcceptedFirst, AcceptedAlone, SocketInv,
       ConnectedFirst
  <2>7. ActiveInv' /\ CoverInv' /\ SaveInv' /\ DaemonInv'
    BY <1>3, <2>5 DEF ActiveInv, CoverInv, SaveInv, DaemonInv
  <2>8. FreshInv'
    <3>1. Open("list")' => Open("list")
      BY <1>1 DEF Open
    <3>2. Open("list") => mails = db
      BY <2>1, <2>5, Whole DEF FreshInv
    <3> QED
      BY <1>1, <3>1, <3>2 DEF FreshInv
  <2> QED
    BY <2>6, <2>7, <2>8 DEF ListInv
<1>4. CASE inbox' = Append(Tail(inbox), Ipc("REFUSED")) /\ UNCHANGED <<stage, jobs>>
  <2>1. /\ AcceptedFirst' /\ ConnectedFirst'
        /\ \A i \in DOMAIN inbox' : inbox'[i] # Ipc("CHECK")
        /\ \A x : x \in Range(inbox') /\ x # Ipc("REFUSED") => x \in Range(inbox)
        /\ \A x : x \in Range(inbox) /\ x # Ipc("CHECK") => x \in Range(inbox')
    BY <1>1, <1>4, Told7, ReadOrder
  <2>2. /\ \A what \in {"STOP", "ACCEPTED", "CONNECTED", "CLOSED", "FINISHED"} :
             Told(what)' <=> Told(what)
        /\ \A g, f : Gone(g, f)' <=> Gone(g, f)
    BY <2>1, Told7 DEF Told, Gone
  <2>3. PhoneInv'
    BY <1>4, <2>1, <2>2, Whole DEF PhoneInv, CheckInv, AcceptedInv, AcceptedAlone, SocketInv, Due
  <2>4. ListInv'
    BY <1>1, <1>4, <2>2, Keeps DEF Open, Saving, Due
  <2> QED
    BY <2>3, <2>4
<1> QED
  BY <1>3, <1>4 DEF CheckMailbox

LEMMA StopKeeps == Sound /\ StopChecking => PhoneInv' /\ ListInv'
<1> SUFFICES ASSUME Sound, StopChecking
             PROVE  PhoneInv' /\ ListInv'
  OBVIOUS
<1>1. /\ Handles(Ipc("STOP")) /\ inbox' = Tail(inbox) /\ jobs' = Append(jobs, "end_connect")
      /\ UNCHANGED <<mails, guis, db, stage, daemon, touched>>
  BY DEF StopChecking, Reads, viewer, server, count
<1>2. Range(jobs') = Range(jobs) \cup {"end_connect"}
  BY <1>1, Whole, Posting DEF Job
<1>3. /\ AcceptedFirst' /\ ConnectedFirst' /\ Ipc("STOP") \in Range(inbox)
      /\ \A i \in DOMAIN inbox' : inbox'[i] # Ipc("CHECK")
      /\ \A x : x \in Range(inbox') /\ x # Ipc("REFUSED") => x \in Range(inbox)
      /\ \A x : x \in Range(inbox) /\ x # Ipc("STOP") => x \in Range(inbox')
  BY <1>1, Told7, ReadOrder
<1>4. /\ \A what \in {"ACCEPTED", "CONNECTED", "CLOSED", "FINISHED"} : Told(what)' <=> Told(what)
      /\ \A g, f : Gone(g, f)' <=> Gone(g, f)
  BY <1>3, Told7 DEF Told, Gone
<1>5. stage # "asked" /\ ~Told("ACCEPTED")
  BY <1>3, Whole DEF CheckInv, AcceptedInv, AcceptedAlone, Told
<1>6. PhoneInv'
  BY <1>1, <1>3, <1>4, <1>5, Whole DEF PhoneInv, CheckInv, AcceptedInv, AcceptedAlone, SocketInv
<1>7. ListInv'
  BY <1>1, <1>2, <1>4, Keeps DEF Open, Saving, Due
<1> QED
  BY <1>6, <1>7

LEMMA RefusedKeeps == Sound /\ Refused => PhoneInv' /\ ListInv'
<1> SUFFICES ASSUME Sound, Refused
             PROVE  PhoneInv' /\ ListInv'
  OBVIOUS
<1>1. /\ Handles(Ipc("REFUSED")) /\ inbox' = Tail(inbox)
      /\ UNCHANGED <<mails, guis, db, stage, daemon, touched, jobs>>
  BY DEF Refused, Reads, viewer, server, count
<1>2. /\ AcceptedFirst' /\ ConnectedFirst'
      /\ \A i \in DOMAIN inbox' : inbox'[i] # Ipc("CHECK")
      /\ \A x : x \in Range(inbox') /\ x # Ipc("REFUSED") => x \in Range(inbox)
      /\ \A x : x \in Range(inbox) /\ x # Ipc("REFUSED") => x \in Range(inbox')
  BY <1>1, Told7, ReadOrder
<1>3. /\ \A what \in {"STOP", "ACCEPTED", "CONNECTED", "CLOSED", "FINISHED"} :
           Told(what)' <=> Told(what)
      /\ \A g, f : Gone(g, f)' <=> Gone(g, f)
  BY <1>2, Told7 DEF Told, Gone
<1>4. PhoneInv'
  BY <1>1, <1>2, <1>3, Whole DEF PhoneInv, CheckInv, AcceptedInv, AcceptedAlone, SocketInv, Due
<1>5. ListInv'
  BY <1>1, <1>3, Keeps DEF Open, Saving, Due
<1> QED
  BY <1>4, <1>5

LEMMA OptionsKeeps == Sound /\ OptionsDestroyed => PhoneInv' /\ ListInv'
<1> SUFFICES ASSUME Sound, OptionsDestroyed
             PROVE  PhoneInv' /\ ListInv'
  OBVIOUS
<1>1. PICK flag \in {1, 2} :
        /\ Handles(Destroyed("options", flag)) /\ inbox' = Tail(inbox)
        /\ jobs' = IF flag = 2 THEN Append(jobs, "write_mail_DB") ELSE jobs
        /\ UNCHANGED <<mails, guis, db, stage, daemon, touched>>
  BY DEF OptionsDestroyed, Reads, viewer, server, count
<1>2. /\ flag = 2 => Range(jobs') = Range(jobs) \cup {"write_mail_DB"}
      /\ flag # 2 => Range(jobs') = Range(jobs)
  BY <1>1, Whole, Posting DEF Job
<1>3. /\ AcceptedFirst' /\ ConnectedFirst' /\ Destroyed("options", flag) \in Range(inbox)
      /\ \A i \in DOMAIN inbox' : inbox'[i] # Ipc("CHECK")
      /\ \A x : x \in Range(inbox') /\ x # Ipc("REFUSED") => x \in Range(inbox)
      /\ \A x : x \in Range(inbox) /\ x # Destroyed("options", flag) => x \in Range(inbox')
  BY <1>1, Told7, ReadOrder
<1>4. /\ \A what \in {"STOP", "ACCEPTED", "CONNECTED", "CLOSED", "FINISHED"} :
           Told(what)' <=> Told(what)
      /\ \A f : Gone("stat", f)' <=> Gone("stat", f)
      /\ Gone("options", 2)' => Gone("options", 2)
      /\ flag = 1 /\ Gone("options", 2) => Gone("options", 2)'
    BY <1>3, Letters DEF Told, Gone
<1>5. flag = 2 => Saving /\ Saving'
  BY <1>2, <1>3 DEF Saving, Gone, Due
<1>6. Saving' <=> Saving
  BY <1>2, <1>4, <1>5 DEF Saving, Due
<1>7. Due("end_connect")' => Due("end_connect")
  BY <1>2 DEF Due
<1>8. PhoneInv'
  BY <1>1, <1>3, <1>4, <1>7, Whole DEF PhoneInv, CheckInv, AcceptedInv, AcceptedAlone, SocketInv
<1>9. Due("write_empty")' => Due("write_empty")
  BY <1>2 DEF Due
<1>10. ListInv'
  BY <1>1, <1>4, <1>6, <1>9, Keeps DEF Open
<1> QED
  BY <1>8, <1>10

LEMMA ConnectedKeeps ==
  Sound /\ Connected =>
    /\ PhoneInv' /\ ListInv'
    /\ stage = "connecting" /\ stage' = "session" /\ Open("list") => daemon' = mails
<1> SUFFICES ASSUME Sound, Connected
             PROVE  /\ PhoneInv' /\ ListInv'
                    /\ stage = "connecting" /\ stage' = "session" /\ Open("list") =>
                         daemon' = mails
  OBVIOUS
<1>1. /\ Handles(Ipc("CONNECTED")) /\ inbox' = Tail(inbox)
      /\ UNCHANGED <<mails, guis, db, touched, jobs>>
      /\ IF stage = "connecting" THEN stage' = "session" /\ daemon' = db
                                 ELSE stage' = stage /\ daemon' = daemon
  BY DEF Connected, Reads, viewer, server, count
<1>2. /\ AcceptedFirst' /\ ConnectedFirst' /\ Ipc("CONNECTED") \in Range(inbox)
      /\ \A i \in DOMAIN inbox' : inbox'[i] # Ipc("CHECK")
      /\ ~Told("CONNECTED")' /\ ~Told("ACCEPTED")
      /\ \A x : x \in Range(inbox') /\ x # Ipc("REFUSED") => x \in Range(inbox)
      /\ \A x : x \in Range(inbox) /\ x # Ipc("CONNECTED") => x \in Range(inbox')
  BY <1>1, Told7, ReadOrder
<1>3. /\ \A what \in {"STOP", "ACCEPTED", "CLOSED", "FINISHED"} : Told(what)' <=> Told(what)
      /\ \A g, f : Gone(g, f)' <=> Gone(g, f)
  BY <1>2, Told7 DEF Told, Gone
<1>4. Told("CONNECTED") /\ stage \in {"connecting", "quit"}
  BY <1>2, Whole DEF SocketInv, Told
<1>5. Saving' <=> Saving
  BY <1>1, <1>3 DEF Saving, Due
<1>6. CASE stage = "connecting"
  <2>1. stage' = "session" /\ daemon' = db /\ ~Told("CLOSED")
    BY <1>1, <1>4, <1>6, Whole DEF SocketInv
  <2>2. PhoneInv'
    BY <1>2, <1>3, <2>1 DEF PhoneInv, CheckInv, AcceptedInv, AcceptedAlone, SocketInv
  <2>3. ActiveInv' /\ ~Saving
    BY <1>1, <1>3, <1>5, <1>6, <2>1, Whole DEF ActiveInv, Active, Due
  <2>4. CoverInv'
    BY <1>1, <1>2, <1>3, <1>6, <2>1, Whole DEF CoverInv, Active, Open
  <2>5. FreshInv' /\ SaveInv' /\ DaemonInv'
    BY <1>1, <1>5, <2>1, <2>3 DEF FreshInv, SaveInv, DaemonInv
  <2>6. Open("list") => daemon' = mails
    BY <1>6, <2>1, FreshWhy
  <2> QED
    BY <2>2, <2>3, <2>4, <2>5, <2>6 DEF ListInv
<1>7. CASE stage = "quit"
  <2>1. stage' = stage /\ daemon' = daemon
    BY <1>1, <1>7
  <2>2. PhoneInv'
    BY <1>2, <1>3, <1>7, <2>1 DEF PhoneInv, CheckInv, AcceptedInv, AcceptedAlone, SocketInv
  <2>3. ListInv'
    BY <1>1, <1>3, <1>5, <2>1, Keeps DEF Open, Due
  <2> QED
    BY <1>7, <2>2, <2>3
<1> QED
  BY <1>4, <1>6, <1>7

LEMMA ClosedKeeps == Sound /\ Closed => PhoneInv' /\ ListInv'
<1> SUFFICES ASSUME Sound, Closed
             PROVE  PhoneInv' /\ ListInv'
  OBVIOUS
<1>1. /\ Handles(Ipc("CLOSED")) /\ inbox' = Tail(inbox) /\ stage' = "idle"
      /\ UNCHANGED <<mails, guis, db, daemon, touched, jobs>>
  BY DEF Closed, Reads, viewer, count
<1>2. /\ AcceptedFirst' /\ ConnectedFirst' /\ Ipc("CLOSED") \in Range(inbox)
      /\ \A i \in DOMAIN inbox' : inbox'[i] # Ipc("CHECK")
      /\ ~Told("CONNECTED")' /\ ~Told("CLOSED")'
      /\ \A x : x \in Range(inbox') /\ x # Ipc("REFUSED") => x \in Range(inbox)
      /\ \A x : x \in Range(inbox) /\ x # Ipc("CLOSED") => x \in Range(inbox')
  BY <1>1, Told7, ReadOrder
<1>3. /\ \A what \in {"STOP", "ACCEPTED", "FINISHED"} : Told(what)' <=> Told(what)
      /\ \A g, f : Gone(g, f)' <=> Gone(g, f)
  BY <1>2, Told7 DEF Told, Gone
<1>4. stage \in {"connecting", "quit"}
  BY <1>2, Whole DEF SocketInv, Told
<1>5. Saving' <=> Saving
  BY <1>1, <1>3 DEF Saving, Due
<1>6. PhoneInv'
  BY <1>1, <1>2, <1>3, Whole
     DEF PhoneInv, CheckInv, AcceptedInv, AcceptedAlone, SocketInv, Due
<1>7. ActiveInv' /\ CoverInv'
  BY <1>1, Whole DEF ActiveInv, CoverInv, Active, Due
<1>8. FreshInv'
  BY <1>1, <1>3, <1>4, <1>5, Whole DEF FreshInv, Open
<1>9. SaveInv' /\ DaemonInv'
  BY <1>1, <1>5, Whole DEF SaveInv, DaemonInv
<1> QED
  BY <1>6, <1>7, <1>8, <1>9 DEF ListInv

LEMMA AcceptedKeeps == Sound /\ Accepted => PhoneInv' /\ ListInv'
<1> SUFFICES ASSUME Sound, Accepted
             PROVE  PhoneInv' /\ ListInv'
  OBVIOUS
<1>1. /\ Handles(Ipc("ACCEPTED"))
      /\ UNCHANGED <<mails, db, stage, daemon, jobs, touched>>
      /\ Open("stat")' \/ \E f \in {1, 2, 3} : Gone("stat", f)
      /\ Open("list")' <=> Open("list")
      /\ inbox' = Tail(inbox) \/ inbox' = Append(Tail(inbox), Destroyed("options", 1))
  BY AcceptedIs DEF Sound, server, count
<1>2. /\ AcceptedFirst' /\ ConnectedFirst'
      /\ \A i \in DOMAIN inbox' : inbox'[i] # Ipc("CHECK")
      /\ \A x : x \in Range(inbox') /\ x # Destroyed("options", 1) => x \in Range(inbox)
      /\ \A x : x \in Range(inbox) /\ x # Ipc("ACCEPTED") => x \in Range(inbox')
      /\ Ipc("ACCEPTED") \in Range(inbox)
  <2>1. Destroyed("options", 1) \in Letter
    BY Letters
  <2> QED
    BY <1>1, <2>1, Told7, ReadOrder
<1>3. /\ \A what \in {"STOP", "CONNECTED", "CLOSED", "FINISHED"} : Told(what)' <=> Told(what)
      /\ Told("ACCEPTED")' => Told("ACCEPTED")
      /\ \A f : Gone("stat", f)' <=> Gone("stat", f)
      /\ Gone("options", 2)' <=> Gone("options", 2)
  BY <1>2, Letters DEF Told, Gone
<1>4. Open("stat")'
  BY <1>1, <1>2, Whole DEF AcceptedInv, AcceptedAlone, Told
<1>5. Saving' <=> Saving
  BY <1>1, <1>3 DEF Saving, Due
<1>6. PhoneInv'
  BY <1>1, <1>2, <1>3, Whole DEF PhoneInv, CheckInv, AcceptedInv, AcceptedAlone, SocketInv, Due
<1>7. ActiveInv' /\ CoverInv'
  BY <1>1, <1>3, <1>4, <1>5, Whole DEF ActiveInv, CoverInv, Active, Due
<1>8. FreshInv' /\ SaveInv' /\ DaemonInv'
  BY <1>1, <1>3, <1>4, <1>5, Whole DEF FreshInv, SaveInv, DaemonInv
<1> QED
  BY <1>6, <1>7, <1>8 DEF ListInv

LEMMA FinishedKeeps == Sound /\ Finished => PhoneInv' /\ ListInv'
<1> SUFFICES ASSUME Sound, Finished
             PROVE  PhoneInv' /\ ListInv'
  OBVIOUS
<1>1. /\ Handles(Ipc("FINISHED"))
      /\ UNCHANGED <<mails, db, stage, daemon, jobs, touched>>
      /\ Open("list")' <=> Open("list")
      /\ \/ /\ Open("list") /\ Open("stat")
            /\ inbox' = Append(Tail(inbox), Destroyed("stat", 2))
         \/ /\ ~Open("list") \/ ~Open("stat")
            /\ inbox' = Tail(inbox)
  BY FinishedIs DEF Sound, server, count
<1>2. /\ AcceptedFirst' /\ ConnectedFirst' /\ Ipc("FINISHED") \in Range(inbox)
      /\ \A i \in DOMAIN inbox' : inbox'[i] # Ipc("CHECK")
      /\ \A x : x \in Range(inbox') /\ x # Destroyed("stat", 2) => x \in Range(inbox)
      /\ \A x : x \in Range(inbox) /\ x # Ipc("FINISHED") => x \in Range(inbox')
  <2>1. Destroyed("stat", 2) \in Letter
    BY Letters
  <2> QED
    BY <1>1, <2>1, Told7, ReadOrder
<1>3. /\ \A what \in {"STOP", "ACCEPTED", "CONNECTED", "CLOSED"} : Told(what)' <=> Told(what)
      /\ Gone("stat", 3)' <=> Gone("stat", 3)
      /\ Gone("stat", 2) => Gone("stat", 2)'
      /\ Gone("options", 2)' <=> Gone("options", 2)
  BY <1>2, Letters DEF Told, Gone
<1>4. Open("list") /\ Open("stat") => Gone("stat", 2)'
  <2>1. ASSUME inbox' = Append(Tail(inbox), Destroyed("stat", 2))
        PROVE  Gone("stat", 2)'
    <3>1. Destroyed("stat", 2) \in Letter
      BY Letters
    <3>2. Range(inbox') = Range(Tail(inbox)) \cup {Destroyed("stat", 2)}
      BY <1>1, <2>1, <3>1, Whole, Reading
    <3> QED
      BY <3>2 DEF Gone
  <2> QED
    BY <1>1, <2>1
<1>5. ~Active /\ ~Told("ACCEPTED")
  BY <1>2, Whole DEF ActiveInv, AcceptedInv, AcceptedAlone, Told
<1>6. Saving' <=> Saving
  BY <1>1, <1>3 DEF Saving, Due
<1>7. PhoneInv'
  BY <1>1, <1>2, <1>3, <1>5, Whole DEF PhoneInv, CheckInv, AcceptedInv, AcceptedAlone, SocketInv, Due
<1>8. ActiveInv' /\ CoverInv'
  BY <1>1, <1>5, Whole DEF ActiveInv, CoverInv, Active, Due
<1>9. FreshInv'
  BY <1>1, <1>3, <1>4, <1>6, Whole DEF FreshInv
<1>10. SaveInv' /\ DaemonInv'
  BY <1>1, <1>6, Whole DEF SaveInv, DaemonInv
<1> QED
  BY <1>7, <1>8, <1>9, <1>10 DEF ListInv

LEMMA StatKeeps == Sound /\ StatDestroyed => PhoneInv' /\ ListInv'
<1> SUFFICES ASSUME Sound, StatDestroyed
             PROVE  PhoneInv' /\ ListInv'
  OBVIOUS
<1>1. PICK flag \in {1, 2, 3} :
        /\ Handles(Destroyed("stat", flag)) /\ inbox' = Tail(inbox)
        /\ flag = 2 /\ Open("list") => mails' = db
        /\ ~(flag = 2 /\ Open("list")) => mails' = mails
        /\ flag = 3 => ~Open("list")'
        /\ flag # 3 => (Open("list")' <=> Open("list"))
        /\ Open("stat")' <=> Open("stat")
        /\ UNCHANGED <<db, stage, daemon, jobs, touched>>
  BY StatDestroyedIs DEF Sound, server, count
<1>2. /\ AcceptedFirst' /\ ConnectedFirst' /\ Destroyed("stat", flag) \in Range(inbox)
      /\ \A i \in DOMAIN inbox' : inbox'[i] # Ipc("CHECK")
      /\ \A x : x \in Range(inbox') /\ x # Ipc("REFUSED") => x \in Range(inbox)
      /\ \A x : x \in Range(inbox) /\ x # Destroyed("stat", flag) => x \in Range(inbox')
  BY <1>1, Told7, ReadOrder
<1>3. /\ \A what \in {"STOP", "ACCEPTED", "CONNECTED", "CLOSED", "FINISHED"} :
           Told(what)' <=> Told(what)
      /\ \A f : Gone("stat", f)' => Gone("stat", f)
      /\ \A f : f # flag => (Gone("stat", f)' <=> Gone("stat", f))
      /\ Gone("options", 2)' <=> Gone("options", 2)
  BY <1>2, Letters DEF Told, Gone
<1>4. flag = 2 => ~Active
  BY <1>2, Whole DEF ActiveInv, Gone
<1>5. Saving' <=> Saving
  BY <1>1, <1>3 DEF Saving, Due
<1>6. PhoneInv'
  BY <1>1, <1>2, <1>3, Whole DEF PhoneInv, CheckInv, AcceptedInv, AcceptedAlone, SocketInv, Due
<1>7. ActiveInv'
  BY <1>1, <1>3, <1>5, Whole DEF ActiveInv, Active, Due
<1>8. CoverInv'
  BY <1>1, <1>3, Whole DEF CoverInv, Active
<1>9. FreshInv'
  BY <1>1, <1>3, <1>5, Whole DEF FreshInv
<1>10. SaveInv' /\ DaemonInv'
  BY <1>1, <1>5, Whole DEF SaveInv, DaemonInv
<1> QED
  BY <1>6, <1>7, <1>8, <1>9, <1>10 DEF ListInv

-----------------------------------------------------------------------------
(* The jobs, the session and the network.                                  *)

\* A check ends, or what is asked to end has not begun.
LEMMA EndKeeps ==
  ASSUME Sound, EndConnect, UNCHANGED <<mails, guis, daemon, touched>>,
         \/ stage \in {"connecting", "session", "listed", "quit"} /\ stage' = "quit"
         \/ stage = "idle" /\ stage' = "idle",
         db' = db \/ stage = "listed", ~Told("ACCEPTED"),
         \/ jobs' = jobs /\ stage' = "quit"
         \/ jobs # <<>> /\ (\A job : job # "end_connect" => (Due(job)' <=> Due(job)))
  PROVE  PhoneInv' /\ ListInv'
<1>1. inbox' = Append(inbox, Ipc("FINISHED"))
  BY DEF EndConnect
<1>2. /\ AcceptedFirst' /\ ConnectedFirst'
      /\ \A i \in DOMAIN inbox' : inbox'[i] = Ipc("CHECK") => i = 1 /\ jobs = <<>>
      /\ Range(inbox') = Range(inbox) \cup {Ipc("FINISHED")}
  BY <1>1, Told7, SendOrder
<1>3. /\ \A what \in {"STOP", "ACCEPTED", "CONNECTED", "CLOSED"} : Told(what)' <=> Told(what)
      /\ \A g, f : Gone(g, f)' <=> Gone(g, f)
      /\ Told("FINISHED")'
  BY <1>2, Told7 DEF Told, Gone
<1>4. \A job : job # "end_connect" => (Due(job)' <=> Due(job))
  BY DEF Due
<1>5. Saving' <=> Saving
  BY <1>3, <1>4 DEF Saving
<1>6. CheckInv'
  BY <1>2 DEF CheckInv
<1>7. AcceptedInv' /\ SocketInv'
  BY <1>2, <1>3, Whole DEF AcceptedInv, AcceptedAlone, SocketInv
<1>8. ActiveInv' /\ CoverInv' /\ DaemonInv'
  BY <1>4, Whole DEF ActiveInv, CoverInv, DaemonInv, Active
<1>9. FreshInv'
  <2>1. (Open("list")' <=> Open("list")) /\ (Open("stat")' <=> Open("stat"))
    BY DEF Open
  <2>2. CASE stage \in {"session", "listed"}
    <3>1. Open("list") => Open("stat") \/ Gone("stat", 3)
      BY <2>2, Whole DEF CoverInv, AcceptedInv, Active
    <3> QED
      BY <1>3, <2>1, <2>2, <3>1 DEF FreshInv
  <2>3. CASE stage \notin {"session", "listed"}
    <3>1. Open("list") => \/ mails = db \/ Saving
                          \/ Told("FINISHED") /\ Open("stat")
                          \/ Gone("stat", 2)
                          \/ Gone("stat", 3)
      BY <2>3, Whole DEF FreshInv
    <3> QED
      BY <1>3, <1>5, <2>1, <2>3, <3>1 DEF FreshInv
  <2> QED
    BY <2>2, <2>3
<1>10. SaveInv'
  BY <1>5, Whole DEF SaveInv, ActiveInv, Active
<1> QED
  BY <1>6, <1>7, <1>8, <1>9, <1>10 DEF PhoneInv, ListInv

\* While there is a job nobody asks for a check.
LEMMA NobodyAsks == Sound /\ jobs # <<>> => \A i \in DOMAIN inbox : inbox[i] # Ipc("CHECK")
  BY Whole DEF CheckInv

LEMMA WriteKeeps ==
  Sound /\ write_mail_DB =>
    PhoneInv' /\ ListInv' /\ Saving /\ db' = mails /\ touched' = touched
<1> SUFFICES ASSUME Sound, write_mail_DB
             PROVE  PhoneInv' /\ ListInv' /\ Saving /\ db' = mails /\ touched' = touched
  OBVIOUS
<1>1. /\ Runs("write_mail_DB") /\ db' = mails
      /\ UNCHANGED <<mails, guis, stage, daemon, inbox, touched>>
  <2>1. ASSUME Runs("write_empty")
        PROVE  FALSE
    BY <2>1, Whole, Running DEF ActiveInv
  <2> QED
    BY <2>1 DEF write_mail_DB, viewer, server, count
<1>2. /\ jobs # <<>> /\ Due("write_mail_DB")
      /\ \A job : Due(job)' => Due(job)
  BY <1>1, Whole, Running DEF Due
<1>3. Saving /\ ~Active
  BY <1>2, Whole DEF Saving, ActiveInv
<1>4. PhoneInv'
  <2>1. CheckInv'
    BY <1>1, <1>2, Whole, NobodyAsks DEF CheckInv, Told
  <2>2. AcceptedInv' /\ SocketInv'
    BY <1>1, <1>2, Whole DEF AcceptedInv, AcceptedFirst, AcceptedAlone, SocketInv, ConnectedFirst,
            Told, Gone
  <2> QED
    BY <2>1, <2>2 DEF PhoneInv
<1>5. ActiveInv' /\ CoverInv' /\ DaemonInv'
  BY <1>1, <1>2, <1>3, Whole DEF ActiveInv, CoverInv, DaemonInv, Active
<1>6. FreshInv' /\ SaveInv'
  BY <1>1 DEF FreshInv, SaveInv
<1> QED
  BY <1>1, <1>3, <1>4, <1>5, <1>6 DEF ListInv

\* A check that is being prepared goes on, or is given up.
LEMMA PreparedKeeps ==
  ASSUME Sound, UNCHANGED <<mails, guis, db, daemon, inbox, touched>>,
         \A job : job # "create_connect" => (Due(job)' <=> Due(job)),
         \/ stage = "asked" /\ stage' \in {"asked", "connecting", "idle"}
         \/ stage' = stage,
         jobs' = jobs \/ jobs # <<>>
  PROVE  PhoneInv' /\ ListInv'
<1>1. /\ \A what : Told(what)' <=> Told(what)
      /\ \A g, f : Gone(g, f)' <=> Gone(g, f)
      /\ Saving' <=> Saving
  BY DEF Told, Gone, Saving, Due
<1>2. CheckInv'
  <2>1. \A i \in DOMAIN inbox' : inbox'[i] = Ipc("CHECK") =>
       i = 1 /\ jobs' = <<>> /\ (stage' \in {"idle", "asked"} => Len(inbox') = 1)
    BY Whole, NobodyAsks DEF CheckInv
  <2>2. stage' = "asked" => stage = "asked"
    OBVIOUS
  <2>3. Due("end_connect")' <=> Due("end_connect")
    OBVIOUS
  <2> QED
    BY <1>1, <2>1, <2>2, <2>3, Whole DEF CheckInv
<1>3. AcceptedInv' /\ SocketInv'
  BY <1>1, Whole DEF AcceptedInv, AcceptedFirst, AcceptedAlone, SocketInv, ConnectedFirst
<1>4. Due("write_empty")' => Due("write_empty")
  OBVIOUS
<1>5. ActiveInv' /\ CoverInv'
  BY <1>1, <1>4, Whole DEF ActiveInv, CoverInv, Active, Open
<1>6. FreshInv'
  <2>1. Open("list")' <=> Open("list")
    BY DEF Open
  <2>2. CASE stage = "asked"
    BY <2>1, <2>2, FreshWhy DEF FreshInv
  <2>3. CASE stage' = stage
    BY <1>1, <2>1, <2>3, Whole DEF FreshInv, Open
  <2> QED
    BY <2>2, <2>3
<1>7. SaveInv' /\ DaemonInv'
  BY <1>1, Whole DEF SaveInv, DaemonInv
<1> QED
  BY <1>2, <1>3, <1>5, <1>6, <1>7 DEF PhoneInv, ListInv

LEMMA JobsKeep == Sound /\ (create_connect \/ end_connect) => PhoneInv' /\ ListInv'
<1> SUFFICES ASSUME Sound, create_connect \/ end_connect
             PROVE  PhoneInv' /\ ListInv'
  OBVIOUS
<1>1. CASE create_connect
  <2>1. /\ Runs("create_connect")
        /\ UNCHANGED <<mails, guis, db, daemon, inbox, touched>>
        /\ \/ stage = "asked" /\ stage' \in {"asked", "connecting", "idle"}
           \/ stage' = stage
    BY <1>1 DEF create_connect, viewer, count
  <2>2. /\ jobs # <<>>
        /\ \A job : job # "create_connect" => (Due(job)' <=> Due(job))
    BY <2>1, Whole, Running DEF Due
  <2> QED
    BY <2>1, <2>2, PreparedKeeps
<1>2. CASE end_connect
  <2>1. /\ Runs("end_connect") /\ EndConnect
        /\ stage' = IF ConnectState = 0 THEN stage ELSE "quit"
        /\ UNCHANGED <<mails, guis, db, daemon, touched>>
    BY <1>2 DEF end_connect, viewer, count
  <2>2. /\ jobs # <<>> /\ Due("end_connect")
        /\ \A job : job # "end_connect" => (Due(job)' <=> Due(job))
    BY <2>1, Whole, Running DEF Due
  <2>3. stage \in Stages /\ stage # "asked" /\ ~Told("ACCEPTED")
    BY <2>2, Whole DEF Types, CheckInv, AcceptedInv, AcceptedAlone
  <2>4. \/ stage \in {"connecting", "session", "listed", "quit"} /\ stage' = "quit"
        \/ stage = "idle" /\ stage' = "idle"
    BY <2>1, <2>3 DEF ConnectState, Stages
  <2> QED
    BY <2>1, <2>2, <2>3, <2>4, EndKeeps
<1> QED
  BY <1>1, <1>2

\* In a session nothing of the viewer is still to be written.
LEMMA SessionAlone ==
  Sound /\ stage \in {"session", "listed"} =>
    ~Saving /\ ~Told("ACCEPTED") /\ ~Told("CONNECTED") /\ ~Told("CLOSED")
  BY Whole DEF ActiveInv, Active, AcceptedInv, AcceptedAlone, SocketInv

\* What a session does to mails.db.
LEMMA SessionKeeps ==
  Sound /\ (Lists \/ Loads \/ Removes \/ Done) =>
    /\ PhoneInv' /\ ListInv'
    /\ IF_DEL_AUX => \A m \in Mail : db[m] = "loaded" => db'[m] = "loaded"
<1> SUFFICES ASSUME Sound, Lists \/ Loads \/ Removes \/ Done
             PROVE  /\ PhoneInv' /\ ListInv'
                    /\ IF_DEL_AUX => \A m \in Mail : db[m] = "loaded" => db'[m] = "loaded"
  OBVIOUS
<1>1. daemon \in [Mail -> States] /\ db \in [Mail -> States]
  BY Whole DEF Types
<1>2. stage \in {"session", "listed"}
  BY DEF Lists, Loads, Removes, Done, InSession
<1>3. UNCHANGED <<mails, guis, touched, jobs>>
  BY DEF Lists, Loads, Removes, Done, viewer, count
<1>4. IF_DEL_AUX => \A m \in Mail : db[m] = "loaded" => daemon[m] = "loaded"
  BY <1>2, Whole DEF DaemonInv
<1>5. ASSUME inbox' = inbox, stage' = "listed",
             IF_DEL_AUX => \A m \in Mail : db'[m] = "loaded" => daemon'[m] = "loaded"
      PROVE  PhoneInv' /\ ListInv'
  <2>1. /\ \A what : Told(what)' <=> Told(what)
        /\ \A g, f : Gone(g, f)' <=> Gone(g, f)
        /\ \A job : Due(job)' <=> Due(job)
        /\ ~Saving'
    BY <1>2, <1>3, <1>5, SessionAlone DEF Told, Gone, Saving, Due
  <2>2. CheckInv' /\ AcceptedInv' /\ SocketInv'
    BY <1>2, <1>3, <1>5, <2>1, SessionAlone, Whole
       DEF CheckInv, AcceptedInv, AcceptedFirst, AcceptedAlone, SocketInv, ConnectedFirst
  <2>3. ActiveInv' /\ CoverInv'
    BY <1>2, <1>3, <1>5, <2>1, Whole DEF ActiveInv, CoverInv, Active, Open
  <2>4. FreshInv' /\ SaveInv' /\ DaemonInv'
    BY <1>5, <2>1 DEF FreshInv, SaveInv, DaemonInv
  <2> QED
    BY <2>2, <2>3, <2>4 DEF PhoneInv, ListInv
<1>6. CASE Lists
  <2>1. PICK new \in SUBSET {m \in Mail : daemon[m] = "none"} :
          daemon' = [m \in Mail |-> IF m \in new THEN Default ELSE daemon[m]]
    BY <1>6 DEF Lists
  <2>2. \A m \in Mail : daemon[m] = "loaded" => daemon'[m] = "loaded"
    BY <2>1
  <2>3. db' = daemon' /\ stage' = "listed" /\ inbox' = inbox
    BY <1>6 DEF Lists
  <2> QED
    BY <1>4, <1>5, <2>2, <2>3
<1>7. CASE Loads
  <2>1. PICK m \in Mail :
          /\ daemon[m] \in {"header", "full"}
          /\ daemon' = [daemon EXCEPT ![m] = IF @ = "full" THEN "loaded" ELSE "hloaded"]
    BY <1>7 DEF Loads
  <2>2. \A n \in Mail : daemon[n] = "loaded" => daemon'[n] = "loaded"
    BY <1>1, <2>1
  <2>3. db' = daemon' /\ stage' = "listed" /\ inbox' = inbox
    BY <1>7 DEF Loads, InSession
  <2> QED
    BY <1>4, <1>5, <2>2, <2>3
<1>8. CASE Removes
  <2>1. PICK m \in Mail :
          /\ daemon[m] = "delete" \/ (daemon[m] # "none" /\ ~IF_DEL_AUX)
          /\ daemon' = [daemon EXCEPT ![m] = "none"]
    BY <1>8 DEF Removes
  <2>2. IF_DEL_AUX => \A n \in Mail : daemon[n] = "loaded" => daemon'[n] = "loaded"
    BY <1>1, <2>1
  <2>3. db' = db /\ stage' = "listed" /\ inbox' = inbox
    BY <1>8 DEF Removes, InSession
  <2> QED
    BY <1>4, <1>5, <2>2, <2>3
<1>9. CASE Done
  <2>1. db' = daemon /\ stage = "listed" /\ stage' = "quit" /\ EndConnect /\ daemon' = daemon
    BY <1>9 DEF Done, InSession
  <2>2. PhoneInv' /\ ListInv'
    BY <1>2, <1>3, <2>1, SessionAlone, EndKeeps
  <2> QED
    BY <1>4, <2>1, <2>2
<1> QED
  BY <1>6, <1>7, <1>8, <1>9

LEMMA NetworkKeeps ==
  Sound /\ (NameFound \/ Connects \/ Closes \/ Fails) => PhoneInv' /\ ListInv'
<1> SUFFICES ASSUME Sound, NameFound \/ Connects \/ Closes \/ Fails
             PROVE  PhoneInv' /\ ListInv'
  OBVIOUS
<1>1. UNCHANGED <<mails, guis, db, daemon, touched, jobs>>
  BY DEF NameFound, Connects, Closes, Fails, viewer, server, count
<1>2. CASE NameFound
  <2>1. /\ stage = "asked" /\ stage' \in {"connecting", "idle"} /\ inbox' = inbox
    BY <1>2 DEF NameFound
  <2>2. \A job : Due(job)' <=> Due(job)
    BY <1>1 DEF Due
  <2> QED
    BY <1>1, <2>1, <2>2, PreparedKeeps
<1>3. CASE Fails
  <2>1. stage \in {"session", "listed"} /\ stage' = "quit" /\ EndConnect
    BY <1>3 DEF Fails, InSession
  <2> QED
    BY <1>1, <2>1, SessionAlone, EndKeeps
<1>4. CASE Connects \/ Closes
  <2>1. PICK what \in {"CONNECTED", "CLOSED"} :
          /\ inbox' = Append(inbox, Ipc(what)) /\ stage' = stage /\ ~Told("CLOSED")
          /\ \/ stage = "connecting" /\ ~Told("CONNECTED")
             \/ stage = "quit" /\ what = "CLOSED"
    BY <1>4 DEF Connects, Closes, server
  <2>2. /\ AcceptedFirst' /\ ConnectedFirst'
        /\ \A i \in DOMAIN inbox' : inbox'[i] = Ipc("CHECK") => i = 1 /\ jobs = <<>>
        /\ Range(inbox') = Range(inbox) \cup {Ipc(what)}
    BY <2>1, Told7, SendOrder
  <2>3. /\ \A x \in {"STOP", "ACCEPTED", "FINISHED"} : Told(x)' <=> Told(x)
        /\ \A g, f : Gone(g, f)' <=> Gone(g, f)
        /\ \A x \in {"CONNECTED", "CLOSED"} : Told(x)' <=> Told(x) \/ x = what
    BY <2>1, <2>2, Told7 DEF Told, Gone
  <2>4. CheckInv' /\ AcceptedInv' /\ SocketInv'
    BY <1>1, <2>1, <2>2, <2>3, Whole
       DEF CheckInv, AcceptedInv, AcceptedAlone, SocketInv, Due
  <2>5. ListInv'
    BY <1>1, <2>1, <2>3, Keeps DEF Open, Saving, Due
  <2> QED
    BY <2>4, <2>5 DEF PhoneInv
<1> QED
  BY <1>2, <1>3, <1>4

-----------------------------------------------------------------------------
(* The theorems.                                                           *)

LEMMA ViewInit == Init => Types /\ ViewInv
<1> SUFFICES ASSUME Init
             PROVE  Types /\ ViewInv
  OBVIOUS
<1>1. /\ guis = <<>> /\ inbox = <<>> /\ jobs = <<>> /\ freed = FALSE /\ stage = "idle"
  BY DEF Init
<1>2. /\ \A g : ~Open(g)
      /\ \A what : ~Told(what)
      /\ \A g, f : ~Gone(g, f)
      /\ \A job : ~Due(job)
      /\ DOMAIN inbox = {}
  BY <1>1, Nothing DEF Open, Told, Gone, Due
<1>3. OptionsInv
  BY <1>1, <1>2 DEF OptionsInv
<1>4. PhoneInv
  BY <1>1, <1>2 DEF PhoneInv, CheckInv, AcceptedInv, AcceptedFirst, AcceptedAlone, SocketInv, ConnectedFirst
<1>5. ListInv
  BY <1>1, <1>2 DEF ListInv, ActiveInv, CoverInv, FreshInv, SaveInv, DaemonInv, Saving, Active
<1> QED
  BY <1>3, <1>4, <1>5, TypesInit DEF ViewInv

\* Nothing that a session needs is lost on an orderly phone.
LEMMA OrderlyStep ==
  ASSUME Types, ViewInv, Next, Orderly'
  PROVE  /\ PhoneInv' /\ ListInv'
         /\ IF_DEL_AUX => \A m \in Mail \ touched' : db[m] = "loaded" => db'[m] = "loaded"
<1>1. Orderly /\ haste' = 0 /\ trouble' = 0
  BY Orders DEF Orderly
<1>2. Sound /\ ShapeInv /\ OptionsInv
  BY <1>1 DEF ViewInv, Sound
<1>3. CASE Keys
  <2>1. Mute \/ Chooses \/ Asks
    BY <1>3 DEF Keys, Mute, Chooses, Marks, Asks
  <2>2. Pressing
    BY <1>1, <1>2, <2>1, KeysPress
  <2>3. PhoneInv' /\ ListInv'
    BY <1>2, <2>2, PressingKeeps DEF Sound
  <2> QED
    BY <2>2, <2>3 DEF Pressing
<1>4. CASE Messages
  <2>1. PhoneInv' /\ ListInv'
    BY <1>2, <1>4, CheckKeeps, StopKeeps, AcceptedKeeps, RefusedKeeps, FinishedKeeps,
       OptionsKeeps, StatKeeps, ConnectedKeeps, ClosedKeeps DEF Messages
  <2>2. db' = db
    BY <1>4 DEF Messages, CheckMailbox, StopChecking, Accepted, Refused, Finished,
                OptionsDestroyed, StatDestroyed, Connected, Closed
  <2> QED
    BY <2>1, <2>2
<1>5. CASE Jobs
  <2>1. CASE write_mail_DB
    <3>1. /\ PhoneInv' /\ ListInv' /\ Saving /\ db' = mails /\ touched' = touched
      BY <1>2, <2>1, WriteKeeps
    <3>2. \A m \in Mail \ touched : mails[m] = db[m]
      BY <1>2, <3>1, Whole DEF SaveInv
    <3> QED
      BY <3>1, <3>2
  <2>2. CASE create_connect \/ end_connect
    <3>1. PhoneInv' /\ ListInv'
      BY <1>2, <2>2, JobsKeep
    <3>2. db' = db
      BY <2>2 DEF create_connect, end_connect
    <3> QED
      BY <3>1, <3>2
  <2> QED
    BY <1>5, <2>1, <2>2 DEF Jobs
<1>6. CASE Session
  BY <1>2, <1>6, SessionKeeps DEF Session
<1>7. CASE Network
  <2>1. PhoneInv' /\ ListInv'
    BY <1>2, <1>7, NetworkKeeps DEF Network
  <2>2. db' = db
    BY <1>7 DEF Network, NameFound, Connects, Closes, Fails
  <2> QED
    BY <2>1, <2>2
<1>8. CASE Trouble
  <2>1. trouble \in Nat /\ trouble' = trouble + 1
    BY <1>8 DEF Trouble, Types
  <2> QED
    BY <1>1, <2>1
<1> QED
  BY <1>3, <1>4, <1>5, <1>6, <1>7, <1>8 DEF Next

LEMMA ViewStep == Types /\ ViewInv /\ [Next]_vars => Types' /\ ViewInv'
<1> SUFFICES ASSUME Types, ViewInv, [Next]_vars
             PROVE  Types' /\ ViewInv'
  OBVIOUS
<1>1. ShapeInv /\ OptionsInv
  BY DEF ViewInv
<1>2. Types' /\ ShapeInv' /\ OptionsInv'
  BY <1>1, TypesStep, OptionsStep
<1>3. Orderly' => PhoneInv' /\ ListInv'
  <2>1. CASE Next
    BY <2>1, OrderlyStep
  <2>2. CASE UNCHANGED vars
    <3>1. Orderly' => PhoneInv /\ ListInv
      BY <2>2 DEF ViewInv, Orderly, vars
    <3>2. PhoneInv => PhoneInv'
      BY <2>2 DEF PhoneInv, CheckInv, AcceptedInv, AcceptedFirst, AcceptedAlone, SocketInv,
                  ConnectedFirst, Told, Gone, Due, vars, server
    <3>3. ListInv => ListInv'
      BY <2>2 DEF ListInv, ActiveInv, CoverInv, FreshInv, SaveInv, DaemonInv, Saving, Active,
                  Told, Due, Gone, Open, vars, viewer, server, count
    <3> QED
      BY <3>1, <3>2, <3>3
  <2> QED
    BY <2>1, <2>2
<1> QED
  BY <1>2, <1>3 DEF ViewInv

LEMMA FreshIs == Types /\ ViewInv => ListFresh
<1> SUFFICES ASSUME Types, ViewInv, Orderly, Top = "list", inbox = <<>>, jobs = <<>>
             PROVE  mails = db
  BY DEF ListFresh
<1>1. Sound
  BY DEF ViewInv, Sound
<1>2. Open("list") /\ ~Open("stat")
  BY <1>1, InFront DEF Sound, Screens, Types, Guis
<1>3. /\ \A what : ~Told(what)
      /\ \A g, f : ~Gone(g, f)
      /\ ~Saving
  BY Nothing DEF Told, Gone, Saving, Due
<1>4. ~Active
  BY <1>1, <1>2, <1>3, Whole DEF CoverInv
<1> QED
  BY <1>1, <1>2, <1>3, <1>4, Whole DEF FreshInv, Active

LEMMA MarksAre ==
  ASSUME Types, ViewInv, Next, Orderly, stage = "connecting", stage' = "session", Open("list")
  PROVE  daemon' = mails
<1>1. Sound
  BY DEF ViewInv, Sound
<1>2. ASSUME ~Connected
      PROVE  FALSE
  <2>1. CASE Keys
    <3>1. Mute \/ Chooses \/ Asks
      BY <2>1 DEF Keys, Mute, Chooses, Marks, Asks
    <3>2. stage' = stage
      BY <1>1, <3>1, MuteTypes, ChoosesIs, AsksIs DEF Sound, server
    <3> QED
      BY <3>2
  <2>2. CASE Messages
    BY <1>2, <2>2 DEF Messages, CheckMailbox, StopChecking, Accepted, Refused, Finished,
                      OptionsDestroyed, StatDestroyed, Closed, server
  <2>3. CASE Jobs
    BY <2>3 DEF Jobs, write_mail_DB, create_connect, end_connect, server
  <2>4. CASE Session \/ Network \/ Trouble
    BY <2>4 DEF Session, Network, Trouble, Lists, Loads, Removes, Done, NameFound, Connects,
                Closes, Fails, Lost, ChecksItself, InSession, server
  <2> QED
    BY <2>1, <2>2, <2>3, <2>4 DEF Next
<1> QED
  BY <1>1, <1>2, ConnectedKeeps

\* What the user sees in the list, with nothing on its way, is what mails.db says,
\* for any number of mails, keys and sessions.
THEOREM ListFreshAlways == Spec => []ListFresh
<1>1. Types /\ ViewInv => ListFresh
  BY FreshIs
<1> QED
  BY <1>1, ViewInit, ViewStep, PTL DEF Spec

\* The viewer does not write over what a session has written: a mail that is loaded
\* stays so unless the user changes it.
THEOREM LoadedStaysAlways == Spec => LoadedStays
<1>1. Types /\ ViewInv /\ [Next]_vars =>
        [Orderly' /\ IF_DEL_AUX =>
           \A m \in Mail \ touched' : db[m] = "loaded" => db'[m] = "loaded"]_vars
  BY OrderlyStep
<1> QED
  BY <1>1, ViewInit, ViewStep, PTL DEF Spec, LoadedStays

\* A session begins with the marks that the user sees in the list.
THEOREM MarksReachAlways == Spec => MarksReach
<1>1. Types /\ ViewInv /\ [Next]_vars =>
        [Orderly /\ stage = "connecting" /\ stage' = "session" /\ Open("list") =>
           daemon' = mails]_vars
  BY MarksAre
<1> QED
  BY <1>1, ViewInit, ViewStep, PTL DEF Spec, MarksReach
=============================================================================
