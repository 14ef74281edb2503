---------------------------- MODULE MailHeaders ----------------------------
(***************************************************************************)
(* InitHeaders of ARM/MailClient/MailViewer, with what it calls: the       *)
(* headers of the mails are read, the date in each becomes seconds since   *)
(* 1970, and the list of mails, linked by next, is brought into the order  *)
(* in which it is shown, the newest mail first.  When a mail is opened,    *)
(* PrintTimeDate makes a text of its dates again, in the time zone of the  *)
(* phone.                                                                  *)
(*                                                                         *)
(* The sort is done in passes over the list that swap neighbours, until a  *)
(* pass has swapped nothing.  Both the beginning of a pass and the step    *)
(* after a swap at the end of the list read the next of a null pointer.    *)
(* The phone has something at that address: the read gives any pointer.    *)
(*                                                                         *)
(* The mails are numbered as InitMailDB has read them.  The text of a date *)
(* is the record of its numbers.  Minutes and seconds only add to the      *)
(* seconds, and are left out: time is counted in hours, and 32 bits of     *)
(* seconds are enough for the years of ShownYears.                         *)
(***************************************************************************)
EXTENDS Integers, Functions

CONSTANTS
  MaxMails,             \* bound: mails in the list
  Years, Days, Hours,   \* what the date of a mail alone in the list is made of
  East, West,           \* time zones: the hours after the "+" or the "-"
  Sample,               \* dates for the mails of longer lists
  Null                  \* the null pointer; a mail without a date

ASSUME MailsAssumption == MaxMails \in Nat /\ Null \notin Int
ASSUME DateAssumption ==
  Years \subseteq 2000..2099 /\ Days \subseteq 1..31 /\ Hours \subseteq 0..23
ASSUME ZoneAssumption == East \subseteq 0..14 /\ West \subseteq 1..12

VARIABLES
  n,        \* mails in the list
  received, \* the date of the last "Received:" of each mail, or Null
  date,     \* its "Date:", or Null
  stamp,    \* its timestamp
  link,     \* next: of the list, and of each mail
  prev, ml_cur, nxt,    \* the pointers of a pass
  flag,     \* the pass has swapped something
  pc,       \* "read" the headers, "pass" a pass may begin, "walk" inside of it, "done"
  here,     \* the time zone that the phone is set to
  shown     \* the date that is displayed, with the text it was made of

mails == <<n, received, date, here>>
sort  == <<link, prev, ml_cur, nxt, flag>>
vars  == <<mails, sort, stamp, pc, shown>>

\* (ML_VIEW *)&mails
ListHead == 0
Mails == 1..n

-----------------------------------------------------------------------------
(* The calendar, as a reference.                                           *)

Date(year, month, day, hour) ==
  [year |-> year, month |-> month, day |-> day, hour |-> hour]

IsLeap(year) == year % 4 = 0 /\ (year % 100 # 0 \/ year % 400 = 0)

MonthDays(year, month) ==
  CASE month = 2 -> IF IsLeap(year) THEN 29 ELSE 28
    [] month \in {4, 6, 9, 11} -> 30
    [] OTHER -> 31

IsDate(d) == /\ d.month \in 1..12 /\ d.day \in 1..MonthDays(d.year, d.month)
             /\ d.hour \in 0..23

\* The days before a year, from 1970, and before a month; the hours before a date.
DaysTo[year \in 1970..2100] ==
  IF year = 1970 THEN 0 ELSE DaysTo[year - 1] + (IF IsLeap(year - 1) THEN 366 ELSE 365)

MonthsTo(year, month) ==
  LET M[k \in 1..12] == IF k = 1 THEN 0 ELSE M[k - 1] + MonthDays(year, k - 1)
  IN  M[month]

Elapsed(d) == 24 * (DaysTo[d.year] + MonthsTo(d.year, d.month) + d.day - 1) + d.hour

-----------------------------------------------------------------------------
(* The date in a header becomes a timestamp.                               *)

\* x & 3, x >> 2, !x
Low(x) == x % 4
Quarter(x) == x \div 4
Not(x) == IF x = 0 THEN 1 ELSE 0

\* day_tab of get_date_from_str, and of tdiff.
DayTab(year, month) ==
  <<31, IF Low(year) # 0 THEN 28 ELSE 29, 31, 30, 31, 30, 31, 31, 30, 31, 30, 31>>[month]
DaysBefore(year, month) ==
  <<0, 31, 59, 90, 120, 151, 181, 212, 243, 273, 304, 334>>[month]
    + (IF Low(year) = 0 /\ month > 2 THEN 1 ELSE 0)

\* The leap day is counted from the beginning of its year.
tdiffEarly(d) ==
  LET a4 == Quarter(d.year) + Quarter(1900)
      b4 == Quarter(1970) + Quarter(1900) - Not(Low(1970))
  IN  24 * (365 * (d.year - 1970) + (a4 - b4) + DaysBefore(d.year, d.month) + d.day - 1)
      + d.hour

tdiff(d) ==
  LET a4 == Quarter(d.year) + Quarter(1900) - Not(Low(d.year))
      b4 == Quarter(1970) + Quarter(1900) - Not(Low(1970))
  IN  24 * (365 * (d.year - 1970) + (a4 - b4) + DaysBefore(d.year, d.month) + d.day - 1)
      + d.hour

\* "+": the date may become that of the day before.
Eastern(d, cor) ==
  LET early == d.hour - cor < 0
      day   == IF early THEN d.day - 1 ELSE d.day
      hour  == IF early THEN d.hour - cor + 24 ELSE d.hour - cor
  IN  CASE day # 0 -> Date(d.year, d.month, day, hour)
        [] day = 0 /\ d.month = 1 -> Date(d.year - 1, 12, 31, hour)
        [] OTHER -> Date(d.year, d.month - 1, DayTab(d.year, d.month - 1), hour)

\* "-": the date may become that of the day after.  Hour 24 is left as it is.
Western(d, cor) ==
  LET late == d.hour + cor > 24
      day  == IF late THEN d.day + 1 ELSE d.day
      hour == IF late THEN d.hour + cor - 24 ELSE d.hour + cor
  IN  CASE day <= DayTab(d.year, d.month) -> Date(d.year, d.month, day, hour)
        [] day > DayTab(d.year, d.month) /\ d.month = 12 -> Date(d.year + 1, 1, 1, hour)
        [] OTHER -> Date(d.year, d.month + 1, 1, hour)

AtGreenwich(d, zone) == IF zone >= 0 THEN Eastern(d, zone) ELSE Western(d, -zone)

\* get_date_from_str.
Seconds(text) == tdiff(AtGreenwich(text.date, text.zone))

\* "Date:" is looked at only when there is no "Received:".
ReadsHeader ==
  /\ pc = "read" /\ ml_cur # Null
  /\ stamp' = [stamp EXCEPT ![ml_cur] =
                 CASE received[ml_cur] # Null -> Seconds(received[ml_cur])
                   [] received[ml_cur] = Null /\ date[ml_cur] # Null -> Seconds(date[ml_cur])
                   [] OTHER -> 0]
  /\ ml_cur' = link[ml_cur]
  /\ UNCHANGED <<mails, link, prev, nxt, flag, pc, shown>>

HeadersRead ==
  /\ pc = "read" /\ ml_cur = Null
  /\ pc' = "pass"
  /\ UNCHANGED <<mails, sort, stamp, shown>>

-----------------------------------------------------------------------------
(* The sort.                                                               *)

\* What reading the next of p may give in the list l.
NextOf(l, p) == IF p = Null THEN 0..MaxMails \cup {Null} ELSE {l[p]}

PassBegins ==
  /\ pc = "pass" /\ flag
  /\ flag' = FALSE
  /\ prev' = ListHead /\ ml_cur' = link[ListHead]
  /\ nxt' \in NextOf(link, ml_cur')
  /\ pc' = "walk"
  /\ UNCHANGED <<mails, link, stamp, shown>>

\* A mail goes behind one that is not older either.
NotNewer(m, k) == stamp[m] <= stamp[k]

Older(m, k) == stamp[m] < stamp[k]

\* The mail before the two is left pointing to the one that goes back.
SwapsTwo == [link EXCEPT ![ml_cur] = link[nxt], ![nxt] = ml_cur]

Swapped == [link EXCEPT ![prev] = link[ml_cur], ![ml_cur] = link[nxt], ![nxt] = ml_cur]

Advances ==
  /\ prev' = ml_cur
  /\ ml_cur' = link'[ml_cur]
  /\ nxt' \in NextOf(link', ml_cur')

\* The swap is not noted.
WalkForgets ==
  /\ pc = "walk" /\ ml_cur # Null /\ nxt # Null
  /\ link' = IF Older(ml_cur, nxt) THEN Swapped ELSE link
  /\ Advances
  /\ UNCHANGED <<mails, flag, stamp, pc, shown>>

\* One turn of the inner loop.
Walk ==
  /\ pc = "walk" /\ ml_cur # Null /\ nxt # Null
  /\ link' = IF Older(ml_cur, nxt) THEN Swapped ELSE link
  /\ flag' = (flag \/ Older(ml_cur, nxt))
  /\ Advances
  /\ UNCHANGED <<mails, stamp, pc, shown>>

WalkEnds ==
  /\ pc = "walk" /\ (ml_cur = Null \/ nxt = Null)
  /\ pc' = "pass"
  /\ UNCHANGED <<mails, sort, stamp, shown>>

Done ==
  /\ pc = "pass" /\ ~flag
  /\ pc' = "done"
  /\ UNCHANGED <<mails, sort, stamp, shown>>

-----------------------------------------------------------------------------
(* The dates in the view of a mail.                                        *)

\* 2000-01-01: 946684800 seconds.
Y2000 == 262968

Quad == 4*365 + 1

\* The month and the day of a day of the year.
Month(day) ==
  LET DMonth == <<0, 31, 59, 90, 120, 151, 181, 212, 243, 273, 304, 334, 365>>
      mon == CHOOSE m \in 1..12 : DMonth[m] <= day /\ day < DMonth[m + 1]
  IN  <<mon, day - DMonth[mon]>>

\* The 29th of February is counted as the 28th first.
LeapDay(day4) == IF day4 = 31 + 28 THEN 1 ELSE 0

Civil(hours) ==
  LET x    == hours - Y2000
      iday == x \div 24
      day4 == iday % Quad
      day  == IF day4 >= 31 + 28 THEN day4 - 1 ELSE day4
      yrs  == 4 * (iday \div Quad) + day \div 365
      m    == Month(day % 365)
  IN  Date(2000 + (IF yrs > 99 THEN 0 ELSE yrs), m[1], m[2] + LeapDay(day4) + 1, x % 24)

\* PrintTimeDate, of what get_date_from_str makes of a date of the mail once more.
\* GetTimeZoneShift gives what the phone is set to.
Displays ==
  /\ pc = "done" /\ shown = {}
  /\ \E m \in Mails : \E text \in {received[m], date[m]} \ {Null} :
       shown' = {[text |-> text, as |-> Civil(Seconds(text) + here)]}
  /\ UNCHANGED <<mails, sort, stamp, pc>>

-----------------------------------------------------------------------------
Dates == {d \in [year : Years, month : 1..12, day : Days, hour : Hours] : IsDate(d)}
Zones == East \cup {-h : h \in West}

\* The phone has no year but these.
ShownYears == 2000..2099

\* When the mail was sent, and the hours that a clock in a time zone shows then.
Moment(text) == Elapsed(text.date) - text.zone
Representable(hours) ==
  hours \in Y2000..Elapsed(Date(2099, 12, 31, 23))

Texts == {text \in [date : Dates, zone : Zones] : Representable(Moment(text))}

ASSUME SampleAssumption ==
  \A text \in Sample :
    /\ text \in [date : [year : ShownYears, month : 1..12, day : 1..31, hour : 0..23],
                 zone : -12..14]
    /\ IsDate(text.date) /\ Representable(Moment(text))

\* A mail alone in the list has any date; in longer lists the order matters.
Init ==
  /\ n \in 0..MaxMails
  /\ date \in [Mails -> {Null} \cup IF n = 1 THEN Texts ELSE Sample]
  /\ received \in [Mails -> {Null} \cup IF n = 1 THEN {} ELSE Sample]
  /\ here \in IF n = 1 THEN Zones ELSE {0}
  /\ \A m \in Mails : date[m] # Null => Representable(Moment(date[m]) + here)
  /\ stamp = [m \in Mails |-> 0]
  /\ link = [m \in 0..n |-> IF m = n THEN Null ELSE m + 1]
  /\ prev = Null /\ ml_cur = link[ListHead] /\ nxt = Null
  /\ flag = TRUE /\ pc = "read" /\ shown = {}

Next ==
  \/ ReadsHeader \/ HeadersRead
  \/ PassBegins \/ Walk \/ WalkEnds \/ Done
  \/ Displays

Spec == Init /\ [][Next]_vars /\ WF_vars(Next)

-----------------------------------------------------------------------------
\* The mails in the order of the list, as far as it goes.
Shown ==
  LET At[k \in 0..n] ==
        IF k = 0 THEN ListHead ELSE IF At[k - 1] = Null THEN Null ELSE link[At[k - 1]]
  IN  [k \in Mails |-> At[k]]

\* No mail is dropped from the list, or put into it twice, at any moment of the
\* sorting (main.c:737-739), whatever the null pointer gives: the memory of a
\* mail that is not in the list is never given back.
NothingLost ==
  /\ Range(Shown) = Mails
  /\ \A m \in 0..n : link[m] = Null => m = (IF n = 0 THEN ListHead ELSE Shown[n])

\* When a mail came, or was sent: 0 if nothing says so.
When(m) ==
  CASE received[m] # Null -> Moment(received[m])
    [] received[m] = Null /\ date[m] # Null -> Moment(date[m])
    [] OTHER -> 0

\* In the end the mails are shown newest first, in whatever time zones they were
\* written, and those of the same moment, or without a date, in the order of the
\* server (main.c:725-746).
Sorted ==
  pc = "done" =>
    \A i, j \in Mails : i < j =>
      \/ When(Shown[i]) > When(Shown[j])
      \/ When(Shown[i]) = When(Shown[j]) /\ Shown[i] < Shown[j]

\* The passes come to an end (main.c:725): the MMI process, which reads the list,
\* is not held for ever by mails with the same timestamp.
SortEnds == <>(pc = "done")

\* The timestamp is the moment at which the mail was sent, whatever time zone its
\* date is written in (get_date_from_str, main.c:474-602), and what is shown is
\* that moment in the time zone of the phone, up to 2099 (PrintTimeDate,
\* main.c:2016-2075): over the ends of days, months and years and the 29th of
\* February, which the tables of the code do not have.
DatesTrue ==
  /\ pc = "done" => \A m \in Mails : stamp[m] = When(m)
  /\ \A s \in shown : IsDate(s.as) /\ Elapsed(s.as) = Moment(s.text) + here
=============================================================================
