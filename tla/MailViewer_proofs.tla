------------------------- MODULE MailViewer_proofs --------------------------
(***************************************************************************)
(* The sort of the list of mails and the dates it goes by, for any number  *)
(* of mails and any dates of the years of the phone: no mail is lost, the  *)
(* newest is the first in the end, and a timestamp is the moment that the  *)
(* date of the mail names, as is what is shown of it.                      *)
(*                                                                         *)
(* The dates do not need the state.  The days that tdiff counts before a   *)
(* year and a month are those of the calendar (DaysToIs, MonthsToIs); the  *)
(* hour, day, month or year that get_date_from_str borrows or carries for  *)
(* a time zone leaves the sum as it is (EasternTrue, WesternTrue), and     *)
(* PrintTimeDate is the inverse (CivilTrue).                               *)
(*                                                                         *)
(* The sort needs an invariant (HeadersInv): there is an order of all the  *)
(* mails that the links stand for, in every state (IsList), in which the   *)
(* mails of one moment are as the server had them (IsStable); the three    *)
(* pointers of a pass are at neighbours of it (Stands); and while the pass *)
(* has swapped nothing, all before ml_cur are in order (Falls).            *)
(*                                                                         *)
(* What the list shows of a header: unmime_header of MailMime reads up to  *)
(* the next encoded word in every step, so what has been read ends with    *)
(* one, and all of it is in outbuf (UnmimeInv).                            *)
(*                                                                         *)
(* Last, the parts of a mail, for trees of any size.  The lines of a mail  *)
(* are laid out as its tree says (IsLaid), and what ParseMailBody finds in *)
(* them does not need the tree any more (IsMail).  Its list is the mail    *)
(* itself and what it cuts out behind each place that it has come by, none *)
(* of them twice (ParseInv); in the end it has come by all of them, and    *)
(* they are counted.                                                       *)
(***************************************************************************)
EXTENDS MailHeaders, MailMime, SequenceTheorems, FiniteSetTheorems,
        WellFoundedInduction, TLAPS

-----------------------------------------------------------------------------
(* The tables of the months.                                               *)

\* In the years of the phone every fourth is a leap year.
LEMMA Leap ==
  ASSUME NEW y \in Int, 1970 <= y, y <= 2099
  PROVE  IsLeap(y) <=> y % 4 = 0
  BY DEF IsLeap

LEMMA MonthDaysAre ==
  ASSUME NEW year \in Int, NEW m \in Int, 1970 <= year, year <= 2099, 1 <= m, m <= 12
  PROVE  /\ MonthDays(year, m) \in 28..31
         /\ m = 2 => MonthDays(year, m) = IF year % 4 = 0 THEN 29 ELSE 28
         /\ m \in {4, 6, 9, 11} => MonthDays(year, m) = 30
         /\ m \in {1, 3, 5, 7, 8, 10, 12} => MonthDays(year, m) = 31
<1>1. CASE m = 2
  <2>1. MonthDays(year, m) = IF IsLeap(year) THEN 29 ELSE 28
    BY <1>1 DEF MonthDays, IsLeap
  <2> QED
    BY <1>1, <2>1, Leap
<1>2. CASE m \in {4, 6, 9, 11}
  <2>1. MonthDays(year, m) = 30
    BY <1>2 DEF MonthDays
  <2> QED
    BY <1>2, <2>1
<1>3. CASE m \in {1, 3, 5, 7, 8, 10, 12}
  <2>1. MonthDays(year, m) = 31
    BY <1>3 DEF MonthDays
  <2> QED
    BY <1>3, <2>1
<1> QED
  BY <1>1, <1>2, <1>3

\* day_tab of get_date_from_str is the calendar.
LEMMA DayTabIs ==
  ASSUME NEW year \in Int, NEW m \in Int, 1970 <= year, year <= 2099, 1 <= m, m <= 12
  PROVE  DayTab(year, m) = MonthDays(year, m)
<1>1. DayTab(year, m) = CASE m = 2 -> (IF year % 4 = 0 THEN 29 ELSE 28)
         [] m \in {4, 6, 9, 11} -> 30 [] OTHER -> 31
  BY DEF DayTab, Low
<1> QED
  BY <1>1, MonthDaysAre

\* day_tab of tdiff is, too.
LEMMA DaysBeforeNext ==
  ASSUME NEW year \in Int, NEW m \in Int, NEW k \in Int, 1970 <= year, year <= 2099, 1 <= m,
         m <= 12, 1 <= k, k <= 12, k = m + 1
  PROVE  DaysBefore(year, k) = DaysBefore(year, m) + MonthDays(year, m)
<1>1. DayTab(year, m) = MonthDays(year, m)
  BY DayTabIs
<1>2. DaysBefore(year, k) = DaysBefore(year, m) + DayTab(year, m)
  BY DEF DaysBefore, DayTab, Low
<1> QED
  BY <1>1, <1>2

\* What MonthsTo is by its recursion.
LEMMA MonthsToFrom ==
  ASSUME NEW year, NEW T,
         T = [k \in 1..12 |-> IF k = 1 THEN 0 ELSE T[k - 1] + MonthDays(year, k - 1)]
  PROVE  /\ MonthsTo(year, 1) = 0
         /\ \A m \in 1..12 : m # 1 =>
              MonthsTo(year, m) = MonthsTo(year, m - 1) + MonthDays(year, m - 1)
<1> DEFINE M == CHOOSE M : M = [k \in 1..12 |->
                  IF k = 1 THEN 0 ELSE M[k - 1] + MonthDays(year, k - 1)]
<1>1. M = [k \in 1..12 |-> IF k = 1 THEN 0 ELSE M[k - 1] + MonthDays(year, k - 1)]
  BY Zenon
<1>2. ASSUME NEW m \in Int, 1 <= m, m <= 12
      PROVE  MonthsTo(year, m) = M[m]
  BY DEF MonthsTo
<1>3. \A m \in 1..12 : m # 1 => m - 1 \in 1..12
  OBVIOUS
<1>4. PICK f : f = M
  OBVIOUS
<1> HIDE DEF M
<1>5. f[1] = 0 /\ \A k \in 1..12 : k # 1 => f[k] = f[k - 1] + MonthDays(year, k - 1)
  BY <1>1, <1>4
<1>6. \A m \in 1..12 : MonthsTo(year, m) = f[m]
  BY <1>2, <1>4
<1> QED
  BY <1>3, <1>5, <1>6

LEMMA MonthsToIs ==
  ASSUME NEW year \in Int, 1970 <= year, year <= 2099
  PROVE  \A m \in 1..12 : MonthsTo(year, m) = DaysBefore(year, m)
<1> DEFINE T == [k \in 1..12 |-> DaysBefore(year, k)]
<1>1. \A k \in 1..12 : k # 1 => k - 1 \in 1..12
  OBVIOUS
<1>2. ASSUME NEW k \in Int, 1 <= k, k <= 12, k # 1
      PROVE  DaysBefore(year, k) = DaysBefore(year, k - 1) + MonthDays(year, k - 1)
  <2>1. PICK j \in Int : 1 <= j /\ j <= 12 /\ j = k - 1 /\ k = j + 1
    BY <1>2
  <2>2. DaysBefore(year, k) = DaysBefore(year, j) + MonthDays(year, j)
    BY <1>2, <2>1, DaysBeforeNext
  <2> QED
    BY <2>1, <2>2
<1>3. DaysBefore(year, 1) = 0
  BY DEF DaysBefore, Low
<1>4. T = [k \in 1..12 |-> IF k = 1 THEN 0 ELSE T[k - 1] + MonthDays(year, k - 1)]
  BY <1>1, <1>2, <1>3
<1>5. /\ MonthsTo(year, 1) = 0
      /\ \A m \in 1..12 : m # 1 =>
           MonthsTo(year, m) = MonthsTo(year, m - 1) + MonthDays(year, m - 1)
  <2> HIDE DEF T
  <2> QED
    BY <1>4, MonthsToFrom
<1>6. \A k \in 1..11 : MonthsTo(year, k) = DaysBefore(year, k)
                         => MonthsTo(year, k + 1) = DaysBefore(year, k + 1)
  <2> TAKE k \in 1..11
  <2>1. PICK m \in 1..12 : m = k + 1 /\ m # 1 /\ m - 1 = k
    OBVIOUS
  <2> QED
    BY <1>2, <1>5, <2>1
<1> HIDE DEF T
<1>7. \A k \in 1..4 : MonthsTo(year, k) = DaysBefore(year, k)
  BY <1>3, <1>5, <1>6
<1>8. \A k \in 4..8 : MonthsTo(year, k) = DaysBefore(year, k)
  BY <1>7, <1>6
<1>9. \A k \in 8..12 : MonthsTo(year, k) = DaysBefore(year, k)
  BY <1>8, <1>6
<1> QED
  BY <1>7, <1>8, <1>9

-----------------------------------------------------------------------------
(* The days before a year.                                                 *)

\* A set of numbers has a least one.
LEMMA Least ==
  ASSUME NEW S \in SUBSET Nat, S # {}
  PROVE  \E m \in S : \A k \in S : m <= k
<1>1. IsWellFoundedOn(OpToRel(<,Nat), Nat)
  BY NatLessThanWellFounded
<1>2. PICK R : R = OpToRel(<, Nat)
  OBVIOUS
<1>3. \A x, y \in Nat : <<y, x>> \in R <=> y < x
  BY <1>2 DEF OpToRel
<1>4. \E m \in S : \A k \in S : ~(<<k, m>> \in R)
  BY <1>1, <1>2, WFMin
<1>5. PICK m \in S : \A k \in S : ~(<<k, m>> \in R)
  BY <1>4
<1>6. \A k \in S : k \in Nat
  OBVIOUS
<1>7. ASSUME NEW k \in S
      PROVE  m <= k
  <2>1. ~(<<k, m>> \in R)
    BY <1>5
  <2>2. m \in Nat /\ k \in Nat
    BY <1>6
  <2>3. ~(k < m)
    BY <2>1, <2>2, <1>3
  <2> QED
    BY <2>2, <2>3
<1> QED
  BY <1>5, <1>7

\* The days before a year.
Before(year) == 365 * (year - 1970) + ((year - 1) \div 4) - 492

LEMMA BeforeNext ==
  ASSUME NEW y \in Int
  PROVE  Before(y + 1) = Before(y) + 365 + (IF y % 4 = 0 THEN 1 ELSE 0)
<1>1. ((y + 1) - 1) \div 4 = ((y - 1) \div 4) + (IF y % 4 = 0 THEN 1 ELSE 0)
  OBVIOUS
<1> QED
  BY <1>1 DEF Before

\* What DaysTo is by its recursion.
LEMMA DaysToFrom ==
  /\ DaysTo[1970] = 0
  /\ \A y \in 1970..2099 : DaysTo[y + 1] = DaysTo[y] + (IF IsLeap(y) THEN 366 ELSE 365)
<1> DEFINE T == [y \in 1970..2100 |-> Before(y)]
<1>1. \A y \in 1971..2100 : Before(y) = Before(y - 1) + (IF IsLeap(y - 1) THEN 366 ELSE 365)
  <2> TAKE y \in 1971..2100
  <2>1. PICK k \in 1970..2099 : y = k + 1 /\ k = y - 1
    OBVIOUS
  <2>2. IsLeap(k) <=> k % 4 = 0
    BY Leap
  <2>3. Before(k + 1) = Before(k) + 365 + (IF k % 4 = 0 THEN 1 ELSE 0)
    BY BeforeNext
  <2>4. Before(k) \in Int
    BY DEF Before
  <2> QED
    BY <2>1, <2>2, <2>3, <2>4
<1>2. Before(1970) = 0
  BY DEF Before
<1>3. T = [y \in 1970..2100 |->
             IF y = 1970 THEN 0 ELSE T[y - 1] + (IF IsLeap(y - 1) THEN 366 ELSE 365)]
  <2>1. \A y \in 1970..2100 : y # 1970 => y \in 1971..2100 /\ y - 1 \in 1970..2100
    OBVIOUS
  <2> QED
    BY <1>1, <1>2, <2>1
<1> HIDE DEF T
<1>4. \E f : f = [y \in 1970..2100 |->
             IF y = 1970 THEN 0 ELSE f[y - 1] + (IF IsLeap(y - 1) THEN 366 ELSE 365)]
  BY <1>3
<1>5. DaysTo = [y \in 1970..2100 |->
             IF y = 1970 THEN 0 ELSE DaysTo[y - 1] + (IF IsLeap(y - 1) THEN 366 ELSE 365)]
  BY <1>4, Zenon DEF DaysTo
<1>6. \A y \in 1970..2099 : y + 1 \in 1970..2100 /\ y + 1 # 1970 /\ (y + 1) - 1 = y
  OBVIOUS
<1> QED
  BY <1>5, <1>6

LEMMA DaysToIs ==
  ASSUME NEW y \in Int, 1970 <= y, y <= 2100
  PROVE  DaysTo[y] = Before(y)
<1> DEFINE Bad == {k \in Nat : 1970 + k \in 1970..2100 /\ DaysTo[1970 + k] # Before(1970 + k)}
<1>1. ASSUME Bad # {}
      PROVE  FALSE
  <2>1. Bad \in SUBSET Nat
    OBVIOUS
  <2>2. PICK k \in Bad : \A i \in Bad : k <= i
    <3> HIDE DEF Bad
    <3> QED
      BY <1>1, <2>1, Least
  <2>3. k \in Nat /\ k \in 0..130 /\ DaysTo[1970 + k] # Before(1970 + k)
    OBVIOUS
  <2>4. k # 0
    <3>1. Before(1970) = 0
      BY DEF Before
    <3> QED
      BY <2>3, <3>1, DaysToFrom
  <2>5. PICK z \in 1970..2099 : z = 1970 + (k - 1) /\ 1970 + k = z + 1
    BY <2>3, <2>4
  <2>6. k - 1 \in Nat /\ ~(k <= k - 1)
    BY <2>3, <2>4
  <2>7. DaysTo[z] = Before(z)
    BY <2>2, <2>5, <2>6
  <2>8. Before(z + 1) = Before(z) + 365 + (IF z % 4 = 0 THEN 1 ELSE 0)
    BY BeforeNext
  <2>9. Before(z) \in Int
    BY DEF Before
  <2>10. DaysTo[z + 1] = DaysTo[z] + (IF IsLeap(z) THEN 366 ELSE 365)
    BY DaysToFrom
  <2>11. DaysTo[z + 1] = Before(z + 1)
    BY <2>7, <2>8, <2>9, <2>10, Leap
  <2> QED
    BY <2>3, <2>5, <2>11
<1>2. PICK k \in Nat : 1970 + k = y
  <2>1. y - 1970 \in Nat /\ 1970 + (y - 1970) = y
    OBVIOUS
  <2> QED
    BY <2>1
<1>3. k \notin Bad
  <2> HIDE DEF Bad
  <2> QED
    BY <1>1
<1> QED
  BY <1>2, <1>3

-----------------------------------------------------------------------------
(* The hours before a date.                                                *)

\* The hours before a date.
HoursTo(year, month, day, hour) ==
  24 * (Before(year) + DaysBefore(year, month) + day - 1) + hour

LEMMA ElapsedIs ==
  ASSUME NEW y \in Int, NEW m \in Int, NEW day \in Int, NEW hour \in Int, NEW d, 1970 <= y,
         y <= 2099, 1 <= m, m <= 12, d = Date(y, m, day, hour)
  PROVE  Elapsed(d) = HoursTo(y, m, day, hour)
<1>1. d.year = y /\ d.month = m /\ d.day = day /\ d.hour = hour
  BY DEF Date
<1>2. DaysTo[y] = Before(y)
  BY DaysToIs
<1>3. MonthsTo(y, m) = DaysBefore(y, m)
  BY MonthsToIs
<1> QED
  BY <1>1, <1>2, <1>3 DEF Elapsed, HoursTo

\* Also for a year before or after.
LEMMA tdiffIs ==
  ASSUME NEW year \in Int, NEW month \in Int, NEW day \in Int, NEW hour \in Int, NEW d,
         1 <= month, month <= 12, d = Date(year, month, day, hour)
  PROVE  tdiff(d) = HoursTo(year, month, day, hour)
<1>1. Quarter(year) - Not(Low(year)) = (year - 1) \div 4
  BY DEF Quarter, Not, Low
<1>2. Quarter(1970) = 492 /\ Not(Low(1970)) = 0
  BY DEF Quarter, Not, Low
<1>3. Quarter(1900) \in Int /\ Quarter(year) \in Int /\ Not(Low(year)) \in Int
  BY DEF Quarter, Not, Low
<1>4. DaysBefore(year, month) \in Int
  BY DEF DaysBefore, Low
<1>5. d.year = year /\ d.month = month /\ d.day = day /\ d.hour = hour
  BY DEF Date
<1> QED
  BY <1>1, <1>2, <1>3, <1>4, <1>5 DEF tdiff, HoursTo, Before

LEMMA HoursToInt ==
  ASSUME NEW year \in Int, NEW month \in Int, NEW day \in Int, NEW hour \in Int, 1 <= month,
         month <= 12
  PROVE  HoursTo(year, month, day, hour) \in Int
<1>1. DaysBefore(year, month) \in Int /\ Before(year) \in Int
  BY DEF DaysBefore, Low, Before
<1> QED
  BY <1>1 DEF HoursTo

LEMMA HoursToDiffer ==
  ASSUME NEW year \in Int, NEW month \in Int, NEW day \in Int, NEW hour \in Int,
         NEW otherDay \in Int, NEW otherHour \in Int, 1 <= month, month <= 12
  PROVE  HoursTo(year, month, day, hour)
           = HoursTo(year, month, otherDay, otherHour) + 24 * (day - otherDay) + (hour - otherHour)
<1>1. DaysBefore(year, month) \in Int /\ Before(year) \in Int
  BY DEF DaysBefore, Low, Before
<1> QED
  BY <1>1 DEF HoursTo

\* The ends of days, months and years.
LEMMA NextDay ==
  ASSUME NEW year \in Int, NEW month \in Int, NEW day \in Int, NEW hour \in Int,
         NEW next \in Int, 1 <= month, month <= 12, next = day + 1
  PROVE  HoursTo(year, month, next, hour) = HoursTo(year, month, day, hour) + 24
<1>1. DaysBefore(year, month) \in Int /\ Before(year) \in Int
  BY DEF DaysBefore, Low, Before
<1> QED
  BY <1>1 DEF HoursTo

LEMMA NextMonth ==
  ASSUME NEW year \in Int, NEW m \in Int, NEW k \in Int, NEW last \in Int, NEW hour \in Int,
         1970 <= year, year <= 2099, 1 <= m, m <= 12, 1 <= k, k <= 12, k = m + 1,
         last = MonthDays(year, m)
  PROVE  HoursTo(year, k, 1, hour) = HoursTo(year, m, last, hour) + 24
<1>1. DaysBefore(year, m) \in Int /\ Before(year) \in Int
  BY DEF DaysBefore, Low, Before
<1>2. DaysBefore(year, k) = DaysBefore(year, m) + last
  BY DaysBeforeNext
<1> QED
  BY <1>1, <1>2 DEF HoursTo

LEMMA NextYear ==
  ASSUME NEW y \in Int, NEW next \in Int, NEW hour \in Int, next = y + 1
  PROVE  HoursTo(next, 1, 1, hour) = HoursTo(y, 12, 31, hour) + 24
<1>1. Before(y) \in Int
  BY DEF Before
<1>2. Before(next) = Before(y) + 365 + (IF y % 4 = 0 THEN 1 ELSE 0)
  BY BeforeNext
<1>3. DaysBefore(next, 1) = 0
  BY DEF DaysBefore, Low
<1>4. DaysBefore(y, 12) = 334 + (IF y % 4 = 0 THEN 1 ELSE 0)
  BY DEF DaysBefore, Low
<1> QED
  BY <1>1, <1>2, <1>3, <1>4 DEF HoursTo

-----------------------------------------------------------------------------
(* Dates east and west of Greenwich: the timestamp.                        *)

\* What Eastern and Western make of a date, by cases.
LEMMA EasternIs ==
  ASSUME NEW y \in Int, NEW m \in Int, NEW day \in Int, NEW hour \in Int, NEW cor \in Int,
         NEW d, 1 <= m, m <= 12, 1 <= day, d = Date(y, m, day, hour)
  PROVE  /\ hour - cor >= 0 =>
              Eastern(d, cor) = Date(y, m, day, hour - cor)
         /\ hour - cor < 0 /\ day # 1 =>
              Eastern(d, cor) = Date(y, m, day - 1, hour - cor + 24)
         /\ hour - cor < 0 /\ day = 1 /\ m = 1 =>
              Eastern(d, cor) = Date(y - 1, 12, 31, hour - cor + 24)
         /\ hour - cor < 0 /\ day = 1 /\ m # 1 =>
              Eastern(d, cor) = Date(y, m - 1, DayTab(y, m - 1), hour - cor + 24)
<1>1. d.year = y /\ d.month = m /\ d.day = day /\ d.hour = hour
  BY DEF Date
<1>2. ASSUME hour - cor >= 0
      PROVE  Eastern(d, cor) = Date(y, m, day, hour - cor)
  BY <1>1, <1>2 DEF Eastern
<1>3. ASSUME hour - cor < 0, day # 1
      PROVE  Eastern(d, cor) = Date(y, m, day - 1, hour - cor + 24)
  BY <1>1, <1>3 DEF Eastern
<1>4. ASSUME hour - cor < 0, day = 1, m = 1
      PROVE  Eastern(d, cor) = Date(y - 1, 12, 31, hour - cor + 24)
  BY <1>1, <1>4 DEF Eastern
<1>5. ASSUME hour - cor < 0, day = 1, m # 1
      PROVE  Eastern(d, cor) = Date(y, m - 1, DayTab(y, m - 1), hour - cor + 24)
  BY <1>1, <1>5 DEF Eastern
<1> QED
  BY <1>2, <1>3, <1>4, <1>5

LEMMA WesternIs ==
  ASSUME NEW y \in Int, NEW m \in Int, NEW day \in Int, NEW hour \in Int, NEW cor \in Int,
         NEW d, 1 <= m, m <= 12, day <= DayTab(y, m), DayTab(y, m) \in Int,
         d = Date(y, m, day, hour)
  PROVE  /\ hour + cor <= 24 =>
              Western(d, cor) = Date(y, m, day, hour + cor)
         /\ hour + cor > 24 /\ day # DayTab(y, m) =>
              Western(d, cor) = Date(y, m, day + 1, hour + cor - 24)
         /\ hour + cor > 24 /\ day = DayTab(y, m) /\ m = 12 =>
              Western(d, cor) = Date(y + 1, 1, 1, hour + cor - 24)
         /\ hour + cor > 24 /\ day = DayTab(y, m) /\ m # 12 =>
              Western(d, cor) = Date(y, m + 1, 1, hour + cor - 24)
<1>1. d.year = y /\ d.month = m /\ d.day = day /\ d.hour = hour
  BY DEF Date
<1>2. ASSUME hour + cor <= 24
      PROVE  Western(d, cor) = Date(y, m, day, hour + cor)
  BY <1>1, <1>2 DEF Western
<1>3. ASSUME hour + cor > 24, day # DayTab(y, m)
      PROVE  Western(d, cor) = Date(y, m, day + 1, hour + cor - 24)
  BY <1>1, <1>3 DEF Western
<1>4. ASSUME hour + cor > 24, day = DayTab(y, m), m = 12
      PROVE  Western(d, cor) = Date(y + 1, 1, 1, hour + cor - 24)
  BY <1>1, <1>4 DEF Western
<1>5. ASSUME hour + cor > 24, day = DayTab(y, m), m # 12
      PROVE  Western(d, cor) = Date(y, m + 1, 1, hour + cor - 24)
  BY <1>1, <1>5 DEF Western
<1> QED
  BY <1>2, <1>3, <1>4, <1>5

\* The moment that a date east of Greenwich names.
LEMMA EasternTrue ==
  ASSUME NEW y \in Int, NEW m \in Int, NEW day \in Int, NEW hour \in Int, NEW cor \in Int,
         NEW d, 1970 <= y, y <= 2099, 1 <= m, m <= 12, 1 <= day, d = Date(y, m, day, hour)
  PROVE  tdiff(Eastern(d, cor)) = HoursTo(y, m, day, hour) - cor
<1>1. HoursTo(y, m, day, hour) \in Int
  BY HoursToInt
<1>2. CASE hour - cor >= 0
  <2>1. Eastern(d, cor) = Date(y, m, day, hour - cor)
    BY <1>2, EasternIs
  <2>2. tdiff(Eastern(d, cor)) = HoursTo(y, m, day, hour - cor)
    BY <2>1, tdiffIs
  <2> QED
    BY <1>1, <2>2, HoursToDiffer
<1>3. CASE hour - cor < 0
  <2>1. PICK late \in Int : late = hour - cor + 24
    OBVIOUS
  <2>2. HoursTo(y, m, day - 1, late) = HoursTo(y, m, day, hour) - cor
    BY <1>1, <2>1, HoursToDiffer
  <2>3. CASE day # 1
    <3>1. Eastern(d, cor) = Date(y, m, day - 1, late)
      BY <1>3, <2>1, <2>3, EasternIs
    <3>2. tdiff(Eastern(d, cor)) = HoursTo(y, m, day - 1, late)
      BY <3>1, tdiffIs
    <3> QED
      BY <2>2, <3>2
  <2>4. CASE day = 1 /\ m = 1
    <3>1. PICK k \in Int : k = y - 1 /\ k + 1 = y
      OBVIOUS
    <3>2. Eastern(d, cor) = Date(k, 12, 31, late)
      BY <1>3, <2>1, <2>4, <3>1, EasternIs
    <3>3. tdiff(Eastern(d, cor)) = HoursTo(k, 12, 31, late)
      BY <3>2, tdiffIs
    <3>4. HoursTo(y, 1, 1, late) = HoursTo(k, 12, 31, late) + 24
      BY <3>1, NextYear
    <3>5. HoursTo(y, 1, 1, late) = HoursTo(y, 1, 0, late) + 24
      BY NextDay
    <3>6. HoursTo(k, 12, 31, late) \in Int
      BY HoursToInt
    <3>7. HoursTo(y, 1, 0, late) \in Int
      BY HoursToInt
    <3> QED
      BY <2>2, <2>4, <3>3, <3>4, <3>5, <3>6, <3>7
  <2>5. CASE day = 1 /\ m # 1
    <3>1. PICK k \in Int : 1 <= k /\ k <= 12 /\ k = m - 1 /\ m = k + 1
      BY <2>5
    <3>2. DayTab(y, k) = MonthDays(y, k) /\ MonthDays(y, k) \in Int
      BY <3>1, DayTabIs, MonthDaysAre
    <3>3. PICK last \in Int : last = MonthDays(y, k)
      BY <3>2
    <3>4. Eastern(d, cor) = Date(y, k, last, late)
      <4>1. Eastern(d, cor) = Date(y, m - 1, DayTab(y, m - 1), late)
        BY <1>3, <2>1, <2>5, EasternIs
      <4> QED
        BY <3>1, <3>2, <3>3, <4>1
    <3>5. tdiff(Eastern(d, cor)) = HoursTo(y, k, last, late)
      BY <3>1, <3>4, tdiffIs
    <3>6. HoursTo(y, m, 1, late) = HoursTo(y, k, last, late) + 24
      BY <3>1, <3>3, NextMonth
    <3>7. HoursTo(y, m, 1, late) = HoursTo(y, m, 0, late) + 24
      BY NextDay
    <3>8. HoursTo(y, m, 0, late) \in Int
      BY HoursToInt
    <3>9. HoursTo(y, k, last, late) \in Int
      BY <3>1, HoursToInt
    <3> QED
      BY <2>2, <2>5, <3>5, <3>6, <3>7, <3>8, <3>9
  <2> QED
    BY <2>3, <2>4, <2>5
<1> QED
  BY <1>2, <1>3

\* The moment that a date west of it names.
LEMMA WesternTrue ==
  ASSUME NEW y \in Int, NEW m \in Int, NEW day \in Int, NEW hour \in Int, NEW cor \in Int,
         NEW d, 1970 <= y, y <= 2099, 1 <= m, m <= 12, day <= MonthDays(y, m),
         d = Date(y, m, day, hour)
  PROVE  tdiff(Western(d, cor)) = HoursTo(y, m, day, hour) + cor
<1>1. HoursTo(y, m, day, hour) \in Int
  BY HoursToInt
<1>2. DayTab(y, m) = MonthDays(y, m) /\ MonthDays(y, m) \in Int /\ (m = 12 => MonthDays(y, m) = 31)
  BY DayTabIs, MonthDaysAre
<1>3. CASE hour + cor <= 24
  <2>1. Western(d, cor) = Date(y, m, day, hour + cor)
    BY <1>2, <1>3, WesternIs
  <2>2. tdiff(Western(d, cor)) = HoursTo(y, m, day, hour + cor)
    BY <2>1, tdiffIs
  <2> QED
    BY <1>1, <2>2, HoursToDiffer
<1>4. CASE hour + cor > 24
  <2>1. PICK early \in Int : early = hour + cor - 24
    OBVIOUS
  <2>2. HoursTo(y, m, day + 1, early) = HoursTo(y, m, day, hour) + cor
    BY <1>1, <2>1, HoursToDiffer
  <2>3. CASE day # MonthDays(y, m)
    <3>1. Western(d, cor) = Date(y, m, day + 1, early)
      BY <1>2, <1>4, <2>1, <2>3, WesternIs
    <3>2. tdiff(Western(d, cor)) = HoursTo(y, m, day + 1, early)
      BY <3>1, tdiffIs
    <3> QED
      BY <2>2, <3>2
  <2>4. CASE day = MonthDays(y, m) /\ m = 12
    <3>1. PICK k \in Int : k = y + 1
      OBVIOUS
    <3>2. Western(d, cor) = Date(k, 1, 1, early)
      <4>1. day = DayTab(y, m) /\ m = 12 /\ DayTab(y, m) \in Int /\ day <= DayTab(y, m)
        BY <1>2, <2>4
      <4>2. Western(d, cor) = Date(y + 1, 1, 1, hour + cor - 24)
        BY <1>4, <4>1, WesternIs
      <4> QED
        BY <2>1, <3>1, <4>2
    <3>3. tdiff(Western(d, cor)) = HoursTo(k, 1, 1, early)
      BY <3>2, tdiffIs
    <3>4. HoursTo(k, 1, 1, early) = HoursTo(y, 12, 31, early) + 24
      BY <3>1, NextYear
    <3>5. HoursTo(y, 12, 32, early) = HoursTo(y, 12, 31, early) + 24
      BY NextDay
    <3> QED
      BY <1>2, <2>2, <2>4, <3>3, <3>4, <3>5
  <2>5. CASE day = MonthDays(y, m) /\ m # 12
    <3>1. PICK k \in Int : 1 <= k /\ k <= 12 /\ k = m + 1
      BY <2>5
    <3>2. Western(d, cor) = Date(y, k, 1, early)
      <4>1. day = DayTab(y, m) /\ m # 12 /\ DayTab(y, m) \in Int /\ day <= DayTab(y, m)
        BY <1>2, <2>5
      <4>2. Western(d, cor) = Date(y, m + 1, 1, hour + cor - 24)
        BY <1>4, <4>1, WesternIs
      <4> QED
        BY <2>1, <3>1, <4>2
    <3>3. tdiff(Western(d, cor)) = HoursTo(y, k, 1, early)
      BY <3>1, <3>2, tdiffIs
    <3>4. HoursTo(y, k, 1, early) = HoursTo(y, m, day, early) + 24
      BY <2>5, <3>1, NextMonth
    <3>5. HoursTo(y, m, day + 1, early) = HoursTo(y, m, day, early) + 24
      BY NextDay
    <3> QED
      BY <2>2, <3>3, <3>4, <3>5
  <2> QED
    BY <2>3, <2>4, <2>5
<1> QED
  BY <1>3, <1>4

\* The timestamp is the moment that the text names.
LEMMA SecondsTrue ==
  ASSUME NEW text, NEW y \in Int, NEW m \in Int, NEW day \in Int, NEW hour \in Int,
         NEW z \in Int, 1970 <= y, y <= 2099, 1 <= m, m <= 12,
         text.date = Date(y, m, day, hour), IsDate(text.date), text.zone = z
  PROVE  Seconds(text) = Moment(text) /\ Moment(text) \in Int
<1>1. PICK d : d = text.date /\ d = Date(y, m, day, hour)
  OBVIOUS
<1>2. d.year = y /\ d.month = m /\ d.day = day /\ d.hour = hour
  BY <1>1 DEF Date
<1>3. 1 <= day /\ day <= MonthDays(y, m)
  <2>1. IsDate(d)
    BY <1>1
  <2>2. MonthDays(y, m) \in Int
    BY MonthDaysAre
  <2> QED
    BY <1>2, <2>1, <2>2 DEF IsDate
<1>4. Elapsed(d) = HoursTo(y, m, day, hour)
  BY <1>1, ElapsedIs
<1>5. HoursTo(y, m, day, hour) \in Int
  BY HoursToInt
<1>6. CASE z >= 0
  <2>1. AtGreenwich(d, z) = Eastern(d, z)
    BY <1>6 DEF AtGreenwich
  <2>2. tdiff(Eastern(d, z)) = HoursTo(y, m, day, hour) - z
    BY <1>1, <1>3, EasternTrue
  <2> QED
    BY <1>1, <1>4, <1>5, <2>1, <2>2 DEF Seconds, Moment
<1>7. CASE z < 0
  <2>1. PICK w \in Int : w = -z
    BY <1>7
  <2>2. AtGreenwich(d, z) = Western(d, w)
    BY <1>7, <2>1 DEF AtGreenwich
  <2>3. tdiff(Western(d, w)) = HoursTo(y, m, day, hour) + w
    BY <1>1, <1>3, WesternTrue
  <2> QED
    BY <1>1, <1>4, <1>5, <2>1, <2>2, <2>3 DEF Seconds, Moment
<1> QED
  BY <1>6, <1>7

-----------------------------------------------------------------------------
(* The date that is displayed.                                             *)

\* The days before a month of a common year, and before the next year.
Common == <<0, 31, 59, 90, 120, 151, 181, 212, 243, 273, 304, 334, 365>>

LEMMA MonthIs ==
  ASSUME NEW day \in Int, 0 <= day, day < 365
  PROVE  \E m \in Int : /\ 1 <= m /\ m <= 12
                        /\ Common[m] <= day /\ day < Common[m + 1]
                        /\ Month(day) = <<m, day - Common[m]>>
<1> DEFINE In(m) == Common[m] <= day /\ day < Common[m + 1]
           mon == CHOOSE m \in 1..12 : In(m)
<1>1. \E m \in 1..12 : In(m)
  BY DEF Common
<1>2. mon \in 1..12 /\ In(mon)
  <2> HIDE DEF In
  <2> QED
    BY <1>1, Zenon
<1>3. Month(day) = <<mon, day - Common[mon]>>
  BY Zenon DEF Month, Common
<1>4. PICK m : m = mon
  OBVIOUS
<1> HIDE DEF mon
<1>5. m \in Int /\ 1 <= m /\ m <= 12
  BY <1>2, <1>4
<1> QED
  BY <1>2, <1>3, <1>4, <1>5

LEMMA DaysBeforeCommon ==
  ASSUME NEW y \in Int, NEW m \in Int, 1 <= m, m <= 12
  PROVE  DaysBefore(y, m) = Common[m] + (IF y % 4 = 0 /\ m > 2 THEN 1 ELSE 0)
<1>1. m \in 1..12
  OBVIOUS
<1> QED
  BY <1>1 DEF DaysBefore, Common, Low

\* PrintTimeDate shows the moment.
LEMMA CivilTrue ==
  ASSUME NEW hours \in Int, Representable(hours)
  PROVE  IsDate(Civil(hours)) /\ Elapsed(Civil(hours)) = hours
<1>1. 262968 <= hours /\ hours <= 1139567
  <2>1. Elapsed(Date(2099, 12, 31, 23)) = HoursTo(2099, 12, 31, 23)
    BY ElapsedIs
  <2>2. HoursTo(2099, 12, 31, 23) = 1139567
    BY DEF HoursTo, Before, DaysBefore, Low
  <2> QED
    BY <2>1, <2>2 DEF Representable, Y2000
<1>2. PICK x \in Int : x = hours - Y2000 /\ 0 <= x /\ x <= 876599
  BY <1>1 DEF Y2000
<1>3. PICK iday \in Int : iday = x \div 24
  OBVIOUS
<1>4. PICK h \in Int : h = x % 24
  OBVIOUS
<1>5. x = 24 * iday + h /\ 0 <= h /\ h < 24 /\ 0 <= iday /\ iday <= 36524
  BY <1>2, <1>3, <1>4
<1>6. PICK q \in Int : q = iday \div Quad
  BY DEF Quad
<1>7. PICK day4 \in Int : day4 = iday % Quad
  BY DEF Quad
<1>8. iday = 1461 * q + day4 /\ 0 <= day4 /\ day4 < 1461 /\ 0 <= q /\ q < 25
  BY <1>5, <1>6, <1>7 DEF Quad
<1>9. PICK day \in Int : day = IF day4 >= 59 THEN day4 - 1 ELSE day4
  OBVIOUS
<1>10. PICK t \in Int : t = day \div 365
  OBVIOUS
<1>11. PICK dd \in Int : dd = day % 365
  OBVIOUS
<1>12. day = 365 * t + dd /\ 0 <= t /\ t <= 3 /\ 0 <= dd /\ dd < 365
  BY <1>8, <1>9, <1>10, <1>11
<1>13. PICK m \in Int : /\ 1 <= m /\ m <= 12
                        /\ Common[m] <= dd /\ dd < Common[m + 1]
                        /\ Month(dd) = <<m, dd - Common[m]>>
  BY <1>12, MonthIs
<1>14. Civil(hours) = Date(2000 + (4 * q + t), m, dd - Common[m] + LeapDay(day4) + 1, h)
  <2>1. PICK mm : mm = Month(dd) /\ mm[1] = m /\ mm[2] = dd - Common[m]
    BY <1>13
  <2>2. Civil(hours) = Date(2000 + (IF 4 * q + t > 99 THEN 0 ELSE 4 * q + t), mm[1],
                            mm[2] + LeapDay(day4) + 1, h)
    BY <1>2, <1>3, <1>4, <1>6, <1>7, <1>9, <1>10, <1>11, <2>1 DEF Civil
  <2>3. ~(4 * q + t > 99)
    BY <1>8, <1>12
  <2> QED
    BY <2>1, <2>2, <2>3
<1>15. hours = 24 * (10957 + iday) + h
  BY <1>2, <1>5 DEF Y2000
<1>16. PICK y \in Int : y = 2000 + 4 * q + t /\ y = 2000 + (4 * q + t) /\ 2000 <= y /\ y <= 2099
  BY <1>8, <1>12
<1>17. m \in 1..12
  BY <1>13
<1>18. PICK c \in Int : c = Common[m] /\ (t = 0 /\ m <= 2 => dd < 59) /\ (m > 2 => dd >= 59)
  BY <1>13, <1>17 DEF Common
<1>19. PICK ld \in Int : ld = LeapDay(day4) /\ ld = (IF day4 = 59 THEN 1 ELSE 0)
  BY DEF LeapDay
<1>20. PICK mday \in Int : mday = dd - c + ld + 1
  OBVIOUS
<1>21. PICK d : d = Civil(hours) /\ d = Date(y, m, mday, h)
  BY <1>14, <1>16, <1>18, <1>19, <1>20
<1>22. d.year = y /\ d.month = m /\ d.day = mday /\ d.hour = h
  BY <1>21 DEF Date
<1>23. IsDate(d)
  <2>1. day4 = 59 => t = 0 /\ m = 2 /\ dd = 58 /\ c = 31
    BY <1>9, <1>12, <1>13, <1>17, <1>18 DEF Common
  <2>2. PICK days \in Int : days = MonthDays(y, m)
    BY <1>13, <1>16, MonthDaysAre
  <2>3. days = DayTab(y, m)
    BY <1>13, <1>16, <2>2, DayTabIs
  <2>4. y % 4 = t
    BY <1>12, <1>16
  <2>5. Common[m + 1] - c <= days /\ (t = 0 /\ m = 2 => days = 29)
    BY <1>17, <1>18, <2>3, <2>4 DEF Common, DayTab, Low
  <2>6. PICK e \in Int : e = Common[m + 1]
    BY <1>17 DEF Common
  <2>7. c <= dd /\ dd < e /\ e - c <= days
    BY <1>13, <1>18, <2>5, <2>6
  <2>8. 1 <= mday /\ mday <= days
    BY <1>19, <1>20, <2>1, <2>5, <2>7
  <2> QED
    BY <1>5, <1>17, <1>22, <2>2, <2>8 DEF IsDate
<1>24. Elapsed(d) = hours
  <2>1. Elapsed(d) = HoursTo(y, m, mday, h)
    BY <1>13, <1>16, <1>21, ElapsedIs
  <2>2. Before(y) = 10957 + 1461 * q + 365 * t + (IF t >= 1 THEN 1 ELSE 0)
    <3>1. (y - 1) \div 4 = 499 + q + (IF t >= 1 THEN 1 ELSE 0)
      BY <1>8, <1>12, <1>16
    <3> QED
      BY <1>12, <1>16, <3>1 DEF Before
  <2>3. DaysBefore(y, m) = c + (IF t = 0 /\ m > 2 THEN 1 ELSE 0)
    <3>1. y % 4 = t
      BY <1>12, <1>16
    <3> QED
      BY <1>13, <1>18, <3>1, DaysBeforeCommon
  <2>4. day4 = day + (IF day4 >= 59 THEN 1 ELSE 0)
    BY <1>9
  <2>5. (IF day4 >= 59 THEN 1 ELSE 0)
          = ld + (IF t >= 1 THEN 1 ELSE 0) + (IF t = 0 /\ m > 2 THEN 1 ELSE 0)
    BY <1>9, <1>12, <1>13, <1>17, <1>18, <1>19 DEF Common
  <2>6. Before(y) + DaysBefore(y, m) + mday - 1 = 10957 + iday
    BY <1>8, <1>12, <1>20, <2>2, <2>3, <2>4, <2>5
  <2> QED
    BY <1>15, <2>1, <2>6 DEF HoursTo
<1> QED
  BY <1>21, <1>23, <1>24

-----------------------------------------------------------------------------
(* The list and the order it stands for.                                   *)

Orders(size) == [1..size -> 1..size]
Links(size) == [0..size -> 0..size \cup {Null}]
Stamps(size) == [1..size -> Int]

\* s is the list l of the mails 1..size.
IsList(size, l, s) ==
  /\ s \in Orders(size) /\ l \in Links(size)
  /\ \A i, j \in 1..size : s[i] = s[j] => i = j
  /\ \A m \in 1..size : \E k \in 1..size : s[k] = m
  /\ l[ListHead] = IF size = 0 THEN Null ELSE s[1]
  /\ \A k \in 1..size : l[s[k]] = IF k = size THEN Null ELSE s[k + 1]

\* Of the mails of one moment, the first of the server is the first of the list.
IsStable(size, t, s) ==
  \A i, j \in 1..size : i < j /\ t[s[i]] = t[s[j]] => s[i] < s[j]

\* The first k are in order.
Falls(size, t, s, k) ==
  \A i, j \in 1..size : i < j /\ j <= k => t[s[i]] >= t[s[j]]

Previous(s, k) == IF k = 1 THEN ListHead ELSE s[k - 1]

\* A pass is at the k-th mail, with p before it.
Stands(size, s, q, m, k) ==
  /\ q = Previous(s, k)
  /\ m = IF k = size + 1 THEN Null ELSE s[k]

\* Swapped, and what it does to the list.
Relinked(l, q, a, b) == [l EXCEPT ![q] = l[a], ![a] = l[b], ![b] = a]
Exchanged(s, k) == [s EXCEPT ![k] = s[k + 1], ![k + 1] = s[k]]

\* The list as InitMailDB has made it.
LEMMA AsReadIsList ==
  ASSUME NEW size \in Nat, NEW t
  PROVE  /\ IsList(size, [m \in 0..size |-> IF m = size THEN Null ELSE m + 1],
                   [m \in 1..size |-> m])
         /\ IsStable(size, t, [m \in 1..size |-> m])
<1> DEFINE s == [m \in 1..size |-> m]
           l == [m \in 0..size |-> IF m = size THEN Null ELSE m + 1]
<1>1. /\ s \in [1..size -> 1..size]
      /\ \A i, j \in 1..size : s[i] = s[j] => i = j
      /\ \A m \in 1..size : \E k \in 1..size : s[k] = m
  OBVIOUS
<1>2. l \in [0..size -> 0..size \cup {Null}]
  OBVIOUS
<1>3. l[ListHead] = IF size = 0 THEN Null ELSE s[1]
  BY DEF ListHead
<1>4. \A k \in 1..size : l[s[k]] = IF k = size THEN Null ELSE s[k + 1]
  OBVIOUS
<1>5. IsStable(size, t, s)
  BY DEF IsStable
<1> QED
  BY <1>1, <1>2, <1>3, <1>4, <1>5 DEF IsList, Orders, Links

\* A swap leaves a list of the same mails, with two of them exchanged.
LEMMA ExchangeLists ==
  ASSUME NEW size \in Nat, NEW l, NEW s, NEW k \in Int, NEW next \in Int, NEW q, NEW a, NEW b,
         NEW r, IsList(size, l, s), 1 <= k, k < size, next = k + 1, a = s[k], b = s[next],
         q = Previous(s, k), r = Relinked(l, q, a, b)
  PROVE  IsList(size, r, Exchanged(s, k))
<1> DEFINE e == Exchanged(s, k)
<1>1. /\ s \in Orders(size) /\ l \in Links(size)
      /\ \A i \in 1..size : s[i] \in Int /\ 1 <= s[i] /\ s[i] <= size
  <2>1. s \in Orders(size) /\ l \in Links(size)
    BY DEF IsList
  <2>2. \A i \in 1..size : s[i] \in 1..size
    BY <2>1 DEF Orders
  <2> QED
    BY <2>1, <2>2
<1>2. \A i, j \in 1..size : s[i] = s[j] => i = j
  BY DEF IsList
<1>3. /\ k \in 1..size /\ next \in 1..size /\ k # next
      /\ \A i \in 1..size : i # 0 /\ i \in 0..size
  OBVIOUS
<1>4. a \in 1..size /\ b \in 1..size /\ a # b
  BY <1>1, <1>2, <1>3
<1>5. /\ e \in Orders(size) /\ e[k] = b /\ e[next] = a
      /\ \A i \in 1..size : i # k /\ i # next => e[i] = s[i]
  <2>1. e = [s EXCEPT ![k] = b, ![next] = a]
    BY DEF Exchanged
  <2> HIDE DEF e
  <2> QED
    BY <1>1, <1>3, <1>4, <2>1 DEF Orders
<1> HIDE DEF e
<1>6. q \in 0..size /\ q # a /\ q # b
  <2>1. CASE k = 1
    BY <1>4, <2>1 DEF Previous, ListHead
  <2>2. CASE k # 1
    <3>1. PICK j \in 1..size : j = k - 1 /\ j # k /\ j # next
      BY <1>3, <2>2
    <3>2. q = s[j]
      BY <2>2, <3>1 DEF Previous
    <3>3. s[j] # s[k]
      BY <1>2, <1>3, <3>1
    <3>4. s[j] # s[next]
      BY <1>2, <1>3, <3>1
    <3>5. s[j] \in 0..size
      BY <1>1, <3>1
    <3> QED
      BY <3>2, <3>3, <3>4, <3>5
  <2> QED
    BY <2>1, <2>2
<1>7. \A i \in 1..size : l[s[i]] = IF i = size THEN Null ELSE s[i + 1]
  BY DEF IsList
<1>8. l[a] = b
  <2>1. k # size
    OBVIOUS
  <2> QED
    BY <1>3, <1>7, <2>1
<1>9. l[b] = IF next = size THEN Null ELSE s[next + 1]
  BY <1>3, <1>7
<1>10. /\ r \in Links(size)
       /\ r[q] = b /\ r[b] = a /\ r[a] = l[b]
       /\ \A m \in 0..size : m # q /\ m # a /\ m # b => r[m] = l[m]
  <2>1. a \in 0..size /\ b \in 0..size
    BY <1>4
  <2>2. l[a] \in 0..size \cup {Null} /\ l[b] \in 0..size \cup {Null}
    BY <1>1, <2>1 DEF Links
  <2> QED
    BY <1>1, <1>4, <1>6, <1>8, <2>1, <2>2 DEF Relinked, Links
<1>11. \A i, j \in 1..size : e[i] = e[j] => i = j
  <2> SUFFICES ASSUME NEW i \in 1..size, NEW j \in 1..size, e[i] = e[j]
               PROVE  i = j
    OBVIOUS
  <2>1. \A x \in 1..size : (s[x] = a <=> x = k) /\ (s[x] = b <=> x = next)
    BY <1>2, <1>3
  <2>2. CASE i = k
    BY <1>4, <1>5, <2>1, <2>2
  <2>3. CASE i = next
    BY <1>4, <1>5, <2>1, <2>3
  <2>4. CASE i # k /\ i # next
    BY <1>2, <1>4, <1>5, <2>1, <2>4
  <2> QED
    BY <2>2, <2>3, <2>4
<1>12. \A m \in 1..size : \E i \in 1..size : e[i] = m
  <2> TAKE m \in 1..size
  <2>1. PICK i \in 1..size : s[i] = m
    BY DEF IsList
  <2>2. CASE i = k
    BY <1>3, <1>5, <2>1, <2>2
  <2>3. CASE i = next
    BY <1>3, <1>5, <2>1, <2>3
  <2>4. CASE i # k /\ i # next
    BY <1>5, <2>1, <2>4
  <2> QED
    BY <2>2, <2>3, <2>4
<1>13. r[ListHead] = IF size = 0 THEN Null ELSE e[1]
  <2>1. size # 0 /\ 1 \in 1..size /\ 0 \in 0..size /\ 1 # next
    BY <1>3
  <2>2. l[0] = s[1]
    BY <2>1 DEF IsList, ListHead
  <2>3. CASE k = 1
    BY <1>5, <1>10, <2>1, <2>3 DEF Previous
  <2>4. CASE k # 1
    <3>1. PICK j \in 1..size : j = k - 1 /\ q = s[j]
      BY <1>3, <2>4 DEF Previous
    <3>2. q # 0
      BY <1>1, <3>1
    <3>3. a # 0 /\ b # 0
      BY <1>4
    <3>4. r[0] = l[0]
      BY <1>10, <2>1, <3>2, <3>3
    <3>5. e[1] = s[1]
      BY <1>5, <2>1, <2>4
    <3> QED
      BY <2>1, <2>2, <3>4, <3>5 DEF ListHead
  <2> QED
    BY <2>3, <2>4
<1>14. ASSUME NEW i \in 1..size
       PROVE  r[e[i]] = IF i = size THEN Null ELSE e[i + 1]
  <2>1. CASE i = k
    <3>1. i # size /\ i + 1 = next
      BY <2>1
    <3> QED
      BY <1>5, <1>10, <2>1, <3>1
  <2>2. CASE i = next
    <3>1. r[e[i]] = IF i = size THEN Null ELSE s[i + 1]
      BY <1>5, <1>9, <1>10, <2>2
    <3>2. CASE i = size
      BY <3>1, <3>2
    <3>3. CASE i # size
      <4>1. PICK j \in 1..size : j = i + 1 /\ j # k /\ j # next
        BY <2>2, <3>3
      <4>2. e[j] = s[j]
        BY <1>5, <4>1
      <4> QED
        BY <3>1, <3>3, <4>1, <4>2
    <3> QED
      BY <3>2, <3>3
  <2>3. CASE i # k /\ i # next
    <3>1. e[i] = s[i]
      BY <1>5, <2>3
    <3>2. s[i] # a
      BY <1>2, <1>3, <2>3
    <3>3. s[i] # b
      BY <1>2, <1>3, <2>3
    <3>4. s[i] \in 0..size /\ s[i] # 0
      BY <1>1
    <3>5. CASE i + 1 = k
      <4>1. k # 1 /\ k - 1 = i /\ i # size
        BY <1>3, <3>5
      <4>2. q = e[i]
        BY <3>1, <4>1 DEF Previous
      <4> QED
        BY <1>5, <1>10, <3>5, <4>1, <4>2
    <3>6. CASE i + 1 # k
      <4>1. s[i] # q
        <5>1. CASE k = 1
          BY <3>4, <5>1 DEF Previous, ListHead
        <5>2. CASE k # 1
          <6>1. PICK j \in 1..size : j = k - 1 /\ j # i
            BY <1>3, <3>6, <5>2
          <6>2. q = s[j]
            BY <5>2, <6>1 DEF Previous
          <6> QED
            BY <1>2, <6>1, <6>2
        <5> QED
          BY <5>1, <5>2
      <4>2. r[e[i]] = l[s[i]]
        BY <1>10, <3>1, <3>2, <3>3, <3>4, <4>1
      <4>3. l[s[i]] = IF i = size THEN Null ELSE s[i + 1]
        BY <1>7
      <4>4. CASE i = size
        BY <4>2, <4>3, <4>4
      <4>5. CASE i # size
        <5>1. PICK j \in 1..size : j = i + 1 /\ j # k /\ j # next
          BY <2>3, <3>6, <4>5
        <5>2. e[j] = s[j]
          BY <1>5, <5>1
        <5> QED
          BY <4>2, <4>3, <4>5, <5>1, <5>2
      <4> QED
        BY <4>4, <4>5
    <3> QED
      BY <3>5, <3>6
  <2> QED
    BY <2>1, <2>2, <2>3
<1>15. IsList(size, r, e)
  BY <1>5, <1>10, <1>11, <1>12, <1>13, <1>14 DEF IsList
<1> QED
  BY <1>15 DEF e

\* A swap does not change the order of mails of the same moment.
LEMMA ExchangeStable ==
  ASSUME NEW size \in Nat, NEW t, NEW s, NEW k \in Int, NEW next \in Int,
         s \in Orders(size), t \in Stamps(size), IsStable(size, t, s),
         1 <= k, k < size, next = k + 1, t[s[k]] < t[s[next]]
  PROVE  IsStable(size, t, Exchanged(s, k))
<1> DEFINE e == Exchanged(s, k)
<1>1. /\ e[k] = s[next] /\ e[next] = s[k]
      /\ \A i \in 1..size : i # k /\ i # next => e[i] = s[i]
  <2>1. e = [s EXCEPT ![k] = s[next], ![next] = s[k]]
    BY DEF Exchanged
  <2>2. k \in 1..size /\ next \in 1..size /\ k # next
    OBVIOUS
  <2> HIDE DEF e
  <2> QED
    BY <2>1, <2>2 DEF Orders
<1>2. k \in 1..size /\ next \in 1..size
  OBVIOUS
<1>3. t[s[k]] # t[s[next]]
  <2>1. t[s[k]] \in Int /\ t[s[next]] \in Int
    BY <1>2 DEF Orders, Stamps
  <2> QED
    BY <2>1
<1> HIDE DEF e
<1>4. SUFFICES ASSUME NEW i \in 1..size, NEW j \in 1..size, i < j, t[e[i]] = t[e[j]]
               PROVE  e[i] < e[j]
  BY DEF IsStable, e
<1>5. \A x, y \in 1..size : x < y /\ t[s[x]] = t[s[y]] => s[x] < s[y]
  BY DEF IsStable
<1>6. CASE i = k
  <2>1. CASE j = next
    BY <1>1, <1>3, <1>4, <1>6, <2>1
  <2>2. CASE j # next
    <3>1. e[i] = s[next] /\ e[j] = s[j] /\ next < j
      BY <1>1, <1>4, <1>6, <2>2
    <3> QED
      BY <1>2, <1>4, <1>5, <3>1
  <2> QED
    BY <2>1, <2>2
<1>7. CASE i = next
  <2>1. e[i] = s[k] /\ e[j] = s[j] /\ k < j
    BY <1>1, <1>4, <1>7
  <2> QED
    BY <1>2, <1>4, <1>5, <2>1
<1>8. CASE i # k /\ i # next
  <2>1. PICK x \in 1..size : e[j] = s[x] /\ i < x
    <3>1. CASE j = k
      BY <1>1, <1>2, <1>4, <3>1
    <3>2. CASE j = next
      <4>1. i < k
        BY <1>4, <1>8, <3>2
      <4> QED
        BY <1>1, <1>2, <3>2, <4>1
    <3>3. CASE j # k /\ j # next
      BY <1>1, <1>4, <3>3
    <3> QED
      BY <3>1, <3>2, <3>3
  <2>2. e[i] = s[i]
    BY <1>1, <1>8
  <2> QED
    BY <1>4, <1>5, <2>1, <2>2
<1> QED
  BY <1>6, <1>7, <1>8

\* A turn without a swap: one more mail is in order.
LEMMA FallsNext ==
  ASSUME NEW size \in Nat, NEW t, NEW s, NEW k \in Int, NEW next \in Int,
         s \in Orders(size), t \in Stamps(size), Falls(size, t, s, k),
         1 <= k, k < size, next = k + 1, t[s[k]] >= t[s[next]]
  PROVE  Falls(size, t, s, next)
<1>1. SUFFICES ASSUME NEW i \in 1..size, NEW j \in 1..size, i < j, j <= next
               PROVE  t[s[i]] >= t[s[j]]
  BY DEF Falls
<1>2. \A x, y \in 1..size : x < y /\ y <= k => t[s[x]] >= t[s[y]]
  BY DEF Falls
<1>3. CASE j <= k
  BY <1>1, <1>2, <1>3
<1>4. CASE j = next /\ i = k
  BY <1>4
<1>5. CASE j = next /\ i < k
  <2>1. k \in 1..size
    OBVIOUS
  <2>2. t[s[i]] >= t[s[k]]
    BY <1>2, <1>5, <2>1
  <2>3. \A x \in 1..size : t[s[x]] \in Int
    BY DEF Orders, Stamps
  <2>4. PICK u \in Int : u = t[s[i]]
    BY <2>3
  <2>5. PICK v \in Int : v = t[s[k]]
    BY <2>1, <2>3
  <2>6. PICK w \in Int : w = t[s[j]]
    BY <2>3
  <2>7. u >= v /\ v >= w
    BY <1>5, <2>2, <2>4, <2>5, <2>6
  <2>8. u >= w
    BY <2>7
  <2> QED
    BY <2>4, <2>6, <2>8
<1> QED
  BY <1>1, <1>3, <1>4, <1>5

-----------------------------------------------------------------------------
(* The invariant.                                                          *)

\* What the text of a date is.
IsText(text) ==
  /\ text.date = Date(text.date.year, text.date.month, text.date.day, text.date.hour)
  /\ text.date.year \in Int /\ 2000 <= text.date.year /\ text.date.year <= 2099
  /\ text.date.month \in Int /\ 1 <= text.date.month /\ text.date.month <= 12
  /\ text.date.day \in Int /\ text.date.hour \in Int
  /\ IsDate(text.date) /\ text.zone \in Int

\* The mails, which do not change.
Dated(text) == text # Null => IsText(text) /\ Representable(Moment(text) + here)

MailsOk ==
  /\ n \in Nat /\ here \in Int
  /\ \A m \in Mails : Dated(received[m]) /\ Dated(date[m])

\* The headers of the mails before ml_cur have been read.
StampsOk ==
  /\ stamp \in Stamps(n)
  /\ pc \in {"read", "pass", "walk", "done"}
  /\ pc = "read" => /\ ml_cur \in Mails \cup {Null}
                    /\ \A m \in Mails : ml_cur = Null \/ m < ml_cur => stamp[m] = When(m)
  /\ pc # "read" => \A m \in Mails : stamp[m] = When(m)

ShownOk == \A s \in shown : IsDate(s.as) /\ Elapsed(s.as) = Moment(s.text) + here

\* What the pass knows of the list s: it is at the k-th mail.
Walks(s, k) ==
  /\ Stands(n, s, prev, ml_cur, k)
  /\ ml_cur # Null => nxt = link[ml_cur]
  /\ flag = FALSE => Falls(n, stamp, s, k)

AsRead == [m \in Mails |-> m]

ListIs(s) ==
  /\ IsList(n, link, s) /\ IsStable(n, stamp, s)
  /\ pc = "read" => s = AsRead
  /\ pc = "walk" => \E k \in 1..(n + 1) : Walks(s, k)
  /\ pc = "pass" /\ flag = FALSE => Falls(n, stamp, s, n)
  /\ pc = "done" => Falls(n, stamp, s, n)

ListOk ==
  /\ flag \in BOOLEAN /\ (pc = "read" => flag = TRUE)
  /\ \E s : ListIs(s)

HeadersInv == MailsOk /\ StampsOk /\ ShownOk /\ ListOk

LEMMA TextTrue ==
  ASSUME NEW text, IsText(text)
  PROVE  Seconds(text) = Moment(text) /\ Moment(text) \in Int
<1>1. PICK y \in Int, m \in Int, day \in Int, hour \in Int, z \in Int :
        /\ y = text.date.year /\ m = text.date.month /\ day = text.date.day
        /\ hour = text.date.hour /\ z = text.zone
  BY DEF IsText
<1>2. /\ text.date = Date(y, m, day, hour) /\ IsDate(text.date) /\ text.zone = z
      /\ 1970 <= y /\ y <= 2099 /\ 1 <= m /\ m <= 12
  BY <1>1 DEF IsText
<1> QED
  BY <1>2, SecondsTrue

\* The moment of a mail is what ReadsHeader makes of its dates.
LEMMA WhenIs ==
  ASSUME MailsOk, NEW m \in Mails
  PROVE  /\ When(m) \in Int
         /\ When(m) = CASE received[m] # Null -> Seconds(received[m])
                       [] received[m] = Null /\ date[m] # Null -> Seconds(date[m])
                       [] OTHER -> 0
<1>1. Dated(received[m]) /\ Dated(date[m])
  BY DEF MailsOk
<1>2. CASE received[m] # Null
  <2>1. Seconds(received[m]) = Moment(received[m]) /\ Moment(received[m]) \in Int
    BY <1>1, <1>2, TextTrue DEF Dated
  <2> QED
    BY <1>2, <2>1 DEF When
<1>3. CASE received[m] = Null /\ date[m] # Null
  <2>1. Seconds(date[m]) = Moment(date[m]) /\ Moment(date[m]) \in Int
    BY <1>1, <1>3, TextTrue DEF Dated
  <2> QED
    BY <1>3, <2>1 DEF When
<1>4. CASE received[m] = Null /\ date[m] = Null
  BY <1>4 DEF When
<1> QED
  BY <1>2, <1>3, <1>4

\* The dates of the mails are dates.
LEMMA SampleIsText ==
  ASSUME NEW text \in Sample
  PROVE  IsText(text) /\ Representable(Moment(text) + 0)
<1>1. /\ text \in [date : [year : ShownYears, month : 1..12, day : 1..31, hour : 0..23],
                   zone : -12..14]
      /\ IsDate(text.date) /\ Representable(Moment(text))
  BY SampleAssumption
<1>2. /\ text.date \in [year : ShownYears, month : 1..12, day : 1..31, hour : 0..23]
      /\ text.zone \in -12..14
  BY <1>1
<1>3. PICK d : d = text.date
  OBVIOUS
<1>4. /\ d = Date(d.year, d.month, d.day, d.hour)
      /\ d.year \in ShownYears /\ d.month \in 1..12 /\ d.day \in 1..31 /\ d.hour \in 0..23
  BY <1>2, <1>3 DEF Date
<1>5. IsText(text)
  BY <1>1, <1>2, <1>3, <1>4 DEF IsText, ShownYears
<1>6. Moment(text) \in Int
  BY <1>5, TextTrue
<1>7. Moment(text) = Moment(text) + 0
  BY <1>6
<1> QED
  BY <1>1, <1>5, <1>7

LEMMA YearsAre == \A y \in Years : y \in Int /\ 2000 <= y /\ y <= 2099
<1> SUFFICES ASSUME NEW y \in Years
             PROVE  y \in Int /\ 2000 <= y /\ y <= 2099
  OBVIOUS
<1>1. y \in 2000..2099
  BY DateAssumption
<1> QED
  BY <1>1

LEMMA DaysAre == (\A x \in Days : x \in Int) /\ (\A x \in Hours : x \in Int)
<1>1. \A x \in Days : x \in Int
  BY DateAssumption
<1>2. \A x \in Hours : x \in Int
  BY DateAssumption
<1> QED
  BY <1>1, <1>2

LEMMA ZonesAre == \A z \in Zones : z \in Int
<1>1. \A z \in East : z \in Int
  BY ZoneAssumption
<1>2. \A h \in West : h \in Int
  BY ZoneAssumption
<1> QED
  BY <1>1, <1>2 DEF Zones

LEMMA TextsAreTexts ==
  ASSUME NEW text \in Texts
  PROVE  IsText(text)
<1>1. text \in [date : Dates, zone : Zones]
  BY DEF Texts
<1>2. text.date \in Dates /\ text.zone \in Zones
  BY <1>1
<1>3. PICK d : d = text.date
  OBVIOUS
<1>4. d \in [year : Years, month : 1..12, day : Days, hour : Hours] /\ IsDate(d)
  BY <1>2, <1>3 DEF Dates
<1>5. /\ d = Date(d.year, d.month, d.day, d.hour)
      /\ d.year \in Years /\ d.month \in 1..12 /\ d.day \in Days /\ d.hour \in Hours
  BY <1>4 DEF Date
<1>6. /\ d.year \in Int /\ 2000 <= d.year /\ d.year <= 2099
      /\ d.day \in Int /\ d.hour \in Int
  BY <1>5, YearsAre, DaysAre
<1>7. text.zone \in Int
  BY <1>2, ZonesAre
<1> QED
  BY <1>3, <1>4, <1>5, <1>6, <1>7 DEF IsText

\* The invariant holds at the beginning.
LEMMA InitMails == Init => MailsOk
<1> SUFFICES ASSUME Init PROVE MailsOk
  OBVIOUS
<1>1. n \in Nat
  BY MailsAssumption DEF Init
<1>2. here \in Int
  BY ZonesAre DEF Init
<1>3. ASSUME NEW m \in Mails
      PROVE  Dated(received[m]) /\ Dated(date[m])
  <2>1. CASE n = 1
    <3>1. received[m] = Null
      BY <1>3, <2>1 DEF Init
    <3>2. date[m] \in {Null} \cup Texts /\ (date[m] # Null => Representable(Moment(date[m]) + here))
      BY <1>3, <2>1 DEF Init
    <3> QED
      BY <3>1, <3>2, TextsAreTexts DEF Dated
  <2>2. CASE n # 1
    <3>1. here = 0
      BY <2>2 DEF Init
    <3>2. received[m] \in {Null} \cup Sample /\ date[m] \in {Null} \cup Sample
      BY <1>3, <2>2 DEF Init
    <3> QED
      BY <3>1, <3>2, SampleIsText DEF Dated
  <2> QED
    BY <2>1, <2>2
<1> QED
  BY <1>1, <1>2, <1>3 DEF MailsOk

LEMMA InitList == Init => StampsOk /\ ShownOk /\ ListOk
<1> SUFFICES ASSUME Init PROVE StampsOk /\ ShownOk /\ ListOk
  OBVIOUS
<1>1. MailsOk /\ n \in Nat
  BY InitMails DEF MailsOk
<1>2. /\ stamp = [m \in Mails |-> 0] /\ pc = "read" /\ shown = {} /\ flag = TRUE
      /\ link = [m \in 0..n |-> IF m = n THEN Null ELSE m + 1] /\ ml_cur = link[ListHead]
  BY DEF Init
<1>3. stamp \in Stamps(n)
  BY <1>2 DEF Stamps, Mails
<1>4. ml_cur = IF n = 0 THEN Null ELSE 1
  BY <1>1, <1>2 DEF ListHead
<1>5. StampsOk
  <2>1. ml_cur \in Mails \cup {Null}
    BY <1>1, <1>4 DEF Mails
  <2>2. \A m \in Mails : ml_cur = Null \/ m < ml_cur => stamp[m] = When(m)
    <3>1. CASE n = 0
      BY <3>1 DEF Mails
    <3>2. CASE n # 0
      BY <1>1, <1>4, <3>2, MailsAssumption DEF Mails
    <3> QED
      BY <3>1, <3>2
  <2> QED
    BY <1>2, <1>3, <2>1, <2>2 DEF StampsOk
<1>6. ShownOk
  BY <1>2 DEF ShownOk
<1>7. ListIs(AsRead)
  BY <1>1, <1>2, AsReadIsList DEF ListIs, AsRead, Mails
<1> QED
  BY <1>2, <1>5, <1>6, <1>7 DEF ListOk

-----------------------------------------------------------------------------
(* Each action.                                                            *)

\* What does not change.
LEMMA MailsStay ==
  ASSUME MailsOk, UNCHANGED mails
  PROVE  /\ n' = n /\ Mails' = Mails /\ MailsOk'
         /\ \A m \in Mails : When(m)' = When(m)
<1>1. n' = n /\ received' = received /\ date' = date /\ here' = here
  BY DEF mails
<1>2. Mails' = Mails
  BY <1>1 DEF Mails
<1>3. MailsOk'
  BY <1>1, <1>2 DEF MailsOk, Dated
<1>4. \A m \in Mails : When(m)' = When(m)
  BY <1>1 DEF When
<1> QED
  BY <1>1, <1>2, <1>3, <1>4

\* The stamps stay what they are after the headers have been read.
LEMMA StampsStay ==
  ASSUME MailsOk, StampsOk, UNCHANGED <<mails, stamp>>, pc # "read",
         pc' \in {"pass", "walk", "done"}
  PROVE  StampsOk'
<1>1. n' = n /\ Mails' = Mails /\ stamp' = stamp /\ \A m \in Mails : When(m)' = When(m)
  BY MailsStay
<1>2. pc' # "read"
  OBVIOUS
<1> QED
  BY <1>1, <1>2 DEF StampsOk, Stamps

LEMMA ShownStays ==
  ASSUME ShownOk, UNCHANGED mails, shown' = shown
  PROVE  ShownOk'
BY DEF ShownOk, mails

LEMMA ListStays ==
  ASSUME NEW s, UNCHANGED <<link, stamp>>, n' = n, IsList(n, link, s), IsStable(n, stamp, s)
  PROVE  IsList(n, link, s)' /\ IsStable(n, stamp, s)'
BY DEF IsList, IsStable

\* A header is read: the stamp of the mail at ml_cur is its moment.
LEMMA ReadsStep ==
  ASSUME HeadersInv, ReadsHeader
  PROVE  HeadersInv'
<1>1. /\ MailsOk /\ StampsOk /\ ShownOk /\ ListOk
      /\ pc = "read" /\ pc' = "read" /\ ml_cur # Null /\ UNCHANGED mails
      /\ link' = link /\ flag' = flag /\ shown' = shown /\ ml_cur' = link[ml_cur]
  BY DEF HeadersInv, ReadsHeader
<1>2. MailsOk' /\ n' = n /\ Mails' = Mails /\ \A m \in Mails : When(m)' = When(m)
  BY <1>1, MailsStay
<1>3. ml_cur \in Mails /\ \A m \in Mails : m < ml_cur => stamp[m] = When(m)
  BY <1>1 DEF StampsOk
<1>4. When(ml_cur) \in Int /\ stamp' = [stamp EXCEPT ![ml_cur] = When(ml_cur)]
  <2>1. stamp' = [stamp EXCEPT ![ml_cur] =
                    CASE received[ml_cur] # Null -> Seconds(received[ml_cur])
                      [] received[ml_cur] = Null /\ date[ml_cur] # Null
                           -> Seconds(date[ml_cur])
                      [] OTHER -> 0]
    BY DEF ReadsHeader
  <2> QED
    BY <1>1, <1>3, <2>1, WhenIs
<1>5. stamp \in Stamps(n) /\ n \in Nat
  BY <1>1 DEF StampsOk, MailsOk
<1>6. stamp' \in Stamps(n')
  BY <1>2, <1>4, <1>5 DEF Stamps
<1>7. stamp'[ml_cur] = When(ml_cur) /\ \A m \in Mails : m # ml_cur => stamp'[m] = stamp[m]
  BY <1>3, <1>4, <1>5 DEF Stamps, Mails
<1>8. PICK s : ListIs(s)
  BY <1>1 DEF ListOk
<1>9. s = AsRead /\ IsList(n, link, s)
  BY <1>1, <1>8 DEF ListIs
<1>10. ml_cur' = IF ml_cur = n THEN Null ELSE ml_cur + 1
  <2>1. link[s[ml_cur]] = IF ml_cur = n THEN Null ELSE s[ml_cur + 1]
    BY <1>3, <1>9 DEF IsList, Mails
  <2>2. s[ml_cur] = ml_cur
    BY <1>3, <1>9 DEF AsRead
  <2>3. ml_cur # n => s[ml_cur + 1] = ml_cur + 1
    BY <1>3, <1>5, <1>9 DEF AsRead, Mails
  <2> QED
    BY <1>1, <2>1, <2>2, <2>3
<1>11. StampsOk'
  <2>1. ml_cur' \in Mails \cup {Null}
    BY <1>3, <1>5, <1>10 DEF Mails
  <2>2. ASSUME NEW m \in Mails, ml_cur' = Null \/ m < ml_cur'
        PROVE  stamp'[m] = When(m)
    <3>1. m <= ml_cur
      <4>1. CASE ml_cur = n
        BY <1>5, <4>1 DEF Mails
      <4>2. CASE ml_cur # n
        <5>1. ml_cur' = ml_cur + 1 /\ ml_cur' # Null
          BY <1>3, <1>5, <1>10, <4>2, MailsAssumption DEF Mails
        <5>2. m \in Int /\ ml_cur \in Int
          BY <1>3, <1>5 DEF Mails
        <5> QED
          BY <2>2, <5>1, <5>2
      <4> QED
        BY <4>1, <4>2
    <3>2. CASE m = ml_cur
      BY <1>7, <3>2
    <3>3. CASE m # ml_cur
      <4>1. m \in Int /\ ml_cur \in Int
        BY <1>3, <1>5 DEF Mails
      <4>2. m < ml_cur
        BY <3>1, <3>3, <4>1
      <4> QED
        BY <1>3, <1>7, <3>3, <4>2
    <3> QED
      BY <3>2, <3>3
  <2> QED
    BY <1>1, <1>2, <1>6, <2>1, <2>2 DEF StampsOk
<1>12. ShownOk'
  BY <1>1, ShownStays
<1>13. ListOk'
  <2>1. IsStable(n, stamp', s)
    BY <1>5, <1>9, AsReadIsList DEF AsRead, Mails
  <2>2. IsStable(n, stamp, s)' /\ IsList(n, link, s)'
    BY <1>1, <1>2, <1>9, <2>1 DEF IsStable, IsList
  <2>3. s = AsRead'
    BY <1>2, <1>9 DEF AsRead
  <2>4. ListIs(s)'
    BY <1>1, <2>2, <2>3 DEF ListIs
  <2> QED
    BY <1>1, <2>4 DEF ListOk
<1> QED
  BY <1>2, <1>11, <1>12, <1>13 DEF HeadersInv

LEMMA HeadersReadStep ==
  ASSUME HeadersInv, HeadersRead
  PROVE  HeadersInv'
<1>1. /\ MailsOk /\ StampsOk /\ ShownOk /\ ListOk
      /\ pc = "read" /\ pc' = "pass" /\ ml_cur = Null /\ UNCHANGED mails
      /\ link' = link /\ flag' = flag /\ shown' = shown /\ stamp' = stamp
  BY DEF HeadersInv, HeadersRead, sort
<1>2. MailsOk' /\ n' = n /\ Mails' = Mails /\ \A m \in Mails : When(m)' = When(m)
  BY <1>1, MailsStay
<1>3. StampsOk'
  BY <1>1, <1>2 DEF StampsOk, Stamps
<1>4. ShownOk'
  BY <1>1, ShownStays
<1>5. PICK s : ListIs(s)
  BY <1>1 DEF ListOk
<1>6. IsList(n, link, s)' /\ IsStable(n, stamp, s)'
  BY <1>1, <1>2, <1>5, ListStays DEF ListIs
<1>7. flag' = TRUE
  BY <1>1 DEF ListOk
<1>8. ListIs(s)'
  BY <1>1, <1>6, <1>7 DEF ListIs
<1>9. ListOk'
  BY <1>1, <1>7, <1>8 DEF ListOk
<1> QED
  BY <1>2, <1>3, <1>4, <1>9 DEF HeadersInv

LEMMA PassBeginsStep ==
  ASSUME HeadersInv, PassBegins
  PROVE  HeadersInv'
<1>1. /\ MailsOk /\ StampsOk /\ ShownOk /\ ListOk
      /\ pc = "pass" /\ pc' = "walk" /\ UNCHANGED mails
      /\ link' = link /\ flag' = FALSE /\ shown' = shown /\ stamp' = stamp
      /\ prev' = ListHead /\ ml_cur' = link[ListHead] /\ nxt' \in NextOf(link, ml_cur')
  BY DEF HeadersInv, PassBegins
<1>2. MailsOk' /\ n' = n /\ n \in Nat
  BY <1>1, MailsStay DEF MailsOk
<1>3. StampsOk'
  BY <1>1, StampsStay
<1>4. ShownOk'
  BY <1>1, ShownStays
<1>5. PICK s : ListIs(s)
  BY <1>1 DEF ListOk
<1>6. IsList(n, link, s)' /\ IsStable(n, stamp, s)'
  BY <1>1, <1>2, <1>5, ListStays DEF ListIs
<1>7. Stands(n, s, prev', ml_cur', 1)
  <2>1. link[ListHead] = IF n = 0 THEN Null ELSE s[1]
    BY <1>5 DEF ListIs, IsList
  <2> QED
    BY <1>1, <1>2, <2>1 DEF Stands, Previous
<1>8. ml_cur' # Null => nxt' = link'[ml_cur']
  BY <1>1 DEF NextOf
<1>9. Falls(n, stamp, s, 1)
  BY <1>2 DEF Falls
<1>10. Walks(s, 1)'
  BY <1>1, <1>2, <1>7, <1>8, <1>9 DEF Walks, Stands, Falls
<1>11. 1 \in 1..(n' + 1)
  BY <1>2
<1>12. ListIs(s)'
  BY <1>1, <1>6, <1>10, <1>11 DEF ListIs
<1>13. ListOk'
  BY <1>1, <1>12 DEF ListOk
<1> QED
  BY <1>2, <1>3, <1>4, <1>13 DEF HeadersInv

\* A pass without a swap has left all the mails in order.
LEMMA WalkEndsStep ==
  ASSUME HeadersInv, WalkEnds
  PROVE  HeadersInv'
<1>1. /\ MailsOk /\ StampsOk /\ ShownOk /\ ListOk
      /\ pc = "walk" /\ pc' = "pass" /\ UNCHANGED mails /\ (ml_cur = Null \/ nxt = Null)
      /\ link' = link /\ flag' = flag /\ shown' = shown /\ stamp' = stamp
  BY DEF HeadersInv, WalkEnds, sort
<1>2. MailsOk' /\ n' = n /\ n \in Nat
  BY <1>1, MailsStay DEF MailsOk
<1>3. StampsOk'
  BY <1>1, StampsStay
<1>4. ShownOk'
  BY <1>1, ShownStays
<1>5. PICK s : ListIs(s)
  BY <1>1 DEF ListOk
<1>6. IsList(n, link, s)' /\ IsStable(n, stamp, s)'
  BY <1>1, <1>2, <1>5, ListStays DEF ListIs
<1>7. PICK k \in 1..(n + 1) : Walks(s, k)
  BY <1>1, <1>5 DEF ListIs
<1>8. /\ \A i \in 1..n : s[i] # Null
      /\ \A i \in 1..n : link[s[i]] = IF i = n THEN Null ELSE s[i + 1]
  <2>1. \A i \in 1..n : s[i] \in 1..n
    BY <1>5 DEF ListIs, IsList, Orders
  <2>2. \A i \in 1..n : s[i] # Null
    BY <2>1, MailsAssumption
  <2>3. \A i \in 1..n : link[s[i]] = IF i = n THEN Null ELSE s[i + 1]
    BY <1>5 DEF ListIs, IsList
  <2> QED
    BY <2>2, <2>3
<1>9. k >= n
  <2>1. CASE ml_cur = Null
    BY <1>2, <1>7, <1>8, <2>1 DEF Walks, Stands
  <2>2. CASE ml_cur # Null
    <3>1. k \in 1..n /\ ml_cur = s[k] /\ nxt = link[s[k]] /\ nxt = Null
      BY <1>1, <1>2, <1>7, <2>2 DEF Walks, Stands
    <3>2. link[s[k]] = IF k = n THEN Null ELSE s[k + 1]
      BY <1>8, <3>1
    <3>3. k # n => k + 1 \in 1..n
      BY <1>2, <3>1
    <3>4. k # n => s[k + 1] # Null
      BY <1>8, <3>3
    <3>5. k = n
      BY <3>1, <3>2, <3>4
    <3> QED
      BY <1>2, <3>5
  <2> QED
    BY <2>1, <2>2
<1>10. flag' = FALSE => Falls(n', stamp', s, n')
  <2>1. flag = FALSE => Falls(n, stamp, s, k)
    BY <1>7 DEF Walks
  <2>2. Falls(n, stamp, s, k) => Falls(n, stamp, s, n)
    BY <1>2, <1>9 DEF Falls
  <2> QED
    BY <1>1, <1>2, <2>1, <2>2
<1>11. ListIs(s)'
  BY <1>1, <1>6, <1>10 DEF ListIs
<1>12. ListOk'
  BY <1>1, <1>11 DEF ListOk
<1> QED
  BY <1>2, <1>3, <1>4, <1>12 DEF HeadersInv

LEMMA DoneStep ==
  ASSUME HeadersInv, Done
  PROVE  HeadersInv'
<1>1. /\ MailsOk /\ StampsOk /\ ShownOk /\ ListOk
      /\ pc = "pass" /\ pc' = "done" /\ UNCHANGED mails /\ ~flag
      /\ link' = link /\ flag' = flag /\ shown' = shown /\ stamp' = stamp
  BY DEF HeadersInv, Done, sort
<1>2. MailsOk' /\ n' = n
  BY <1>1, MailsStay
<1>3. StampsOk'
  BY <1>1, StampsStay
<1>4. ShownOk'
  BY <1>1, ShownStays
<1>5. PICK s : ListIs(s)
  BY <1>1 DEF ListOk
<1>6. IsList(n, link, s)' /\ IsStable(n, stamp, s)'
  BY <1>1, <1>2, <1>5, ListStays DEF ListIs
<1>7. flag = FALSE
  BY <1>1 DEF ListOk
<1>8. Falls(n, stamp, s, n)
  BY <1>1, <1>5, <1>7 DEF ListIs
<1>9. Falls(n, stamp, s, n)'
  BY <1>1, <1>2, <1>8 DEF Falls
<1>10. ListIs(s)'
  BY <1>1, <1>6, <1>9 DEF ListIs
<1>11. ListOk'
  BY <1>1, <1>10 DEF ListOk
<1> QED
  BY <1>2, <1>3, <1>4, <1>11 DEF HeadersInv

\* The date of a mail is displayed.
LEMMA DisplaysStep ==
  ASSUME HeadersInv, Displays
  PROVE  HeadersInv'
<1>1. /\ MailsOk /\ StampsOk /\ ShownOk /\ ListOk
      /\ pc = "done" /\ pc' = "done" /\ UNCHANGED mails
      /\ link' = link /\ flag' = flag /\ stamp' = stamp
  BY DEF HeadersInv, Displays, sort
<1>2. MailsOk' /\ n' = n /\ here' = here
  BY <1>1, MailsStay DEF mails
<1>3. StampsOk'
  BY <1>1, StampsStay
<1>4. ShownOk'
  <2>0. PICK m \in Mails : \E text \in {received[m], date[m]} \ {Null} :
          shown' = {[text |-> text, as |-> Civil(Seconds(text) + here)]}
    BY DEF Displays
  <2>1. PICK text \in {received[m], date[m]} \ {Null} :
          shown' = {[text |-> text, as |-> Civil(Seconds(text) + here)]}
    BY <2>0
  <2>2. IsText(text) /\ Representable(Moment(text) + here) /\ here \in Int
    BY <1>1, <2>1 DEF MailsOk, Dated
  <2>3. Seconds(text) = Moment(text) /\ Moment(text) \in Int
    BY <2>2, TextTrue
  <2>4. PICK hours \in Int : hours = Moment(text) + here /\ hours = Seconds(text) + here
    BY <2>2, <2>3
  <2>5. IsDate(Civil(hours)) /\ Elapsed(Civil(hours)) = hours
    BY <2>2, <2>4, CivilTrue
  <2> QED
    BY <1>2, <2>1, <2>4, <2>5 DEF ShownOk
<1>5. PICK s : ListIs(s)
  BY <1>1 DEF ListOk
<1>6. IsList(n, link, s)' /\ IsStable(n, stamp, s)'
  BY <1>1, <1>2, <1>5, ListStays DEF ListIs
<1>7. Falls(n, stamp, s, n)
  BY <1>1, <1>5 DEF ListIs
<1>8. Falls(n, stamp, s, n)'
  BY <1>1, <1>2, <1>7 DEF Falls
<1>9. ListIs(s)'
  BY <1>1, <1>6, <1>8 DEF ListIs
<1>10. ListOk'
  BY <1>1, <1>9 DEF ListOk
<1> QED
  BY <1>2, <1>3, <1>4, <1>10 DEF HeadersInv

\* One turn of the inner loop, with a swap and without.
LEMMA WalkStep ==
  ASSUME HeadersInv, Walk
  PROVE  HeadersInv'
<1>1. /\ MailsOk /\ StampsOk /\ ShownOk /\ ListOk
      /\ pc = "walk" /\ pc' = "walk" /\ UNCHANGED mails /\ ml_cur # Null /\ nxt # Null
      /\ shown' = shown /\ stamp' = stamp
      /\ prev' = ml_cur /\ ml_cur' = link'[ml_cur] /\ nxt' \in NextOf(link', ml_cur')
  BY DEF HeadersInv, Walk, Advances
<1>2. MailsOk' /\ n' = n /\ n \in Nat
  BY <1>1, MailsStay DEF MailsOk
<1>3. StampsOk'
  BY <1>1, StampsStay
<1>4. ShownOk'
  BY <1>1, ShownStays
<1>5. PICK s : ListIs(s)
  BY <1>1 DEF ListOk
<1>6. PICK k \in 1..(n + 1) : Walks(s, k)
  BY <1>1, <1>5 DEF ListIs
<1>7. IsList(n, link, s) /\ IsStable(n, stamp, s) /\ s \in Orders(n) /\ stamp \in Stamps(n)
  BY <1>1, <1>5 DEF ListIs, IsList, StampsOk
<1>8. k \in Int /\ 1 <= k /\ k <= n /\ k \in 1..n /\ ml_cur = s[k] /\ prev = Previous(s, k)
  BY <1>1, <1>2, <1>6 DEF Walks, Stands
<1>9. nxt = IF k = n THEN Null ELSE s[k + 1]
  <2>1. link[s[k]] = IF k = n THEN Null ELSE s[k + 1]
    BY <1>7, <1>8 DEF IsList
  <2> QED
    BY <1>1, <1>6, <1>8, <2>1 DEF Walks
<1>10. PICK next \in Int : next = k + 1 /\ nxt = s[next]
  BY <1>1, <1>8, <1>9
<1>11. k < n /\ next \in 1..n
  BY <1>1, <1>2, <1>8, <1>9, <1>10
<1>12. ml_cur' # Null => nxt' = link'[ml_cur']
  BY <1>1 DEF NextOf
<1>13. flag' \in BOOLEAN
  <2>1. flag' = (flag \/ Older(ml_cur, nxt))
    BY DEF Walk
  <2> QED
    BY <2>1
<1>14. CASE Older(ml_cur, nxt)
  <2>1. stamp[s[k]] < stamp[s[next]]
    BY <1>8, <1>10, <1>14 DEF Older
  <2>2. PICK e : e = Exchanged(s, k)
    OBVIOUS
  <2>3. link' = Relinked(link, prev, ml_cur, nxt)
    BY <1>14 DEF Walk, Swapped, Relinked
  <2>4. IsList(n, link', e)
    <3>1. PICK size \in Nat : size = n
      BY <1>2
    <3>2. PICK l, q : l = link /\ q = prev
      OBVIOUS
    <3>3. PICK a, b : a = ml_cur /\ b = nxt
      OBVIOUS
    <3>4. PICK r : r = link'
      OBVIOUS
    <3>5. /\ IsList(size, l, s) /\ 1 <= k /\ k < size /\ next = k + 1 /\ a = s[k]
          /\ b = s[next] /\ q = Previous(s, k) /\ r = Relinked(l, q, a, b)
      BY <1>7, <1>8, <1>10, <1>11, <2>3, <3>1, <3>2, <3>3, <3>4
    <3>6. IsList(size, r, Exchanged(s, k))
      BY <3>5, ExchangeLists
    <3> QED
      BY <2>2, <3>1, <3>4, <3>6
  <2>5. IsStable(n, stamp, e)
    BY <1>2, <1>7, <1>8, <1>10, <1>11, <2>1, <2>2, ExchangeStable
  <2>6. e[next] = s[k]
    <3>1. e = [s EXCEPT ![k] = s[next], ![next] = s[k]]
      BY <1>10, <2>2 DEF Exchanged
    <3> QED
      BY <1>7, <1>11, <3>1 DEF Orders
  <2>7. PICK j \in 1..(n + 1) : j = k + 2 /\ j - 1 = next /\ j # 1
    BY <1>2, <1>8, <1>10, <1>11
  <2>8. Stands(n, e, prev', ml_cur', j)
    <3>1. prev' = Previous(e, j)
      BY <1>1, <1>8, <2>6, <2>7 DEF Previous
    <3>2. link'[e[next]] = IF next = n THEN Null ELSE e[next + 1]
      BY <1>11, <2>4 DEF IsList
    <3>3. ml_cur' = IF j = n + 1 THEN Null ELSE e[j]
      <4>1. j = next + 1 /\ (next = n <=> j = n + 1)
        BY <1>2, <1>10, <2>7
      <4> QED
        BY <1>1, <1>8, <2>6, <3>2, <4>1
    <3> QED
      BY <3>1, <3>3 DEF Stands
  <2>9. flag' # FALSE
    BY <1>14 DEF Walk
  <2>10. Walks(e, j)'
    BY <1>2, <1>12, <2>8, <2>9 DEF Walks, Stands
  <2>11. IsList(n, link, e)' /\ IsStable(n, stamp, e)'
    BY <1>1, <1>2, <2>4, <2>5 DEF IsList, IsStable
  <2>12. ListIs(e)'
    BY <1>1, <1>2, <2>10, <2>11 DEF ListIs
  <2>13. ListOk'
    BY <1>1, <1>13, <2>12 DEF ListOk
  <2> QED
    BY <1>2, <1>3, <1>4, <2>13 DEF HeadersInv
<1>15. CASE ~Older(ml_cur, nxt)
  <2>1. stamp[s[k]] >= stamp[s[next]]
    <3>1. ~(stamp[s[k]] < stamp[s[next]])
      BY <1>8, <1>10, <1>15 DEF Older
    <3>2. stamp[s[k]] \in Int /\ stamp[s[next]] \in Int
      BY <1>7, <1>8, <1>11 DEF Orders, Stamps
    <3> QED
      BY <3>1, <3>2
  <2>2. link' = link /\ (flag' = FALSE => flag = FALSE)
    <3>1. link' = link
      BY <1>15 DEF Walk
    <3>2. flag' = (flag \/ Older(ml_cur, nxt)) /\ flag \in BOOLEAN
      BY <1>1 DEF Walk, ListOk
    <3>3. flag' = FALSE => flag = FALSE
      BY <1>15, <3>2
    <3> QED
      BY <3>1, <3>3
  <2>3. flag = FALSE => Falls(n, stamp, s, next)
    <3>1. flag = FALSE => Falls(n, stamp, s, k)
      BY <1>6 DEF Walks
    <3> QED
      BY <1>2, <1>7, <1>8, <1>10, <1>11, <2>1, <3>1, FallsNext
  <2>4. next \in 1..(n + 1)
    BY <1>2, <1>11
  <2>5. Stands(n, s, prev', ml_cur', next)
    <3>1. prev' = Previous(s, next)
      <4>1. next # 1 /\ next - 1 = k
        BY <1>8, <1>10
      <4> QED
        BY <1>1, <1>8, <4>1 DEF Previous
    <3>2. ml_cur' = s[next] /\ next # n + 1
      <4>1. link[s[k]] = s[next]
        <5>1. link[s[k]] = IF k = n THEN Null ELSE s[k + 1]
          BY <1>7, <1>8 DEF IsList
        <5>2. k # n
          BY <1>2, <1>11
        <5> QED
          BY <1>10, <5>1, <5>2
      <4> QED
        BY <1>1, <1>2, <1>8, <1>11, <2>2, <4>1
    <3> QED
      BY <3>1, <3>2 DEF Stands
  <2>6. Walks(s, next)'
    BY <1>1, <1>2, <1>12, <2>2, <2>3, <2>5 DEF Walks, Stands, Falls
  <2>7. IsList(n, link, s)' /\ IsStable(n, stamp, s)'
    BY <1>1, <1>2, <1>7, <2>2, ListStays
  <2>8. ListIs(s)'
    BY <1>1, <1>2, <2>4, <2>6, <2>7 DEF ListIs
  <2>9. ListOk'
    BY <1>1, <1>13, <2>8 DEF ListOk
  <2> QED
    BY <1>2, <1>3, <1>4, <2>9 DEF HeadersInv
<1> QED
  BY <1>14, <1>15

\* The list that is shown is the order that it stands for.
LEMMA ShownIs ==
  ASSUME NEW s, n \in Nat, IsList(n, link, s)
  PROVE  Shown = s
<1> DEFINE Goes(A) == [k \in 0..n |->
                         IF k = 0 THEN ListHead
                         ELSE IF A[k - 1] = Null THEN Null ELSE link[A[k - 1]]]
           At == CHOOSE A : A = Goes(A)
           T == [k \in 0..n |-> IF k = 0 THEN ListHead ELSE s[k]]
<1>1. Shown = [k \in Mails |-> At[k]]
  BY DEF Shown
<1>2. /\ s \in Orders(n) /\ \A k \in 1..n : s[k] \in 1..n
      /\ link[ListHead] = IF n = 0 THEN Null ELSE s[1]
      /\ \A k \in 1..n : link[s[k]] = IF k = n THEN Null ELSE s[k + 1]
  <2>1. s \in Orders(n)
    BY DEF IsList
  <2>2. \A k \in 1..n : s[k] \in 1..n
    BY <2>1 DEF Orders
  <2> QED
    BY <2>1, <2>2 DEF IsList
<1>3. ASSUME NEW k \in 0..n, k # 0
      PROVE  /\ k - 1 \in 0..n /\ T[k - 1] # Null
             /\ T[k] = link[T[k - 1]]
  <2>1. k - 1 \in 0..n /\ k \in 1..n /\ k \in Int
    BY <1>3
  <2>2. CASE k = 1
    BY <1>2, <2>1, <2>2, MailsAssumption DEF ListHead
  <2>3. CASE k # 1
    <3>1. PICK j \in 1..n : j = k - 1 /\ k = j + 1 /\ j # n
      BY <2>1, <2>3
    <3>2. T[j] = s[j] /\ T[k] = s[k]
      BY <1>3, <3>1
    <3>3. s[j] # Null
      BY <1>2, MailsAssumption
    <3> QED
      BY <1>2, <2>1, <3>1, <3>2, <3>3
  <2> QED
    BY <2>2, <2>3
<1>4. T = Goes(T)
  <2> HIDE DEF Goes
  <2>1. \A k \in 0..n : T[k] = IF k = 0 THEN ListHead
                               ELSE IF T[k - 1] = Null THEN Null ELSE link[T[k - 1]]
    BY <1>3
  <2> QED
    BY <2>1 DEF Goes
<1>5. At = Goes(At)
  <2> HIDE DEF Goes, T
  <2> QED
    BY <1>4, Zenon
<1>6. PICK A : A = At
  OBVIOUS
<1>7. A = Goes(A)
  <2> HIDE DEF Goes, At, T
  <2> QED
    BY <1>5, <1>6, Zenon
<1> HIDE DEF At
<1>8. \A k \in 0..n : A[k] = IF k = 0 THEN ListHead
                             ELSE IF A[k - 1] = Null THEN Null ELSE link[A[k - 1]]
  BY <1>7
<1>9. \A k \in 0..n : A[k] = T[k]
  <2>1. SUFFICES ASSUME \E k \in 0..n : A[k] # T[k]
                 PROVE  FALSE
    OBVIOUS
  <2>2. PICK S : S = {k \in 0..n : A[k] # T[k]}
    OBVIOUS
  <2>3. S # {} /\ S \in SUBSET Nat
    <3>1. \A k \in 0..n : k \in Nat
      OBVIOUS
    <3> HIDE DEF T
    <3> QED
      BY <2>1, <2>2, <3>1
  <2>4. PICK m \in S : \A k \in S : m <= k
    BY <2>3, Least
  <2>5. m \in 0..n /\ A[m] # T[m]
    BY <2>2
  <2>6. m # 0
    BY <1>8, <2>5
  <2>7. PICK j \in 0..n : j = m - 1
    BY <2>5, <2>6
  <2>8. j \notin S
    BY <2>4, <2>5, <2>7
  <2>9. A[j] = T[j]
    BY <2>2, <2>8
  <2>10. T[j] # Null /\ T[m] = link[T[j]]
    BY <1>3, <2>5, <2>6, <2>7
  <2>11. A[m] = link[T[j]]
    BY <1>8, <2>5, <2>6, <2>7, <2>9, <2>10
  <2> QED
    BY <2>5, <2>10, <2>11
<1>10. \A k \in 1..n : A[k] = s[k]
  <2>1. \A k \in 1..n : k \in 0..n /\ k # 0
    OBVIOUS
  <2> QED
    BY <1>9, <2>1
<1>11. Shown = [k \in 1..n |-> s[k]]
  BY <1>1, <1>6, <1>10 DEF Mails
<1> QED
  BY <1>2, <1>11 DEF Orders

LEMMA StutterStep ==
  ASSUME HeadersInv, UNCHANGED vars
  PROVE  HeadersInv'
<1>1. /\ MailsOk /\ StampsOk /\ ShownOk /\ ListOk /\ UNCHANGED mails
      /\ pc' = pc /\ link' = link /\ flag' = flag /\ shown' = shown /\ stamp' = stamp
      /\ prev' = prev /\ ml_cur' = ml_cur /\ nxt' = nxt
  BY DEF HeadersInv, vars, sort
<1>2. MailsOk' /\ n' = n /\ Mails' = Mails /\ \A m \in Mails : When(m)' = When(m)
  BY <1>1, MailsStay
<1>3. StampsOk'
  BY <1>1, <1>2 DEF StampsOk, Stamps
<1>4. ShownOk'
  BY <1>1, ShownStays
<1>5. PICK s : ListIs(s)
  BY <1>1 DEF ListOk
<1>6. ListIs(s)'
  BY <1>1, <1>2, <1>5 DEF ListIs, IsList, IsStable, Falls, Walks, Stands, AsRead
<1>7. ListOk'
  BY <1>1, <1>6 DEF ListOk
<1> QED
  BY <1>2, <1>3, <1>4, <1>7 DEF HeadersInv

-----------------------------------------------------------------------------
(* The theorems.                                                           *)

\* In every state the links stand for one order of all the mails, in which those of
\* the same moment are as the server had them, and the stamps are their moments.
THEOREM HeadersInvariant == Spec => []HeadersInv
<1>1. Init => HeadersInv
  BY InitMails, InitList DEF HeadersInv
<1>2. HeadersInv /\ [Next]_vars => HeadersInv'
  <2> SUFFICES ASSUME HeadersInv, [Next]_vars PROVE HeadersInv'
    OBVIOUS
  <2>1. CASE ReadsHeader
    BY <2>1, ReadsStep
  <2>2. CASE HeadersRead
    BY <2>2, HeadersReadStep
  <2>3. CASE PassBegins
    BY <2>3, PassBeginsStep
  <2>4. CASE Walk
    BY <2>4, WalkStep
  <2>5. CASE WalkEnds
    BY <2>5, WalkEndsStep
  <2>6. CASE Done
    BY <2>6, DoneStep
  <2>7. CASE Displays
    BY <2>7, DisplaysStep
  <2>8. CASE UNCHANGED vars
    BY <2>8, StutterStep
  <2> QED
    BY <2>1, <2>2, <2>3, <2>4, <2>5, <2>6, <2>7, <2>8 DEF Next
<1> QED
  BY <1>1, <1>2, PTL DEF Spec

\* No mail is dropped from the list, or put into it twice (InitHeaders,
\* main.c:725-746): when a sort begins or ends, and in the middle of every pass.
THEOREM NothingLostAlways == Spec => []NothingLost
<1>1. HeadersInv => NothingLost
  <2> SUFFICES ASSUME HeadersInv PROVE NothingLost
    OBVIOUS
  <2>1. PICK s : ListIs(s)
    BY DEF HeadersInv, ListOk
  <2>2. n \in Nat /\ IsList(n, link, s)
    BY <2>1 DEF HeadersInv, MailsOk, ListIs
  <2>3. Shown = s
    BY <2>2, ShownIs
  <2>4. s \in Orders(n) /\ \A m \in Mails : \E k \in Mails : s[k] = m
    BY <2>2 DEF IsList, Mails
  <2>5. \A k \in Mails : s[k] \in Mails /\ s[k] # Null
    BY <2>4, MailsAssumption DEF Orders, Mails
  <2>6. DOMAIN s = Mails
    BY <2>4 DEF Orders, Mails
  <2>7. Range(s) = Mails
    BY <2>4, <2>5, <2>6 DEF Range
  <2>8. ASSUME NEW m \in 0..n, link[m] = Null
        PROVE  m = IF n = 0 THEN ListHead ELSE s[n]
    <3>1. CASE n = 0
      BY <2>8, <3>1 DEF ListHead
    <3>2. CASE n # 0 /\ m = 0
      <4>1. link[0] = s[1] /\ 1 \in Mails
        BY <2>2, <3>2 DEF IsList, ListHead, Mails
      <4> QED
        BY <2>5, <2>8, <3>2, <4>1
    <3>3. CASE m # 0
      <4>1. m \in Mails
        BY <2>2, <3>3 DEF Mails
      <4>2. PICK k \in Mails : s[k] = m
        BY <2>4, <4>1
      <4>3. link[m] = IF k = n THEN Null ELSE s[k + 1]
        BY <2>2, <4>2 DEF IsList, Mails
      <4>4. k # n => k + 1 \in Mails
        BY <2>2, <4>2 DEF Mails
      <4>5. k = n
        BY <2>5, <2>8, <4>3, <4>4
      <4> QED
        BY <2>2, <4>1, <4>2, <4>5 DEF Mails
    <3> QED
      BY <3>1, <3>2, <3>3
  <2> QED
    BY <2>3, <2>7, <2>8 DEF NothingLost
<1> QED
  BY <1>1, HeadersInvariant, PTL

\* The timestamp is the moment at which the mail was sent, in whatever time zone
\* its date is written, and what is shown is that moment in the time zone of the
\* phone (get_date_from_str, main.c:474-602; PrintTimeDate, main.c:2016-2075).
THEOREM DatesTrueAlways == Spec => []DatesTrue
<1>1. HeadersInv => DatesTrue
  BY DEF HeadersInv, StampsOk, ShownOk, DatesTrue
<1> QED
  BY <1>1, HeadersInvariant, PTL

\* In the end the mails are shown newest first, and those of one moment in the
\* order of the server (main.c:725-746).
THEOREM SortedAlways == Spec => []Sorted
<1>1. HeadersInv => Sorted
  <2> SUFFICES ASSUME HeadersInv, pc = "done", NEW i \in Mails, NEW j \in Mails, i < j
               PROVE  \/ When(Shown[i]) > When(Shown[j])
                      \/ When(Shown[i]) = When(Shown[j]) /\ Shown[i] < Shown[j]
    BY DEF Sorted
  <2>1. PICK s : ListIs(s)
    BY DEF HeadersInv, ListOk
  <2>2. n \in Nat /\ IsList(n, link, s) /\ IsStable(n, stamp, s) /\ Falls(n, stamp, s, n)
    BY <2>1 DEF HeadersInv, MailsOk, ListIs
  <2>3. Shown = s
    BY <2>2, ShownIs
  <2>4. s[i] \in Mails /\ s[j] \in Mails
    BY <2>2 DEF IsList, Orders, Mails
  <2>5. stamp[s[i]] = When(s[i]) /\ stamp[s[j]] = When(s[j])
    BY <2>4 DEF HeadersInv, StampsOk
  <2>6. stamp[s[i]] \in Int /\ stamp[s[j]] \in Int
    BY <2>4 DEF HeadersInv, StampsOk, Stamps, Mails
  <2>7. stamp[s[i]] >= stamp[s[j]]
    BY <2>2 DEF Falls, Mails
  <2>8. stamp[s[i]] = stamp[s[j]] => s[i] < s[j]
    BY <2>2 DEF IsStable, Mails
  <2>9. PICK u \in Int, v \in Int : u = stamp[s[i]] /\ v = stamp[s[j]]
    BY <2>6
  <2>10. u > v \/ u = v
    BY <2>7, <2>9
  <2> QED
    BY <2>3, <2>5, <2>8, <2>9, <2>10
<1> QED
  BY <1>1, HeadersInvariant, PTL
-----------------------------------------------------------------------------
(* unmime_header, which decodes the headers that the list shows.           *)

LEMMA FirstIs ==
  ASSUME NEW S \in SUBSET (Nat \ {0})
  PROVE  /\ First(S) = 0 <=> S = {}
         /\ S # {} => First(S) \in S /\ \A k \in S : First(S) <= k
<1>1. CASE S = {}
  BY <1>1 DEF First
<1>2. CASE S # {}
  <2>1. \E l \in S : \A k \in S : l <= k
    BY <1>2, Least
  <2>2. First(S) = CHOOSE l \in S : \A k \in S : l <= k
    BY <1>2 DEF First
  <2>3. First(S) \in S /\ \A k \in S : First(S) <= k
    BY <2>1, <2>2
  <2> QED
    BY <1>2, <2>3
<1> QED
  BY <1>1, <1>2

\* A header in which no text without a space stands between two words.
Spaced == \A i \in 2..(Len(head) - 1) :
            ~ /\ head[i] = "text"
              /\ head[i - 1] \in Words \cup {"text"}
              /\ head[i + 1] \in Words \cup {"text"}

\* What has been read ends with a word, and all of it is in outbuf.
UnmimeInv ==
  /\ head \in Seq(Token) /\ at \in 0..Len(head)
  /\ at # 0 /\ at # Len(head) => head[at] \in Words
  /\ Spaced => out = SubSeq(Decoded, 1, at)

LEMMA DecodedIs ==
  ASSUME head \in Seq(Token)
  PROVE  /\ DOMAIN head = 1..Len(head) /\ Len(head) \in Nat
         /\ Decoded \in Seq(Token \cup {"decoded"}) /\ Len(Decoded) = Len(head)
         /\ \A i \in 1..Len(head) :
               Decoded[i] = IF head[i] = "word" THEN "decoded" ELSE head[i]
<1>1. DOMAIN head = 1..Len(head) /\ Len(head) \in Nat
  OBVIOUS
<1>2. \A i \in 1..Len(head) : head[i] \in Token
  OBVIOUS
<1>3. Decoded = [i \in 1..Len(head) |-> IF head[i] = "word" THEN "decoded" ELSE head[i]]
  BY <1>1 DEF Decoded
<1>4. Decoded \in [1..Len(head) -> Token \cup {"decoded"}]
  BY <1>2, <1>3
<1>5. Decoded \in Seq(Token \cup {"decoded"}) /\ Len(Decoded) = Len(head)
  BY <1>1, <1>4
<1> QED
  BY <1>1, <1>3, <1>5

\* A piece of the header behind what has been read, with a word or without.
LEMMA Grows ==
  ASSUME NEW S, NEW d \in Seq(S), NEW g, NEW a \in Nat, NEW b \in Nat, a <= b, b <= Len(d),
         g \in Seq(S), Len(g) = b - a, \A i \in 1..(b - a) : g[i] = d[a + i]
  PROVE  SubSeq(d, 1, a) \o g = SubSeq(d, 1, b)
<1> DEFINE r == SubSeq(d, 1, a) \o g
           t == SubSeq(d, 1, b)
<1>1. /\ SubSeq(d, 1, a) \in Seq(S) /\ Len(SubSeq(d, 1, a)) = a
      /\ \A i \in 1..a : SubSeq(d, 1, a)[i] = d[i]
  OBVIOUS
<1>2. t \in Seq(S) /\ Len(t) = b /\ \A i \in 1..b : t[i] = d[i]
  OBVIOUS
<1>3. /\ r \in Seq(S) /\ Len(r) = b
      /\ \A i \in 1..b : r[i] = IF i <= a THEN SubSeq(d, 1, a)[i] ELSE g[i - a]
  BY <1>1, ConcatProperties
<1>4. \A i \in 1..b : r[i] = t[i]
  <2> TAKE i \in 1..b
  <2>1. CASE i <= a
    BY <1>1, <1>2, <1>3, <2>1
  <2>2. CASE i > a
    <3>1. i - a \in 1..(b - a) /\ a + (i - a) = i
      BY <2>2
    <3>2. g[i - a] = d[i]
      BY <3>1
    <3> QED
      BY <1>2, <1>3, <2>2, <3>2
  <2> QED
    BY <2>1, <2>2
<1> QED
  BY <1>2, <1>3, <1>4

\* The words that are left.
LEMMA NextWordIs ==
  ASSUME UnmimeInv
  PROVE  /\ NextWord # 0 =>
              /\ NextWord \in Int /\ at < NextWord /\ NextWord <= Len(head)
              /\ head[NextWord] \in Words
              /\ \A k \in 1..Len(head) : at < k /\ k < NextWord => head[k] \notin Words
         /\ NextWord = 0 => \A k \in 1..Len(head) : at < k => head[k] \notin Words
<1> DEFINE S == {k \in (at + 1)..Len(head) : head[k] \in Words}
<1>1. at \in Nat /\ Len(head) \in Nat
  BY DEF UnmimeInv
<1>2. S \in SUBSET (Nat \ {0})
  BY <1>1
<1>3. NextWord = First(S)
  BY DEF NextWord
<1>4. \A k \in 1..Len(head) : at < k /\ head[k] \in Words => k \in S
  BY <1>1
<1>5. \A k \in S : k \in Int /\ at < k /\ k <= Len(head) /\ head[k] \in Words
  BY <1>1
<1> HIDE DEF S
<1>6. /\ First(S) = 0 <=> S = {}
      /\ S # {} => First(S) \in S /\ \A k \in S : First(S) <= k
  BY <1>2, FirstIs
<1>7. CASE S = {}
  BY <1>3, <1>4, <1>6, <1>7
<1>8. CASE S # {}
  <2>1. PICK next \in S : next = NextWord /\ \A k \in S : next <= k
    BY <1>3, <1>6, <1>8
  <2>2. next # 0
    BY <1>2
  <2>3. ASSUME NEW k \in 1..Len(head), at < k, k < next
        PROVE  head[k] \notin Words
    <3>1. k \notin S
      BY <1>5, <2>1, <2>3
    <3> QED
      BY <1>4, <2>3, <3>1
  <2> QED
    BY <1>5, <2>1, <2>2, <2>3
<1> QED
  BY <1>7, <1>8

\* No word before b is left.
NoWord(b) == \A k \in 1..Len(head) : at < k /\ k <= b => head[k] \notin Words

\* The gap in front of the next word, and the rest, have nothing to be decoded.
LEMMA PieceIs ==
  ASSUME NEW b \in Nat, NEW c \in Int, NEW g, UnmimeInv, c = at + 1, g = SubSeq(head, c, b),
         at <= b, b <= Len(head), NoWord(b)
  PROVE  /\ g \in Seq(Token) /\ Len(g) = b - at
         /\ \A i \in 1..(b - at) : /\ g[i] = head[at + i] /\ g[i] = Decoded[at + i]
                                   /\ g[i] \in {"space", "text"}
<1>1. head \in Seq(Token) /\ at \in Nat /\ Len(head) \in Nat
  BY DEF UnmimeInv
<1>2. /\ \A i \in 1..Len(head) : Decoded[i] = IF head[i] = "word" THEN "decoded" ELSE head[i]
      /\ \A i \in 1..Len(head) : head[i] \in Token
  BY <1>1, DecodedIs
<1>3. \A i \in c..b : head[i] \in Token
  BY <1>1, <1>2
<1>4. /\ g \in Seq(Token)
      /\ Len(g) = IF c <= b THEN b - c + 1 ELSE 0
      /\ \A i \in 1..(b - c + 1) : g[i] = head[c + i - 1]
  BY <1>3, SubSeqProperties
<1>5. Len(g) = b - at
  BY <1>1, <1>4
<1>6. ASSUME NEW i \in 1..(b - at)
      PROVE  g[i] = head[at + i] /\ g[i] = Decoded[at + i] /\ g[i] \in {"space", "text"}
  <2>1. PICK k \in 1..Len(head) : k = at + i /\ k = c + i - 1 /\ at < k /\ k <= b
    BY <1>1
  <2>2. i \in 1..(b - c + 1)
    BY <1>1
  <2>3. g[i] = head[k]
    BY <1>4, <2>1, <2>2
  <2>4. head[k] \notin Words /\ head[k] \in Token
    BY <1>2, <2>1 DEF NoWord
  <2>5. head[k] = Decoded[k] /\ head[k] \in {"space", "text"}
    BY <1>2, <2>1, <2>4 DEF Token, Words
  <2> QED
    BY <2>1, <2>3, <2>5
<1> QED
  BY <1>4, <1>5, <1>6

LEMMA GapIs ==
  ASSUME NEW b \in Nat, UnmimeInv, at < Len(head), NextWord # 0, b = NextWord - 1
  PROVE  /\ Gap \in Seq(Token) /\ Len(Gap) = b - at
         /\ \A i \in 1..(b - at) : /\ Gap[i] = head[at + i]
                                   /\ Gap[i] = Decoded[at + i]
                                   /\ Gap[i] \in {"space", "text"}
<1>1. PICK a \in Nat, next \in Nat : a = at /\ next = NextWord /\ a < next /\ next <= Len(head)
  BY NextWordIs DEF UnmimeInv
<1>2. b = next - 1
  BY <1>1
<1>3. NoWord(b)
  BY <1>1, <1>2, NextWordIs DEF NoWord
<1>4. PICK c \in Int : c = at + 1
  BY <1>1
<1>5. PICK g : g = SubSeq(head, c, b)
  OBVIOUS
<1>6. g = Gap
  BY <1>1, <1>2, <1>4, <1>5 DEF Gap
<1>7. at <= b /\ b <= Len(head)
  BY <1>1, <1>2 DEF UnmimeInv
<1>8. /\ g \in Seq(Token) /\ Len(g) = b - at
      /\ \A i \in 1..(b - at) : /\ g[i] = head[at + i] /\ g[i] = Decoded[at + i]
                                /\ g[i] \in {"space", "text"}
  BY <1>1, <1>3, <1>4, <1>5, <1>7, PieceIs
<1> QED
  BY <1>6, <1>8

\* What is in front of a word is kept.
LEMMA GapKept ==
  ASSUME UnmimeInv, Spaced, at < Len(head), NextWord # 0
  PROVE  Kept = Gap
<1>1. PICK a \in Nat, next \in Nat : a = at /\ next = NextWord /\ a < next /\ next <= Len(head)
  BY NextWordIs DEF UnmimeInv
<1>2. PICK b \in Nat : b = next - 1
  BY <1>1
<1>5. PICK g : g = Gap
  OBVIOUS
<1>7. /\ g \in Seq(Token) /\ Len(g) = b - a
      /\ \A i \in 1..(b - a) : g[i] = head[a + i] /\ g[i] \in {"space", "text"}
  BY <1>1, <1>2, <1>5, GapIs
<1>8. CASE a = 0
  BY <1>1, <1>8 DEF Kept
<1>9. CASE b = a
  <2>1. g = <<>>
    BY <1>7, <1>9
  <2> QED
    BY <1>5, <2>1 DEF Kept
<1>10. CASE a # 0 /\ b # a
  <2>1. \E i \in 1..(b - a) : g[i] = "space"
    <3>1. SUFFICES ASSUME \A i \in 1..(b - a) : g[i] = "text"
                   PROVE  FALSE
      BY <1>7
    <3>2. PICK i \in 2..(Len(head) - 1) : i = a + 1 /\ i - 1 = a
      BY <1>1, <1>2, <1>10 DEF UnmimeInv
    <3>3. head[i] = "text"
      BY <1>1, <1>2, <1>7, <1>10, <3>1, <3>2
    <3>4. head[i - 1] \in Words
      BY <1>1, <1>10, <3>2 DEF UnmimeInv
    <3>5. head[i + 1] \in Words \cup {"text"}
      <4>1. CASE i = b
        BY <1>1, <1>2, <3>2, <4>1, NextWordIs
      <4>2. CASE i # b
        <5>1. 2 \in 1..(b - a) /\ a + 2 = i + 1
          BY <1>1, <1>2, <1>10, <3>2, <4>2
        <5> QED
          BY <1>7, <3>1, <5>1
      <4> QED
        BY <4>1, <4>2
    <3> QED
      BY <3>2, <3>3, <3>4, <3>5 DEF Spaced
  <2>2. DOMAIN g = 1..(b - a)
    BY <1>7
  <2>3. "space" \in Range(g)
    BY <2>1, <2>2 DEF Range
  <2> QED
    BY <1>5, <2>3 DEF Kept
<1> QED
  BY <1>1, <1>2, <1>8, <1>9, <1>10

LEMMA DecodesStep ==
  ASSUME UnmimeInv, DecodesWord
  PROVE  UnmimeInv'
<1>1. /\ at < Len(head) /\ NextWord # 0 /\ head' = head /\ at' = NextWord
      /\ out' = out \o (IF head[NextWord] = "odd" THEN Gap ELSE Kept)
                    \o <<IF head[NextWord] = "odd" THEN "odd" ELSE "decoded">>
  BY DEF DecodesWord, mail
<1>2. PICK a \in Nat, next \in Nat : /\ a = at /\ next = NextWord /\ a < next
                                     /\ next <= Len(head) /\ head[next] \in Words
  <2>1. /\ NextWord \in Int /\ at < NextWord /\ NextWord <= Len(head)
        /\ head[NextWord] \in Words
    BY <1>1, NextWordIs
  <2>2. at \in Nat
    BY DEF UnmimeInv
  <2>3. NextWord \in Nat
    BY <2>1, <2>2
  <2> QED
    BY <2>1, <2>2, <2>3
<1>3. PICK b \in Nat : b = next - 1 /\ b + 1 = next /\ a <= b
  BY <1>2
<1>4. head \in Seq(Token) /\ Len(head) \in Nat
  BY DEF UnmimeInv
<1>5. next \in 0..Len(head)
  BY <1>2, <1>4
<1>6. ASSUME Spaced
      PROVE  out' = SubSeq(Decoded, 1, next)
  <2> DEFINE T == Token \cup {"decoded"}
  <2>1. /\ Decoded \in Seq(T) /\ Len(Decoded) = Len(head)
        /\ Decoded[next] = IF head[next] = "word" THEN "decoded" ELSE head[next]
    BY <1>2, <1>4, DecodedIs
  <2>2. PICK d : d = Decoded
    OBVIOUS
  <2>3. PICK g : g = Gap
    OBVIOUS
  <2>5. /\ g \in Seq(Token) /\ Len(g) = b - a
        /\ \A i \in 1..(b - a) : g[i] = d[a + i]
    BY <1>1, <1>2, <1>3, <2>2, <2>3, GapIs
  <2>6. g \in Seq(T)
    BY <2>5
  <2>7. PICK w : w = <<d[next]>>
    OBVIOUS
  <2>8. w = <<IF head[next] = "odd" THEN "odd" ELSE "decoded">>
    BY <1>2, <2>1, <2>2, <2>7 DEF Words
  <2>9. out' = (SubSeq(d, 1, a) \o g) \o w
    BY <1>1, <1>2, <1>6, <2>2, <2>3, <2>8, GapKept DEF UnmimeInv
  <2>10. d \in Seq(T) /\ b <= Len(d) /\ next <= Len(d)
    BY <1>2, <1>3, <2>1, <2>2
  <2> HIDE DEF T
  <2>11. SubSeq(d, 1, a) \o g = SubSeq(d, 1, b)
    BY <1>3, <2>5, <2>6, <2>10, Grows
  <2>12. SubSeq(d, 1, b) \o w = SubSeq(d, 1, next)
    <3>1. d[next] \in T
      BY <1>2, <1>3, <2>10
    <3>2. w \in Seq(T) /\ Len(w) = next - b /\ w[1] = d[b + 1]
      BY <1>3, <2>7, <3>1
    <3>3. \A i \in 1..(next - b) : w[i] = d[b + i]
      BY <1>3, <3>2
    <3>4. b <= next
      BY <1>3
    <3> QED
      BY <2>10, <3>2, <3>3, <3>4, Grows
  <2> QED
    BY <2>2, <2>9, <2>11, <2>12
<1> QED
  BY <1>1, <1>2, <1>4, <1>5, <1>6 DEF UnmimeInv, Spaced, Decoded

LEMMA CopiesStep ==
  ASSUME UnmimeInv, CopiesRest
  PROVE  UnmimeInv'
<1>1. /\ at < Len(head) /\ NextWord = 0 /\ head' = head /\ at' = Len(head)
      /\ out' = out \o SubSeq(head, at + 1, Len(head))
  BY DEF CopiesRest, mail
<1>2. PICK a \in Nat, b \in Nat : a = at /\ b = Len(head) /\ a <= b
  BY <1>1 DEF UnmimeInv
<1>3. head \in Seq(Token)
  BY DEF UnmimeInv
<1>4. ASSUME Spaced
      PROVE  out' = SubSeq(Decoded, 1, b)
  <2> DEFINE T == Token \cup {"decoded"}
  <2>1. PICK d : d = Decoded /\ d \in Seq(T) /\ Len(d) = b
    BY <1>2, <1>3, DecodedIs
  <2>2. PICK c \in Int : c = at + 1
    BY <1>2
  <2>3. NoWord(b)
    BY <1>1, NextWordIs DEF NoWord
  <2>8. PICK g : g = SubSeq(head, c, b)
    OBVIOUS
  <2>4. /\ g \in Seq(Token) /\ Len(g) = b - a
        /\ \A i \in 1..(b - a) : g[i] = d[a + i]
    <3>1. /\ g \in Seq(Token) /\ Len(g) = b - at
          /\ \A i \in 1..(b - at) : /\ g[i] = head[at + i] /\ g[i] = Decoded[at + i]
                                    /\ g[i] \in {"space", "text"}
      <4>1. at \in Nat /\ Len(head) \in Nat /\ at <= b /\ b <= Len(head)
        BY <1>2
      <4> QED
        BY <2>2, <2>3, <2>8, <4>1, PieceIs
    <3> QED
      BY <1>2, <2>1, <3>1
  <2>5. g \in Seq(T)
    BY <2>4
  <2>6. out' = SubSeq(d, 1, a) \o g
    BY <1>1, <1>2, <1>4, <2>1, <2>2, <2>8 DEF UnmimeInv
  <2> HIDE DEF T
  <2>7. SubSeq(d, 1, a) \o g = SubSeq(d, 1, b)
    BY <1>2, <2>1, <2>4, <2>5, Grows
  <2> QED
    BY <2>1, <2>6, <2>7
<1>5. b \in 0..Len(head)
  BY <1>2
<1> QED
  BY <1>1, <1>2, <1>3, <1>4, <1>5 DEF UnmimeInv, Spaced, Decoded

\* The inductive invariant of unmime_header: outbuf has all that has been read, the words
\* decoded (decode.cpp:545-683).
THEOREM UnmimeInvariant == MimeSpec => []UnmimeInv
<1>1. MimeInit => UnmimeInv
  <2> SUFFICES ASSUME MimeInit PROVE UnmimeInv
    OBVIOUS
  <2>1. head \in Seq(Token)
    <3>1. CASE head = <<>>
      BY <3>1
    <3>2. CASE head \in UNION {[1..l -> Token] : l \in 1..MaxHeader}
      <4>1. PICK l \in 1..MaxHeader : head \in [1..l -> Token]
        BY <3>2
      <4>2. l \in Nat
        BY HeaderAssumption
      <4> QED
        BY <4>1, <4>2
    <3> QED
      BY <3>1, <3>2 DEF MimeInit
  <2>2. at = 0 /\ out = <<>> /\ Len(head) \in Nat
    BY <2>1 DEF MimeInit
  <2>3. SubSeq(Decoded, 1, 0) = <<>>
    BY SubSeqEmpty
  <2> QED
    BY <2>1, <2>2, <2>3 DEF UnmimeInv
<1>2. UnmimeInv /\ [MimeNext]_mimeVars => UnmimeInv'
  <2> SUFFICES ASSUME UnmimeInv, [MimeNext]_mimeVars PROVE UnmimeInv'
    OBVIOUS
  <2>1. CASE DecodesWord
    BY <2>1, DecodesStep
  <2>2. CASE CopiesRest
    BY <2>2, CopiesStep
  <2>3. CASE ParseMailBody \/ UNCHANGED mimeVars
    <3>1. head' = head /\ at' = at /\ out' = out
      BY <2>3 DEF ParseMailBody, OpensMultipart, ClosesMultipart,
                  TakesPart, ShowsPart, mimeVars, mail, words
    <3> QED
      BY <3>1 DEF UnmimeInv, Spaced, Decoded
  <2> QED
    BY <2>1, <2>2, <2>3 DEF MimeNext, unmime_header
<1> QED
  BY <1>1, <1>2, PTL DEF MimeSpec

\* For a header of any length, and any words: unmime_header decodes every word and keeps
\* the rest, where neither spaces alone nor text without a space stands between two words
\* (decode.cpp:545-683).
THEOREM UnmimedAlways == MimeSpec => []Unmimed
<1>1. UnmimeInv => Unmimed
  <2> SUFFICES ASSUME UnmimeInv, at = Len(head), Spaced
               PROVE  out = Decoded
    BY DEF Unmimed, Spaced
  <2>1. Decoded \in Seq(Token \cup {"decoded"}) /\ Len(Decoded) = Len(head)
    BY DecodedIs DEF UnmimeInv
  <2>2. out = SubSeq(Decoded, 1, Len(Decoded))
    BY <2>1 DEF UnmimeInv
  <2> QED
    BY <2>1, <2>2, SubSeqFull
<1> QED
  BY <1>1, UnmimeInvariant, PTL

-----------------------------------------------------------------------------
(* Mails: where the lines of a tree are.                                   *)

\* Induction over the first numbers.
LEMMA Upward ==
  ASSUME NEW S, NEW q \in Nat, 1 \in S,
         \A i \in 1..q : i < q /\ i \in S => i + 1 \in S
  PROVE  \A i \in 1..q : i \in S
<1> DEFINE Bad == {i \in 1..q : i \notin S}
<1>1. ASSUME Bad # {}
      PROVE  FALSE
  <2>1. Bad \in SUBSET Nat
    OBVIOUS
  <2>2. PICK m \in Bad : \A k \in Bad : m <= k
    BY <1>1, <2>1, Least
  <2>3. m \in 1..q /\ m # 1 /\ m - 1 \in 1..q /\ m - 1 < q /\ (m - 1) + 1 = m
    OBVIOUS
  <2>4. m - 1 \in S
    BY <2>2, <2>3
  <2> QED
    BY <2>3, <2>4
<1> QED
  BY <1>1

\* The recursion of FlattenSeq.
LEMMA FlattenFrom ==
  ASSUME NEW s, NEW q \in Nat, q # 0
  PROVE  \E f : f = [i \in 1..q |-> IF i = 1 THEN s[i] ELSE f[i - 1] \o s[i]]
<1> DEFINE S == {r \in Nat : \E f : f = [i \in 1..r |-> IF i = 1 THEN s[i] ELSE f[i - 1] \o s[i]]}
<1>1. 1 \in S
  <2> DEFINE f == [i \in 1..1 |-> s[i]]
  <2>1. f = [i \in 1..1 |-> IF i = 1 THEN s[i] ELSE f[i - 1] \o s[i]]
    OBVIOUS
  <2> QED
    BY <2>1
<1>2. ASSUME NEW r \in 1..q, r < q, r \in S
      PROVE  r + 1 \in S
  <2>1. PICK g : g = [i \in 1..r |-> IF i = 1 THEN s[i] ELSE g[i - 1] \o s[i]]
    BY <1>2
  <2>2. \A i \in 1..r : g[i] = IF i = 1 THEN s[i] ELSE g[i - 1] \o s[i]
    BY <2>1
  <2> DEFINE f == [i \in 1..(r + 1) |-> IF i = r + 1 THEN g[r] \o s[i] ELSE g[i]]
  <2>3. ASSUME NEW i \in 1..(r + 1)
        PROVE  f[i] = IF i = 1 THEN s[i] ELSE f[i - 1] \o s[i]
    <3>1. CASE i = r + 1
      <4>1. i # 1 /\ i - 1 = r /\ r \in 1..(r + 1) /\ r # r + 1
        BY <3>1
      <4>2. f[r] = g[r]
        BY <4>1
      <4>3. f[i] = g[r] \o s[i]
        BY <3>1
      <4> QED
        BY <4>1, <4>2, <4>3
    <3>2. CASE i = 1 /\ i # r + 1
      <4>1. 1 \in 1..r
        OBVIOUS
      <4> QED
        BY <2>2, <3>2, <4>1
    <3>3. CASE i # 1 /\ i # r + 1
      <4>1. i \in 1..r /\ i - 1 \in 1..(r + 1) /\ i - 1 # r + 1
        BY <3>3
      <4>2. f[i] = g[i] /\ f[i - 1] = g[i - 1]
        BY <3>3, <4>1
      <4> QED
        BY <2>2, <3>3, <4>1, <4>2
    <3> QED
      BY <3>1, <3>2, <3>3
  <2>4. f = [i \in 1..(r + 1) |-> f[i]]
    OBVIOUS
  <2> HIDE DEF f
  <2>5. f = [i \in 1..(r + 1) |-> IF i = 1 THEN s[i] ELSE f[i - 1] \o s[i]]
    BY <2>3, <2>4, Zenon
  <2>6. r + 1 \in Nat
    OBVIOUS
  <2> QED
    BY <2>5, <2>6
<1>3. q \in 1..q
  OBVIOUS
<1> HIDE DEF S
<1>4. q \in S
  BY <1>1, <1>2, <1>3, Upward
<1> QED
  BY <1>4 DEF S

\* FlattenSeq appends one sequence after the other.
LEMMA FlattenStep ==
  ASSUME NEW s, NEW q \in Nat, q = Len(s), q # 0
  PROVE  \E f : /\ FlattenSeq(s) = f[q] /\ f[1] = s[1]
                /\ \A i \in 1..q : i # 1 => f[i] = f[i - 1] \o s[i]
<1> DEFINE g == CHOOSE f : f = [i \in 1..q |-> IF i = 1 THEN s[i] ELSE f[i - 1] \o s[i]]
<1>1. g = [i \in 1..q |-> IF i = 1 THEN s[i] ELSE g[i - 1] \o s[i]]
  <2>1. \E f : f = [i \in 1..q |-> IF i = 1 THEN s[i] ELSE f[i - 1] \o s[i]]
    BY FlattenFrom
  <2> QED
    BY <2>1, Zenon
<1>2. FlattenSeq(s) = g[q]
  BY Zenon DEF FlattenSeq
<1> HIDE DEF g
<1>3. 1 \in 1..q
  OBVIOUS
<1>4. g[1] = s[1] /\ \A i \in 1..q : i # 1 => g[i] = g[i - 1] \o s[i]
  BY <1>1, <1>3
<1> QED
  BY <1>2, <1>4

\* Where the pieces of a sequence are.
IsPieces(T, s, all, o) ==
  /\ o \in [1..(Len(s) + 1) -> Nat] /\ o[1] = 0
  /\ all \in Seq(T) /\ Len(all) = o[Len(s) + 1]
  /\ \A i \in 1..Len(s) :
       /\ o[i + 1] = o[i] + Len(s[i])
       /\ \A k \in 1..Len(s[i]) : all[o[i] + k] = s[i][k]

\* FlattenSeq puts the pieces one behind the other.
LEMMA FlattenIs ==
  ASSUME NEW T, NEW s \in Seq(Seq(T))
  PROVE  \E o : IsPieces(T, s, FlattenSeq(s), o)
<1>1. PICK q \in Nat : q = Len(s)
  OBVIOUS
<1>2. \A i \in 1..q : s[i] \in Seq(T) /\ Len(s[i]) \in Nat
  BY <1>1
<1>3. CASE q = 0
  <2> DEFINE o == [i \in 1..1 |-> 0]
  <2>1. FlattenSeq(s) = <<>>
    <3>1. s = <<>> /\ Len(s) = 0
      BY <1>1, <1>3, EmptySeq
    <3> QED
      BY <3>1, Zenon DEF FlattenSeq
  <2>2. <<>> \in Seq(T) /\ Len(<<>>) = 0
    BY EmptySeq
  <2>3. o \in [1..1 -> Nat] /\ o[1] = 0
    OBVIOUS
  <2> HIDE DEF o
  <2>4. Len(s) = 0
    BY <1>1, <1>3
  <2>5. 1..(Len(s) + 1) = 1..1 /\ Len(s) + 1 = 1 /\ 1..Len(s) = {}
    BY <2>4
  <2>6. IsPieces(T, s, FlattenSeq(s), o)
    BY <2>1, <2>2, <2>3, <2>5 DEF IsPieces
  <2> QED
    BY <2>6
<1>4. CASE q # 0
  <2>1. PICK f : /\ FlattenSeq(s) = f[q] /\ f[1] = s[1]
                 /\ \A i \in 1..q : i # 1 => f[i] = f[i - 1] \o s[i]
    BY <1>1, <1>4, FlattenStep
  <2>2. ASSUME NEW i \in 1..q, i < q
        PROVE  i + 1 \in 1..q /\ i + 1 # 1 /\ f[i + 1] = f[i] \o s[i + 1]
    <3>1. i + 1 \in 1..q /\ i + 1 # 1 /\ (i + 1) - 1 = i
      BY <2>2
    <3> QED
      BY <2>1, <3>1
  <2>3. \A i \in 1..q : f[i] \in Seq(T)
    <3> DEFINE S == {i \in Nat : f[i] \in Seq(T)}
    <3>1. 1 \in S
      BY <1>2, <1>4, <2>1
    <3>2. ASSUME NEW i \in 1..q, i < q, i \in S
          PROVE  i + 1 \in S
      <4>1. f[i] \in Seq(T) /\ s[i + 1] \in Seq(T)
        BY <1>2, <2>2, <3>2
      <4>2. f[i] \o s[i + 1] \in Seq(T)
        BY <4>1, ConcatProperties
      <4>3. f[i + 1] \in Seq(T)
        BY <2>2, <3>2, <4>2, Zenon
      <4> QED
        BY <4>3
    <3> HIDE DEF S
    <3>3. \A i \in 1..q : i \in S
      BY <3>1, <3>2, Upward
    <3> QED
      BY <3>3 DEF S
  <2> DEFINE o == [i \in 1..(q + 1) |-> IF i = 1 THEN 0 ELSE Len(f[i - 1])]
  <2>4. o[1] = 0 /\ \A i \in 1..q : o[i + 1] = Len(f[i])
    <3>1. \A i \in 1..q : i + 1 \in 1..(q + 1) /\ i + 1 # 1 /\ (i + 1) - 1 = i
      OBVIOUS
    <3>2. 1 \in 1..(q + 1)
      OBVIOUS
    <3> QED
      BY <3>1, <3>2
  <2>5. o \in [1..(q + 1) -> Nat]
    <3>1. \A i \in 1..(q + 1) : i # 1 => i - 1 \in 1..q
      OBVIOUS
    <3>2. \A i \in 1..q : Len(f[i]) \in Nat
      BY <2>3
    <3> QED
      BY <3>1, <3>2
  <2> HIDE DEF o
  <2>6. ASSUME NEW i \in 1..q
        PROVE  /\ o[i + 1] = o[i] + Len(s[i]) /\ o[i] \in Nat
               /\ \A k \in 1..Len(s[i]) : f[i][o[i] + k] = s[i][k]
    <3>1. CASE i = 1
      <4>1. o[1] = 0 /\ o[2] = Len(s[1]) /\ f[1] = s[1]
        BY <2>1, <2>4, <3>1
      <4> QED
        BY <1>2, <3>1, <4>1
    <3>2. CASE i # 1
      <4>1. PICK j \in 1..q : j < q /\ j + 1 = i /\ j = i - 1
        BY <3>2
      <4>2. f[j] \in Seq(T) /\ s[i] \in Seq(T) /\ o[i] = Len(f[j])
        BY <1>2, <2>3, <2>4, <4>1
      <4>3. f[i] = f[j] \o s[i]
        BY <2>2, <4>1
      <4>4. PICK r : r = f[j] \o s[i]
        OBVIOUS
      <4>5. /\ Len(r) = Len(f[j]) + Len(s[i])
            /\ \A k \in 1..(Len(f[j]) + Len(s[i])) :
                 r[k] = IF k <= Len(f[j]) THEN f[j][k] ELSE s[i][k - Len(f[j])]
        BY <4>2, <4>4, ConcatProperties
      <4>6. PICK a \in Nat, b \in Nat : a = Len(f[j]) /\ b = Len(s[i])
        BY <4>2
      <4>7. \A k \in 1..b : r[a + k] = s[i][k]
        <5>1. ASSUME NEW k \in 1..b
              PROVE  r[a + k] = s[i][k]
          <6>1. a + k \in 1..(a + b) /\ ~(a + k <= a) /\ (a + k) - a = k
            OBVIOUS
          <6> QED
            BY <4>5, <4>6, <6>1
        <5> QED
          BY <5>1
      <4>8. o[i + 1] = Len(r) /\ f[i] = r
        BY <2>4, <4>3, <4>4
      <4> QED
        BY <4>2, <4>5, <4>6, <4>7, <4>8
    <3> QED
      BY <3>1, <3>2
  <2>7. \A j \in 1..q : \A i \in 1..j : \A k \in 1..Len(s[i]) :
           f[j][o[i] + k] = s[i][k] /\ o[i] + k <= Len(f[j])
    <3> DEFINE P(j) == \A i \in 1..j : \A k \in 1..Len(s[i]) :
                         f[j][o[i] + k] = s[i][k] /\ o[i] + k <= Len(f[j])
               S == {j \in Nat : P(j)}
    <3>1. 1 \in S
      <4>1. \A k \in 1..Len(s[1]) : f[1][o[1] + k] = s[1][k] /\ o[1] + k <= Len(f[1])
        <5>1. Len(s[1]) \in Nat
          BY <1>2, <1>4
        <5> QED
          BY <2>1, <2>4, <5>1
      <4> QED
        BY <4>1
    <3>2. ASSUME NEW j \in 1..q, j < q, j \in S
          PROVE  j + 1 \in S
      <4>1. PICK m \in 1..q : m = j + 1
        BY <2>2, <3>2
      <4>2. f[j] \in Seq(T) /\ s[m] \in Seq(T) /\ f[m] = f[j] \o s[m]
        BY <1>2, <2>2, <2>3, <3>2, <4>1
      <4>3. PICK r : r = f[j] \o s[m]
        OBVIOUS
      <4>4. /\ Len(r) = Len(f[j]) + Len(s[m])
            /\ \A k \in 1..(Len(f[j]) + Len(s[m])) :
                 r[k] = IF k <= Len(f[j]) THEN f[j][k] ELSE s[m][k - Len(f[j])]
        BY <4>2, <4>3, ConcatProperties
      <4>5. PICK a \in Nat, b \in Nat : a = Len(f[j]) /\ b = Len(s[m])
        BY <4>2
      <4>6. ASSUME NEW i \in 1..m, NEW k \in 1..Len(s[i])
            PROVE  f[m][o[i] + k] = s[i][k] /\ o[i] + k <= Len(f[m])
        <5>1. i \in 1..q /\ Len(s[i]) \in Nat /\ o[i] \in Nat
          <6>1. i \in 1..q
            OBVIOUS
          <6> QED
            BY <1>2, <2>6, <6>1
        <5>2. CASE i = m
          <6>1. f[m][o[i] + k] = s[i][k] /\ o[m + 1] = o[m] + Len(s[m])
            BY <2>6, <5>1, <5>2
          <6>2. o[m + 1] = Len(f[m])
            BY <2>4
          <6> QED
            BY <5>1, <5>2, <6>1, <6>2
        <5>3. CASE i # m
          <6>1. i \in 1..j
            BY <4>1, <5>3
          <6>2. f[j][o[i] + k] = s[i][k] /\ o[i] + k <= a
            BY <3>2, <4>5, <6>1
          <6>3. o[i] + k \in 1..(a + b) /\ o[i] + k <= a + b
            BY <5>1, <6>2
          <6>4. r[o[i] + k] = f[j][o[i] + k] /\ Len(r) = a + b
            BY <4>4, <4>5, <6>2, <6>3
          <6> QED
            BY <4>2, <4>3, <6>2, <6>3, <6>4
        <5> QED
          BY <5>2, <5>3
      <4>7. P(m)
        BY <4>6
      <4> QED
        BY <4>1, <4>7
    <3> HIDE DEF S
    <3>3. \A j \in 1..q : j \in S
      BY <1>4, <3>1, <3>2, Upward
    <3> QED
      BY <3>3 DEF S
  <2>8. q \in 1..q
    BY <1>4
  <2>9. /\ FlattenSeq(s) \in Seq(T) /\ Len(FlattenSeq(s)) = o[q + 1]
        /\ \A i \in 1..q : \A k \in 1..Len(s[i]) : FlattenSeq(s)[o[i] + k] = s[i][k]
    BY <2>1, <2>3, <2>4, <2>7, <2>8
  <2>10. IsPieces(T, s, FlattenSeq(s), o)
    BY <1>1, <2>4, <2>5, <2>6, <2>9 DEF IsPieces
  <2> QED
    BY <2>10
<1> QED
  BY <1>3, <1>4

\* Pieces that are not empty follow each other, and there is nothing else.
LEMMA PiecesFollow ==
  ASSUME NEW T, NEW s \in Seq(Seq(T)), NEW all, NEW o, IsPieces(T, s, all, o),
         NEW q \in Nat, q = Len(s)
  PROVE  /\ \A i \in 1..q : \A j \in 1..(q + 1) : i < j => o[i] + Len(s[i]) <= o[j]
         /\ \A x \in 1..Len(all) : \E i \in 1..q : \E k \in 1..Len(s[i]) : x = o[i] + k
<1>1. /\ \A i \in 1..(q + 1) : o[i] \in Nat
      /\ \A i \in 1..q : o[i + 1] = o[i] + Len(s[i]) /\ Len(s[i]) \in Nat
      /\ o[1] = 0 /\ Len(all) = o[q + 1] /\ q + 1 \in Nat
  <2>1. \A i \in 1..q : s[i] \in Seq(T)
    OBVIOUS
  <2>2. \A i \in 1..q : Len(s[i]) \in Nat
    BY <2>1
  <2>3. /\ o \in [1..(q + 1) -> Nat] /\ o[1] = 0 /\ Len(all) = o[q + 1]
        /\ \A i \in 1..q : o[i + 1] = o[i] + Len(s[i])
    BY Zenon DEF IsPieces
  <2>4. \A i \in 1..(q + 1) : o[i] \in Nat
    BY <2>3
  <2> QED
    BY <2>2, <2>3, <2>4
<1>2. ASSUME NEW i \in 1..q
      PROVE  \A j \in 1..(q + 1) : i < j => o[i] + Len(s[i]) <= o[j]
  <2> DEFINE S == {j \in Nat : i < j => o[i] + Len(s[i]) <= o[j]}
  <2>1. 1 \in S
    OBVIOUS
  <2>2. ASSUME NEW j \in 1..(q + 1), j < q + 1, j \in S
        PROVE  j + 1 \in S
    <3>1. j \in 1..q /\ j + 1 \in 1..(q + 1) /\ j + 1 \in Nat
      BY <2>2
    <3>2. o[j + 1] = o[j] + Len(s[j]) /\ o[j] \in Nat /\ Len(s[j]) \in Nat
      BY <1>1, <3>1
    <3>3. o[i] \in Nat /\ Len(s[i]) \in Nat
      BY <1>1
    <3>4. CASE i < j
      BY <2>2, <3>1, <3>2, <3>3, <3>4
    <3>5. CASE i = j
      BY <3>1, <3>2, <3>5
    <3>6. CASE i > j
      BY <3>1, <3>6
    <3> QED
      BY <3>4, <3>5, <3>6
  <2> HIDE DEF S
  <2>3. \A j \in 1..(q + 1) : j \in S
    BY <1>1, <2>1, <2>2, Upward
  <2> QED
    BY <2>3 DEF S
<1>3. \A x \in 1..Len(all) : \E i \in 1..q : \E k \in 1..Len(s[i]) : x = o[i] + k
  <2> DEFINE S == {j \in Nat : \A x \in 1..o[j] :
                                 \E i \in 1..q : \E k \in 1..Len(s[i]) : x = o[i] + k}
  <2>1. 1 \in S
    BY <1>1
  <2>2. ASSUME NEW j \in 1..(q + 1), j < q + 1, j \in S
        PROVE  j + 1 \in S
    <3>1. j \in 1..q /\ j + 1 \in Nat
      BY <2>2
    <3>2. o[j + 1] = o[j] + Len(s[j]) /\ o[j] \in Nat /\ Len(s[j]) \in Nat
      BY <1>1, <3>1
    <3>3. ASSUME NEW x \in 1..o[j + 1]
          PROVE  \E i \in 1..q : \E k \in 1..Len(s[i]) : x = o[i] + k
      <4>1. CASE x <= o[j]
        <5>1. x \in 1..o[j]
          BY <3>2, <4>1
        <5> QED
          BY <2>2, <5>1
      <4>2. CASE x > o[j]
        <5>1. x - o[j] \in 1..Len(s[j]) /\ x = o[j] + (x - o[j])
          BY <3>2, <4>2
        <5> QED
          BY <3>1, <5>1
      <4> QED
        BY <3>2, <4>1, <4>2
    <3> QED
      BY <3>1, <3>3
  <2> HIDE DEF S
  <2>3. \A j \in 1..(q + 1) : j \in S
    BY <1>1, <2>1, <2>2, Upward
  <2>4. q + 1 \in S
    BY <2>3
  <2> QED
    BY <1>1, <2>4 DEF S
<1> QED
  BY <1>2, <1>3

\* Where the lines of a multipart are: the o[i] are those of its delimiters and of its end.
IsMulti(T, b, lines, all, o) ==
  /\ o \in [1..(Len(lines) + 1) -> Nat \ {0}] /\ o[1] = 1
  /\ all \in Seq(T) /\ Len(all) = o[Len(lines) + 1]
  /\ all[o[Len(lines) + 1]] = Line("end", b)
  /\ \A i \in 1..Len(lines) :
       /\ all[o[i]] = Line("delim", b) /\ o[i + 1] = o[i] + 1 + Len(lines[i])
       /\ \A k \in 1..Len(lines[i]) : all[o[i] + k] = lines[i][k]
  /\ \A i \in 1..Len(lines) : \A j \in 1..(Len(lines) + 1) :
       i < j => o[i] + Len(lines[i]) < o[j]
  /\ \A x \in 1..Len(all) :
       \/ \E i \in 1..(Len(lines) + 1) : x = o[i]
       \/ \E i \in 1..Len(lines) : \E k \in 1..Len(lines[i]) : x = o[i] + k

\* The delimiters of a multipart, its parts and its end are in this order.
LEMMA MultiIs ==
  ASSUME NEW T, NEW b, NEW lines \in Seq(Seq(T)), Line("delim", b) \in T, Line("end", b) \in T
  PROVE  \E o : IsMulti(T, b, lines, Multi(b, lines), o)
<1>1. PICK q \in Nat : q = Len(lines) /\ DOMAIN lines = 1..q
  OBVIOUS
<1>2. \A i \in 1..q : lines[i] \in Seq(T) /\ Len(lines[i]) \in Nat
  BY <1>1
<1> DEFINE d == Line("delim", b)
           e == Line("end", b)
           s == [i \in 1..q |-> <<d>> \o lines[i]]
<1>3. ASSUME NEW i \in 1..q
      PROVE  /\ s[i] \in Seq(T) /\ Len(s[i]) = Len(lines[i]) + 1 /\ s[i][1] = d
             /\ \A k \in 1..Len(lines[i]) : s[i][k + 1] = lines[i][k]
  <2>1. <<d>> \in Seq(T) /\ Len(<<d>>) = 1 /\ <<d>>[1] = d
    OBVIOUS
  <2>2. PICK h : h = <<d>>
    OBVIOUS
  <2>3. PICK g : g = h \o lines[i]
    OBVIOUS
  <2>4. /\ g \in Seq(T) /\ Len(g) = 1 + Len(lines[i])
        /\ \A k \in 1..(1 + Len(lines[i])) :
             g[k] = IF k <= 1 THEN h[k] ELSE lines[i][k - 1]
    BY <1>2, <2>1, <2>2, <2>3, ConcatProperties
  <2>5. PICK r \in Nat : r = Len(lines[i])
    BY <1>2
  <2>6. g[1] = d /\ \A k \in 1..r : g[k + 1] = lines[i][k]
    <3>1. 1 \in 1..(1 + r)
      OBVIOUS
    <3>2. \A k \in 1..r : k + 1 \in 1..(1 + r) /\ ~(k + 1 <= 1) /\ (k + 1) - 1 = k
      OBVIOUS
    <3> QED
      BY <2>1, <2>2, <2>4, <2>5, <3>1, <3>2
  <2>7. s[i] = g
    BY <2>2, <2>3
  <2> HIDE DEF s
  <2>8. g \in Seq(T) /\ Len(g) = Len(lines[i]) + 1
    BY <2>4, <2>5
  <2> QED
    BY <2>5, <2>6, <2>7, <2>8, Zenon
<1>4. s \in Seq(Seq(T)) /\ Len(s) = q
  <2>1. s \in [1..q -> Seq(T)]
    BY <1>3
  <2> QED
    BY <2>1
<1>5. Multi(b, lines) = FlattenSeq(s) \o <<e>>
  BY <1>1, Zenon DEF Multi
<1> HIDE DEF s
<1>6. PICK u : IsPieces(T, s, FlattenSeq(s), u)
  BY <1>4, FlattenIs
<1>7. PICK f : f = FlattenSeq(s)
  OBVIOUS
<1>8. /\ u \in [1..(q + 1) -> Nat] /\ u[1] = 0
      /\ f \in Seq(T) /\ Len(f) = u[q + 1]
      /\ \A i \in 1..q : /\ u[i + 1] = u[i] + Len(s[i])
                         /\ \A k \in 1..Len(s[i]) : f[u[i] + k] = s[i][k]
  BY <1>4, <1>6, <1>7 DEF IsPieces
<1>9. /\ \A i \in 1..q : \A j \in 1..(q + 1) : i < j => u[i] + Len(s[i]) <= u[j]
      /\ \A x \in 1..Len(f) : \E i \in 1..q : \E k \in 1..Len(s[i]) : x = u[i] + k
  <2>1. q = Len(s) /\ IsPieces(T, s, f, u)
    BY <1>4, <1>6, <1>7
  <2>2. \A i \in 1..q : \A j \in 1..(q + 1) : i < j => u[i] + Len(s[i]) <= u[j]
    BY <1>4, <2>1, PiecesFollow
  <2>3. \A x \in 1..Len(f) : \E i \in 1..q : \E k \in 1..Len(s[i]) : x = u[i] + k
    BY <1>4, <2>1, PiecesFollow
  <2> QED
    BY <2>2, <2>3
<1>10. PICK m : m = Multi(b, lines)
  OBVIOUS
<1>11. /\ m \in Seq(T) /\ Len(m) = Len(f) + 1 /\ m[Len(f) + 1] = e
       /\ \A x \in 1..Len(f) : m[x] = f[x]
  <2>1. PICK h : h = <<e>>
    OBVIOUS
  <2>2. h \in Seq(T) /\ Len(h) = 1 /\ h[1] = e
    BY <2>1
  <2>3. m = f \o h
    BY <1>5, <1>7, <1>10, <2>1
  <2>4. /\ m \in Seq(T) /\ Len(m) = Len(f) + 1
        /\ \A x \in 1..(Len(f) + 1) : m[x] = IF x <= Len(f) THEN f[x] ELSE h[x - Len(f)]
    <3> DEFINE g == f \o h
    <3>1. f \in Seq(T) /\ h \in Seq(T) /\ m = g
      BY <1>8, <2>2, <2>3
    <3>2. /\ f \o h \in Seq(T) /\ Len(f \o h) = Len(f) + Len(h)
          /\ \A x \in 1..(Len(f) + Len(h)) :
               (f \o h)[x] = IF x <= Len(f) THEN f[x] ELSE h[x - Len(f)]
      BY <3>1, ConcatProperties, Zenon
    <3>3. /\ g \in Seq(T) /\ Len(g) = Len(f) + Len(h)
          /\ \A x \in 1..(Len(f) + Len(h)) : g[x] = IF x <= Len(f) THEN f[x] ELSE h[x - Len(f)]
      BY <3>2, Zenon
    <3> HIDE DEF g
    <3>4. /\ m \in Seq(T) /\ Len(m) = Len(f) + Len(h)
          /\ \A x \in 1..(Len(f) + Len(h)) : m[x] = IF x <= Len(f) THEN f[x] ELSE h[x - Len(f)]
      BY <3>1, <3>3
    <3> QED
      BY <2>2, <3>4
  <2>5. PICK r \in Nat : r = Len(f)
    BY <1>8
  <2>6. r + 1 \in 1..(r + 1) /\ ~(r + 1 <= r) /\ (r + 1) - r = 1
        /\ \A x \in 1..r : x \in 1..(r + 1) /\ x <= r
    OBVIOUS
  <2> QED
    BY <2>2, <2>4, <2>5, <2>6
<1> DEFINE o == [i \in 1..(q + 1) |-> u[i] + 1]
<1>12. /\ o \in [1..(q + 1) -> Nat \ {0}]
       /\ \A i \in 1..(q + 1) : o[i] = u[i] + 1 /\ u[i] \in Nat
  <2>1. \A i \in 1..(q + 1) : u[i] \in Nat /\ u[i] + 1 \in Nat \ {0}
    BY <1>8
  <2> QED
    BY <2>1
<1>13. q + 1 \in 1..(q + 1) /\ \A i \in 1..q : i \in 1..(q + 1) /\ i + 1 \in 1..(q + 1)
  OBVIOUS
<1> HIDE DEF o
<1>14. Len(m) = o[q + 1] /\ m[o[q + 1]] = e /\ o[1] = 1
  <2>1. 1 \in 1..(q + 1)
    OBVIOUS
  <2> QED
    BY <1>8, <1>11, <1>12, <1>13, <2>1
<1>15. ASSUME NEW i \in 1..q
       PROVE  /\ m[o[i]] = d /\ o[i + 1] = o[i] + 1 + Len(lines[i])
              /\ \A k \in 1..Len(lines[i]) : m[o[i] + k] = lines[i][k]
  <2>1. PICK a \in Nat, r \in Nat : a = u[i] /\ r = Len(lines[i])
    BY <1>2, <1>12, <1>13
  <2>2. o[i] = a + 1 /\ u[i + 1] = a + r + 1 /\ Len(s[i]) = r + 1
    <3>1. o[i] = u[i] + 1 /\ u[i + 1] = u[i] + Len(s[i]) /\ Len(s[i]) = Len(lines[i]) + 1
      BY <1>3, <1>8, <1>12, <1>13, Zenon
    <3>2. o[i] = a + 1 /\ Len(s[i]) = r + 1 /\ u[i + 1] = a + (r + 1)
      BY <2>1, <3>1
    <3> QED
      BY <3>2
  <2>3. a + r + 1 <= Len(f)
    <3>1. i < q + 1
      OBVIOUS
    <3>2. u[i] + Len(s[i]) <= u[q + 1]
      BY <1>9, <1>13, <3>1
    <3> QED
      BY <1>8, <2>1, <2>2, <3>2
  <2>4. Len(f) \in Nat
    BY <1>8
  <2>5. ASSUME NEW k \in 1..(r + 1)
        PROVE  m[a + k] = s[i][k]
    <3>1. a + k \in 1..Len(f)
      BY <2>3, <2>4
    <3>2. f[a + k] = s[i][k]
      BY <1>8, <2>1, <2>2
    <3> QED
      BY <1>11, <3>1, <3>2
  <2>6. m[a + 1] = d
    BY <1>3, <2>5
  <2>7. ASSUME NEW k \in 1..r
        PROVE  m[(a + 1) + k] = lines[i][k]
    <3>1. k + 1 \in 1..(r + 1) /\ a + (k + 1) = (a + 1) + k
      OBVIOUS
    <3>2. m[a + (k + 1)] = s[i][k + 1]
      BY <2>5, <3>1
    <3> QED
      BY <1>3, <2>1, <3>1, <3>2
  <2>8. o[i + 1] = (a + 1) + 1 + r
    BY <1>12, <1>13, <2>2
  <2> QED
    BY <2>1, <2>2, <2>6, <2>7, <2>8
<1>16. ASSUME NEW i \in 1..q, NEW j \in 1..(q + 1), i < j
       PROVE  o[i] + Len(lines[i]) < o[j]
  <2>1. u[i] + Len(s[i]) <= u[j] /\ Len(s[i]) = Len(lines[i]) + 1 /\ Len(lines[i]) \in Nat
    BY <1>2, <1>3, <1>9, <1>16
  <2>2. o[i] = u[i] + 1 /\ o[j] = u[j] + 1 /\ u[i] \in Nat /\ u[j] \in Nat
    BY <1>12, <1>13
  <2>3. PICK a, c, z \in Nat : a = u[i] /\ c = u[j] /\ z = Len(lines[i])
    BY <2>1, <2>2
  <2>4. a + (z + 1) <= c
    BY <2>1, <2>3
  <2>5. (a + 1) + z < c + 1
    BY <2>4
  <2> QED
    BY <2>2, <2>3, <2>5
<1>17. ASSUME NEW x \in 1..Len(m)
       PROVE  \/ \E i \in 1..(q + 1) : x = o[i]
              \/ \E i \in 1..q : \E k \in 1..Len(lines[i]) : x = o[i] + k
  <2>1. Len(f) \in Nat /\ Len(m) = Len(f) + 1
    BY <1>8, <1>11
  <2>2. CASE x = Len(m)
    BY <1>13, <1>14, <2>2
  <2>3. CASE x # Len(m)
    <3>1. x \in 1..Len(f)
      BY <2>1, <2>3
    <3>2. PICK i \in 1..q : \E k \in 1..Len(s[i]) : x = u[i] + k
      BY <1>9, <3>1
    <3>3. PICK k \in 1..Len(s[i]) : x = u[i] + k
      BY <3>2
    <3>4. o[i] = u[i] + 1 /\ u[i] \in Nat /\ Len(s[i]) = Len(lines[i]) + 1 /\ Len(lines[i]) \in Nat
      BY <1>2, <1>3, <1>12, <1>13
    <3>5. CASE k = 1
      BY <1>13, <3>3, <3>4, <3>5
    <3>6. CASE k # 1
      <4>1. k - 1 \in 1..Len(lines[i]) /\ x = o[i] + (k - 1)
        BY <3>3, <3>4, <3>6
      <4> QED
        BY <4>1
    <3> QED
      BY <3>5, <3>6
  <2> QED
    BY <2>2, <2>3
<1>18. IsMulti(T, b, lines, m, o)
  BY <1>1, <1>11, <1>12, <1>14, <1>15, <1>16, <1>17 DEF IsMulti
<1> QED
  BY <1>10, <1>18

\* The lines of a mail.
LineSet == [kind : {"empty", "said", "header", "text", "app", "multipart", "delim", "end"},
            n : {0} \cup Bounds \cup {t.text : t \in Leaves}]

\* Two and three sequences of one line.
LEMMA TwoAre ==
  ASSUME NEW T, NEW a \in T, NEW b \in T
  PROVE  <<a>> \o <<b>> = <<a, b>>
<1> DEFINE f == <<a>>
           g == <<b>>
           h == <<a, b>>
<1>1. f \in Seq(T) /\ Len(f) = 1 /\ f[1] = a /\ g \in Seq(T) /\ Len(g) = 1 /\ g[1] = b
  OBVIOUS
<1>2. h \in Seq(T) /\ Len(h) = 2 /\ h[1] = a /\ h[2] = b
  OBVIOUS
<1> HIDE DEF f, g, h
<1>3. PICK r : r = f \o g
  OBVIOUS
<1>4. /\ r \in Seq(T) /\ Len(r) = Len(f) + Len(g)
      /\ \A i \in 1..(Len(f) + Len(g)) : r[i] = IF i <= Len(f) THEN f[i] ELSE g[i - Len(f)]
  BY <1>1, <1>3, ConcatProperties
<1>5. Len(r) = 2 /\ r[1] = a /\ r[2] = b
  BY <1>1, <1>4
<1>6. r = h
  <2>1. \A i \in 1..2 : r[i] = h[i]
    BY <1>2, <1>5
  <2> QED
    BY <1>2, <1>4, <1>5, <2>1
<1> QED
  BY <1>3, <1>6 DEF f, g, h

LEMMA ThreeAre ==
  ASSUME NEW T, NEW a \in T, NEW b \in T, NEW c \in T
  PROVE  (<<a>> \o <<b>>) \o <<c>> = <<a, b, c>>
<1> DEFINE f == <<a, b>>
           g == <<c>>
           h == <<a, b, c>>
<1>1. /\ f \in Seq(T) /\ Len(f) = 2 /\ f[1] = a /\ f[2] = b
      /\ g \in Seq(T) /\ Len(g) = 1 /\ g[1] = c
  OBVIOUS
<1>2. h \in Seq(T) /\ Len(h) = 3 /\ h[1] = a /\ h[2] = b /\ h[3] = c
  OBVIOUS
<1>3. f = <<a>> \o <<b>>
  BY TwoAre
<1> HIDE DEF f, g, h
<1>4. PICK r : r = f \o g
  OBVIOUS
<1>5. /\ r \in Seq(T) /\ Len(r) = Len(f) + Len(g)
      /\ \A i \in 1..(Len(f) + Len(g)) : r[i] = IF i <= Len(f) THEN f[i] ELSE g[i - Len(f)]
  BY <1>1, <1>4, ConcatProperties
<1>6. Len(r) = 3 /\ r[1] = a /\ r[2] = b /\ r[3] = c
  BY <1>1, <1>5
<1>7. r = h
  <2>1. \A i \in 1..3 : r[i] = h[i]
    BY <1>2, <1>6
  <2>2. r \in Seq(T) /\ Len(r) = Len(h) /\ \A i \in 1..Len(r) : r[i] = h[i]
    BY <1>2, <1>5, <1>6, <2>1
  <2> QED
    BY <1>2, <2>2, SeqEqual
<1>8. (<<a>> \o <<b>>) \o g = h
  BY <1>4, <1>7, <1>3
<1> QED
  BY <1>8 DEF g, h

\* A leaf is its type, an empty line and one paragraph or two.
LEMMA LeafLinesAre ==
  ASSUME NEW T, NEW t, t.headed = TRUE, Line(t.type, 0) \in T, Empty \in T,
         Line("said", t.text) \in T
  PROVE  /\ LeafLines(t) \in Seq(T) /\ Len(LeafLines(t)) \in {3, 5}
         /\ LeafLines(t)[1] = Line(t.type, 0) /\ LeafLines(t)[2] = Empty
         /\ LeafLines(t)[3] = Line("said", t.text)
         /\ Len(LeafLines(t)) = 5 =>
              LeafLines(t)[4] = Empty /\ LeafLines(t)[5] = Line("said", t.text)
<1> DEFINE a == Line(t.type, 0)
           c == Line("said", t.text)
           s == IF t.long THEN <<c, Empty, c>> ELSE <<c>>
<1>1. LeafLines(t) = (<<a>> \o <<Empty>>) \o s
  BY DEF LeafLines
<1>2. PICK h : h = <<a>> \o <<Empty>>
  OBVIOUS
<1>3. h = <<a, Empty>> /\ h \in Seq(T) /\ Len(h) = 2
  <2>1. h = <<a, Empty>>
    BY <1>2, TwoAre
  <2> QED
    BY <2>1
<1>4. PICK r : r = h \o s
  OBVIOUS
<1>5. LeafLines(t) = r
  BY <1>1, <1>2, <1>4
<1>6. CASE t.long
  <2>1. s = <<c, Empty, c>> /\ s \in Seq(T) /\ Len(s) = 3
    BY <1>6
  <2>2. /\ r \in Seq(T) /\ Len(r) = 5
        /\ \A i \in 1..5 : r[i] = IF i <= 2 THEN h[i] ELSE s[i - 2]
    <3>1. /\ r \in Seq(T) /\ Len(r) = Len(h) + Len(s)
          /\ \A i \in 1..(Len(h) + Len(s)) : r[i] = IF i <= Len(h) THEN h[i] ELSE s[i - Len(h)]
      BY <1>3, <1>4, <2>1, ConcatProperties
    <3> QED
      BY <1>3, <2>1, <3>1
  <2>3. r[1] = a /\ r[2] = Empty /\ r[3] = c /\ r[4] = Empty /\ r[5] = c
    BY <1>3, <2>1, <2>2
  <2> QED
    BY <1>5, <2>2, <2>3
<1>7. CASE ~t.long
  <2>1. s = <<c>> /\ s \in Seq(T) /\ Len(s) = 1
    BY <1>7
  <2>2. /\ r \in Seq(T) /\ Len(r) = 3
        /\ \A i \in 1..3 : r[i] = IF i <= 2 THEN h[i] ELSE s[i - 2]
    <3>1. /\ r \in Seq(T) /\ Len(r) = Len(h) + Len(s)
          /\ \A i \in 1..(Len(h) + Len(s)) : r[i] = IF i <= Len(h) THEN h[i] ELSE s[i - Len(h)]
      BY <1>3, <1>4, <2>1, ConcatProperties
    <3> QED
      BY <1>3, <2>1, <3>1
  <2>3. r[1] = a /\ r[2] = Empty /\ r[3] = c
    BY <1>3, <2>1, <2>2
  <2> QED
    BY <1>5, <2>2, <2>3
<1> QED
  BY <1>6, <1>7

\* The multipart in an inner one, behind its header.
Parts(m) == Multi(m.b, [j \in DOMAIN m.leaves |-> LeafLines(m.leaves[j])])

\* The lines of an inner multipart above its first delimiter.
Above(m) == IF m.more THEN 3 ELSE 2

\* An inner multipart is its declaration, another header or none, an empty line and its parts.
AreInnerLines(T, m) ==
  /\ InnerLines(m) \in Seq(T) /\ Len(InnerLines(m)) = Above(m) + Len(Parts(m))
  /\ InnerLines(m)[1] = Line("multipart", m.b)
  /\ m.more => InnerLines(m)[2] = Line("header", 0)
  /\ InnerLines(m)[Above(m)] = Empty
  /\ \A k \in 1..Len(Parts(m)) : InnerLines(m)[Above(m) + k] = Parts(m)[k]

\* The lines above the first delimiter.
LEMMA AboveAre ==
  ASSUME NEW T, NEW m, Line("multipart", m.b) \in T, Line("header", 0) \in T, Empty \in T,
         NEW h, h = <<Line("multipart", m.b)>>
                    \o (IF m.more THEN <<Line("header", 0)>> ELSE <<>>) \o <<Empty>>
  PROVE  /\ h \in Seq(T) /\ Len(h) = Above(m) /\ h[1] = Line("multipart", m.b)
         /\ m.more => h[2] = Line("header", 0)
         /\ h[Above(m)] = Empty
<1> DEFINE a == Line("multipart", m.b)
           c == Line("header", 0)
<1>1. CASE m.more
  <2>1. h = <<a, c, Empty>>
    BY <1>1, ThreeAre
  <2> QED
    BY <1>1, <2>1 DEF Above
<1>2. CASE ~m.more
  <2>1. PICK g, e : /\ g = <<a>> /\ e = <<>> /\ g \in Seq(T) /\ Len(g) = 1
                    /\ e \in Seq(T) /\ Len(e) = 0
    <3>1. <<a>> \in Seq(T) /\ Len(<<a>>) = 1
      OBVIOUS
    <3>2. <<>> \in Seq(T) /\ Len(<<>>) = 0
      OBVIOUS
    <3> QED
      BY <3>1, <3>2, Zenon
  <2>2. g \o e = g
    <3>1. PICK r : r = g \o e
      OBVIOUS
    <3>2. /\ r \in Seq(T) /\ Len(r) = Len(g) + Len(e)
          /\ \A i \in 1..(Len(g) + Len(e)) :
               r[i] = IF i <= Len(g) THEN g[i] ELSE e[i - Len(g)]
      BY <2>1, <3>1, ConcatProperties
    <3>3. Len(r) = Len(g) /\ \A i \in 1..Len(r) : r[i] = g[i]
      BY <2>1, <3>2
    <3> QED
      BY <2>1, <3>1, <3>2, <3>3, SeqEqual
  <2>3. h = (g \o e) \o <<Empty>>
    BY <1>2, <2>1
  <2>4. h = <<a, Empty>>
    BY <2>1, <2>2, <2>3, TwoAre
  <2> QED
    BY <1>2, <2>4 DEF Above
<1> QED
  BY <1>1, <1>2

LEMMA InnerLinesAre ==
  ASSUME NEW T, NEW m, Line("multipart", m.b) \in T, Line("header", 0) \in T,
         Empty \in T, Parts(m) \in Seq(T)
  PROVE  AreInnerLines(T, m)
<1> DEFINE a == Line("multipart", m.b)
           c == Line("header", 0)
<1>1. PICK s : s = Parts(m) /\ s \in Seq(T)
  OBVIOUS
<1>2. PICK h : h = <<a>> \o (IF m.more THEN <<c>> ELSE <<>>) \o <<Empty>>
  OBVIOUS
<1>3. InnerLines(m) = h \o s
  BY <1>1, <1>2 DEF InnerLines, Parts
<1>4. PICK g \in {2, 3} : g = Above(m)
  BY DEF Above
<1>5. h \in Seq(T) /\ Len(h) = g /\ h[1] = a /\ (m.more => h[2] = c) /\ h[g] = Empty
  BY <1>2, <1>4, AboveAre
<1>6. PICK r : r = h \o s
  OBVIOUS
<1>7. PICK w \in Nat : w = Len(s)
  BY <1>1
<1>8. /\ r \in Seq(T) /\ Len(r) = g + w
      /\ \A i \in 1..(g + w) : r[i] = IF i <= g THEN h[i] ELSE s[i - g]
  <2>1. /\ r \in Seq(T) /\ Len(r) = Len(h) + Len(s)
        /\ \A i \in 1..(Len(h) + Len(s)) : r[i] = IF i <= Len(h) THEN h[i] ELSE s[i - Len(h)]
    BY <1>1, <1>5, <1>6, ConcatProperties
  <2> QED
    BY <1>5, <1>7, <2>1
<1>9. r[1] = a /\ (m.more => r[2] = c) /\ r[g] = Empty
  <2>1. 1 \in 1..(g + w) /\ 2 \in 1..(g + w) /\ g \in 1..(g + w) /\ 1 <= g /\ 2 <= g
    OBVIOUS
  <2> QED
    BY <1>5, <1>8, <2>1
<1>10. ASSUME NEW k \in 1..w
       PROVE  r[g + k] = s[k]
  <2>1. g + k \in 1..(g + w) /\ ~(g + k <= g) /\ (g + k) - g = k
    OBVIOUS
  <2> QED
    BY <1>8, <2>1
<1> QED
  BY <1>1, <1>3, <1>4, <1>6, <1>7, <1>8, <1>9, <1>10 DEF AreInnerLines

\* A leaf is a part of the mail, or of a part of it.
IsLeafOf(q, t) ==
  \E i \in 1..q :
    \/ ~IsInner(body.parts[i]) /\ t = body.parts[i]
    \/ /\ IsInner(body.parts[i])
       /\ \E j \in 1..Len(body.parts[i].leaves) : t = body.parts[i].leaves[j]

\* A tree by the numbers of its parts.
LEMMA TreeIs ==
  ASSUME IsTree(body), Usual, NEW q, q = Len(body.parts)
  PROVE  /\ q \in Nat /\ DOMAIN body.parts = 1..q
         /\ \A i \in 1..q : ~IsInner(body.parts[i]) => body.parts[i] \in Leaves
         /\ \A i \in 1..q : IsInner(body.parts[i]) =>
              /\ body.parts[i] \in Inner
              /\ Len(body.parts[i].leaves) \in Nat
              /\ DOMAIN body.parts[i].leaves = 1..Len(body.parts[i].leaves)
              /\ \A j \in 1..Len(body.parts[i].leaves) : body.parts[i].leaves[j] \in Leaves
         /\ \A m \in Inner : IsInner(m) /\ \E i \in 1..q : m = body.parts[i]
         /\ \A t \in Leaves : IsLeafOf(q, t)
         /\ \A t \in Leaves : t.headed = TRUE /\ t.type \in {"text", "app"}
         /\ \A m \in Inner : m.b # body.b /\ Len(m.leaves) \in Nat \ {0}
<1>1. q \in Nat /\ DOMAIN body.parts = 1..q
  <2>1. body.parts \in Seq(Range(body.parts))
    BY DEF IsTree
  <2> QED
    BY <2>1
<1>2. \A i \in 1..q : body.parts[i] \in Range(body.parts)
  BY <1>1 DEF Range
<1>3. \A t \in Range(body.parts) : \E i \in 1..q : t = body.parts[i]
  BY <1>1 DEF Range
<1>4. \A m \in Inner : IsInner(m) /\ \E i \in 1..q : m = body.parts[i]
  BY <1>3 DEF Inner
<1>5. \A i \in 1..q : IsInner(body.parts[i]) => body.parts[i] \in Inner
  BY <1>2 DEF Inner
<1>6. ASSUME NEW m \in Inner
      PROVE  /\ Len(m.leaves) \in Nat /\ DOMAIN m.leaves = 1..Len(m.leaves)
             /\ \A j \in 1..Len(m.leaves) : m.leaves[j].type \in {"text", "app"}
             /\ m.b # body.b /\ Len(m.leaves) # 0
  <2>1. PICK i \in 1..q : m = body.parts[i] /\ IsInner(m)
    BY <1>4
  <2>2. /\ m.leaves \in Seq(Range(m.leaves)) /\ m.leaves # <<>> /\ m.b # body.b
        /\ \A j \in DOMAIN m.leaves : m.leaves[j].type \in {"text", "app"}
    BY <1>1, <2>1 DEF IsTree
  <2> QED
    BY <2>2
<1>7. ASSUME NEW i \in 1..q, ~IsInner(body.parts[i])
      PROVE  body.parts[i].type \in {"text", "app"}
  BY <1>1, <1>7 DEF IsTree
<1>8. \A i \in 1..q : ~IsInner(body.parts[i]) => body.parts[i] \in Leaves
  BY <1>2, <1>4 DEF Leaves
<1>9. \A m \in Inner : \A j \in 1..Len(m.leaves) : m.leaves[j] \in Leaves
  <2> TAKE m \in Inner
  <2> TAKE j \in 1..Len(m.leaves)
  <2>1. m.leaves[j] \in Range(m.leaves)
    BY <1>6 DEF Range
  <2> QED
    BY <2>1 DEF Leaves
<1>10. ASSUME NEW t \in Leaves
       PROVE  t.type \in {"text", "app"} /\ IsLeafOf(q, t)
  <2>1. CASE t \in Range(body.parts) \ Inner
    <3>1. PICK i \in 1..q : t = body.parts[i]
      BY <1>3, <2>1
    <3>2. ~IsInner(t)
      BY <2>1 DEF Inner
    <3>3. IsLeafOf(q, t)
      BY <3>1, <3>2 DEF IsLeafOf
    <3> QED
      BY <1>7, <3>1, <3>2, <3>3
  <2>2. CASE t \in UNION {Range(m.leaves) : m \in Inner}
    <3>1. PICK m \in Inner : t \in Range(m.leaves)
      BY <2>2
    <3>2. PICK j \in 1..Len(m.leaves) : t = m.leaves[j]
      BY <1>6, <3>1 DEF Range
    <3>3. PICK i \in 1..q : m = body.parts[i] /\ IsInner(m)
      BY <1>4
    <3>4. IsLeafOf(q, t)
      BY <3>2, <3>3 DEF IsLeafOf
    <3> QED
      BY <1>6, <3>2, <3>4
  <2> QED
    BY <2>1, <2>2 DEF Leaves
<1>11. \A t \in Leaves : t.headed = TRUE
  BY DEF Usual
<1> QED
  BY <1>1, <1>4, <1>5, <1>6, <1>8, <1>9, <1>10, <1>11

\* Leaves of two inner multiparts that have the same text are the same one.
LeavesDiffer(i, j) ==
  \A h \in 1..Len(body.parts[i].leaves) : \A k \in 1..Len(body.parts[j].leaves) :
     body.parts[i].leaves[h].text = body.parts[j].leaves[k].text => i = j /\ h = k

\* A boundary or a text is not used again.
LEMMA TreeDiffers ==
  ASSUME IsTree(body), Usual, NEW q, q = Len(body.parts), NEW i \in 1..q, NEW j \in 1..q
  PROVE  /\ IsInner(body.parts[i]) /\ IsInner(body.parts[j]) =>
              (body.parts[i].b = body.parts[j].b => i = j)
         /\ ~IsInner(body.parts[i]) /\ ~IsInner(body.parts[j]) =>
              (body.parts[i].text = body.parts[j].text => i = j)
         /\ ~IsInner(body.parts[i]) /\ IsInner(body.parts[j]) =>
              \A k \in 1..Len(body.parts[j].leaves) :
                 body.parts[i].text # body.parts[j].leaves[k].text
         /\ IsInner(body.parts[i]) /\ IsInner(body.parts[j]) => LeavesDiffer(i, j)
<1>1. i \in DOMAIN body.parts /\ j \in DOMAIN body.parts
  BY TreeIs
<1>2. i # j => TextsIn(body.parts[i]) \cap TextsIn(body.parts[j]) = {}
  BY <1>1 DEF IsTree
<1>3. IsInner(body.parts[i]) =>
        /\ DOMAIN body.parts[i].leaves = 1..Len(body.parts[i].leaves)
        /\ \A h, k \in DOMAIN body.parts[i].leaves :
             h # k => body.parts[i].leaves[h].text # body.parts[i].leaves[k].text
  BY <1>1, TreeIs DEF IsTree
<1>4. IsInner(body.parts[j]) => DOMAIN body.parts[j].leaves = 1..Len(body.parts[j].leaves)
  BY TreeIs
<1>5. IsInner(body.parts[i]) /\ IsInner(body.parts[j]) =>
        (body.parts[i].b = body.parts[j].b => i = j)
  BY <1>1 DEF IsTree
<1>6. /\ ~IsInner(body.parts[i]) => body.parts[i].text \in TextsIn(body.parts[i])
      /\ ~IsInner(body.parts[j]) => body.parts[j].text \in TextsIn(body.parts[j])
      /\ IsInner(body.parts[i]) => \A h \in 1..Len(body.parts[i].leaves) :
           body.parts[i].leaves[h].text \in TextsIn(body.parts[i])
      /\ IsInner(body.parts[j]) => \A h \in 1..Len(body.parts[j].leaves) :
           body.parts[j].leaves[h].text \in TextsIn(body.parts[j])
  BY <1>3, <1>4 DEF TextsIn
<1>7. ~IsInner(body.parts[i]) /\ ~IsInner(body.parts[j]) =>
        (body.parts[i].text = body.parts[j].text => i = j)
  BY <1>2, <1>6
<1>8. ~IsInner(body.parts[i]) /\ IsInner(body.parts[j]) =>
        \A k \in 1..Len(body.parts[j].leaves) :
           body.parts[i].text # body.parts[j].leaves[k].text
  <2> SUFFICES ASSUME ~IsInner(body.parts[i]), IsInner(body.parts[j]),
                      NEW k \in 1..Len(body.parts[j].leaves)
               PROVE  body.parts[i].text # body.parts[j].leaves[k].text
    OBVIOUS
  <2>1. i # j
    OBVIOUS
  <2> QED
    BY <1>2, <1>6, <2>1
<1>9. ASSUME IsInner(body.parts[i]), IsInner(body.parts[j]),
             NEW h \in 1..Len(body.parts[i].leaves), NEW k \in 1..Len(body.parts[j].leaves),
             body.parts[i].leaves[h].text = body.parts[j].leaves[k].text
      PROVE  i = j /\ h = k
  <2>1. i = j
    BY <1>2, <1>6, <1>9
  <2> QED
    BY <1>3, <1>9, <2>1
<1>10. IsInner(body.parts[i]) /\ IsInner(body.parts[j]) => LeavesDiffer(i, j)
  BY <1>9 DEF LeavesDiffer
<1> QED
  BY <1>5, <1>7, <1>8, <1>10

\* The lines that mails are made of.
LEMMA LinesAre ==
  ASSUME IsTree(body), Usual
  PROVE  /\ Empty \in LineSet /\ Line("header", 0) \in LineSet /\ Line("said", 0) \in LineSet
         /\ \A c \in Bounds : /\ Line("delim", c) \in LineSet /\ Line("end", c) \in LineSet
                              /\ Line("multipart", c) \in LineSet
         /\ \A t \in Leaves : Line(t.type, 0) \in LineSet /\ Line("said", t.text) \in LineSet
<1>1. \A t \in Leaves : t.type \in {"text", "app"}
  BY TreeIs
<1> QED
  BY <1>1 DEF LineSet, Line, Empty

\* The lines that name a boundary.
MarkKinds == {"delim", "end", "multipart"}

\* A leaf behind line l, and an inner multipart behind line l, whose delimiters and end
\* are the lines w[1], w[2] and so on; next is the line after it.
LeafLaid(l, t, next) ==
  /\ next = l + 1 + Len(LeafLines(t))
  /\ \A k \in 1..Len(LeafLines(t)) : eml[l + k] = LeafLines(t)[k]

InnerLaid(l, m, next, w) ==
  /\ eml[l + 1] = Line("multipart", m.b) /\ (m.more => eml[l + 2] = Line("header", 0))
  /\ eml[l + Above(m)] = Empty
  /\ \A j \in 1..(Len(m.leaves) + 1) :
       w[j] \in Nat /\ (l + Above(m)) + 1 <= w[j] /\ w[j] < next
  /\ w[1] = (l + Above(m)) + 1 /\ next = w[Len(m.leaves) + 1] + 1
  /\ eml[w[Len(m.leaves) + 1]] = Line("end", m.b)
  /\ \A j \in 1..Len(m.leaves) : /\ eml[w[j]] = Line("delim", m.b)
                                 /\ LeafLaid(w[j], m.leaves[j], w[j + 1])
  /\ \A j \in 1..Len(m.leaves) : w[j] < w[Len(m.leaves) + 1]
  /\ \A x \in (l + 1)..(next - 1) : eml[x].kind \in MarkKinds =>
       x = l + 1 \/ \E j \in 1..(Len(m.leaves) + 1) : x = w[j]

\* No line of a leaf names a boundary.
LEMMA LeafLinesIs ==
  ASSUME IsTree(body), Usual, NEW t \in Leaves
  PROVE  /\ LeafLines(t) \in Seq(LineSet) /\ Len(LeafLines(t)) \in {3, 5}
         /\ LeafLines(t)[1] = Line(t.type, 0) /\ LeafLines(t)[2] = Empty
         /\ LeafLines(t)[3] = Line("said", t.text)
         /\ \A k \in 1..Len(LeafLines(t)) : LeafLines(t)[k].kind \notin MarkKinds
<1>1. t.headed = TRUE /\ t.type \in {"text", "app"}
  BY TreeIs
<1>2. /\ Line(t.type, 0) \in LineSet /\ Empty \in LineSet /\ Line("said", t.text) \in LineSet
  BY LinesAre
<1>3. /\ LeafLines(t) \in Seq(LineSet) /\ Len(LeafLines(t)) \in {3, 5}
      /\ LeafLines(t)[1] = Line(t.type, 0) /\ LeafLines(t)[2] = Empty
      /\ LeafLines(t)[3] = Line("said", t.text)
      /\ Len(LeafLines(t)) = 5 =>
           LeafLines(t)[4] = Empty /\ LeafLines(t)[5] = Line("said", t.text)
  BY <1>1, <1>2, LeafLinesAre
<1>4. /\ Line(t.type, 0).kind \notin MarkKinds /\ Empty.kind \notin MarkKinds
      /\ Line("said", t.text).kind \notin MarkKinds
  BY <1>1 DEF Line, Empty, MarkKinds
<1>5. ASSUME NEW k \in 1..Len(LeafLines(t))
      PROVE  LeafLines(t)[k].kind \notin MarkKinds
  <2>1. k \in {1, 2, 3} \/ (k \in {4, 5} /\ Len(LeafLines(t)) = 5)
    <3>1. PICK z \in {3, 5} : z = Len(LeafLines(t))
      BY <1>3
    <3>2. CASE z = 3
      BY <3>1, <3>2
    <3>3. CASE z = 5
      BY <3>1, <3>3
    <3> QED
      BY <3>1, <3>2, <3>3
  <2> QED
    BY <1>3, <1>4, <2>1
<1> QED
  BY <1>3, <1>5

\* The lines of an inner multipart, and where its parts are.
LEMMA InnerLinesHave ==
  ASSUME IsTree(body), Usual, NEW m \in Inner
  PROVE  /\ AreInnerLines(LineSet, m)
         /\ \E o : IsMulti(LineSet, m.b, [j \in DOMAIN m.leaves |-> LeafLines(m.leaves[j])],
                         Parts(m), o)
<1> DEFINE lines == [j \in DOMAIN m.leaves |-> LeafLines(m.leaves[j])]
<1>1. PICK r \in Nat : /\ r = Len(m.leaves) /\ DOMAIN m.leaves = 1..r
                       /\ \A j \in 1..r : m.leaves[j] \in Leaves
  <2>1. PICK q : q = Len(body.parts)
    OBVIOUS
  <2>2. IsInner(m) /\ \E i \in 1..q : m = body.parts[i]
    BY <2>1, TreeIs
  <2>3. PICK i \in 1..q : m = body.parts[i] /\ IsInner(body.parts[i])
    BY <2>2
  <2> QED
    BY <2>1, <2>3, TreeIs
<1>2. \A j \in 1..r : lines[j] = LeafLines(m.leaves[j]) /\ lines[j] \in Seq(LineSet)
  BY <1>1, LeafLinesIs
<1>3. lines \in Seq(Seq(LineSet))
  <2>1. lines \in [1..r -> Seq(LineSet)]
    BY <1>1, <1>2
  <2> QED
    BY <2>1
<1>4. m.b \in Bounds
  BY DEF Bounds
<1>5. Parts(m) = Multi(m.b, lines)
  BY DEF Parts
<1> HIDE DEF lines
<1>6. PICK o : IsMulti(LineSet, m.b, lines, Parts(m), o)
  <2>1. Line("delim", m.b) \in LineSet /\ Line("end", m.b) \in LineSet
    BY <1>4, LinesAre
  <2> QED
    BY <1>3, <1>5, <2>1, MultiIs
<1>7. Parts(m) \in Seq(LineSet)
  BY <1>6 DEF IsMulti
<1>8. AreInnerLines(LineSet, m)
  <2>1. /\ Line("multipart", m.b) \in LineSet /\ Line("header", 0) \in LineSet
        /\ Empty \in LineSet
    BY <1>4, TreeIs, LinesAre
  <2> QED
    BY <1>7, <2>1, InnerLinesAre
<1> QED
  BY <1>6, <1>8 DEF lines

\* The lines of an inner multipart.
LEMMA InnerStands ==
  ASSUME IsTree(body), Usual, NEW m \in Inner, NEW l \in Nat,
         \A k \in 1..Len(InnerLines(m)) : eml[l + k] = InnerLines(m)[k]
  PROVE  \E w : InnerLaid(l, m, l + 1 + Len(InnerLines(m)), w)
<1> DEFINE lines == [j \in DOMAIN m.leaves |-> LeafLines(m.leaves[j])]
<1>1. PICK r \in Nat : /\ r = Len(m.leaves) /\ DOMAIN m.leaves = 1..r
                       /\ \A j \in 1..r : m.leaves[j] \in Leaves
  <2>1. PICK q : q = Len(body.parts)
    OBVIOUS
  <2>2. IsInner(m) /\ \E i \in 1..q : m = body.parts[i]
    BY <2>1, TreeIs
  <2>3. PICK i \in 1..q : m = body.parts[i] /\ IsInner(body.parts[i])
    BY <2>2
  <2> QED
    BY <2>1, <2>3, TreeIs
<1>2. \A j \in 1..r : lines[j] = LeafLines(m.leaves[j]) /\ lines[j] \in Seq(LineSet)
  BY <1>1, LeafLinesIs
<1>3. lines \in Seq(Seq(LineSet)) /\ Len(lines) = r
  <2>1. lines \in [1..r -> Seq(LineSet)]
    BY <1>1, <1>2
  <2> QED
    BY <2>1
<1>4. PICK s : s = Parts(m)
  OBVIOUS
<1>5. PICK o : IsMulti(LineSet, m.b, lines, s, o)
  BY <1>4, InnerLinesHave
<1> HIDE DEF lines
<1>6. /\ \A j \in 1..(r + 1) : o[j] \in Nat \ {0}
      /\ s \in Seq(LineSet) /\ Len(s) = o[r + 1] /\ s[o[r + 1]] = Line("end", m.b) /\ o[1] = 1
      /\ \A j \in 1..r :
           /\ s[o[j]] = Line("delim", m.b) /\ o[j + 1] = o[j] + 1 + Len(lines[j])
           /\ \A k \in 1..Len(lines[j]) : s[o[j] + k] = lines[j][k]
      /\ \A i \in 1..r : \A j \in 1..(r + 1) : i < j => o[i] + Len(lines[i]) < o[j]
      /\ \A x \in 1..Len(s) :
           \/ \E i \in 1..(r + 1) : x = o[i]
           \/ \E i \in 1..r : \E k \in 1..Len(lines[i]) : x = o[i] + k
  BY <1>3, <1>5 DEF IsMulti
<1> PICK g \in {2, 3} : g = Above(m)
  BY DEF Above
<1>7. /\ InnerLines(m) \in Seq(LineSet) /\ Len(InnerLines(m)) = g + Len(s)
      /\ InnerLines(m)[1] = Line("multipart", m.b)
      /\ m.more => InnerLines(m)[2] = Line("header", 0)
      /\ InnerLines(m)[g] = Empty
      /\ \A k \in 1..Len(s) : InnerLines(m)[g + k] = s[k]
  BY <1>4, InnerLinesHave DEF AreInnerLines
<1>8. PICK z \in Nat : z = Len(s) /\ z = o[r + 1] /\ Len(InnerLines(m)) = g + z
  BY <1>6, <1>7
<1>9. PICK c \in Nat : c = Len(InnerLines(m)) /\ c = g + z
  BY <1>8
<1>10. \A x \in 1..z : eml[(l + g) + x] = s[x]
  <2> TAKE x \in 1..z
  <2>1. g + x \in 1..(g + z) /\ l + (g + x) = (l + g) + x
    OBVIOUS
  <2>2. eml[l + (g + x)] = InnerLines(m)[g + x]
    BY <1>8, <2>1
  <2> QED
    BY <1>7, <1>8, <2>1, <2>2
<1>11. /\ eml[l + 1] = Line("multipart", m.b) /\ (m.more => eml[l + 2] = Line("header", 0))
       /\ eml[l + g] = Empty
  <2>1. 1 \in 1..(g + z) /\ 2 \in 1..(g + z) /\ g \in 1..(g + z)
    OBVIOUS
  <2> QED
    BY <1>7, <1>8, <2>1
<1> DEFINE w == [j \in 1..(r + 1) |-> (l + g) + o[j]]
<1>12. \A j \in 1..r : o[j] \in Nat /\ 1 <= o[j] /\ o[j] < z /\ Len(lines[j]) \in Nat
                       /\ o[j] + Len(lines[j]) < z
  <2> TAKE j \in 1..r
  <2>1. j \in 1..(r + 1) /\ r + 1 \in 1..(r + 1) /\ j < r + 1
    OBVIOUS
  <2>2. o[j] \in Nat \ {0} /\ o[j] + Len(lines[j]) < z /\ Len(lines[j]) \in Nat
    BY <1>2, <1>6, <1>8, <2>1
  <2> QED
    BY <2>2
<1>13. \A j \in 1..(r + 1) : o[j] \in Nat /\ 1 <= o[j] /\ o[j] <= z
  <2> TAKE j \in 1..(r + 1)
  <2>1. CASE j = r + 1
    BY <1>6, <1>8, <2>1
  <2>2. CASE j # r + 1
    <3>1. j \in 1..r
      BY <2>2
    <3> QED
      BY <1>12, <3>1
  <2> QED
    BY <2>1, <2>2
<1>14. \A j \in 1..(r + 1) : w[j] = (l + g) + o[j] /\ w[j] \in Nat
  BY <1>13
<1> HIDE DEF w
<1>15. 1 \in 1..(r + 1) /\ r + 1 \in 1..(r + 1)
       /\ \A j \in 1..r : j \in 1..(r + 1) /\ j + 1 \in 1..(r + 1)
  OBVIOUS
<1>16. PICK next : next = l + 1 + Len(InnerLines(m)) /\ next = (l + g) + z + 1
  <2>1. PICK next : next = l + 1 + Len(InnerLines(m))
    OBVIOUS
  <2>2. next = l + 1 + c
    BY <1>9, <2>1
  <2>3. next = (l + g) + z + 1
    BY <1>9, <2>2
  <2> QED
    BY <2>1, <2>3
<1>17. \A j \in 1..(r + 1) : w[j] \in Nat /\ (l + g) + 1 <= w[j] /\ w[j] < next
  <2> TAKE j \in 1..(r + 1)
  <2>1. PICK y \in Nat : y = o[j] /\ 1 <= y /\ y <= z
    BY <1>13
  <2>2. w[j] = (l + g) + y /\ w[j] \in Nat
    BY <1>14, <2>1
  <2>3. (l + g) + 1 <= (l + g) + y /\ (l + g) + y < next
    BY <1>16, <2>1
  <2> QED
    BY <2>2, <2>3
<1>18. w[1] = (l + g) + 1 /\ next = w[r + 1] + 1
  <2>1. o[1] = 1 /\ o[r + 1] = z
    BY <1>6, <1>8
  <2>2. w[1] = (l + g) + o[1] /\ w[r + 1] = (l + g) + o[r + 1]
    BY <1>14, <1>15
  <2> QED
    BY <1>16, <2>1, <2>2
<1>19. eml[w[r + 1]] = Line("end", m.b)
  <2>1. w[r + 1] = (l + g) + z /\ s[z] = Line("end", m.b)
    BY <1>6, <1>8, <1>14, <1>15
  <2>2. z \in 1..z
    BY <1>8, <1>13, <1>15
  <2> QED
    BY <1>10, <2>1, <2>2
<1>20. ASSUME NEW j \in 1..r
       PROVE  /\ eml[w[j]] = Line("delim", m.b) /\ w[j] < w[r + 1]
              /\ LeafLaid(w[j], m.leaves[j], w[j + 1])
  <2>1. o[j] \in 1..z /\ o[j] < z /\ w[j] = (l + g) + o[j] /\ w[r + 1] = (l + g) + z
        /\ w[j + 1] = (l + g) + o[j + 1]
    <3>1. j \in 1..(r + 1) /\ j + 1 \in 1..(r + 1) /\ r + 1 \in 1..(r + 1)
      BY <1>15
    <3>2. w[j] = (l + g) + o[j] /\ w[j + 1] = (l + g) + o[j + 1]
          /\ w[r + 1] = (l + g) + o[r + 1]
      BY <1>14, <3>1
    <3>3. o[j] \in 1..z /\ o[j] < z
      BY <1>12
    <3>4. o[r + 1] = z
      BY <1>6, <1>8
    <3> QED
      BY <3>2, <3>3, <3>4
  <2>2. eml[w[j]] = Line("delim", m.b)
    <3>1. s[o[j]] = Line("delim", m.b)
      BY <1>6
    <3>2. eml[(l + g) + o[j]] = s[o[j]]
      BY <1>10, <2>1
    <3> QED
      BY <2>1, <3>1, <3>2
  <2>3. PICK d \in Nat : d = Len(lines[j]) /\ o[j] + d < z
    BY <1>12
  <2>4. o[j + 1] = o[j] + 1 + d
    BY <1>6, <2>3
  <2>5. ASSUME NEW k \in 1..d
        PROVE  eml[w[j] + k] = lines[j][k]
    <3>1. o[j] + k \in 1..z /\ w[j] + k = (l + g) + (o[j] + k)
      <4>1. PICK a \in 1..z : a = o[j]
        BY <2>1
      <4>2. a + d < z /\ w[j] = (l + g) + a
        BY <2>1, <2>3, <4>1
      <4>3. a + k \in 1..z /\ ((l + g) + a) + k = (l + g) + (a + k)
        BY <4>2
      <4> QED
        BY <4>1, <4>2, <4>3
    <3>2. eml[(l + g) + (o[j] + k)] = s[o[j] + k]
      BY <1>10, <3>1
    <3>3. s[o[j] + k] = lines[j][k]
      BY <1>6, <2>3
    <3> QED
      BY <3>1, <3>2, <3>3
  <2>6. w[j + 1] = w[j] + 1 + d
    BY <2>1, <2>4
  <2>7. lines[j] = LeafLines(m.leaves[j])
    BY <1>2
  <2>8. LeafLaid(w[j], m.leaves[j], w[j + 1])
    BY <2>3, <2>5, <2>6, <2>7 DEF LeafLaid
  <2>9. w[j] < w[r + 1]
    BY <2>1
  <2> QED
    BY <2>2, <2>8, <2>9
<1>21. ASSUME NEW x \in (l + 1)..(next - 1), eml[x].kind \in MarkKinds
       PROVE  x = l + 1 \/ \E j \in 1..(r + 1) : x = w[j]
  <2>1. x # l + g /\ (m.more => x # l + 2)
    BY <1>11, <1>21 DEF Line, Empty, MarkKinds
  <2>2. CASE x >= (l + g) + 1
    <3>1. PICK y \in 1..z : x = (l + g) + y
      <4>1. x - (l + g) \in 1..z /\ x = (l + g) + (x - (l + g))
        BY <1>16, <2>2
      <4> QED
        BY <4>1
    <3>2. eml[x] = s[y]
      BY <1>10, <3>1
    <3>3. CASE \E i \in 1..(r + 1) : y = o[i]
      BY <1>14, <3>1, <3>3
    <3>4. CASE \E i \in 1..r : \E k \in 1..Len(lines[i]) : y = o[i] + k
      <4>1. PICK i \in 1..r : \E k \in 1..Len(lines[i]) : y = o[i] + k
        BY <3>4
      <4>2. PICK k \in 1..Len(lines[i]) : y = o[i] + k
        BY <4>1
      <4>3. eml[x] = LeafLines(m.leaves[i])[k] /\ k \in 1..Len(LeafLines(m.leaves[i]))
        BY <1>2, <1>6, <3>2, <4>2
      <4>4. eml[x].kind \notin MarkKinds
        BY <1>1, <4>3, LeafLinesIs
      <4> QED
        BY <1>21, <4>4
    <3>5. \/ \E i \in 1..(r + 1) : y = o[i]
          \/ \E i \in 1..r : \E k \in 1..Len(lines[i]) : y = o[i] + k
      <4>1. \A v \in 1..Len(s) :
              \/ \E i \in 1..(r + 1) : v = o[i]
              \/ \E i \in 1..r : \E k \in 1..Len(lines[i]) : v = o[i] + k
        BY <1>6, Zenon
      <4>2. y \in 1..Len(s)
        BY <1>8
      <4> QED
        BY <4>1, <4>2, Zenon
    <3> QED
      BY <3>3, <3>4, <3>5
  <2>3. CASE x < (l + g) + 1
    <3>1. (m.more /\ g = 3) \/ g = 2
      BY DEF Above
    <3>2. x \in {l + 1, l + 2, l + g} /\ (g = 2 \/ x # l + 2)
      BY <1>16, <2>1, <2>3, <3>1
    <3> QED
      BY <2>1, <3>2
  <2> QED
    BY <1>16, <2>2, <2>3
<1>22. InnerLaid(l, m, next, w)
  BY <1>1, <1>11, <1>17, <1>18, <1>19, <1>20, <1>21 DEF InnerLaid
<1> QED
  BY <1>16, <1>22

\* Where everything is in a mail: the delimiters and the end of the mail itself are the lines
\* o[i], those of the multipart that is its i-th part the lines v[i][j].
IsLaid(q, o, v) ==
  /\ q = Len(body.parts) /\ Len(eml) \in Nat /\ DOMAIN eml = 1..Len(eml)
  /\ \A i \in 1..(q + 1) : o[i] \in Nat /\ 1 <= o[i] /\ o[i] <= o[q + 1]
  /\ o[q + 1] <= Len(eml) /\ eml[o[q + 1]] = Line("end", body.b)
  /\ \A i \in 1..q :
       /\ eml[o[i]] = Line("delim", body.b) /\ o[i] < o[q + 1]
       /\ IsInner(body.parts[i]) => InnerLaid(o[i], body.parts[i], o[i + 1], v[i])
       /\ ~IsInner(body.parts[i]) => LeafLaid(o[i], body.parts[i], o[i + 1])
  /\ \A x \in 1..Len(eml) : eml[x].kind \in MarkKinds =>
       \/ \E i \in 1..(q + 1) : x = o[i]
       \/ \E i \in 1..q :
            /\ IsInner(body.parts[i])
            /\ x = o[i] + 1 \/ \E j \in 1..(Len(body.parts[i].leaves) + 1) : x = v[i][j]

\* The lines of a part, leaf or multipart.
LEMMA PartStands ==
  ASSUME IsTree(body), Usual, NEW q, q = Len(body.parts), NEW i \in 1..q, NEW l \in Nat,
         NEW next, next = l + 1 + Len(PartLines(body.parts[i])),
         \A k \in 1..Len(PartLines(body.parts[i])) : eml[l + k] = PartLines(body.parts[i])[k]
  PROVE  /\ ~IsInner(body.parts[i]) => LeafLaid(l, body.parts[i], next)
         /\ IsInner(body.parts[i]) => \E w : InnerLaid(l, body.parts[i], next, w)
<1>1. CASE ~IsInner(body.parts[i])
  <2>1. PartLines(body.parts[i]) = LeafLines(body.parts[i])
    BY <1>1 DEF PartLines
  <2> QED
    BY <1>1, <2>1 DEF LeafLaid
<1>2. CASE IsInner(body.parts[i])
  <2>1. PICK m \in Inner : m = body.parts[i]
    BY <1>2, TreeIs
  <2>2. PartLines(m) = InnerLines(m)
    BY <1>2, <2>1 DEF PartLines
  <2>3. \A k \in 1..Len(InnerLines(m)) : eml[l + k] = InnerLines(m)[k]
    BY <2>1, <2>2
  <2>4. \E w : InnerLaid(l, m, l + 1 + Len(InnerLines(m)), w)
    BY <2>3, InnerStands
  <2> QED
    BY <1>2, <2>1, <2>2, <2>4
<1> QED
  BY <1>1, <1>2

\* What PartLines makes are lines.
LEMMA PartLinesAre ==
  ASSUME IsTree(body), Usual, NEW q, q = Len(body.parts), NEW i \in 1..q
  PROVE  PartLines(body.parts[i]) \in Seq(LineSet)
<1>1. CASE ~IsInner(body.parts[i])
  <2>1. PICK t \in Leaves : t = body.parts[i]
    BY <1>1, TreeIs
  <2>2. PartLines(t) = LeafLines(t)
    BY <1>1, <2>1 DEF PartLines
  <2> QED
    BY <2>1, <2>2, LeafLinesIs
<1>2. CASE IsInner(body.parts[i])
  <2>1. PICK m \in Inner : m = body.parts[i]
    BY <1>2, TreeIs
  <2>2. PartLines(m) = InnerLines(m)
    BY <1>2, <2>1 DEF PartLines
  <2>3. InnerLines(m) \in Seq(LineSet)
    BY <2>1, InnerLinesHave DEF AreInnerLines
  <2> QED
    BY <2>1, <2>2, <2>3
<1> QED
  BY <1>1, <1>2

\* The lines of a mail are laid out as its tree says.
LEMMA MailLaid ==
  ASSUME IsTree(body), Usual, eml = MailLines(body), NEW q, q = Len(body.parts)
  PROVE  \E o, v : IsLaid(q, o, v)
<1> DEFINE lines == [i \in DOMAIN body.parts |-> PartLines(body.parts[i])]
           after == IF body.after THEN <<Line("said", 0)>> ELSE <<>>
<1>1. q \in Nat /\ DOMAIN body.parts = 1..q
  BY TreeIs
<1>2. \A i \in 1..q : lines[i] = PartLines(body.parts[i]) /\ lines[i] \in Seq(LineSet)
  BY <1>1, PartLinesAre
<1>3. lines \in Seq(Seq(LineSet)) /\ Len(lines) = q
  <2>1. lines \in [1..q -> Seq(LineSet)]
    BY <1>1, <1>2
  <2> QED
    BY <2>1
<1>4. PICK s : s = Multi(body.b, lines)
  OBVIOUS
<1>5. PICK a : a = after
  OBVIOUS
<1>6. eml = s \o a
  BY <1>4, <1>5 DEF MailLines
<1>7. a \in Seq(LineSet) /\ \A k \in 1..Len(a) : a[k] = Line("said", 0)
  <2>1. Line("said", 0) \in LineSet
    BY LinesAre
  <2>2. CASE a = <<>>
    BY <2>2
  <2>3. CASE a = <<Line("said", 0)>>
    BY <2>1, <2>3
  <2> QED
    BY <1>5, <2>2, <2>3
<1> HIDE DEF lines, after
<1>8. PICK u : IsMulti(LineSet, body.b, lines, s, u)
  <2>1. Line("delim", body.b) \in LineSet /\ Line("end", body.b) \in LineSet
    BY LinesAre DEF Bounds
  <2> QED
    BY <1>3, <1>4, <2>1, MultiIs
<1> DEFINE o == [i \in 1..(q + 1) |-> u[i]]
<1>9. /\ \A i \in 1..(q + 1) : o[i] = u[i]
      /\ q + 1 \in 1..(q + 1)
      /\ \A i \in 1..q : i \in 1..(q + 1) /\ i + 1 \in 1..(q + 1) /\ i < q + 1
  BY <1>1
<1>10. /\ \A i \in 1..(q + 1) : o[i] \in Nat \ {0}
       /\ s \in Seq(LineSet) /\ Len(s) = o[q + 1] /\ s[o[q + 1]] = Line("end", body.b)
       /\ \A i \in 1..q :
            /\ s[o[i]] = Line("delim", body.b) /\ o[i + 1] = o[i] + 1 + Len(lines[i])
            /\ \A k \in 1..Len(lines[i]) : s[o[i] + k] = lines[i][k]
       /\ \A i \in 1..q : o[i] + Len(lines[i]) < o[q + 1]
       /\ \A x \in 1..Len(s) :
            \/ \E i \in 1..(q + 1) : x = o[i]
            \/ \E i \in 1..q : \E k \in 1..Len(lines[i]) : x = o[i] + k
  <2> HIDE DEF o
  <2>1. /\ u \in [1..(q + 1) -> Nat \ {0}]
        /\ s \in Seq(LineSet) /\ Len(s) = u[q + 1] /\ s[u[q + 1]] = Line("end", body.b)
        /\ \A i \in 1..q :
             /\ s[u[i]] = Line("delim", body.b) /\ u[i + 1] = u[i] + 1 + Len(lines[i])
             /\ \A k \in 1..Len(lines[i]) : s[u[i] + k] = lines[i][k]
        /\ \A i \in 1..q : \A j \in 1..(q + 1) : i < j => u[i] + Len(lines[i]) < u[j]
        /\ \A x \in 1..Len(s) :
             \/ \E i \in 1..(q + 1) : x = u[i]
             \/ \E i \in 1..q : \E k \in 1..Len(lines[i]) : x = u[i] + k
    BY <1>3, <1>8 DEF IsMulti
  <2>2. \A i \in 1..(q + 1) : o[i] \in Nat \ {0}
    BY <1>9, <2>1
  <2>3. s \in Seq(LineSet) /\ Len(s) = o[q + 1] /\ s[o[q + 1]] = Line("end", body.b)
    BY <1>9, <2>1
  <2>4. \A i \in 1..q :
            /\ s[o[i]] = Line("delim", body.b) /\ o[i + 1] = o[i] + 1 + Len(lines[i])
            /\ \A k \in 1..Len(lines[i]) : s[o[i] + k] = lines[i][k]
    BY <1>9, <2>1
  <2>5. \A i \in 1..q : o[i] + Len(lines[i]) < o[q + 1]
    BY <1>9, <2>1
  <2>6. \A x \in 1..Len(s) :
            \/ \E i \in 1..(q + 1) : x = o[i]
            \/ \E i \in 1..q : \E k \in 1..Len(lines[i]) : x = o[i] + k
    <3> TAKE x \in 1..Len(s)
    <3>1. CASE \E i \in 1..(q + 1) : x = u[i]
      BY <1>9, <3>1
    <3>2. CASE \E i \in 1..q : \E k \in 1..Len(lines[i]) : x = u[i] + k
      <4>1. PICK i \in 1..q : \E k \in 1..Len(lines[i]) : x = u[i] + k
        BY <3>2
      <4>2. o[i] = u[i]
        BY <1>9
      <4> QED
        BY <4>1, <4>2
    <3> QED
      BY <2>1, <3>1, <3>2
  <2> QED
    BY <2>2, <2>3, <2>4, <2>5, <2>6
<1> HIDE DEF o
<1>11. PICK z \in Nat : z = Len(s) /\ z = o[q + 1]
  BY <1>10
<1>12. /\ eml \in Seq(LineSet) /\ Len(eml) = z + Len(a)
       /\ \A x \in 1..(z + Len(a)) : eml[x] = IF x <= z THEN s[x] ELSE a[x - z]
  <2>1. PICK e : e = s \o a
    OBVIOUS
  <2>2. /\ e \in Seq(LineSet) /\ Len(e) = Len(s) + Len(a)
        /\ \A x \in 1..(Len(s) + Len(a)) : e[x] = IF x <= Len(s) THEN s[x] ELSE a[x - Len(s)]
    <3>1. s \in Seq(LineSet) /\ a \in Seq(LineSet)
      BY <1>7, <1>10
    <3> QED
      BY <2>1, <3>1, ConcatProperties
  <2> QED
    BY <1>6, <1>11, <2>1, <2>2
<1>13. PICK d \in Nat : d = Len(a) /\ Len(eml) = z + d
  BY <1>7, <1>12
<1>14. \A x \in 1..z : eml[x] = s[x]
  <2> TAKE x \in 1..z
  <2>1. x \in 1..(z + d) /\ x <= z
    OBVIOUS
  <2> QED
    BY <1>12, <1>13, <2>1
<1>15. \A x \in 1..Len(eml) : x > z => eml[x].kind \notin MarkKinds
  <2> SUFFICES ASSUME NEW x \in 1..Len(eml), x > z
               PROVE  eml[x].kind \notin MarkKinds
    OBVIOUS
  <2>1. x \in 1..(z + d) /\ ~(x <= z) /\ x - z \in 1..d
    BY <1>13
  <2>2. eml[x] = Line("said", 0)
    BY <1>7, <1>12, <1>13, <2>1
  <2> QED
    BY <2>2 DEF Line, MarkKinds
<1>16. \A i \in 1..q : Len(lines[i]) \in Nat
  BY <1>2
<1>17. \A i \in 1..q : /\ o[i] \in Nat /\ 1 <= o[i] /\ o[i] < z
                       /\ o[i] + Len(lines[i]) < z
  <2> TAKE i \in 1..q
  <2>1. i \in 1..(q + 1) /\ q + 1 \in 1..(q + 1) /\ i < q + 1
    BY <1>9
  <2>2. o[i] \in Nat \ {0} /\ o[i] + Len(lines[i]) < o[q + 1]
    BY <1>9, <1>10, <2>1
  <2>3. o[q + 1] = z /\ z \in Nat /\ Len(lines[i]) \in Nat
    BY <1>10, <1>11, <1>16
  <2>4. o[i] + Len(lines[i]) < z
    BY <2>2, <2>3
  <2> QED
    BY <2>2, <2>3, <2>4
<1>18. \A i \in 1..q : /\ eml[o[i]] = Line("delim", body.b)
                       /\ o[i + 1] = o[i] + 1 + Len(PartLines(body.parts[i]))
                       /\ \A k \in 1..Len(PartLines(body.parts[i])) :
                            eml[o[i] + k] = PartLines(body.parts[i])[k]
  <2> TAKE i \in 1..q
  <2>1. o[i] \in 1..z
    BY <1>17
  <2>2. eml[o[i]] = Line("delim", body.b)
    BY <1>10, <1>14, <2>1
  <2>3. \A k \in 1..Len(lines[i]) : eml[o[i] + k] = lines[i][k]
    <3> TAKE k \in 1..Len(lines[i])
    <3>1. o[i] + k \in 1..z
      BY <1>16, <1>17
    <3> QED
      BY <1>10, <1>14, <3>1
  <2> QED
    BY <1>2, <1>10, <2>2, <2>3
<1> DEFINE v == [i \in 1..q |-> CHOOSE w : InnerLaid(o[i], body.parts[i], o[i + 1], w)]
<1>19. ASSUME NEW i \in 1..q
       PROVE  /\ ~IsInner(body.parts[i]) => LeafLaid(o[i], body.parts[i], o[i + 1])
              /\ IsInner(body.parts[i]) => InnerLaid(o[i], body.parts[i], o[i + 1], v[i])
  <2>1. PICK l \in Nat : l = o[i]
    BY <1>17
  <2>2. PICK next : next = o[i + 1]
    OBVIOUS
  <2>3. next = l + 1 + Len(PartLines(body.parts[i]))
    BY <1>18, <2>1, <2>2
  <2>4. \A k \in 1..Len(PartLines(body.parts[i])) : eml[l + k] = PartLines(body.parts[i])[k]
    BY <1>18, <2>1, <2>2
  <2>5. /\ ~IsInner(body.parts[i]) => LeafLaid(l, body.parts[i], next)
        /\ IsInner(body.parts[i]) => \E w : InnerLaid(l, body.parts[i], next, w)
    BY <2>3, <2>4, PartStands
  <2>6. v[i] = CHOOSE w : InnerLaid(l, body.parts[i], next, w)
    BY <2>1, <2>2
  <2> QED
    BY <2>1, <2>2, <2>5, <2>6
<1> HIDE DEF v
<1>20. ASSUME NEW x \in 1..Len(eml), eml[x].kind \in MarkKinds
       PROVE  \/ \E i \in 1..(q + 1) : x = o[i]
              \/ \E i \in 1..q :
                   /\ IsInner(body.parts[i])
                   /\ x = o[i] + 1 \/ \E j \in 1..(Len(body.parts[i].leaves) + 1) : x = v[i][j]
  <2>1. x \in 1..Len(s)
    BY <1>11, <1>13, <1>15, <1>20
  <2>2. \/ \E i \in 1..(q + 1) : x = o[i]
        \/ \E i \in 1..q : \E k \in 1..Len(lines[i]) : x = o[i] + k
    BY <1>10, <2>1
  <2>3. CASE \E i \in 1..q : \E k \in 1..Len(lines[i]) : x = o[i] + k
    <3>1. PICK i \in 1..q : \E k \in 1..Len(lines[i]) : x = o[i] + k
      BY <2>3
    <3>2. PICK k \in 1..Len(lines[i]) : x = o[i] + k
      BY <3>1
    <3>3. CASE ~IsInner(body.parts[i])
      <4>1. body.parts[i] \in Leaves
        BY <3>3, TreeIs
      <4>2. lines[i] = LeafLines(body.parts[i])
        BY <1>2, <3>3 DEF PartLines
      <4>3. k \in 1..Len(PartLines(body.parts[i])) /\ PartLines(body.parts[i]) = lines[i]
        BY <1>2
      <4>4. eml[x] = LeafLines(body.parts[i])[k]
        BY <1>18, <3>2, <4>2, <4>3
      <4>5. eml[x].kind \notin MarkKinds
        BY <4>1, <4>2, <4>4, LeafLinesIs
      <4> QED
        BY <1>20, <4>5
    <3>4. CASE IsInner(body.parts[i])
      <4>1. x \in (o[i] + 1)..(o[i + 1] - 1)
        <5>1. o[i + 1] = o[i] + 1 + Len(lines[i])
          BY <1>10
        <5>2. PICK b, c \in Nat : b = o[i] /\ c = Len(lines[i])
          BY <1>16, <1>17
        <5>3. b + k \in (b + 1)..((b + 1 + c) - 1)
          BY <5>2
        <5> QED
          BY <3>2, <5>1, <5>2, <5>3
      <4>2. x = o[i] + 1 \/ \E j \in 1..(Len(body.parts[i].leaves) + 1) : x = v[i][j]
        BY <1>19, <1>20, <3>4, <4>1 DEF InnerLaid
      <4> QED
        BY <3>4, <4>2
    <3> QED
      BY <3>3, <3>4
  <2> QED
    BY <2>2, <2>3
<1>21. \A i \in 1..(q + 1) : o[i] \in Nat /\ 1 <= o[i] /\ o[i] <= o[q + 1]
  <2> TAKE i \in 1..(q + 1)
  <2>1. CASE i = q + 1
    BY <1>9, <1>10, <2>1
  <2>2. CASE i # q + 1
    <3>1. i \in 1..q
      BY <1>1, <2>2
    <3> QED
      BY <1>11, <1>17, <3>1
  <2> QED
    BY <2>1, <2>2
<1>22. o[q + 1] <= Len(eml) /\ eml[o[q + 1]] = Line("end", body.b)
  <2>1. z \in 1..z
    BY <1>9, <1>10, <1>11
  <2> QED
    <3>1. eml[z] = s[z]
      BY <1>14, <2>1
    <3>2. s[z] = Line("end", body.b) /\ o[q + 1] = z
      BY <1>10, <1>11
    <3>3. z <= Len(eml)
      BY <1>13
    <3> QED
      BY <3>1, <3>2, <3>3
<1>23. Len(eml) \in Nat /\ DOMAIN eml = 1..Len(eml)
  BY <1>12
<1>24. \A i \in 1..q : o[i] < o[q + 1]
  BY <1>11, <1>17
<1>25. IsLaid(q, o, v)
  BY <1>18, <1>19, <1>20, <1>21, <1>22, <1>23, <1>24 DEF IsLaid
<1> QED
  BY <1>25

-----------------------------------------------------------------------------
(* The lines that ParseMailBody looks for, without the tree.               *)

\* The lines behind which a part can be, and those that name a boundary.
Places   == {l \in 1..Len(eml) : eml[l].kind \in {"delim", "multipart"}}
Marks(b) == {l \in 1..Len(eml) : eml[l].kind \in MarkKinds /\ eml[l].n = b}

\* Behind the delimiter l is the leaf t, or the inner multipart m.
LeafAt(l, t) ==
  /\ t \in Leaves /\ l \in 1..Len(eml) /\ eml[l].kind = "delim"
  /\ LeafLaid(l, t, l + 1 + Len(LeafLines(t)))
  /\ l + 1 + Len(LeafLines(t)) \in Marks(eml[l].n)

InnerAt(l, m) ==
  /\ m \in Inner /\ l \in 1..Len(eml) /\ eml[l] = Line("delim", body.b)
  /\ eml[l + 1] = Line("multipart", m.b) /\ (m.more => eml[l + 2] = Line("header", 0))
  /\ eml[l + Above(m)] = Empty
  /\ (l + Above(m)) + 1 \in Marks(m.b) /\ LeafAt((l + Above(m)) + 1, m.leaves[1])

LEMMA LineIs ==
  ASSUME NEW k, NEW x
  PROVE  Line(k, x).kind = k /\ Line(k, x).n = x
BY DEF Line

\* Every part of the mail itself has a delimiter in front of it.
LEMMA OuterPlace ==
  ASSUME IsTree(body), Usual, NEW q, NEW o, NEW v, IsLaid(q, o, v), NEW i \in 1..q
  PROVE  /\ o[i] \in Places /\ eml[o[i]] = Line("delim", body.b)
         /\ ~IsInner(body.parts[i]) => LeafAt(o[i], body.parts[i])
         /\ IsInner(body.parts[i]) => InnerAt(o[i], body.parts[i])
<1>1. q \in Nat /\ q = Len(body.parts)
  BY TreeIs DEF IsLaid
<1>2. i \in 1..(q + 1) /\ i + 1 \in 1..(q + 1)
  BY <1>1
<1>3. PICK l \in Nat, next \in Nat, z \in Nat :
        /\ l = o[i] /\ next = o[i + 1] /\ z = Len(eml) /\ 1 <= l /\ l < z /\ next <= z
        /\ 1 <= next
  <2>1. o[i] \in Nat /\ 1 <= o[i] /\ o[i] < o[q + 1] /\ o[q + 1] <= Len(eml) /\ Len(eml) \in Nat
        /\ o[i + 1] \in Nat /\ 1 <= o[i + 1] /\ o[i + 1] <= o[q + 1] /\ o[q + 1] \in Nat
    <3>1. q + 1 \in 1..(q + 1)
      BY <1>1
    <3> QED
      BY <1>2, <3>1 DEF IsLaid
  <2> QED
    BY <2>1
<1>4. eml[l] = Line("delim", body.b) /\ l \in 1..Len(eml)
  BY <1>3 DEF IsLaid
<1>5. eml[next] = Line("delim", body.b) \/ eml[next] = Line("end", body.b)
  <2>1. CASE i + 1 = q + 1
    BY <1>3, <2>1 DEF IsLaid
  <2>2. CASE i + 1 # q + 1
    <3>1. i + 1 \in 1..q
      BY <1>1, <2>2
    <3> QED
      BY <1>3, <3>1 DEF IsLaid
  <2> QED
    BY <2>1, <2>2
<1>6. next \in Marks(body.b)
  BY <1>3, <1>5, LineIs DEF Marks, MarkKinds
<1>7. l \in Places /\ eml[l].kind = "delim" /\ eml[l].n = body.b
  BY <1>4, LineIs DEF Places
<1>8. CASE ~IsInner(body.parts[i])
  <2>1. body.parts[i] \in Leaves
    BY <1>1, <1>8, TreeIs
  <2>2. LeafLaid(l, body.parts[i], next)
    BY <1>3, <1>8 DEF IsLaid
  <2>3. next = l + 1 + Len(LeafLines(body.parts[i]))
    BY <2>2 DEF LeafLaid
  <2>4. LeafAt(l, body.parts[i])
    BY <1>4, <1>6, <1>7, <2>1, <2>2, <2>3 DEF LeafAt
  <2> QED
    BY <1>3, <1>4, <1>7, <1>8, <2>4
<1>9. CASE IsInner(body.parts[i])
  <2>1. PICK m \in Inner : m = body.parts[i]
    BY <1>1, <1>9, TreeIs
  <2>2. PICK w : w = v[i] /\ InnerLaid(l, m, next, w)
    BY <1>3, <1>9, <2>1 DEF IsLaid
  <2>3. PICK r \in Nat \ {0} : r = Len(m.leaves) /\ m.leaves[1] \in Leaves
    <3>1. Len(m.leaves) \in Nat \ {0} /\ \A j \in 1..Len(m.leaves) : m.leaves[j] \in Leaves
      BY <1>1, <1>9, <2>1, TreeIs
    <3> QED
      BY <3>1
  <2>4. PICK g \in {2, 3} : g = Above(m)
    BY DEF Above
  <2>5. /\ eml[l + 1] = Line("multipart", m.b) /\ (m.more => eml[l + 2] = Line("header", 0))
        /\ eml[l + g] = Empty /\ w[1] = (l + g) + 1
        /\ \A j \in 1..(r + 1) : w[j] \in Nat /\ (l + g) + 1 <= w[j] /\ w[j] < next
        /\ eml[w[r + 1]] = Line("end", m.b)
        /\ \A j \in 1..r : /\ eml[w[j]] = Line("delim", m.b)
                           /\ LeafLaid(w[j], m.leaves[j], w[j + 1])
    BY <2>2, <2>3, <2>4 DEF InnerLaid
  <2>6. 1 \in 1..r /\ 1 \in 1..(r + 1) /\ 2 \in 1..(r + 1) /\ (2 = r + 1 \/ 2 \in 1..r)
    OBVIOUS
  <2>7. \A j \in {1, 2} : w[j] \in Marks(m.b)
    <3> TAKE j \in {1, 2}
    <3>1. j \in 1..(r + 1) /\ (j = r + 1 \/ j \in 1..r)
      BY <2>6
    <3>2. w[j] \in 1..Len(eml)
      <4>1. PICK y \in Nat : y = w[j] /\ (l + g) + 1 <= y /\ y < next
        BY <2>5, <3>1
      <4>2. y \in 1..z
        BY <1>3, <4>1
      <4> QED
        BY <1>3, <4>1, <4>2
    <3>3. eml[w[j]] = Line("delim", m.b) \/ eml[w[j]] = Line("end", m.b)
      BY <2>5, <3>1
    <3> QED
      BY <3>2, <3>3, LineIs DEF Marks, MarkKinds
  <2>8. LeafAt(w[1], m.leaves[1])
    <3>1. eml[w[1]] = Line("delim", m.b) /\ LeafLaid(w[1], m.leaves[1], w[2])
      <4>1. PICK j \in 1..r : j = 1 /\ j + 1 = 2
        OBVIOUS
      <4>2. eml[w[j]] = Line("delim", m.b) /\ LeafLaid(w[j], m.leaves[j], w[j + 1])
        BY <2>5
      <4> QED
        BY <4>1, <4>2
    <3>2. eml[w[1]].kind = "delim" /\ eml[w[1]].n = m.b
      BY <3>1, LineIs
    <3>3. w[2] = w[1] + 1 + Len(LeafLines(m.leaves[1]))
      BY <3>1 DEF LeafLaid
    <3>4. w[1] \in 1..Len(eml) /\ w[2] \in Marks(m.b)
      BY <2>7 DEF Marks
    <3> QED
      BY <2>3, <3>1, <3>2, <3>3, <3>4 DEF LeafAt
  <2>9. InnerAt(l, m)
    BY <1>4, <2>4, <2>5, <2>7, <2>8 DEF InnerAt
  <2> QED
    BY <1>3, <1>4, <1>7, <1>9, <2>1, <2>9
<1> QED
  BY <1>8, <1>9

\* The lines of an inner multipart behind line l.
IsInnerPlace(l, m, w) ==
  /\ Len(m.leaves) \in Nat /\ m \in Inner
  /\ l + 1 \in Places /\ eml[l + 1] = Line("multipart", m.b)
  /\ l + 1 < w[Len(m.leaves) + 1]
  /\ w[Len(m.leaves) + 1] \in Marks(m.b) /\ eml[w[Len(m.leaves) + 1]] = Line("end", m.b)
  /\ \A j \in 1..Len(m.leaves) : /\ w[j] \in Places /\ eml[w[j]] = Line("delim", m.b)
                                 /\ LeafAt(w[j], m.leaves[j])
                                 /\ w[j] < w[Len(m.leaves) + 1]

\* Every inner multipart has its declaration, its delimiters and its end.
LEMMA InnerPlace ==
  ASSUME IsTree(body), Usual, NEW q, NEW o, NEW v, IsLaid(q, o, v), NEW i \in 1..q,
         IsInner(body.parts[i])
  PROVE  IsInnerPlace(o[i], body.parts[i], v[i])
<1>1. PICK m, r : m = body.parts[i] /\ IsInner(m) /\ r = Len(m.leaves)
  OBVIOUS
<1>2. q \in Nat /\ q = Len(body.parts)
  BY TreeIs DEF IsLaid
<1>3. i \in 1..(q + 1) /\ i + 1 \in 1..(q + 1) /\ q + 1 \in 1..(q + 1)
  BY <1>2
<1>4. PICK l \in Nat, next \in Nat, z \in Nat :
        /\ l = o[i] /\ next = o[i + 1] /\ z = Len(eml) /\ 1 <= l /\ next <= z
  <2>1. o[i] \in Nat /\ 1 <= o[i] /\ o[q + 1] <= Len(eml) /\ Len(eml) \in Nat
        /\ o[i + 1] \in Nat /\ o[i + 1] <= o[q + 1] /\ o[q + 1] \in Nat
    BY <1>3 DEF IsLaid
  <2> QED
    BY <2>1
<1>5. /\ r \in Nat /\ m \in Inner
      /\ \A j \in 1..r : m.leaves[j] \in Leaves
  BY <1>2, <1>1, TreeIs
<1>6. PICK w : w = v[i] /\ InnerLaid(l, m, next, w)
  BY <1>4, <1>1 DEF IsLaid
<1> PICK g \in {2, 3} : g = Above(m)
  BY DEF Above
<1>7. /\ eml[l + 1] = Line("multipart", m.b)
      /\ \A j \in 1..(r + 1) : w[j] \in Nat /\ (l + g) + 1 <= w[j] /\ w[j] < next
      /\ eml[w[r + 1]] = Line("end", m.b)
      /\ \A j \in 1..r : /\ eml[w[j]] = Line("delim", m.b)
                         /\ LeafLaid(w[j], m.leaves[j], w[j + 1])
      /\ \A j \in 1..r : w[j] < w[r + 1]
  BY <1>6, <1>1 DEF InnerLaid
<1>8. 1 \in 1..(r + 1) /\ r + 1 \in 1..(r + 1)
      /\ \A j \in 1..r : j \in 1..(r + 1) /\ j + 1 \in 1..(r + 1)
  BY <1>5
<1>9. \A j \in 1..(r + 1) : w[j] \in 1..Len(eml)
  <2> TAKE j \in 1..(r + 1)
  <2>1. PICK y \in Nat : y = w[j] /\ (l + g) + 1 <= y /\ y < next
    BY <1>7
  <2>2. y \in 1..z
    BY <1>4, <2>1
  <2> QED
    BY <1>4, <2>1, <2>2
<1>10. \A j \in 1..(r + 1) : eml[w[j]] = Line("delim", m.b) \/ eml[w[j]] = Line("end", m.b)
  <2> TAKE j \in 1..(r + 1)
  <2>1. j = r + 1 \/ j \in 1..r
    BY <1>5
  <2> QED
    BY <1>7, <2>1
<1>11. \A j \in 1..(r + 1) : w[j] \in Marks(m.b)
  BY <1>9, <1>10, LineIs DEF Marks, MarkKinds
<1>12. l + 1 \in Places /\ l + 1 < w[r + 1]
  <2>1. w[r + 1] \in Nat /\ (l + g) + 1 <= w[r + 1] /\ w[r + 1] < next
    BY <1>7, <1>8
  <2>2. PICK y \in Nat : y = w[r + 1] /\ (l + g) + 1 <= y /\ y < next
    BY <2>1
  <2>3. l + 1 \in 1..z /\ l + 1 < y
    <3>1. 1 <= l /\ next <= z
      BY <1>4
    <3>2. (l + g) + 1 <= y /\ y < next
      BY <2>2
    <3> QED
      BY <3>1, <3>2
  <2> QED
    BY <1>4, <1>7, <2>2, <2>3, LineIs DEF Places
<1>13. ASSUME NEW j \in 1..r
       PROVE  /\ w[j] \in Places /\ eml[w[j]] = Line("delim", m.b)
              /\ LeafAt(w[j], m.leaves[j]) /\ w[j] < w[r + 1]
  <2>1. /\ eml[w[j]] = Line("delim", m.b) /\ LeafLaid(w[j], m.leaves[j], w[j + 1])
        /\ w[j] < w[r + 1]
    BY <1>7
  <2>2. w[j + 1] = w[j] + 1 + Len(LeafLines(m.leaves[j]))
    BY <2>1 DEF LeafLaid
  <2>3. w[j] \in 1..Len(eml) /\ w[j + 1] \in Marks(m.b)
    BY <1>8, <1>9, <1>11
  <2>4. eml[w[j]].kind = "delim" /\ eml[w[j]].n = m.b
    BY <2>1, LineIs
  <2>5. m.leaves[j] \in Leaves
    BY <1>5
  <2>6. LeafAt(w[j], m.leaves[j])
    BY <2>1, <2>2, <2>3, <2>4, <2>5 DEF LeafAt
  <2> QED
    BY <2>1, <2>3, <2>4, <2>6 DEF Places
<1>14. IsInnerPlace(l, m, w)
  BY <1>5, <1>7, <1>8, <1>11, <1>12, <1>13, <1>1 DEF IsInnerPlace
<1> QED
  BY <1>4, <1>6, <1>1, <1>14

\* The lines that name a boundary are delimiters, declarations and ends.
IsMark(q, o, v, x) ==
  \/ x = o[q + 1]
  \/ \E i \in 1..q : x = o[i]
  \/ \E i \in 1..q : IsInner(body.parts[i]) /\ x = o[i] + 1
  \/ \E i \in 1..q : /\ IsInner(body.parts[i])
                     /\ \E j \in 1..Len(body.parts[i].leaves) : x = v[i][j]
  \/ \E i \in 1..q : /\ IsInner(body.parts[i])
                     /\ x = v[i][Len(body.parts[i].leaves) + 1]

LEMMA MarkIs ==
  ASSUME IsTree(body), Usual, NEW q, NEW o, NEW v, IsLaid(q, o, v),
         NEW x \in 1..Len(eml), eml[x].kind \in MarkKinds
  PROVE  IsMark(q, o, v, x)
<1> USE DEF IsMark
<1>1. q \in Nat /\ q = Len(body.parts)
  BY TreeIs DEF IsLaid
<1>2. \/ \E i \in 1..(q + 1) : x = o[i]
      \/ \E i \in 1..q :
            /\ IsInner(body.parts[i])
            /\ x = o[i] + 1 \/ \E j \in 1..(Len(body.parts[i].leaves) + 1) : x = v[i][j]
  BY DEF IsLaid
<1>3. CASE \E i \in 1..(q + 1) : x = o[i]
  <2>1. PICK i \in 1..(q + 1) : x = o[i]
    BY <1>3
  <2>2. i = q + 1 \/ i \in 1..q
    BY <1>1
  <2> QED
    BY <2>1, <2>2
<1>4. ASSUME NEW i \in 1..q, IsInner(body.parts[i]),
             NEW j \in 1..(Len(body.parts[i].leaves) + 1), x = v[i][j]
      PROVE  \/ \E h \in 1..Len(body.parts[i].leaves) : x = v[i][h]
             \/ x = v[i][Len(body.parts[i].leaves) + 1]
  <2>1. PICK r \in Nat : r = Len(body.parts[i].leaves)
    BY <1>1, <1>4, TreeIs
  <2>2. j = r + 1 \/ j \in 1..r
    BY <2>1
  <2> QED
    BY <1>4, <2>1, <2>2
<1>5. CASE \E i \in 1..q :
            /\ IsInner(body.parts[i])
            /\ x = o[i] + 1 \/ \E j \in 1..(Len(body.parts[i].leaves) + 1) : x = v[i][j]
  <2>1. PICK i \in 1..q :
            /\ IsInner(body.parts[i])
            /\ x = o[i] + 1 \/ \E j \in 1..(Len(body.parts[i].leaves) + 1) : x = v[i][j]
    BY <1>5
  <2>2. CASE x = o[i] + 1
    BY <2>1, <2>2
  <2>3. CASE \E j \in 1..(Len(body.parts[i].leaves) + 1) : x = v[i][j]
    <3>1. PICK j \in 1..(Len(body.parts[i].leaves) + 1) : x = v[i][j]
      BY <2>3
    <3>2. \/ \E h \in 1..Len(body.parts[i].leaves) : x = v[i][h]
          \/ x = v[i][Len(body.parts[i].leaves) + 1]
      BY <1>4, <2>1, <3>1
    <3> QED
      BY <2>1, <3>2
  <2> QED
    BY <2>1, <2>2, <2>3
<1> QED
  BY <1>2, <1>3, <1>5

\* Every delimiter is in front of a leaf or of an inner multipart, and every other place
\* is the declaration of the latter.
IsPlace(q, o, v, l) ==
  \/ \E i \in 1..q : /\ ~IsInner(body.parts[i]) /\ l = o[i]
                     /\ LeafAt(l, body.parts[i])
  \/ \E i \in 1..q : /\ IsInner(body.parts[i]) /\ l = o[i]
                     /\ InnerAt(l, body.parts[i])
  \/ \E i \in 1..q : /\ IsInner(body.parts[i]) /\ l - 1 = o[i]
                     /\ InnerAt(l - 1, body.parts[i])
  \/ \E i \in 1..q :
       /\ IsInner(body.parts[i])
       /\ \E j \in 1..Len(body.parts[i].leaves) :
            l = v[i][j] /\ LeafAt(l, body.parts[i].leaves[j])

LEMMA PlaceIs ==
  ASSUME IsTree(body), Usual, NEW q, NEW o, NEW v, IsLaid(q, o, v), NEW l \in Places
  PROVE  IsPlace(q, o, v, l)
<1> USE DEF IsPlace
<1>1. q \in Nat /\ q = Len(body.parts)
  BY TreeIs DEF IsLaid
<1>2. l \in 1..Len(eml) /\ eml[l].kind \in {"delim", "multipart"} /\ eml[l].kind \in MarkKinds
  BY DEF Places, MarkKinds
<1>3. ASSUME NEW i \in 1..q, l = o[i]
      PROVE  \/ ~IsInner(body.parts[i]) /\ LeafAt(l, body.parts[i])
             \/ IsInner(body.parts[i]) /\ InnerAt(l, body.parts[i])
  BY <1>3, OuterPlace
<1>4. ASSUME NEW i \in 1..q, IsInner(body.parts[i]), l = o[i] + 1
      PROVE  l - 1 = o[i] /\ InnerAt(l - 1, body.parts[i])
  <2>1. o[i] \in Nat
    <3>1. i \in 1..(q + 1)
      BY <1>1
    <3> QED
      BY <3>1 DEF IsLaid
  <2>2. l - 1 = o[i]
    BY <1>4, <2>1
  <2>3. InnerAt(o[i], body.parts[i])
    BY <1>4, OuterPlace
  <2> QED
    BY <2>2, <2>3
<1>5. ASSUME NEW i \in 1..q, IsInner(body.parts[i]),
             NEW j \in 1..Len(body.parts[i].leaves), l = v[i][j]
      PROVE  LeafAt(l, body.parts[i].leaves[j])
  <2>1. IsInnerPlace(o[i], body.parts[i], v[i])
    BY <1>5, InnerPlace
  <2> QED
    BY <1>5, <2>1 DEF IsInnerPlace
<1>6. l # o[q + 1]
  <2>1. eml[o[q + 1]].kind = "end"
    BY LineIs DEF IsLaid
  <2> QED
    BY <1>2, <2>1
<1>7. ASSUME NEW i \in 1..q, IsInner(body.parts[i])
      PROVE  l # v[i][Len(body.parts[i].leaves) + 1]
  <2>1. eml[v[i][Len(body.parts[i].leaves) + 1]] = Line("end", body.parts[i].b)
    <3>1. IsInnerPlace(o[i], body.parts[i], v[i])
      BY <1>7, InnerPlace
    <3> QED
      BY <1>7, <3>1 DEF IsInnerPlace
  <2>2. eml[v[i][Len(body.parts[i].leaves) + 1]].kind = "end"
    BY <2>1, LineIs
  <2> QED
    BY <1>2, <2>2
<1>8. \/ \E i \in 1..q : l = o[i]
      \/ \E i \in 1..q : IsInner(body.parts[i]) /\ l = o[i] + 1
      \/ \E i \in 1..q : /\ IsInner(body.parts[i])
                         /\ \E j \in 1..Len(body.parts[i].leaves) : l = v[i][j]
  <2>1. IsMark(q, o, v, l)
    BY <1>2, MarkIs
  <2> QED
    BY <1>6, <1>7, <2>1 DEF IsMark
<1>9. CASE \E i \in 1..q : l = o[i]
  BY <1>3, <1>9
<1>10. CASE \E i \in 1..q : IsInner(body.parts[i]) /\ l = o[i] + 1
  BY <1>4, <1>10
<1>11. CASE \E i \in 1..q : /\ IsInner(body.parts[i])
                            /\ \E j \in 1..Len(body.parts[i].leaves) : l = v[i][j]
  BY <1>5, <1>11
<1> QED
  BY <1>8, <1>9, <1>10, <1>11

\* A boundary that is found is one of the mail, and the last line it is in is its end.
EndsAt(b, e) ==
  /\ e \in Marks(b) /\ eml[e] = Line("end", b)
  /\ \A k \in Marks(b) : k # e => k < e /\ k \in Places

\* The last line that names the boundary of a mail is its end.
LEMMA OuterEnd ==
  ASSUME IsTree(body), Usual, NEW q, NEW o, NEW v, IsLaid(q, o, v)
  PROVE  EndsAt(body.b, o[q + 1])
<1>1. q \in Nat /\ q = Len(body.parts) /\ q + 1 \in 1..(q + 1) /\ \A i \in 1..q : i \in 1..(q + 1)
  BY TreeIs DEF IsLaid
<1>2. PICK e \in Nat, z \in Nat : e = o[q + 1] /\ z = Len(eml) /\ 1 <= e /\ e <= z
  BY <1>1 DEF IsLaid
<1>3. eml[e] = Line("end", body.b)
  BY <1>2 DEF IsLaid
<1>4. e \in Marks(body.b)
  BY <1>2, <1>3, LineIs DEF Marks, MarkKinds
<1>5. ASSUME NEW k \in Marks(body.b), k # e
      PROVE  k < e /\ k \in Places
  <2>1. k \in 1..Len(eml) /\ eml[k].kind \in MarkKinds /\ eml[k].n = body.b
    BY DEF Marks
  <2>2. ASSUME NEW i \in 1..q, k = o[i]
        PROVE  k < e /\ k \in Places
    <3>1. o[i] < o[q + 1]
      BY DEF IsLaid
    <3>2. o[i] \in Places
      BY OuterPlace
    <3> QED
      BY <1>2, <2>2, <3>1, <3>2
  <2>3. ASSUME NEW i \in 1..q, IsInner(body.parts[i])
        PROVE  /\ k # o[i] + 1 /\ k # v[i][Len(body.parts[i].leaves) + 1]
               /\ \A j \in 1..Len(body.parts[i].leaves) : k # v[i][j]
    <3>1. PICK m, r : m = body.parts[i] /\ IsInner(m) /\ r = Len(m.leaves)
      BY <2>3
    <3>2. m.b # body.b
      <4>1. i \in DOMAIN body.parts
        BY <1>1, TreeIs
      <4> QED
        BY <3>1, <4>1 DEF IsTree
    <3>3. /\ eml[o[i] + 1] = Line("multipart", m.b) /\ eml[v[i][r + 1]] = Line("end", m.b)
          /\ \A j \in 1..r : eml[v[i][j]] = Line("delim", m.b)
          /\ m \in Inner
      <4>1. IsInnerPlace(o[i], body.parts[i], v[i])
        BY <3>1, InnerPlace
      <4> QED
        BY <3>1, <4>1 DEF IsInnerPlace
    <3>4. /\ eml[o[i] + 1].n = m.b /\ eml[v[i][r + 1]].n = m.b
          /\ \A j \in 1..r : eml[v[i][j]].n = m.b
      BY <3>3, LineIs
    <3> QED
      BY <2>1, <3>1, <3>2, <3>4
  <2>4. IsMark(q, o, v, k)
    BY <2>1, MarkIs
  <2> QED
    BY <1>2, <1>5, <2>1, <2>2, <2>3, <2>4 DEF IsMark
<1> QED
  BY <1>2, <1>3, <1>4, <1>5 DEF EndsAt

\* So it is for an inner multipart.
LEMMA InnerEnd ==
  ASSUME IsTree(body), Usual, NEW q, NEW o, NEW v, IsLaid(q, o, v), NEW h \in 1..q,
         IsInner(body.parts[h])
  PROVE  EndsAt(body.parts[h].b, v[h][Len(body.parts[h].leaves) + 1])
<1>1. q \in Nat /\ q = Len(body.parts) /\ q + 1 \in 1..(q + 1) /\ \A i \in 1..q : i \in 1..(q + 1)
  BY TreeIs DEF IsLaid
<1>2. PICK m, r, e : m = body.parts[h] /\ IsInner(m) /\ r = Len(m.leaves) /\ e = v[h][r + 1]
  OBVIOUS
<1>3. /\ e \in Marks(m.b) /\ eml[e] = Line("end", m.b)
      /\ o[h] + 1 \in Places /\ o[h] + 1 < e
      /\ \A j \in 1..r : v[h][j] \in Places /\ v[h][j] < e
  <2>1. /\ m \in Inner /\ v[h][r + 1] \in Marks(m.b) /\ eml[v[h][r + 1]] = Line("end", m.b)
        /\ o[h] + 1 \in Places /\ o[h] + 1 < v[h][r + 1]
        /\ \A j \in 1..r : /\ v[h][j] \in Places /\ eml[v[h][j]] = Line("delim", m.b)
                           /\ LeafAt(v[h][j], m.leaves[j]) /\ v[h][j] < v[h][r + 1]
    <3>1. IsInnerPlace(o[h], body.parts[h], v[h])
      BY <1>2, InnerPlace
    <3> QED
      BY <1>2, <3>1 DEF IsInnerPlace
  <2> QED
    BY <1>2, <2>1
<1>4. m.b # body.b
  <2>1. h \in DOMAIN body.parts
    BY <1>1, TreeIs
  <2> QED
    BY <1>2, <2>1 DEF IsTree
<1>5. ASSUME NEW k \in Marks(m.b), k # e
      PROVE  k < e /\ k \in Places
  <2>1. k \in 1..Len(eml) /\ eml[k].kind \in MarkKinds /\ eml[k].n = m.b
    BY DEF Marks
  <2>2. ASSUME NEW i \in 1..q
        PROVE  k # o[i]
    <3>1. eml[o[i]].n = body.b
      BY OuterPlace, LineIs
    <3> QED
      BY <1>4, <2>1, <3>1
  <2>3. k # o[q + 1]
    <3>1. eml[o[q + 1]].n = body.b
      BY LineIs DEF IsLaid
    <3> QED
      BY <1>4, <2>1, <3>1
  <2>4. ASSUME NEW i \in 1..q, IsInner(body.parts[i]),
               \/ k = o[i] + 1 \/ k = v[i][Len(body.parts[i].leaves) + 1]
               \/ \E j \in 1..Len(body.parts[i].leaves) : k = v[i][j]
        PROVE  i = h
    <3>1. PICK t, s : t = body.parts[i] /\ IsInner(t) /\ s = Len(t.leaves)
      BY <2>4
    <3>2. /\ eml[o[i] + 1] = Line("multipart", t.b) /\ eml[v[i][s + 1]] = Line("end", t.b)
          /\ \A j \in 1..s : eml[v[i][j]] = Line("delim", t.b)
          /\ t \in Inner
      <4>1. IsInnerPlace(o[i], body.parts[i], v[i])
        BY <3>1, InnerPlace
      <4> QED
        BY <3>1, <4>1 DEF IsInnerPlace
    <3>3. /\ eml[o[i] + 1].n = t.b /\ eml[v[i][s + 1]].n = t.b
          /\ \A j \in 1..s : eml[v[i][j]].n = t.b
      BY <3>2, LineIs
    <3>4. t.b = m.b
      BY <2>1, <2>4, <3>1, <3>3
    <3> QED
      BY <1>1, <1>2, <3>1, <3>4, TreeDiffers
  <2>5. \/ k = o[h] + 1 \/ k = v[h][r + 1] \/ \E j \in 1..r : k = v[h][j]
    <3>1. \/ \E i \in 1..q : IsInner(body.parts[i]) /\ k = o[i] + 1
          \/ \E i \in 1..q : /\ IsInner(body.parts[i])
                             /\ \E j \in 1..Len(body.parts[i].leaves) : k = v[i][j]
          \/ \E i \in 1..q : /\ IsInner(body.parts[i])
                             /\ k = v[i][Len(body.parts[i].leaves) + 1]
      <4>1. IsMark(q, o, v, k)
        BY <2>1, MarkIs
      <4> QED
        BY <2>2, <2>3, <4>1 DEF IsMark
    <3>2. PICK i \in 1..q :
            /\ IsInner(body.parts[i])
            /\ \/ k = o[i] + 1 \/ k = v[i][Len(body.parts[i].leaves) + 1]
               \/ \E j \in 1..Len(body.parts[i].leaves) : k = v[i][j]
      BY <3>1
    <3>3. i = h
      BY <2>4, <3>2
    <3> QED
      BY <1>2, <3>2, <3>3
  <2> QED
    BY <1>2, <1>3, <1>5, <2>5
<1>6. EndsAt(m.b, e)
  BY <1>3, <1>5 DEF EndsAt
<1> QED
  BY <1>2, <1>6

\* Every boundary that a line names is one of the tree.
LEMMA BoundIs ==
  ASSUME IsTree(body), Usual, NEW q, NEW o, NEW v, IsLaid(q, o, v),
         NEW x \in 1..Len(eml), eml[x].kind \in MarkKinds
  PROVE  eml[x].n \in Bounds
<1>1. q \in Nat /\ q = Len(body.parts)
  BY TreeIs DEF IsLaid
<1>2. ASSUME NEW i \in 1..q, IsInner(body.parts[i]),
             \/ x = o[i] + 1 \/ x = v[i][Len(body.parts[i].leaves) + 1]
             \/ \E j \in 1..Len(body.parts[i].leaves) : x = v[i][j]
      PROVE  eml[x].n \in Bounds
  <2>1. PICK t, s : t = body.parts[i] /\ IsInner(t) /\ s = Len(t.leaves)
    BY <1>2
  <2>2. /\ eml[o[i] + 1] = Line("multipart", t.b) /\ eml[v[i][s + 1]] = Line("end", t.b)
        /\ \A j \in 1..s : eml[v[i][j]] = Line("delim", t.b)
        /\ t \in Inner
    <3>1. IsInnerPlace(o[i], body.parts[i], v[i])
      BY <2>1, InnerPlace
    <3> QED
      BY <2>1, <3>1 DEF IsInnerPlace
  <2>3. /\ eml[o[i] + 1].n = t.b /\ eml[v[i][s + 1]].n = t.b
        /\ \A j \in 1..s : eml[v[i][j]].n = t.b
    BY <2>2, LineIs
  <2>4. eml[x].n = t.b
    BY <1>2, <2>1, <2>3
  <2> QED
    BY <2>2, <2>4 DEF Bounds
<1>3. ASSUME NEW i \in 1..q, x = o[i]
      PROVE  eml[x].n \in Bounds
  <2>1. eml[o[i]].n = body.b
    BY OuterPlace, LineIs
  <2> QED
    BY <1>3, <2>1 DEF Bounds
<1>4. ASSUME x = o[q + 1]
      PROVE  eml[x].n \in Bounds
  <2>1. eml[o[q + 1]].n = body.b
    BY LineIs DEF IsLaid
  <2> QED
    BY <1>4, <2>1 DEF Bounds
<1>5. CASE \E i \in 1..q : IsInner(body.parts[i]) /\ x = o[i] + 1
  BY <1>2, <1>5
<1>6. CASE \E i \in 1..q : /\ IsInner(body.parts[i])
                           /\ \E j \in 1..Len(body.parts[i].leaves) : x = v[i][j]
  BY <1>2, <1>6
<1>7. CASE \E i \in 1..q : /\ IsInner(body.parts[i])
                           /\ x = v[i][Len(body.parts[i].leaves) + 1]
  BY <1>2, <1>7
<1>8. CASE \E i \in 1..q : x = o[i]
  BY <1>3, <1>8
<1>9. IsMark(q, o, v, x)
  BY MarkIs
<1> QED
  BY <1>4, <1>5, <1>6, <1>7, <1>8, <1>9 DEF IsMark

\* The lines of a leaf.
LEMMA LeafAtIs ==
  ASSUME IsTree(body), Usual, NEW l, NEW t, LeafAt(l, t)
  PROVE  /\ l \in Nat /\ 1 <= l /\ Len(LeafLines(t)) \in {3, 5} /\ t.type \in {"text", "app"}
         /\ l \in Places /\ eml[l].kind = "delim" /\ t \in Leaves
         /\ eml[l + 1] = Line(t.type, 0) /\ eml[l + 2] = Empty
         /\ eml[l + 3] = Line("said", t.text)
         /\ l + 1 + Len(LeafLines(t)) \in Marks(eml[l].n)
         /\ \A k \in 1..Len(LeafLines(t)) : /\ eml[l + k] = LeafLines(t)[k]
                                            /\ eml[l + k].kind \notin MarkKinds
<1>1. t \in Leaves /\ l \in 1..Len(eml) /\ eml[l].kind = "delim"
  BY DEF LeafAt
<1>2. /\ LeafLines(t) \in Seq(LineSet) /\ Len(LeafLines(t)) \in {3, 5}
      /\ LeafLines(t)[1] = Line(t.type, 0) /\ LeafLines(t)[2] = Empty
      /\ LeafLines(t)[3] = Line("said", t.text)
      /\ \A k \in 1..Len(LeafLines(t)) : LeafLines(t)[k].kind \notin MarkKinds
  BY <1>1, LeafLinesIs
<1>3. PICK z \in {3, 5} : z = Len(LeafLines(t))
  BY <1>2
<1>4. \A k \in 1..z : eml[l + k] = LeafLines(t)[k]
  BY <1>3 DEF LeafAt, LeafLaid
<1>5. 1 \in 1..z /\ 2 \in 1..z /\ 3 \in 1..z
  BY <1>3
<1>6. t.type \in {"text", "app"}
  BY <1>1, TreeIs
<1>7. l + 1 + z \in Marks(eml[l].n)
  BY <1>3 DEF LeafAt
<1>8. l \in Nat /\ 1 <= l
  BY <1>1
<1>9. /\ eml[l + 1] = Line(t.type, 0) /\ eml[l + 2] = Empty
      /\ eml[l + 3] = Line("said", t.text)
  BY <1>2, <1>4, <1>5
<1>10. \A k \in 1..z : eml[l + k] = LeafLines(t)[k] /\ eml[l + k].kind \notin MarkKinds
  BY <1>2, <1>3, <1>4
<1>11. l \in Places
  BY <1>1 DEF Places
<1> QED
  BY <1>1, <1>3, <1>6, <1>7, <1>8, <1>9, <1>10, <1>11

\* The leaf t is the j-th of the i-th part, or is that part, and is behind line l.
LeafPos(o, v, i, j, l, t) ==
  \/ j = 0 /\ ~IsInner(body.parts[i]) /\ l = o[i] /\ t = body.parts[i]
  \/ /\ IsInner(body.parts[i]) /\ j \in 1..Len(body.parts[i].leaves)
     /\ l = v[i][j] /\ t = body.parts[i].leaves[j]

\* Two leaves with the same text are the same one.
LEMMA PosOnce ==
  ASSUME IsTree(body), Usual, NEW q, NEW o, NEW v, q = Len(body.parts),
         NEW i \in 1..q, NEW j, NEW k, NEW s, LeafPos(o, v, i, j, k, s),
         NEW h \in 1..q, NEW g, NEW l, NEW t, LeafPos(o, v, h, g, l, t),
         s.text = t.text
  PROVE  k = l /\ s = t
<1>1. CASE ~IsInner(body.parts[i]) /\ ~IsInner(body.parts[h])
  <2>1. i = h
    BY <1>1, TreeDiffers DEF LeafPos
  <2> QED
    BY <1>1, <2>1 DEF LeafPos
<1>2. CASE IsInner(body.parts[i]) /\ IsInner(body.parts[h])
  <2>1. /\ j \in 1..Len(body.parts[i].leaves) /\ s = body.parts[i].leaves[j]
        /\ g \in 1..Len(body.parts[h].leaves) /\ t = body.parts[h].leaves[g]
        /\ k = v[i][j] /\ l = v[h][g]
    BY <1>2 DEF LeafPos
  <2>2. LeavesDiffer(i, h)
    BY <1>2, TreeDiffers
  <2>3. i = h /\ j = g
    BY <2>1, <2>2 DEF LeavesDiffer
  <2> QED
    BY <2>1, <2>3
<1>3. CASE ~IsInner(body.parts[i]) /\ IsInner(body.parts[h])
  <2>1. s = body.parts[i] /\ g \in 1..Len(body.parts[h].leaves) /\ t = body.parts[h].leaves[g]
    BY <1>3 DEF LeafPos
  <2>2. \A y \in 1..Len(body.parts[h].leaves) :
           body.parts[i].text # body.parts[h].leaves[y].text
    BY <1>3, TreeDiffers
  <2> QED
    BY <2>1, <2>2
<1>4. CASE IsInner(body.parts[i]) /\ ~IsInner(body.parts[h])
  <2>1. t = body.parts[h] /\ j \in 1..Len(body.parts[i].leaves) /\ s = body.parts[i].leaves[j]
    BY <1>4 DEF LeafPos
  <2>2. \A y \in 1..Len(body.parts[i].leaves) :
           body.parts[h].text # body.parts[i].leaves[y].text
    BY <1>4, TreeDiffers
  <2> QED
    BY <2>1, <2>2
<1> QED
  BY <1>1, <1>2, <1>3, <1>4

\* Every leaf has a place.
LEMMA PosOf ==
  ASSUME IsTree(body), Usual, NEW q, NEW o, NEW v, IsLaid(q, o, v), NEW t \in Leaves
  PROVE  \E i \in 1..q : \E j, l : LeafPos(o, v, i, j, l, t) /\ LeafAt(l, t)
<1>1. q \in Nat /\ q = Len(body.parts)
  BY TreeIs DEF IsLaid
<1>2. PICK i \in 1..q :
        \/ ~IsInner(body.parts[i]) /\ t = body.parts[i]
        \/ /\ IsInner(body.parts[i])
           /\ \E j \in 1..Len(body.parts[i].leaves) : t = body.parts[i].leaves[j]
  <2>1. IsLeafOf(q, t)
    BY <1>1, TreeIs
  <2> QED
    BY <2>1 DEF IsLeafOf
<1>3. CASE ~IsInner(body.parts[i]) /\ t = body.parts[i]
  <2>1. LeafAt(o[i], body.parts[i])
    BY <1>3, OuterPlace
  <2>2. LeafPos(o, v, i, 0, o[i], t)
    BY <1>3 DEF LeafPos
  <2> QED
    BY <1>3, <2>1, <2>2
<1>4. CASE /\ IsInner(body.parts[i])
           /\ \E j \in 1..Len(body.parts[i].leaves) : t = body.parts[i].leaves[j]
  <2>1. PICK j \in 1..Len(body.parts[i].leaves) : t = body.parts[i].leaves[j]
    BY <1>4
  <2>2. PICK m, r : m = body.parts[i] /\ IsInner(m) /\ r = Len(m.leaves)
    BY <1>4
  <2>3. m \in Inner /\ \A x \in 1..r : LeafAt(v[i][x], m.leaves[x])
    <3>1. IsInnerPlace(o[i], body.parts[i], v[i])
      BY <2>2, InnerPlace
    <3> QED
      BY <2>2, <3>1 DEF IsInnerPlace
  <2>4. LeafAt(v[i][j], t)
    BY <2>1, <2>2, <2>3
  <2>5. LeafPos(o, v, i, j, v[i][j], t)
    BY <1>4, <2>1 DEF LeafPos
  <2> QED
    BY <2>4, <2>5
<1> QED
  BY <1>2, <1>3, <1>4

\* What is behind a delimiter is the leaf that the tree has there.
LEMMA PosIs ==
  ASSUME IsTree(body), Usual, NEW q, NEW o, NEW v, IsLaid(q, o, v), NEW l, NEW t, LeafAt(l, t)
  PROVE  \E i \in 1..q : \E j : LeafPos(o, v, i, j, l, t)
<1>1. q \in Nat /\ q = Len(body.parts)
  BY TreeIs DEF IsLaid
<1>2. /\ l \in Nat /\ l \in Places /\ eml[l].kind = "delim" /\ t \in Leaves
      /\ eml[l + 1] = Line(t.type, 0) /\ t.type \in {"text", "app"}
      /\ eml[l + 3] = Line("said", t.text)
  BY LeafAtIs
<1>3. ASSUME NEW m, InnerAt(l, m)
      PROVE  FALSE
  <2>1. eml[l + 1].kind = "multipart"
    BY <1>3, LineIs DEF InnerAt
  <2>2. eml[l + 1].kind = t.type
    BY <1>2, LineIs
  <2> QED
    BY <1>2, <2>1, <2>2
<1>4. ASSUME NEW m, InnerAt(l - 1, m)
      PROVE  FALSE
  <2>1. eml[(l - 1) + 1].kind = "multipart"
    BY <1>4, LineIs DEF InnerAt
  <2>2. (l - 1) + 1 = l
    BY <1>2
  <2> QED
    BY <1>2, <2>1, <2>2
<1>5. PICK i \in 1..q : \E j, s : LeafPos(o, v, i, j, l, s) /\ LeafAt(l, s)
  <2>1. CASE \E i \in 1..q : /\ ~IsInner(body.parts[i]) /\ l = o[i]
                             /\ LeafAt(l, body.parts[i])
    <3>1. PICK i \in 1..q : ~IsInner(body.parts[i]) /\ l = o[i] /\ LeafAt(l, body.parts[i])
      BY <2>1
    <3>2. LeafPos(o, v, i, 0, l, body.parts[i])
      BY <3>1 DEF LeafPos
    <3> QED
      BY <3>1, <3>2
  <2>2. CASE \E i \in 1..q :
              /\ IsInner(body.parts[i])
              /\ \E j \in 1..Len(body.parts[i].leaves) :
                   l = v[i][j] /\ LeafAt(l, body.parts[i].leaves[j])
    <3>1. PICK i \in 1..q :
              /\ IsInner(body.parts[i])
              /\ \E j \in 1..Len(body.parts[i].leaves) :
                   l = v[i][j] /\ LeafAt(l, body.parts[i].leaves[j])
      BY <2>2
    <3>2. PICK j \in 1..Len(body.parts[i].leaves) :
                   l = v[i][j] /\ LeafAt(l, body.parts[i].leaves[j])
      BY <3>1
    <3>3. LeafPos(o, v, i, j, l, body.parts[i].leaves[j])
      BY <3>1, <3>2 DEF LeafPos
    <3> QED
      BY <3>2, <3>3
  <2>3. IsPlace(q, o, v, l)
    BY <1>2, PlaceIs
  <2> QED
    BY <1>3, <1>4, <2>1, <2>2, <2>3 DEF IsPlace
<1>6. PICK j, s : LeafPos(o, v, i, j, l, s) /\ LeafAt(l, s)
  BY <1>5
<1>7. s.text = t.text
  <2>1. eml[l + 3] = Line("said", s.text)
    BY <1>6, LeafAtIs
  <2> QED
    BY <1>2, <2>1, LineIs
<1>8. PICK h \in 1..q : \E g, k : LeafPos(o, v, h, g, k, t)
  BY <1>2, PosOf
<1>9. PICK g, k : LeafPos(o, v, h, g, k, t)
  BY <1>8
<1>10. s = t
  BY <1>1, <1>6, <1>7, <1>9, PosOnce
<1> QED
  BY <1>6, <1>10

\* A leaf is behind one delimiter, and a text is that of one leaf.
LEMMA LeafOnce ==
  ASSUME IsTree(body), Usual, NEW q, NEW o, NEW v, IsLaid(q, o, v), NEW k, NEW l, NEW s, NEW t,
         LeafAt(k, s), LeafAt(l, t), s.text = t.text
  PROVE  k = l /\ s = t
<1>1. q = Len(body.parts)
  BY DEF IsLaid
<1>2. PICK i \in 1..q : \E j : LeafPos(o, v, i, j, k, s)
  BY PosIs
<1>3. PICK j : LeafPos(o, v, i, j, k, s)
  BY <1>2
<1>4. PICK h \in 1..q : \E g : LeafPos(o, v, h, g, l, t)
  BY PosIs
<1>5. PICK g : LeafPos(o, v, h, g, l, t)
  BY <1>4
<1> QED
  BY <1>1, <1>3, <1>5, PosOnce

\* An inner multipart is behind one delimiter, and a boundary is that of one multipart.
LEMMA InnerOnce ==
  ASSUME IsTree(body), Usual, NEW q, NEW o, NEW v, IsLaid(q, o, v), NEW k, NEW l, NEW s, NEW t,
         InnerAt(k, s), InnerAt(l, t), s.b = t.b
  PROVE  k = l /\ s = t
<1>1. q \in Nat /\ q = Len(body.parts)
  BY TreeIs DEF IsLaid
<1>2. ASSUME NEW x, NEW m, InnerAt(x, m)
      PROVE  \E i \in 1..q : IsInner(body.parts[i]) /\ m = body.parts[i] /\ x = o[i]
  <2>1. /\ m \in Inner /\ x \in 1..Len(eml) /\ eml[x] = Line("delim", body.b)
        /\ eml[x + 1] = Line("multipart", m.b)
    BY <1>2 DEF InnerAt
  <2>2. PICK h \in 1..q : m = body.parts[h] /\ IsInner(m)
    BY <1>1, <2>1, TreeIs
  <2>3. eml[x].kind = "delim" /\ x \in Places /\ eml[x + 1].kind = "multipart"
        /\ eml[x + 1].n = m.b
    BY <2>1, LineIs DEF Places
  <2>4. ASSUME NEW t1, LeafAt(x, t1)
        PROVE  FALSE
    <3>1. eml[x + 1] = Line(t1.type, 0) /\ t1.type \in {"text", "app"}
      BY <2>4, LeafAtIs
    <3> QED
      BY <2>3, <3>1, LineIs
  <2>5. ASSUME NEW m1, InnerAt(x - 1, m1)
        PROVE  FALSE
    <3>1. eml[(x - 1) + 1].kind = "multipart"
      BY <2>5, LineIs DEF InnerAt
    <3>2. (x - 1) + 1 = x
      BY <2>1
    <3> QED
      BY <2>3, <3>1, <3>2
  <2>6. PICK i \in 1..q : IsInner(body.parts[i]) /\ x = o[i] /\ InnerAt(x, body.parts[i])
    <3>1. IsPlace(q, o, v, x)
      BY <2>3, PlaceIs
    <3> QED
      BY <2>3, <2>4, <2>5, <3>1 DEF IsPlace
  <2>7. eml[x + 1].n = body.parts[i].b
    <3>1. PICK w : w = body.parts[i] /\ InnerAt(x, w)
      BY <2>6
    <3>2. eml[x + 1] = Line("multipart", w.b)
      BY <3>1 DEF InnerAt
    <3> QED
      BY <3>1, <3>2, LineIs
  <2>8. i = h
    BY <1>1, <2>2, <2>3, <2>6, <2>7, TreeDiffers
  <2> QED
    BY <2>2, <2>6, <2>8
<1>3. PICK i \in 1..q : IsInner(body.parts[i]) /\ s = body.parts[i] /\ k = o[i]
  BY <1>2
<1>4. PICK h \in 1..q : IsInner(body.parts[h]) /\ t = body.parts[h] /\ l = o[h]
  BY <1>2
<1>5. i = h
  BY <1>1, <1>3, <1>4, TreeDiffers
<1> QED
  BY <1>3, <1>4, <1>5

\* What the lines of a mail are, without where its parts stand in its tree.
IsMail ==
  /\ Len(eml) \in Nat /\ DOMAIN eml = 1..Len(eml)
  /\ \A l \in Places : \/ \E t \in Leaves : LeafAt(l, t)
                       \/ \E m \in Inner : InnerAt(l, m)
                       \/ \E m \in Inner : l - 1 \in Places /\ InnerAt(l - 1, m)
  /\ \A t \in Leaves : \E l \in Places : LeafAt(l, t)
  /\ \A m \in Inner : m.b # body.b /\ \E l \in Places : InnerAt(l, m) /\ l + 1 \in Places
  /\ \A k, l \in Places : \A s, t \in Leaves :
       LeafAt(k, s) /\ LeafAt(l, t) /\ s.text = t.text => k = l /\ s = t
  /\ \A k, l \in Places : \A s, t \in Inner :
       InnerAt(k, s) /\ InnerAt(l, t) /\ s.b = t.b => k = l /\ s = t
  /\ \A b \in Bounds : \E e \in 1..Len(eml) : EndsAt(b, e)
  /\ \A x \in 1..Len(eml) : eml[x].kind \in MarkKinds => eml[x].n \in Bounds

\* The lines of an ordinary mail are these, whatever its tree.
LEMMA MailIs ==
  ASSUME IsTree(body), Usual, eml = MailLines(body)
  PROVE  IsMail
<1>1. PICK q : q = Len(body.parts)
  OBVIOUS
<1>2. PICK o, v : IsLaid(q, o, v)
  BY <1>1, MailLaid
<1>3. q \in Nat /\ \A i \in 1..q : i \in 1..(q + 1)
  BY <1>1, TreeIs
<1>4. Len(eml) \in Nat /\ DOMAIN eml = 1..Len(eml)
  BY <1>2 DEF IsLaid
<1>5. ASSUME NEW i \in 1..q
      PROVE  /\ ~IsInner(body.parts[i]) => body.parts[i] \in Leaves
             /\ IsInner(body.parts[i]) =>
                  /\ body.parts[i] \in Inner /\ o[i] \in Places
                  /\ \A j \in 1..Len(body.parts[i].leaves) : body.parts[i].leaves[j] \in Leaves
  BY <1>1, <1>2, TreeIs, OuterPlace
<1>6. ASSUME NEW l \in Places
      PROVE  \/ \E t \in Leaves : LeafAt(l, t)
             \/ \E m \in Inner : InnerAt(l, m)
             \/ \E m \in Inner : l - 1 \in Places /\ InnerAt(l - 1, m)
  <2>1. CASE \E i \in 1..q : /\ ~IsInner(body.parts[i]) /\ l = o[i]
                             /\ LeafAt(l, body.parts[i])
    BY <1>5, <2>1
  <2>2. CASE \E i \in 1..q : /\ IsInner(body.parts[i]) /\ l = o[i]
                             /\ InnerAt(l, body.parts[i])
    BY <1>5, <2>2
  <2>3. CASE \E i \in 1..q : /\ IsInner(body.parts[i]) /\ l - 1 = o[i]
                             /\ InnerAt(l - 1, body.parts[i])
    BY <1>5, <2>3
  <2>4. CASE \E i \in 1..q :
               /\ IsInner(body.parts[i])
               /\ \E j \in 1..Len(body.parts[i].leaves) :
                    l = v[i][j] /\ LeafAt(l, body.parts[i].leaves[j])
    <3>1. PICK i \in 1..q :
               /\ IsInner(body.parts[i])
               /\ \E j \in 1..Len(body.parts[i].leaves) :
                    l = v[i][j] /\ LeafAt(l, body.parts[i].leaves[j])
      BY <2>4
    <3> QED
      BY <1>5, <3>1
  <2>5. IsPlace(q, o, v, l)
    BY <1>2, PlaceIs
  <2> QED
    BY <2>1, <2>2, <2>3, <2>4, <2>5 DEF IsPlace
<1>7. ASSUME NEW t \in Leaves
      PROVE  \E l \in Places : LeafAt(l, t)
  <2>1. PICK i \in 1..q : \E j, l : LeafPos(o, v, i, j, l, t) /\ LeafAt(l, t)
    BY <1>2, PosOf
  <2>2. PICK l : LeafAt(l, t)
    BY <2>1
  <2> QED
    BY <2>2, LeafAtIs
<1>8. ASSUME NEW m \in Inner
      PROVE  m.b # body.b /\ \E l \in Places : InnerAt(l, m) /\ l + 1 \in Places
  <2>1. PICK i \in 1..q : m = body.parts[i] /\ IsInner(m)
    BY <1>1, TreeIs
  <2>2. InnerAt(o[i], m) /\ o[i] \in Places
    BY <1>2, <2>1, OuterPlace
  <2>3. PICK r : r = Len(m.leaves)
    OBVIOUS
  <2>4. o[i] + 1 \in Places /\ m \in Inner
    <3>1. IsInnerPlace(o[i], body.parts[i], v[i])
      BY <1>2, <2>1, <2>3, InnerPlace
    <3> QED
      BY <1>2, <2>1, <2>3, <3>1 DEF IsInnerPlace
  <2>5. m.b # body.b
    <3>1. i \in DOMAIN body.parts
      BY <1>1, TreeIs
    <3> QED
      BY <2>1, <3>1 DEF IsTree
  <2> QED
    BY <2>2, <2>4, <2>5
<1>9. \A k, l \in Places : \A s, t \in Leaves :
        LeafAt(k, s) /\ LeafAt(l, t) /\ s.text = t.text => k = l /\ s = t
  BY <1>2, LeafOnce
<1>10. \A k, l \in Places : \A s, t \in Inner :
         InnerAt(k, s) /\ InnerAt(l, t) /\ s.b = t.b => k = l /\ s = t
  BY <1>2, InnerOnce
<1>11. ASSUME NEW b \in Bounds
       PROVE  \E e \in 1..Len(eml) : EndsAt(b, e)
  <2>1. \E e : EndsAt(b, e)
    <3>1. CASE b = body.b
      BY <1>2, <3>1, OuterEnd
    <3>2. CASE \E m \in Inner : b = m.b
      <4>1. PICK m \in Inner : b = m.b
        BY <3>2
      <4>2. PICK i \in 1..q : m = body.parts[i] /\ IsInner(m)
        BY <1>1, <4>1, TreeIs
      <4>3. EndsAt(body.parts[i].b, v[i][Len(body.parts[i].leaves) + 1])
        BY <1>2, <4>2, InnerEnd
      <4> QED
        BY <4>1, <4>2, <4>3
    <3> QED
      BY <3>1, <3>2 DEF Bounds
  <2>2. PICK e : EndsAt(b, e)
    BY <2>1
  <2> QED
    BY <2>2 DEF EndsAt, Marks
<1>12. \A x \in 1..Len(eml) : eml[x].kind \in MarkKinds => eml[x].n \in Bounds
  BY <1>2, BoundIs
<1> QED
  BY <1>4, <1>6, <1>7, <1>8, <1>9, <1>10, <1>11, <1>12 DEF IsMail

-----------------------------------------------------------------------------
(* What ParseMailBody finds behind each of them.                           *)

\* Boundary finds the next line that names b, and no line of another boundary.
LEMMA BoundaryIs ==
  ASSUME IsMail, Usual, NEW b \in Bounds, NEW l \in Nat, 1 <= l
  PROVE  /\ Boundary(b, l) = 0 <=> \A k \in Marks(b) : k < l
         /\ Boundary(b, l) # 0 => /\ Boundary(b, l) \in Marks(b) /\ l <= Boundary(b, l)
                                  /\ \A k \in Marks(b) : l <= k => Boundary(b, l) <= k
<1> DEFINE S == {k \in l..Len(eml) : Names(eml[k], b)}
<1>1. PICK z \in Nat : z = Len(eml)
  BY DEF IsMail
<1>2. \A k : k \in l..z <=> k \in 1..z /\ l <= k
  BY <1>1
<1>3. \A k \in 1..z : Names(eml[k], b) <=> k \in Marks(b)
  <2> TAKE k \in 1..z
  <2>1. CASE eml[k].kind \notin MarkKinds
    BY <2>1 DEF Names, Marks, MarkKinds
  <2>2. CASE eml[k].kind \in MarkKinds
    <3>1. eml[k].n \in Bounds
      BY <1>1, <2>2 DEF IsMail
    <3>2. <<b, eml[k].n>> \notin Begins
      BY <3>1 DEF Usual
    <3> QED
      BY <1>1, <2>2, <3>2 DEF Names, Marks, MarkKinds
  <2> QED
    BY <2>1, <2>2
<1>4. \A k : k \in S <=> k \in Marks(b) /\ l <= k
  <2>1. \A k \in Marks(b) : k \in 1..z
    BY <1>1 DEF Marks
  <2> QED
    BY <1>1, <1>2, <1>3, <2>1
<1>5. S \in SUBSET (Nat \ {0})
  BY <1>1
<1>6. Boundary(b, l) = First(S)
  BY DEF Boundary
<1>7. \A k \in Marks(b) : k \in Nat
  BY <1>1 DEF Marks
<1> HIDE DEF S
<1>8. /\ First(S) = 0 <=> S = {}
      /\ S # {} => First(S) \in S /\ \A k \in S : First(S) <= k
  BY <1>5, FirstIs
<1>9. S = {} <=> \A k \in Marks(b) : k < l
  <2>1. S = {} <=> \A k \in Marks(b) : ~(l <= k)
    BY <1>4
  <2> QED
    BY <1>7, <2>1
<1> QED
  BY <1>4, <1>6, <1>8, <1>9

\* The part that is cut out behind line l.
Cut(l) == Part(Type(l + 1, Text(l + 1)), Text(l + 1), Boundary(eml[l].n, l + 1) - 1)

\* First is the least line.
LEMMA FirstOf ==
  ASSUME NEW S \in SUBSET (Nat \ {0}), NEW k \in S, \A i \in S : k <= i
  PROVE  First(S) = k
<1>1. First(S) \in S /\ First(S) <= k
  BY FirstIs
<1>2. PICK j : j = First(S)
  OBVIOUS
<1>3. j \in Nat /\ k \in Nat /\ j <= k /\ k <= j
  BY <1>1, <1>2
<1>4. j = k
  BY <1>3
<1> QED
  BY <1>2, <1>4

\* Text is the line behind the next empty one.
LEMMA TextIs ==
  ASSUME IsMail, NEW l \in Nat, NEW k \in Nat, l + 2 <= k, k <= Len(eml) + 1,
         eml[k - 1] = Empty, \A i \in (l + 2)..(k - 1) : eml[i - 1] # Empty
  PROVE  Text(l) = k
<1> DEFINE S == {i \in (l + 2)..(Len(eml) + 1) : eml[i - 1] = Empty}
<1>1. PICK z \in Nat : z = Len(eml)
  BY DEF IsMail
<1>2. k \in (l + 2)..(z + 1)
  BY <1>1
<1>3. k \in S
  BY <1>1, <1>2
<1>4. ASSUME NEW i \in S
      PROVE  k <= i
  <2>1. i \in (l + 2)..(z + 1) /\ eml[i - 1] = Empty
    BY <1>1
  <2>2. i \notin (l + 2)..(k - 1)
    BY <2>1
  <2> QED
    BY <1>1, <2>1, <2>2
<1>5. S \in SUBSET (Nat \ {0})
  BY <1>1
<1> HIDE DEF S
<1>6. First(S) = k
  BY <1>3, <1>4, <1>5, FirstOf
<1> QED
  BY <1>6 DEF Text, S

\* Type is what the first line with a type says, or a text if no line says it.
LEMMA TypeAt ==
  ASSUME IsMail, NEW l \in Nat, NEW j \in Nat, NEW k \in Nat, 1 <= l, l <= j, j <= k,
         j <= Len(eml), eml[j].kind \in {"text", "app", "multipart"},
         \A i \in l..(j - 1) : eml[i].kind \notin {"text", "app", "multipart"}
  PROVE  Type(l, k) = eml[j]
<1> DEFINE S == {i \in (l..k) \cap DOMAIN eml :
                    eml[i].kind \in {"text", "app", "multipart"}}
<1>1. PICK z \in Nat : z = Len(eml) /\ DOMAIN eml = 1..z
  BY DEF IsMail
<1>2. j \in (l..k) \cap DOMAIN eml
  BY <1>1
<1>3. \A i \in S : j <= i
  <2> TAKE i \in S
  <2>1. i \in l..k /\ i \notin l..(j - 1)
    OBVIOUS
  <2> QED
    BY <2>1
<1>4. j \in S /\ S \in SUBSET (Nat \ {0})
  BY <1>1, <1>2
<1> HIDE DEF S
<1>5. First(S) = j
  BY <1>3, <1>4, FirstOf
<1>6. First(S) # 0
  BY <1>4, <1>5
<1> QED
  BY <1>5, <1>6 DEF Type, S

LEMMA TypeIs ==
  ASSUME IsMail, NEW l \in Nat, NEW k \in Nat, 1 <= l, l <= k, l <= Len(eml),
         eml[l].kind \in {"text", "app", "multipart"}
  PROVE  Type(l, k) = eml[l]
<1>1. \A i \in l..(l - 1) : eml[i].kind \notin {"text", "app", "multipart"}
  OBVIOUS
<1> QED
  BY <1>1, TypeAt

LEMMA NoType ==
  ASSUME IsMail, NEW l \in Nat, NEW k \in Nat, 1 <= l,
         \A i \in l..k : eml[i].kind \notin {"text", "app", "multipart"}
  PROVE  Type(l, k) = Line("text", 0)
<1> DEFINE S == {i \in (l..k) \cap DOMAIN eml :
                    eml[i].kind \in {"text", "app", "multipart"}}
<1>1. S = {}
  OBVIOUS
<1> HIDE DEF S
<1>2. First(S) = 0
  BY <1>1 DEF First
<1> QED
  BY <1>2 DEF Type, S

\* The next boundary b behind line l is in line k.
LEMMA NextIs ==
  ASSUME IsMail, Usual, NEW b \in Bounds, NEW l \in Nat, 1 <= l,
         NEW k \in Marks(b), l <= k, \A i \in l..(k - 1) : eml[i].kind \notin MarkKinds
  PROVE  Boundary(b, l) = k
<1>1. PICK z \in Nat : z = Len(eml)
  BY DEF IsMail
<1>2. \A i \in Marks(b) : i \in Nat /\ eml[i].kind \in MarkKinds
  BY <1>1 DEF Marks
<1>3. PICK x : x = Boundary(b, l)
  OBVIOUS
<1>4. k \in Nat /\ ~(k < l)
  BY <1>2
<1>5. x # 0
  BY <1>3, <1>4, BoundaryIs
<1>6. x \in Marks(b) /\ l <= x /\ x <= k
  BY <1>3, <1>5, BoundaryIs
<1>7. x \in Nat /\ x \notin l..(k - 1)
  BY <1>2, <1>6
<1>8. x = k
  BY <1>4, <1>6, <1>7
<1> QED
  BY <1>3, <1>8

\* Behind the delimiter of a leaf the code cuts out its type and the whole of its text.
LEMMA LeafCut ==
  ASSUME IsTree(body), IsMail, Usual, NEW l, NEW t, LeafAt(l, t)
  PROVE  /\ Text(l + 1) = l + 3
         /\ Boundary(eml[l].n, l + 1) = l + 1 + Len(LeafLines(t))
         /\ Cut(l) = Part(Line(t.type, 0), l + 3, l + Len(LeafLines(t)))
<1>1. PICK z : z = Len(LeafLines(t))
  OBVIOUS
<1>2. /\ l \in Nat /\ 1 <= l /\ z \in {3, 5} /\ t.type \in {"text", "app"}
      /\ l \in Places
      /\ eml[l + 1] = Line(t.type, 0) /\ eml[l + 2] = Empty
      /\ l + 1 + z \in Marks(eml[l].n)
      /\ \A k \in 1..z : eml[l + k].kind \notin MarkKinds
  BY <1>1, LeafAtIs
<1>3. PICK y \in Nat : y = Len(eml) /\ l + 1 + z <= y
  <2>1. PICK y \in Nat : y = Len(eml)
    BY DEF IsMail
  <2>2. l + 1 + z \in 1..y
    BY <1>2, <2>1 DEF Marks
  <2> QED
    BY <2>1, <2>2
<1>4. PICK b \in Bounds : b = eml[l].n
  BY <1>2 DEF IsMail, Places, MarkKinds
<1>5. Text(l + 1) = l + 3
  <2>1. eml[(l + 3) - 1] = Empty
    <3>1. (l + 3) - 1 = l + 2
      BY <1>2
    <3> QED
      BY <1>2, <3>1
  <2>2. \A i \in (l + 1 + 2)..((l + 3) - 1) : eml[i - 1] # Empty
    <3>1. (l + 1 + 2)..((l + 3) - 1) = {}
      BY <1>2
    <3> QED
      BY <3>1
  <2>3. l + 1 \in Nat /\ l + 3 \in Nat /\ l + 1 + 2 <= l + 3 /\ l + 3 <= Len(eml) + 1
    BY <1>2, <1>3
  <2> QED
    BY <2>1, <2>2, <2>3, TextIs
<1>6. Type(l + 1, l + 3) = Line(t.type, 0)
  <2>1. eml[l + 1].kind \in {"text", "app", "multipart"}
    BY <1>2, LineIs
  <2>2. l + 1 \in Nat /\ l + 3 \in Nat /\ 1 <= l + 1 /\ l + 1 <= l + 3 /\ l + 1 <= Len(eml)
    BY <1>2, <1>3
  <2>3. Type(l + 1, l + 3) = eml[l + 1]
    BY <2>1, <2>2, TypeIs
  <2> QED
    BY <1>2, <2>3
<1>7. Boundary(b, l + 1) = l + 1 + z
  <2>1. ASSUME NEW i \in (l + 1)..((l + 1 + z) - 1)
        PROVE  eml[i].kind \notin MarkKinds
    <3>1. i - l \in 1..z /\ l + (i - l) = i
      BY <1>2
    <3>2. eml[l + (i - l)].kind \notin MarkKinds
      BY <1>2, <3>1
    <3> QED
      BY <3>1, <3>2
  <2>2. l + 1 \in Nat /\ 1 <= l + 1 /\ l + 1 <= l + 1 + z
    BY <1>2
  <2>3. l + 1 + z \in Marks(b)
    BY <1>2, <1>4
  <2> QED
    BY <2>1, <2>2, <2>3, NextIs
<1>8. (l + 1 + z) - 1 = l + z
  BY <1>2
<1>9. Cut(l) = Part(Line(t.type, 0), l + 3, l + z)
  BY <1>4, <1>5, <1>6, <1>7, <1>8 DEF Cut
<1> QED
  BY <1>1, <1>4, <1>5, <1>7, <1>9

\* The lines of an inner multipart up to its first delimiter, and its first leaf.
LEMMA InnerAtIs ==
  ASSUME IsMail, NEW l, NEW m, InnerAt(l, m)
  PROVE  /\ l \in Nat /\ 1 <= l /\ Above(m) \in {2, 3} /\ (Above(m) = 3 <=> m.more)
         /\ (l + Above(m)) + 1 <= Len(eml)
         /\ m \in Inner /\ m.b \in Bounds /\ body.b \in Bounds /\ m.b # body.b
         /\ eml[l].kind = "delim" /\ eml[l].n = body.b
         /\ l \in Places /\ l + 1 \in Places
         /\ eml[l + 1].kind = "multipart" /\ eml[l + 1].n = m.b
         /\ eml[l + 1] = Line("multipart", m.b)
         /\ m.more => eml[l + 2] = Line("header", 0) /\ eml[l + 2] # Empty
         /\ eml[l + Above(m)] = Empty
         /\ (l + Above(m)) + 1 \in Marks(m.b) /\ eml[(l + Above(m)) + 1].kind = "delim"
         /\ LeafAt((l + Above(m)) + 1, m.leaves[1])
<1>1. /\ m \in Inner /\ l \in 1..Len(eml) /\ eml[l] = Line("delim", body.b)
      /\ eml[l + 1] = Line("multipart", m.b) /\ (m.more => eml[l + 2] = Line("header", 0))
      /\ eml[l + Above(m)] = Empty
      /\ (l + Above(m)) + 1 \in Marks(m.b) /\ LeafAt((l + Above(m)) + 1, m.leaves[1])
  BY DEF InnerAt
<1>2. m.b \in Bounds /\ body.b \in Bounds
  BY <1>1 DEF Bounds
<1>3. Above(m) \in {2, 3} /\ (Above(m) = 3 <=> m.more)
  BY DEF Above
<1>4. PICK z \in Nat : z = Len(eml)
  BY DEF IsMail
<1>5. l \in Nat /\ 1 <= l /\ (l + Above(m)) + 1 <= z
  BY <1>1, <1>4 DEF Marks
<1>6. l + 1 \in 1..Len(eml)
  BY <1>3, <1>4, <1>5
<1>7. /\ eml[l].kind = "delim" /\ eml[l].n = body.b /\ eml[l + 1].kind = "multipart"
      /\ eml[l + 1].n = m.b
  BY <1>1, LineIs
<1>8. l \in Places /\ l + 1 \in Places
  BY <1>1, <1>6, <1>7 DEF Places
<1>9. m.more => eml[l + 2] # Empty
  BY <1>1, LineIs DEF Empty
<1>10. eml[(l + Above(m)) + 1].kind = "delim"
  BY <1>1 DEF LeafAt
<1>11. m.b # body.b
  BY <1>1 DEF IsMail
<1> QED
  BY <1>1, <1>2, <1>3, <1>4, <1>5, <1>7, <1>8, <1>9, <1>10, <1>11

\* Behind the delimiter of an inner multipart it cuts out that multipart.
LEMMA InnerCut ==
  ASSUME IsMail, Usual, NEW l, NEW m, InnerAt(l, m)
  PROVE  /\ Text(l + 1) = (l + Above(m)) + 1 /\ Boundary(eml[l].n, l + 1) # 0
         /\ \E x : Cut(l) = Part(Line("multipart", m.b), (l + Above(m)) + 1, x)
<1>1. /\ l \in Nat /\ 1 <= l /\ body.b \in Bounds
      /\ eml[l].kind = "delim" /\ eml[l].n = body.b /\ l \in Places
      /\ eml[l + 1].kind = "multipart" /\ eml[l + 1] = Line("multipart", m.b)
  BY InnerAtIs
<1>2. PICK z \in Nat : z = Len(eml)
  BY DEF IsMail
<1> PICK g \in {2, 3} : g = Above(m)
  BY InnerAtIs
<1>3. /\ eml[l + g] = Empty /\ (g = 3 => eml[l + 2] # Empty) /\ (l + g) + 1 <= z
  BY <1>2, InnerAtIs
<1>4. Text(l + 1) = (l + g) + 1
  <2>1. eml[((l + g) + 1) - 1] = Empty
    <3>1. ((l + g) + 1) - 1 = l + g
      BY <1>1
    <3> QED
      BY <1>3, <3>1
  <2>2. ASSUME NEW i \in ((l + 1) + 2)..(((l + g) + 1) - 1)
        PROVE  eml[i - 1] # Empty
    <3>1. g = 3 /\ i - 1 = l + 2
      BY <1>1
    <3> QED
      BY <1>3, <3>1
  <2>3. /\ l + 1 \in Nat /\ (l + g) + 1 \in Nat /\ (l + 1) + 2 <= (l + g) + 1
        /\ (l + g) + 1 <= Len(eml) + 1
    BY <1>1, <1>2, <1>3
  <2> QED
    BY <2>1, <2>2, <2>3, TextIs
<1>5. Type(l + 1, (l + g) + 1) = Line("multipart", m.b)
  <2>1. /\ l + 1 \in Nat /\ (l + g) + 1 \in Nat /\ 1 <= l + 1 /\ l + 1 <= (l + g) + 1
        /\ l + 1 <= Len(eml)
    BY <1>1, <1>2, <1>3
  <2>2. Type(l + 1, (l + g) + 1) = eml[l + 1]
    BY <1>1, <2>1, TypeIs
  <2> QED
    BY <1>1, <2>2
<1>6. Boundary(body.b, l + 1) # 0
  <2>1. PICK e \in 1..Len(eml) : EndsAt(body.b, e)
    BY <1>1 DEF IsMail
  <2>2. e \in Marks(body.b) /\ eml[e] = Line("end", body.b)
        /\ \A k \in Marks(body.b) : k # e => k < e
    BY <2>1 DEF EndsAt
  <2>3. l \in Marks(body.b)
    BY <1>1 DEF Marks, Places, MarkKinds
  <2>4. l # e
    BY <1>1, <2>2, LineIs
  <2>5. l < e
    BY <2>2, <2>3, <2>4
  <2>6. ~(e < l + 1)
    BY <1>1, <1>2, <2>5
  <2>7. l + 1 \in Nat /\ 1 <= l + 1
    BY <1>1
  <2> QED
    BY <1>1, <2>2, <2>6, <2>7, BoundaryIs
<1> QED
  BY <1>1, <1>4, <1>5, <1>6 DEF Cut

\* Behind a declaration with a header line below it, taken for a delimiter, it cuts out a
\* text without a line.
LEMMA DeclCut ==
  ASSUME IsMail, Usual, NEW l, NEW m, InnerAt(l, m), m.more
  PROVE  /\ Text(l + 2) = l + 4 /\ Boundary(eml[l + 1].n, l + 2) = l + 4
         /\ Cut(l + 1) = Part(Line("text", 0), l + 4, l + 3)
<1>1. /\ l \in Nat /\ 1 <= l /\ m.b \in Bounds /\ Above(m) = 3
      /\ eml[l + 1].kind = "multipart" /\ eml[l + 1].n = m.b
      /\ eml[l + 2] = Line("header", 0) /\ eml[l + Above(m)] = Empty
      /\ (l + Above(m)) + 1 \in Marks(m.b) /\ eml[(l + Above(m)) + 1].kind = "delim"
      /\ (l + Above(m)) + 1 <= Len(eml)
  BY InnerAtIs
<1>2. PICK z \in Nat : z = Len(eml)
  BY DEF IsMail
<1>3. /\ eml[l + 3] = Empty /\ l + 4 \in Marks(m.b) /\ eml[l + 4].kind = "delim" /\ l + 4 <= z
  <2>1. (l + 3) + 1 = l + 4
    BY <1>1
  <2> QED
    BY <1>1, <1>2, <2>1
<1>4. Text(l + 2) = l + 4
  <2>1. eml[(l + 4) - 1] = Empty
    <3>1. (l + 4) - 1 = l + 3
      BY <1>1
    <3> QED
      BY <1>3, <3>1
  <2>2. \A i \in ((l + 2) + 2)..((l + 4) - 1) : eml[i - 1] # Empty
    <3>1. ((l + 2) + 2)..((l + 4) - 1) = {}
      BY <1>1
    <3> QED
      BY <3>1
  <2>3. l + 2 \in Nat /\ l + 4 \in Nat /\ (l + 2) + 2 <= l + 4 /\ l + 4 <= Len(eml) + 1
    BY <1>1, <1>2, <1>3
  <2> QED
    BY <2>1, <2>2, <2>3, TextIs
<1>5. /\ eml[l + 2].kind = "header" /\ eml[l + 3].kind = "empty"
  BY <1>1, <1>3, LineIs DEF Empty
<1>6. Type(l + 2, l + 4) = Line("text", 0)
  <2>1. ASSUME NEW i \in (l + 2)..(l + 4)
        PROVE  eml[i].kind \notin {"text", "app", "multipart"}
    <3>1. i = l + 2 \/ i = l + 3 \/ i = l + 4
      BY <1>1
    <3> QED
      BY <1>3, <1>5, <3>1
  <2>2. l + 2 \in Nat /\ l + 4 \in Nat /\ 1 <= l + 2
    BY <1>1
  <2> QED
    BY <2>1, <2>2, NoType
<1>7. Boundary(m.b, l + 2) = l + 4
  <2>1. ASSUME NEW i \in (l + 2)..((l + 4) - 1)
        PROVE  eml[i].kind \notin MarkKinds
    <3>1. i = l + 2 \/ i = l + 3
      BY <1>1
    <3> QED
      BY <1>5, <3>1 DEF MarkKinds
  <2>2. l + 2 \in Nat /\ 1 <= l + 2 /\ l + 2 <= l + 4
    BY <1>1
  <2> QED
    BY <1>1, <1>3, <2>1, <2>2, NextIs
<1>8. (l + 4) - 1 = l + 3 /\ (l + 1) + 1 = l + 2
  BY <1>1
<1> QED
  BY <1>1, <1>4, <1>6, <1>7, <1>8 DEF Cut

\* Without one it takes the type of the first leaf and looks for the text behind that leaf's
\* header, but for the boundary in front of it.
LEMMA DeclLastCut ==
  ASSUME IsTree(body), IsMail, Usual, NEW l, NEW m, InnerAt(l, m), ~m.more
  PROVE  /\ Text(l + 2) = l + 6 /\ Boundary(eml[l + 1].n, l + 2) = l + 3
         /\ m.leaves[1].type \in {"text", "app"}
         /\ Cut(l + 1) = Part(Line(m.leaves[1].type, 0), l + 6, l + 2)
<1>1. /\ l \in Nat /\ 1 <= l /\ m.b \in Bounds /\ Above(m) = 2
      /\ eml[l + 1].kind = "multipart" /\ eml[l + 1].n = m.b /\ eml[l + Above(m)] = Empty
      /\ (l + Above(m)) + 1 \in Marks(m.b) /\ eml[(l + Above(m)) + 1].kind = "delim"
      /\ LeafAt((l + Above(m)) + 1, m.leaves[1])
  BY InnerAtIs
<1>2. PICK z \in Nat : z = Len(eml)
  BY DEF IsMail
<1>3. (l + 2) + 1 = l + 3
  BY <1>1
<1>4. PICK t : t = m.leaves[1] /\ LeafAt(l + 3, t)
  BY <1>1, <1>3
<1>5. PICK y \in {3, 5} : y = Len(LeafLines(t))
  BY <1>4, LeafAtIs
<1>6. /\ t.type \in {"text", "app"} /\ eml[(l + 3) + 1] = Line(t.type, 0)
      /\ eml[(l + 3) + 2] = Empty /\ (l + 3) + 1 + y \in Marks(eml[l + 3].n)
  BY <1>4, <1>5, LeafAtIs
<1>7. (l + 3) + 1 = l + 4 /\ (l + 3) + 2 = l + 5
  BY <1>1
<1>8. /\ eml[l + 2].kind = "empty" /\ eml[l + 3].kind = "delim" /\ l + 3 \in Marks(m.b)
      /\ eml[l + 4] = Line(t.type, 0) /\ eml[l + 4].kind = t.type /\ eml[l + 5] = Empty
  BY <1>1, <1>3, <1>6, <1>7, LineIs DEF Empty
<1>9. l + 6 <= z
  <2>1. (l + 3) + 1 + y \in 1..z
    BY <1>2, <1>6 DEF Marks
  <2> QED
    BY <1>1, <2>1
<1>10. Text(l + 2) = l + 6
  <2>1. eml[(l + 6) - 1] = Empty
    <3>1. (l + 6) - 1 = l + 5
      BY <1>1
    <3> QED
      BY <1>8, <3>1
  <2>2. ASSUME NEW i \in ((l + 2) + 2)..((l + 6) - 1)
        PROVE  eml[i - 1] # Empty
    <3>1. i - 1 = l + 3 \/ i - 1 = l + 4
      BY <1>1
    <3>2. Empty.kind = "empty"
      BY LineIs DEF Empty
    <3> QED
      BY <1>6, <1>8, <3>1, <3>2
  <2>3. l + 2 \in Nat /\ l + 6 \in Nat /\ (l + 2) + 2 <= l + 6 /\ l + 6 <= Len(eml) + 1
    BY <1>1, <1>2, <1>9
  <2> QED
    BY <2>1, <2>2, <2>3, TextIs
<1>11. Type(l + 2, l + 6) = Line(t.type, 0)
  <2>1. ASSUME NEW i \in (l + 2)..((l + 4) - 1)
        PROVE  eml[i].kind \notin {"text", "app", "multipart"}
    <3>1. i = l + 2 \/ i = l + 3
      BY <1>1
    <3> QED
      BY <1>8, <3>1
  <2>2. /\ l + 2 \in Nat /\ l + 4 \in Nat /\ l + 6 \in Nat /\ 1 <= l + 2 /\ l + 2 <= l + 4
        /\ l + 4 <= l + 6 /\ l + 4 <= Len(eml)
    BY <1>1, <1>2, <1>9
  <2>3. eml[l + 4].kind \in {"text", "app", "multipart"}
    BY <1>6, <1>8
  <2>4. Type(l + 2, l + 6) = eml[l + 4]
    BY <2>1, <2>2, <2>3, TypeAt
  <2> QED
    BY <1>8, <2>4
<1>12. Boundary(m.b, l + 2) = l + 3
  <2>1. ASSUME NEW i \in (l + 2)..((l + 3) - 1)
        PROVE  eml[i].kind \notin MarkKinds
    <3>1. i = l + 2
      BY <1>1
    <3> QED
      BY <1>8, <3>1 DEF MarkKinds
  <2>2. l + 2 \in Nat /\ 1 <= l + 2 /\ l + 2 <= l + 3
    BY <1>1
  <2> QED
    BY <1>1, <1>8, <2>1, <2>2, NextIs
<1>13. (l + 3) - 1 = l + 2 /\ (l + 1) + 1 = l + 2
  BY <1>1
<1> QED
  BY <1>1, <1>4, <1>6, <1>10, <1>11, <1>12, <1>13 DEF Cut

\* The fields of a part.
LEMMA PartIs ==
  ASSUME NEW k, NEW x, NEW first, NEW last
  PROVE  /\ Part(Line(k, x), first, last).kind = k /\ Part(Line(k, x), first, last).b = x
         /\ Part(Line(k, x), first, last).first = first
         /\ Part(Line(k, x), first, last).last = last
BY DEF Part, Line

\* The part behind a place.
CutOf(l, q) ==
  \/ \E t \in Leaves : /\ LeafAt(l, t) /\ q.kind = t.type /\ t.type \in {"text", "app"}
                       /\ q.first = l + 3 /\ q.last = l + Len(LeafLines(t))
                       /\ Len(LeafLines(t)) \in {3, 5}
  \/ \E m \in Inner : InnerAt(l, m) /\ q.kind = "multipart" /\ q.b = m.b
  \/ \E m \in Inner : /\ l - 1 \in Places /\ InnerAt(l - 1, m) /\ m.more
                      /\ q.kind = "text" /\ q.first = l + 3 /\ q.last = l + 2
  \/ \E m \in Inner : /\ l - 1 \in Places /\ InnerAt(l - 1, m) /\ ~m.more
                      /\ q.kind = m.leaves[1].type /\ q.kind \in {"text", "app"}
                      /\ q.first = l + 5 /\ q.last = l + 1

\* Behind every place there is a part to be cut out.
LEMMA CutIs ==
  ASSUME IsTree(body), IsMail, Usual, NEW l \in Places
  PROVE  /\ l \in Nat /\ 1 <= l /\ Text(l + 1) # 0 /\ Boundary(eml[l].n, l + 1) # 0
         /\ CutOf(l, Cut(l))
<1>1. l \in Nat /\ 1 <= l
  <2>1. PICK z \in Nat : z = Len(eml)
    BY DEF IsMail
  <2>2. l \in 1..z
    BY <2>1 DEF Places
  <2> QED
    BY <2>1, <2>2
<1>2. \/ \E t \in Leaves : LeafAt(l, t)
      \/ \E m \in Inner : InnerAt(l, m)
      \/ \E m \in Inner : l - 1 \in Places /\ InnerAt(l - 1, m)
  BY DEF IsMail
<1>3. CASE \E t \in Leaves : LeafAt(l, t)
  <2>1. PICK t \in Leaves : LeafAt(l, t)
    BY <1>3
  <2>2. PICK z \in {3, 5} : z = Len(LeafLines(t))
    BY <2>1, LeafAtIs
  <2>3. t.type \in {"text", "app"}
    BY <2>1, LeafAtIs
  <2>4. /\ Text(l + 1) = l + 3 /\ Boundary(eml[l].n, l + 1) = l + 1 + z
        /\ Cut(l) = Part(Line(t.type, 0), l + 3, l + z)
    BY <2>1, <2>2, LeafCut
  <2>5. /\ Cut(l).kind = t.type /\ Cut(l).first = l + 3 /\ Cut(l).last = l + z
    BY <2>4, PartIs
  <2>6. CutOf(l, Cut(l))
    BY <2>1, <2>2, <2>3, <2>5 DEF CutOf
  <2>7. l + 3 # 0 /\ l + 1 + z # 0
    BY <1>1
  <2> QED
    BY <1>1, <2>4, <2>6, <2>7
<1>4. CASE \E m \in Inner : InnerAt(l, m)
  <2>1. PICK m \in Inner : InnerAt(l, m)
    BY <1>4
  <2>2. /\ Text(l + 1) = (l + Above(m)) + 1 /\ Boundary(eml[l].n, l + 1) # 0
        /\ \E x : Cut(l) = Part(Line("multipart", m.b), (l + Above(m)) + 1, x)
    BY <2>1, InnerCut
  <2>3. Cut(l).kind = "multipart" /\ Cut(l).b = m.b
    BY <2>2, PartIs
  <2>4. CutOf(l, Cut(l))
    BY <2>1, <2>3 DEF CutOf
  <2>5. (l + Above(m)) + 1 # 0
    BY <1>1 DEF Above
  <2> QED
    BY <1>1, <2>2, <2>4, <2>5
<1>5. CASE \E m \in Inner : l - 1 \in Places /\ InnerAt(l - 1, m)
  <2>1. PICK m \in Inner : l - 1 \in Places /\ InnerAt(l - 1, m)
    BY <1>5
  <2>2. PICK k : k = l - 1
    OBVIOUS
  <2>3. k + 1 = l /\ k + 2 = l + 1 /\ k + 4 = l + 3 /\ k + 3 = l + 2
    BY <1>1, <2>2
  <2>4. CASE m.more
    <3>1. /\ Text(k + 2) = k + 4 /\ Boundary(eml[k + 1].n, k + 2) = k + 4
          /\ Cut(k + 1) = Part(Line("text", 0), k + 4, k + 3)
      BY <2>1, <2>2, <2>4, DeclCut
    <3>2. /\ Text(l + 1) = l + 3 /\ Boundary(eml[l].n, l + 1) = l + 3
          /\ Cut(l) = Part(Line("text", 0), l + 3, l + 2)
      BY <2>3, <3>1
    <3>3. Cut(l).kind = "text" /\ Cut(l).first = l + 3 /\ Cut(l).last = l + 2
      BY <3>2, PartIs
    <3>4. CutOf(l, Cut(l))
      BY <2>1, <2>4, <3>3 DEF CutOf
    <3>5. l + 3 # 0
      BY <1>1
    <3> QED
      BY <1>1, <3>2, <3>4, <3>5
  <2>5. CASE ~m.more
    <3>1. PICK c : c = m.leaves[1].type
      OBVIOUS
    <3>2. /\ Text(k + 2) = k + 6 /\ Boundary(eml[k + 1].n, k + 2) = k + 3
          /\ c \in {"text", "app"}
          /\ Cut(k + 1) = Part(Line(c, 0), k + 6, k + 2)
      BY <2>1, <2>2, <2>5, <3>1, DeclLastCut
    <3>3. k + 6 = l + 5
      BY <1>1, <2>2
    <3>4. /\ Text(l + 1) = l + 5 /\ Boundary(eml[l].n, l + 1) = l + 2
          /\ Cut(l) = Part(Line(c, 0), l + 5, l + 1)
      BY <2>3, <3>2, <3>3
    <3>5. Cut(l).kind = c /\ Cut(l).first = l + 5 /\ Cut(l).last = l + 1
      BY <3>4, PartIs
    <3>6. CutOf(l, Cut(l))
      BY <2>1, <2>5, <3>1, <3>2, <3>5 DEF CutOf
    <3>7. l + 5 # 0 /\ l + 2 # 0
      BY <1>1
    <3> QED
      BY <1>1, <3>4, <3>6, <3>7
  <2> QED
    BY <2>4, <2>5
<1> QED
  BY <1>2, <1>3, <1>4, <1>5

\* A part that is not a multipart begins three lines behind its place; only that of a
\* declaration in the last line of a header begins five lines behind it, and ends before.
LEMMA CutFirst ==
  ASSUME IsTree(body), IsMail, Usual, NEW l \in Places, NEW q, CutOf(l, q)
  PROVE  /\ l \in Nat
         /\ q.kind = "multipart" => \E m \in Inner : InnerAt(l, m) /\ q.b = m.b
         /\ q.kind # "multipart" =>
              \/ q.first = l + 3 /\ q.last \in Nat /\ q.last >= l + 2
              \/ /\ q.first = l + 5 /\ q.last = l + 1
                 /\ \E m \in Inner : ~m.more /\ q.kind = m.leaves[1].type
<1>1. l \in Nat
  BY CutIs
<1>2. CASE \E t \in Leaves : /\ LeafAt(l, t) /\ q.kind = t.type /\ t.type \in {"text", "app"}
                             /\ q.first = l + 3 /\ q.last = l + Len(LeafLines(t))
                             /\ Len(LeafLines(t)) \in {3, 5}
  <2>1. PICK z \in {3, 5} : q.first = l + 3 /\ q.last = l + z
    BY <1>2
  <2>2. l + z \in Nat /\ l + z >= l + 2
    BY <1>1
  <2>3. q.kind # "multipart"
    BY <1>2
  <2> QED
    BY <1>1, <2>1, <2>2, <2>3
<1>3. CASE \E m \in Inner : InnerAt(l, m) /\ q.kind = "multipart" /\ q.b = m.b
  BY <1>1, <1>3
<1>4. CASE \E m \in Inner : /\ l - 1 \in Places /\ InnerAt(l - 1, m) /\ m.more
                            /\ q.kind = "text" /\ q.first = l + 3 /\ q.last = l + 2
  BY <1>1, <1>4
<1>5. CASE \E m \in Inner : /\ l - 1 \in Places /\ InnerAt(l - 1, m) /\ ~m.more
                            /\ q.kind = m.leaves[1].type /\ q.kind \in {"text", "app"}
                            /\ q.first = l + 5 /\ q.last = l + 1
  BY <1>1, <1>5
<1> QED
  BY <1>2, <1>3, <1>4, <1>5 DEF CutOf

\* Two places have different parts.
LEMMA CutOnce ==
  ASSUME IsTree(body), IsMail, Usual, NEW k \in Places, NEW l \in Places, Cut(k) = Cut(l)
  PROVE  k = l
<1>1. PICK q : q = Cut(k) /\ q = Cut(l)
  OBVIOUS
<1>2. CutOf(k, q) /\ CutOf(l, q) /\ k \in Nat /\ l \in Nat
  BY <1>1, CutIs
<1>3. CASE q.kind = "multipart"
  <2>1. /\ \E m \in Inner : InnerAt(k, m) /\ q.b = m.b
        /\ \E m \in Inner : InnerAt(l, m) /\ q.b = m.b
    BY <1>2, <1>3, CutFirst
  <2> QED
    BY <2>1 DEF IsMail
<1>4. CASE q.kind # "multipart"
  <2>1. PICK a, c : a = q.first /\ c = q.last
    OBVIOUS
  <2>2. /\ (a = k + 3 /\ c \in Nat /\ c >= k + 2) \/ (a = k + 5 /\ c = k + 1)
        /\ (a = l + 3 /\ c \in Nat /\ c >= l + 2) \/ (a = l + 5 /\ c = l + 1)
    BY <1>2, <1>4, <2>1, CutFirst
  <2> HIDE <2>1
  <2> QED
    BY <1>2, <2>2
<1> QED
  BY <1>3, <1>4

\* A text of less than no length is that of a declaration in the last line of a header, and
\* a multipart is one of the tree.
LEMMA CutShown ==
  ASSUME IsTree(body), IsMail, Usual, NEW l \in Places
  PROVE  /\ Cut(l).kind = "text" /\ Negative(Cut(l)) => \E m \in Inner : StopsAt(m)
         /\ Cut(l).kind = "multipart" => \E m \in Inner : InnerAt(l, m) /\ Cut(l).b = m.b
<1>1. PICK q : q = Cut(l)
  OBVIOUS
<1>2. CutOf(l, q) /\ l \in Nat
  BY <1>1, CutIs
<1>3. q.kind = "multipart" => \E m \in Inner : InnerAt(l, m) /\ q.b = m.b
  BY <1>2, CutFirst
<1>4. ASSUME q.kind = "text", Negative(q)
      PROVE  \E m \in Inner : StopsAt(m)
  <2>1. CASE q.first = l + 3 /\ q.last \in Nat /\ q.last >= l + 2
    <3>1. ~(q.last < q.first - 1)
      BY <1>2, <2>1
    <3> QED
      BY <1>4, <3>1 DEF Negative
  <2>2. CASE \E m \in Inner : ~m.more /\ q.kind = m.leaves[1].type
    BY <1>4, <2>2 DEF StopsAt
  <2> QED
    BY <1>2, <1>4, <2>1, <2>2, CutFirst
<1> QED
  BY <1>1, <1>3, <1>4

-----------------------------------------------------------------------------
(* Where the parser is.                                                    *)

\* The mail itself, which is the first part, and the parts that are cut out of it.
Root       == Part(Line("multipart", body.b), 1, Len(eml))
FromPlaces == {Cut(l) : l \in Places}

\* What is behind place l has been cut out: the parts are ps, the one that is looked at k,
\* and the line that it has come to x.
Taken(ps, k, x, l) ==
  \E y \in 1..Len(ps) : /\ ps[y].kind = "multipart" /\ ps[y].b = eml[l].n
                        /\ y < k \/ (y = k /\ x # 0 /\ l < x)

\* The parts are the mail and what is behind each place that it has come by, none twice.
Parsed(ps, k, x) ==
  /\ ps \in Seq({Root} \cup FromPlaces) /\ 1 <= Len(ps) /\ ps[1] = Root
  /\ \A y \in 2..Len(ps) : ps[y] \in FromPlaces
  /\ \A y, z \in 2..Len(ps) : ps[y] = ps[z] => y = z
  /\ k \in Nat /\ 1 <= k /\ k <= Len(ps) + 1
  /\ x = 0 \/ (k <= Len(ps) /\ ps[k].kind = "multipart" /\ x \in Marks(ps[k].b))
  /\ \A l \in Places : (\E y \in 2..Len(ps) : ps[y] = Cut(l)) <=> Taken(ps, k, x, l)

\* A boundary is walked through once.
LEMMA MultiOnce ==
  ASSUME IsTree(body), IsMail, Usual, NEW ps, NEW k, NEW x, Parsed(ps, k, x),
         NEW y \in 1..Len(ps), ps[y].kind = "multipart"
  PROVE  /\ ps[y].b \in Bounds
         /\ \A z \in 1..Len(ps) : ps[z].kind = "multipart" /\ ps[z].b = ps[y].b => z = y
<1>1. Len(ps) \in Nat
  BY DEF Parsed
<1>2. ps[1].b = body.b
  BY PartIs DEF Parsed, Root
<1>3. ASSUME NEW z \in 2..Len(ps), ps[z].kind = "multipart"
      PROVE  \E l \in Places : \E m \in Inner :
                InnerAt(l, m) /\ ps[z] = Cut(l) /\ ps[z].b = m.b
  <2>1. PICK l \in Places : ps[z] = Cut(l)
    BY DEF Parsed, FromPlaces
  <2> QED
    BY <1>3, <2>1, CutShown
<1>4. \A z \in 1..Len(ps) : z = 1 \/ z \in 2..Len(ps)
  BY <1>1
<1>5. ps[y].b \in Bounds
  <2>1. CASE y = 1
    BY <1>2, <2>1 DEF Bounds
  <2>2. CASE y \in 2..Len(ps)
    BY <1>3, <2>2 DEF Bounds
  <2> QED
    BY <1>4, <2>1, <2>2
<1>6. \A m \in Inner : m.b # body.b
  BY DEF IsMail
<1>7. ASSUME NEW z \in 1..Len(ps), ps[z].kind = "multipart", ps[z].b = ps[y].b
      PROVE  z = y
  <2>1. CASE y = 1 \/ z = 1
    <3>1. \A w \in 2..Len(ps) : ps[w].kind = "multipart" => ps[w].b # body.b
      BY <1>3, <1>6
    <3> QED
      BY <1>2, <1>4, <1>7, <2>1, <3>1
  <2>2. CASE y \in 2..Len(ps) /\ z \in 2..Len(ps)
    <3>1. PICK l \in Places : \E m \in Inner :
            InnerAt(l, m) /\ ps[z] = Cut(l) /\ ps[z].b = m.b
      BY <1>3, <1>7, <2>2
    <3>2. PICK m \in Inner : InnerAt(l, m) /\ ps[z] = Cut(l) /\ ps[z].b = m.b
      BY <3>1
    <3>3. PICK j \in Places : \E s \in Inner :
            InnerAt(j, s) /\ ps[y] = Cut(j) /\ ps[y].b = s.b
      BY <1>3, <2>2
    <3>4. PICK s \in Inner : InnerAt(j, s) /\ ps[y] = Cut(j) /\ ps[y].b = s.b
      BY <3>3
    <3>5. l = j
      BY <1>7, <3>2, <3>4 DEF IsMail
    <3>6. ps[z] = ps[y]
      BY <3>2, <3>4, <3>5
    <3> QED
      BY <2>2, <3>6 DEF Parsed
  <2> QED
    BY <1>4, <2>1, <2>2
<1> QED
  BY <1>5, <1>7

\* Nothing but the text of a declaration in the last line of a header stops the program.
OffInv(o) == o = FALSE \/ (o = TRUE /\ \E m \in Inner : StopsAt(m))

\* Each step of ParseMailBody keeps this: the search in a multipart begins at its text,
LEMMA OpensKeeps ==
  ASSUME IsTree(body), IsMail, Usual, Parsed(parts, bot, p), off = FALSE, OpensMultipart
  PROVE  Parsed(parts', bot', p') /\ off' = FALSE
<1>1. PICK b : b = parts[bot].b
  OBVIOUS
<1>2. /\ bot <= Len(parts) /\ p = 0 /\ parts[bot].kind = "multipart"
      /\ p' = Boundary(b, 1) /\ parts' = parts /\ off' = off
      /\ p' # 0 => bot' = bot
  BY <1>1 DEF OpensMultipart
<1>3. bot \in Nat /\ 1 <= bot /\ Len(parts) \in Nat
  BY DEF Parsed
<1>4. b \in Bounds
  <2>1. bot \in 1..Len(parts)
    BY <1>2, <1>3
  <2> QED
    BY <1>1, <1>2, <2>1, MultiOnce
<1>5. PICK e \in 1..Len(eml) : e \in Marks(b)
  BY <1>4 DEF IsMail, EndsAt
<1>6. PICK x : x = p'
  OBVIOUS
<1>7. \A k \in Marks(b) : k \in Nat /\ 1 <= k
  BY DEF IsMail, Marks
<1>8. x # 0 /\ x \in Marks(b) /\ \A k \in Marks(b) : x <= k
  <2>1. x # 0
    <3>1. ~(e < 1)
      BY <1>5, <1>7
    <3> QED
      BY <1>2, <1>4, <1>5, <1>6, <3>1, BoundaryIs
  <2> QED
    BY <1>2, <1>4, <1>6, <1>7, <2>1, BoundaryIs
<1>9. ASSUME NEW l \in Places
      PROVE  Taken(parts, bot, x, l) <=> Taken(parts, bot, 0, l)
  <2>1. l \in Marks(eml[l].n)
    BY DEF Places, Marks, MarkKinds
  <2>2. b = eml[l].n => ~(l < x)
    BY <1>7, <1>8, <2>1
  <2> QED
    BY <1>1, <2>2 DEF Taken
<1>10. Parsed(parts, bot, x)
  BY <1>1, <1>2, <1>8, <1>9 DEF Parsed
<1> QED
  BY <1>2, <1>6, <1>8, <1>10

\* the walk through a multipart ends with its last boundary,
LEMMA ClosesKeeps ==
  ASSUME IsTree(body), IsMail, Usual, Parsed(parts, bot, p), off = FALSE, ClosesMultipart
  PROVE  Parsed(parts', bot', p') /\ off' = FALSE
<1>1. PICK b : b = parts[bot].b
  OBVIOUS
<1>2. /\ p # 0 /\ eml[p] = Line("end", b)
      /\ p' = 0 /\ bot' = bot + 1 /\ parts' = parts /\ off' = off
  BY <1>1 DEF ClosesMultipart, AtEnd
<1>3. bot \in Nat /\ 1 <= bot /\ Len(parts) \in Nat
  BY DEF Parsed
<1>4. bot <= Len(parts) /\ parts[bot].kind = "multipart" /\ p \in Marks(b)
  BY <1>1, <1>2 DEF Parsed
<1>5. b \in Bounds
  <2>1. bot \in 1..Len(parts)
    BY <1>3, <1>4
  <2> QED
    BY <1>1, <1>4, <2>1, MultiOnce
<1>6. PICK e : EndsAt(b, e)
  BY <1>5 DEF IsMail
<1>7. p = e
  <2>1. eml[p].kind = "end"
    BY <1>2, LineIs
  <2>2. p \notin Places
    BY <2>1 DEF Places
  <2> QED
    BY <1>4, <1>6, <2>2 DEF EndsAt
<1>8. ASSUME NEW l \in Places
      PROVE  Taken(parts, bot + 1, 0, l) <=> Taken(parts, bot, p, l)
  <2>1. l \in Marks(eml[l].n)
    BY DEF Places, Marks, MarkKinds
  <2>2. l # p
    <3>1. eml[p].kind = "end"
      BY <1>2, LineIs
    <3> QED
      BY <3>1 DEF Places
  <2>3. b = eml[l].n => l < p
    BY <1>6, <1>7, <2>1, <2>2 DEF EndsAt
  <2>4. \A y \in 1..Len(parts) : y < bot + 1 <=> y < bot \/ y = bot
    BY <1>3
  <2> QED
    BY <1>1, <1>2, <2>3, <2>4 DEF Taken
<1>9. bot + 1 \in Nat /\ 1 <= bot + 1 /\ bot + 1 <= Len(parts) + 1
  BY <1>3, <1>4
<1>10. Parsed(parts, bot + 1, 0)
  BY <1>8, <1>9 DEF Parsed
<1> QED
  BY <1>2, <1>10

\* a text becomes an item of the edit,
LEMMA ShowsKeeps ==
  ASSUME IsTree(body), IsMail, Usual, Parsed(parts, bot, p), off = FALSE, ShowsPart
  PROVE  Parsed(parts', bot', p') /\ OffInv(off')
<1>1. /\ bot <= Len(parts) /\ parts[bot].kind # "multipart" /\ bot' = bot + 1
      /\ parts' = parts /\ p' = p
      /\ off' \in IF parts[bot].kind = "text" /\ Negative(parts[bot]) THEN BOOLEAN ELSE {FALSE}
  BY DEF ShowsPart
<1>2. bot \in Nat /\ 1 <= bot /\ Len(parts) \in Nat /\ p = 0
  BY <1>1 DEF Parsed
<1>3. bot # 1
  BY <1>1, PartIs DEF Parsed, Root
<1>4. bot \in 2..Len(parts)
  BY <1>1, <1>2, <1>3
<1>5. PICK l \in Places : parts[bot] = Cut(l)
  BY <1>4 DEF Parsed, FromPlaces
<1>6. OffInv(off')
  <2>1. CASE parts[bot].kind = "text" /\ Negative(parts[bot])
    <3>1. off' \in BOOLEAN
      BY <1>1, <2>1
    <3>2. \E m \in Inner : StopsAt(m)
      BY <1>5, <2>1, CutShown
    <3> QED
      BY <3>1, <3>2 DEF OffInv
  <2>2. CASE ~(parts[bot].kind = "text" /\ Negative(parts[bot]))
    <3>1. off' = FALSE
      BY <1>1, <2>2
    <3> QED
      BY <3>1 DEF OffInv
  <2> QED
    BY <2>1, <2>2
<1>7. ASSUME NEW j \in Places
      PROVE  Taken(parts, bot + 1, 0, j) <=> Taken(parts, bot, 0, j)
  <2>1. \A y \in 1..Len(parts) : y < bot + 1 <=> y < bot \/ y = bot
    BY <1>2
  <2> QED
    BY <1>1, <2>1 DEF Taken
<1>8. bot + 1 \in Nat /\ 1 <= bot + 1 /\ bot + 1 <= Len(parts) + 1
  BY <1>1, <1>2
<1>9. Parsed(parts, bot + 1, 0)
  BY <1>2, <1>7, <1>8 DEF Parsed
<1> QED
  BY <1>1, <1>2, <1>6, <1>9

\* and the part behind a delimiter, or a declaration, is appended.
LEMMA TakesKeeps ==
  ASSUME IsTree(body), IsMail, Usual, Parsed(parts, bot, p), off = FALSE, TakesPart
  PROVE  Parsed(parts', bot', p') /\ off' = FALSE
<1>1. PICK b, d : b = parts[bot].b /\ d = Len(parts)
  OBVIOUS
<1>2. p # 0 /\ eml[p] # Line("end", b) /\ bot' = bot
  BY <1>1 DEF TakesPart, AtEnd
<1>3. /\ bot \in Nat /\ 1 <= bot /\ d \in Nat /\ 1 <= d /\ bot <= d
      /\ parts[bot].kind = "multipart" /\ p \in Marks(b)
      /\ parts \in Seq({Root} \cup FromPlaces) /\ parts[1] = Root
  BY <1>1, <1>2 DEF Parsed
<1>4. b \in Bounds /\ \A y \in 1..d : parts[y].kind = "multipart" /\ parts[y].b = b => y = bot
  <2>1. bot \in 1..Len(parts)
    BY <1>1, <1>3
  <2> QED
    BY <1>1, <1>3, <2>1, MultiOnce
<1>5. p \in Places /\ eml[p].n = b
  <2>1. PICK e : EndsAt(b, e)
    BY <1>4 DEF IsMail
  <2>2. p # e
    BY <1>2, <2>1 DEF EndsAt
  <2> QED
    BY <1>3, <2>1, <2>2 DEF EndsAt, Marks
<1>6. /\ p \in Nat /\ 1 <= p /\ Text(p + 1) # 0 /\ Boundary(b, p + 1) # 0
  BY <1>5, CutIs
<1>7. PICK c, x : c = Cut(p) /\ x = Boundary(b, p + 1)
  OBVIOUS
<1>8. parts' = Append(parts, c) /\ p' = x /\ off' = off
  <2>1. Cut(p) = Part(Type(p + 1, Text(p + 1)), Text(p + 1), Boundary(b, p + 1) - 1)
    BY <1>5 DEF Cut
  <2> QED
    BY <1>1, <1>6, <1>7, <2>1 DEF TakesPart
<1>9. /\ x # 0 /\ x \in Marks(b) /\ p + 1 <= x
      /\ \A k \in Marks(b) : p + 1 <= k => x <= k
  <2>1. p + 1 \in Nat /\ 1 <= p + 1
    BY <1>6
  <2> QED
    BY <1>4, <1>6, <1>7, <2>1, BoundaryIs
<1>10. \A k \in Marks(b) : k \in Nat
  BY DEF IsMail, Marks
<1>11. PICK ps : ps = Append(parts, c)
  OBVIOUS
<1>12. c \in FromPlaces
  BY <1>5, <1>7 DEF FromPlaces
<1>13. /\ ps \in Seq({Root} \cup FromPlaces) /\ Len(ps) = d + 1
       /\ \A y \in 1..d : ps[y] = parts[y]
       /\ ps[d + 1] = c
  BY <1>1, <1>3, <1>11, <1>12
<1>14. /\ \A y \in 2..(d + 1) : y = d + 1 \/ y \in 2..d
       /\ \A y \in 1..(d + 1) : y = d + 1 \/ y \in 1..d
       /\ \A y \in 2..d : y \in 1..d /\ y \in 2..(d + 1)
       /\ \A y \in 1..d : y \in 1..(d + 1)
       /\ d + 1 \in 2..(d + 1) /\ d + 1 \in 1..(d + 1)
       /\ bot \in 1..d /\ 1 \in 1..d /\ 1 <= d + 1 /\ bot <= (d + 1) + 1 /\ bot <= d + 1
       /\ ~(d + 1 < bot) /\ d + 1 # bot
  BY <1>3
<1>15. ASSUME NEW l \in Places
       PROVE  /\ (\E y \in 2..d : parts[y] = Cut(l)) <=> Taken(parts, bot, p, l)
  BY <1>1 DEF Parsed
<1>16. ~Taken(parts, bot, p, p)
  <2>1. ~(p < p)
    BY <1>6
  <2>2. ASSUME NEW y \in 1..d, parts[y].kind = "multipart", parts[y].b = b, y < bot
        PROVE  FALSE
    <3>1. y = bot
      BY <1>4, <2>2
    <3> QED
      BY <1>3, <2>2, <3>1
  <2> QED
    BY <1>1, <1>5, <2>1, <2>2 DEF Taken
<1>17. \A y \in 2..d : parts[y] # c
  BY <1>5, <1>7, <1>15, <1>16
<1>18. ASSUME NEW l \in Places
       PROVE  Taken(ps, bot, x, l) <=> Taken(parts, bot, p, l) \/ l = p
  <2>1. l \in Marks(eml[l].n) /\ l \in Nat
    BY DEF Places, Marks, MarkKinds, IsMail
  <2>2. x \in Nat
    BY <1>9, <1>10
  <2>3. b = eml[l].n => (l < x <=> l < p \/ l = p)
    <3>1. ASSUME b = eml[l].n
          PROVE  l < x <=> l < p \/ l = p
      <4>1. p + 1 <= l => x <= l
        BY <1>9, <2>1, <3>1
      <4>2. p + 1 <= x
        BY <1>9
      <4> QED
        BY <1>6, <2>1, <2>2, <4>1, <4>2
    <3> QED
      BY <3>1
  <2>4. Taken(ps, bot, x, l) <=>
          \E y \in 1..d : /\ parts[y].kind = "multipart" /\ parts[y].b = eml[l].n
                          /\ y < bot \/ (y = bot /\ l < x)
    <3>1. Taken(ps, bot, x, l) <=>
            \E y \in 1..(d + 1) : /\ ps[y].kind = "multipart" /\ ps[y].b = eml[l].n
                                  /\ y < bot \/ (y = bot /\ x # 0 /\ l < x)
      BY <1>13 DEF Taken
    <3> QED
      BY <1>9, <1>13, <1>14, <3>1
  <2>5. Taken(parts, bot, p, l) <=>
          \E y \in 1..d : /\ parts[y].kind = "multipart" /\ parts[y].b = eml[l].n
                          /\ y < bot \/ (y = bot /\ l < p)
    BY <1>1, <1>2 DEF Taken
  <2>6. l = p => \E y \in 1..d : /\ parts[y].kind = "multipart" /\ parts[y].b = eml[l].n
                                 /\ y < bot \/ (y = bot /\ l < x)
    <3>1. ASSUME l = p
          PROVE  eml[l].n = b /\ l < x
      BY <1>5, <2>3, <3>1
    <3> QED
      BY <1>1, <1>3, <1>14, <3>1
  <2>7. ASSUME NEW y \in 1..d, parts[y].kind = "multipart", parts[y].b = eml[l].n,
               y < bot \/ (y = bot /\ l < x)
        PROVE  Taken(parts, bot, p, l) \/ l = p
    <3>1. CASE y < bot
      BY <2>5, <2>7, <3>1
    <3>2. CASE y = bot /\ l < x
      <4>1. b = eml[l].n
        BY <1>1, <2>7, <3>2
      <4>2. l < p \/ l = p
        BY <2>3, <3>2, <4>1
      <4> QED
        BY <2>5, <2>7, <3>2, <4>2
    <3> QED
      BY <2>7, <3>1, <3>2
  <2>8. ASSUME NEW y \in 1..d, parts[y].kind = "multipart", parts[y].b = eml[l].n,
               y < bot \/ (y = bot /\ l < p)
        PROVE  y < bot \/ (y = bot /\ l < x)
    BY <1>1, <2>3, <2>8
  <2> QED
    BY <2>4, <2>5, <2>6, <2>7, <2>8
<1>19. ASSUME NEW l \in Places
       PROVE  (\E y \in 2..(d + 1) : ps[y] = Cut(l)) <=> Taken(ps, bot, x, l)
  <2>1. Cut(l) = c <=> l = p
    BY <1>5, <1>7, CutOnce
  <2>2. (\E y \in 2..(d + 1) : ps[y] = Cut(l)) <=> (\E y \in 2..d : parts[y] = Cut(l)) \/ Cut(l) = c
    BY <1>13, <1>14
  <2> QED
    BY <1>15, <1>18, <2>1, <2>2
<1>20. \A y \in 2..(d + 1) : ps[y] \in FromPlaces
  <2>1. \A y \in 2..d : parts[y] \in FromPlaces
    BY <1>1 DEF Parsed
  <2> QED
    BY <1>12, <1>13, <1>14, <2>1
<1>21. \A y, z \in 2..(d + 1) : ps[y] = ps[z] => y = z
  <2>1. \A y, z \in 2..d : parts[y] = parts[z] => y = z
    BY <1>1 DEF Parsed
  <2> QED
    BY <1>13, <1>14, <1>17, <2>1
<1>22. /\ bot <= d + 1 /\ ps[bot].kind = "multipart" /\ x \in Marks(ps[bot].b)
  BY <1>1, <1>3, <1>9, <1>13, <1>14
<1>23. Parsed(ps, bot, x)
  BY <1>3, <1>13, <1>14, <1>19, <1>20, <1>21, <1>22 DEF Parsed
<1> QED
  BY <1>2, <1>8, <1>11, <1>23

-----------------------------------------------------------------------------
(* The end of a mail.                                                      *)

\* Every place has been cut out behind.
LEMMA AllTaken ==
  ASSUME IsTree(body), IsMail, Usual, NEW ps, NEW k, NEW x, Parsed(ps, k, x), k > Len(ps),
         NEW l \in Places
  PROVE  Taken(ps, k, x, l)
<1>1. Len(ps) \in Nat /\ 1 <= Len(ps) /\ k \in Nat
  BY DEF Parsed
<1>2. \A y \in 1..Len(ps) : y < k
  BY <1>1
<1>3. ps[1].kind = "multipart" /\ ps[1].b = body.b /\ 1 \in 1..Len(ps)
  BY <1>1, PartIs DEF Parsed, Root
<1>4. ASSUME NEW j \in Places, eml[j].n = body.b
      PROVE  Taken(ps, k, x, j)
  BY <1>2, <1>3, <1>4 DEF Taken
<1>5. eml[l].n \in Bounds
  BY DEF IsMail, Places, MarkKinds
<1>6. CASE \E m \in Inner : eml[l].n = m.b
  <2>1. PICK m \in Inner : eml[l].n = m.b
    BY <1>6
  <2>2. PICK j \in Places : InnerAt(j, m)
    BY DEF IsMail
  <2>3. eml[j].n = body.b
    BY <2>2, InnerAtIs
  <2>4. PICK y \in 2..Len(ps) : ps[y] = Cut(j)
    BY <1>4, <2>3 DEF Parsed
  <2>5. PICK x0, z : Cut(j) = Part(Line("multipart", m.b), x0, z)
    BY <2>2, InnerCut
  <2>6. ps[y].kind = "multipart" /\ ps[y].b = m.b
    BY <2>4, <2>5, PartIs
  <2>7. y \in 1..Len(ps) /\ y < k
    BY <1>1
  <2> QED
    BY <2>1, <2>6, <2>7 DEF Taken
<1> QED
  BY <1>4, <1>5, <1>6 DEF Bounds

\* The text that is cut out behind a place.
LEMMA LeafText ==
  ASSUME IsTree(body), IsMail, Usual, NEW l, NEW t, LeafAt(l, t), NEW z, z = Len(LeafLines(t))
  PROVE  /\ SubSeq(eml, l + 3, l + z) = SubSeq(LeafLines(t), 3, z)
         /\ Len(SubSeq(LeafLines(t), 3, z)) >= 1
         /\ SubSeq(LeafLines(t), 3, z)[1] = Line("said", t.text)
<1>1. /\ l \in Nat /\ z \in {3, 5} /\ t \in Leaves
      /\ \A k \in 1..z : eml[l + k] = LeafLines(t)[k]
  <2>1. l \in Nat /\ Len(LeafLines(t)) \in {3, 5} /\ t \in Leaves
    BY LeafAtIs
  <2>2. \A k \in 1..z : eml[l + k] = LeafLines(t)[k]
    BY DEF LeafAt, LeafLaid
  <2> QED
    BY <2>1, <2>2
<1>2. /\ LeafLines(t) \in Seq(LineSet) /\ LeafLines(t)[3] = Line("said", t.text)
  BY <1>1, LeafLinesIs
<1>3. \A k \in 1..z : LeafLines(t)[k] \in LineSet
  BY <1>2
<1>4. PICK s : s = SubSeq(LeafLines(t), 3, z)
  OBVIOUS
<1>5. PICK e : e = SubSeq(eml, l + 3, l + z)
  OBVIOUS
<1>6. /\ s \in Seq(LineSet) /\ Len(s) = z - 2
      /\ \A i \in 1..(z - 2) : s[i] = LeafLines(t)[i + 2]
  <2>1. \A i \in 3..z : LeafLines(t)[i] \in LineSet
    BY <1>1, <1>3
  <2>2. /\ s \in Seq(LineSet) /\ Len(s) = IF 3 <= z THEN z - 3 + 1 ELSE 0
        /\ \A i \in 1..(z - 3 + 1) : s[i] = LeafLines(t)[3 + i - 1]
    BY <1>1, <1>4, <2>1, SubSeqProperties
  <2>3. z - 3 + 1 = z - 2 /\ 3 <= z
    BY <1>1
  <2>4. \A i \in 1..(z - 2) : 3 + i - 1 = i + 2
    BY <1>1
  <2> QED
    BY <2>2, <2>3, <2>4
<1>7. /\ e \in Seq(LineSet) /\ Len(e) = z - 2
      /\ \A i \in 1..(z - 2) : e[i] = LeafLines(t)[i + 2]
  <2>1. ASSUME NEW i \in (l + 3)..(l + z)
        PROVE  eml[i] \in LineSet
    <3>1. i - l \in 1..z /\ l + (i - l) = i
      BY <1>1
    <3>2. eml[l + (i - l)] = LeafLines(t)[i - l]
      BY <1>1, <3>1
    <3> QED
      BY <1>3, <3>1, <3>2
  <2>2. l + 3 \in Int /\ l + z \in Int
    BY <1>1
  <2>3. /\ e \in Seq(LineSet)
        /\ Len(e) = IF l + 3 <= l + z THEN (l + z) - (l + 3) + 1 ELSE 0
        /\ \A i \in 1..((l + z) - (l + 3) + 1) : e[i] = eml[(l + 3) + i - 1]
    BY <1>5, <2>1, <2>2, SubSeqProperties
  <2>4. (l + z) - (l + 3) + 1 = z - 2 /\ l + 3 <= l + z
    BY <1>1
  <2>5. ASSUME NEW i \in 1..(z - 2)
        PROVE  e[i] = LeafLines(t)[i + 2]
    <3>1. (l + 3) + i - 1 = l + (i + 2) /\ i + 2 \in 1..z
      BY <1>1
    <3>2. e[i] = eml[l + (i + 2)]
      BY <2>3, <2>4, <3>1
    <3> QED
      BY <1>1, <3>1, <3>2
  <2> QED
    BY <2>3, <2>4, <2>5
<1>8. e = s
  <2>1. Len(e) = Len(s) /\ \A i \in 1..Len(e) : e[i] = s[i]
    BY <1>6, <1>7
  <2> QED
    BY <1>6, <1>7, <2>1, SeqEqual
<1>9. z - 2 >= 1 /\ 1 \in 1..(z - 2) /\ 1 + 2 = 3
  BY <1>1
<1>10. s[1] = Line("said", t.text)
  BY <1>2, <1>6, <1>9
<1> QED
  BY <1>4, <1>5, <1>6, <1>8, <1>9, <1>10

\* A leaf is the part that is cut out behind its delimiter, and no other one.
LEMMA LeafIsCut ==
  ASSUME IsTree(body), IsMail, Usual, NEW t \in Leaves, NEW l \in Places, LeafAt(l, t),
         NEW j \in Places
  PROVE  IsLeaf(Cut(j), t) <=> j = l
<1>1. PICK z : z = Len(LeafLines(t))
  OBVIOUS
<1>2. t.type \in {"text", "app"}
  BY LeafAtIs
<1>3. PICK s : s = SubSeq(LeafLines(t), 3, z)
  OBVIOUS
<1>4. SubSeq(eml, l + 3, l + z) = s /\ Len(s) >= 1 /\ s[1] = Line("said", t.text)
  BY <1>1, <1>3, LeafText
<1>5. ASSUME j = l
      PROVE  IsLeaf(Cut(j), t)
  <2>1. PICK q : q = Cut(l)
    OBVIOUS
  <2>2. q = Part(Line(t.type, 0), l + 3, l + z)
    BY <1>1, <2>1, LeafCut
  <2>3. q.kind = t.type /\ q.first = l + 3 /\ q.last = l + z
    BY <2>2, PartIs
  <2> QED
    BY <1>1, <1>3, <1>4, <1>5, <2>1, <2>3 DEF IsLeaf, TextOf
<1>6. ASSUME IsLeaf(Cut(j), t)
      PROVE  j = l
  <2>1. PICK q : q = Cut(j)
    OBVIOUS
  <2>2. q.kind = t.type /\ SubSeq(eml, q.first, q.last) = s
    BY <1>1, <1>3, <1>6, <2>1 DEF IsLeaf, TextOf
  <2>3. CutOf(j, q) /\ j \in Nat
    BY <2>1, CutIs
  <2>4. CASE \E u \in Leaves : /\ LeafAt(j, u) /\ q.kind = u.type /\ u.type \in {"text", "app"}
                               /\ q.first = j + 3 /\ q.last = j + Len(LeafLines(u))
                               /\ Len(LeafLines(u)) \in {3, 5}
    <3>1. PICK u \in Leaves : /\ LeafAt(j, u) /\ q.first = j + 3
                              /\ q.last = j + Len(LeafLines(u))
      BY <2>4
    <3>2. PICK y : y = Len(LeafLines(u))
      OBVIOUS
    <3>3. PICK r : r = SubSeq(LeafLines(u), 3, y)
      OBVIOUS
    <3>4. SubSeq(eml, j + 3, j + y) = r /\ r[1] = Line("said", u.text)
      BY <3>1, <3>2, <3>3, LeafText
    <3>5. r = s
      BY <2>2, <3>1, <3>2, <3>4
    <3>6. u.text = t.text
      BY <1>4, <3>4, <3>5, LineIs
    <3> QED
      BY <3>1, <3>6 DEF IsMail
  <2>5. CASE \/ q.first = j + 3 /\ q.last = j + 2
             \/ q.first = j + 5 /\ q.last = j + 1
    <3>1. PICK a \in Int, c \in Int : a = q.first /\ c = q.last /\ c < a
      BY <2>3, <2>5
    <3>2. SubSeq(eml, a, c) = << >>
      BY <3>1, SubSeqEmpty
    <3>3. s = << >>
      BY <2>2, <3>1, <3>2
    <3> QED
      BY <1>4, <3>3
  <2>6. q.kind # "multipart"
    BY <1>2, <2>2
  <2> QED
    BY <2>3, <2>4, <2>5, <2>6 DEF CutOf
<1> QED
  BY <1>5, <1>6

\* In the end every leaf is one of the parts, once.
LEMMA LeafShownOnce ==
  ASSUME IsTree(body), IsMail, Usual, Parsed(parts, bot, p), bot > Len(parts), NEW t \in Leaves
  PROVE  Cardinality({i \in DOMAIN parts : IsLeaf(parts[i], t)}) = 1
<1>1. PICK d \in Nat : d = Len(parts) /\ DOMAIN parts = 1..d
  BY DEF Parsed
<1>2. PICK l \in Places : LeafAt(l, t)
  BY DEF IsMail
<1>3. PICK y \in 2..d : parts[y] = Cut(l)
  <2>1. Taken(parts, bot, p, l)
    BY AllTaken
  <2> QED
    BY <1>1, <2>1 DEF Parsed
<1>4. ASSUME NEW i \in 1..d
      PROVE  IsLeaf(parts[i], t) <=> i = y
  <2>1. CASE i = 1
    <3>1. parts[1].kind = "multipart"
      BY PartIs DEF Parsed, Root
    <3>2. t.type # "multipart"
      BY <1>2, LeafAtIs
    <3>3. ~IsLeaf(parts[1], t)
      BY <3>1, <3>2 DEF IsLeaf
    <3>4. y # 1
      BY <1>3
    <3> QED
      BY <2>1, <3>3, <3>4
  <2>2. CASE i \in 2..d
    <3>1. PICK j \in Places : parts[i] = Cut(j)
      BY <1>1, <2>2 DEF Parsed, FromPlaces
    <3>2. IsLeaf(parts[i], t) <=> j = l
      BY <1>2, <3>1, LeafIsCut
    <3>3. j = l => i = y
      BY <1>1, <1>3, <2>2, <3>1 DEF Parsed
    <3>4. i = y => j = l
      BY <1>3, <3>1, CutOnce
    <3> QED
      BY <3>2, <3>3, <3>4
  <2> QED
    BY <1>1, <2>1, <2>2
<1>5. {i \in DOMAIN parts : IsLeaf(parts[i], t)} = {y}
  BY <1>1, <1>3, <1>4
<1> QED
  BY <1>5, FS_Singleton

\* Two sets with a bijection between them are of one size.
LEMMA SameCount ==
  ASSUME NEW S, IsFiniteSet(S), NEW T, NEW F \in [S -> T],
         \A x, y \in S : F[x] = F[y] => x = y,
         \A t \in T : \E x \in S : F[x] = t
  PROVE  IsFiniteSet(T) /\ Cardinality(T) = Cardinality(S)
<1>1. F \in Injection(S, T)
  BY DEF Injection, IsInjective
<1>2. F \in Surjection(S, T)
  BY DEF Surjection
<1>3. ExistsBijection(S, T)
  BY <1>1, <1>2 DEF ExistsBijection, Bijection
<1> QED
  BY <1>3, FS_Bijection

\* The places by what is behind them.
LeafPlaces  == {l \in Places : \E t \in Leaves : LeafAt(l, t)}
InnerPlaces == {l \in Places : \E m \in Inner : InnerAt(l, m)}
DeclPlaces  == {l \in Places : \E m \in Inner : l - 1 \in Places /\ InnerAt(l - 1, m)}

\* A place is in front of a leaf, of an inner multipart, or is its declaration.
LEMMA CountPlaces ==
  ASSUME IsTree(body), IsMail, Usual
  PROVE  /\ IsFiniteSet(LeafPlaces) /\ IsFiniteSet(InnerPlaces) /\ IsFiniteSet(DeclPlaces)
         /\ IsFiniteSet(Places)
         /\ Cardinality(Places) =
              Cardinality(LeafPlaces) + Cardinality(InnerPlaces) + Cardinality(DeclPlaces)
<1>1. PICK z \in Nat : z = Len(eml)
  BY DEF IsMail
<1>2. IsFiniteSet(1..z)
  BY <1>1, FS_Interval
<1>3. IsFiniteSet(Places)
  <2>1. Places \in SUBSET (1..z)
    BY <1>1 DEF Places
  <2> QED
    BY <1>2, <2>1, FS_Subset
<1>4. IsFiniteSet(LeafPlaces) /\ IsFiniteSet(InnerPlaces) /\ IsFiniteSet(DeclPlaces)
  <2>1. /\ LeafPlaces \in SUBSET Places /\ InnerPlaces \in SUBSET Places
        /\ DeclPlaces \in SUBSET Places
    BY DEF LeafPlaces, InnerPlaces, DeclPlaces
  <2> QED
    BY <1>3, <2>1, FS_Subset
<1>5. Places = (LeafPlaces \cup InnerPlaces) \cup DeclPlaces
  BY DEF IsMail, LeafPlaces, InnerPlaces, DeclPlaces
<1>6. LeafPlaces \cap InnerPlaces = {}
  <2>1. ASSUME NEW l, NEW t \in Leaves, LeafAt(l, t), NEW m \in Inner, InnerAt(l, m)
        PROVE  FALSE
    <3>1. eml[l + 1] = Line(t.type, 0) /\ t.type \in {"text", "app"}
      BY <2>1, LeafAtIs
    <3>2. eml[l + 1].kind = "multipart"
      BY <2>1, InnerAtIs
    <3> QED
      BY <3>1, <3>2, LineIs
  <2> QED
    BY <2>1 DEF LeafPlaces, InnerPlaces
<1>7. (LeafPlaces \cup InnerPlaces) \cap DeclPlaces = {}
  <2>1. ASSUME NEW l \in LeafPlaces \cup InnerPlaces
        PROVE  eml[l].kind = "delim"
    <3>1. CASE \E t \in Leaves : LeafAt(l, t)
      BY <3>1, LeafAtIs
    <3>2. CASE \E m \in Inner : InnerAt(l, m)
      BY <3>2, InnerAtIs
    <3> QED
      BY <3>1, <3>2 DEF LeafPlaces, InnerPlaces
  <2>2. ASSUME NEW l \in DeclPlaces
        PROVE  eml[l].kind = "multipart"
    <3>1. PICK m \in Inner : InnerAt(l - 1, m)
      BY DEF DeclPlaces
    <3>2. eml[(l - 1) + 1].kind = "multipart"
      BY <3>1, InnerAtIs
    <3>3. (l - 1) + 1 = l
      <4>1. l \in 1..z
        BY <1>1 DEF DeclPlaces, Places
      <4> QED
        BY <1>1, <4>1
    <3> QED
      BY <3>2, <3>3
  <2> QED
    BY <2>1, <2>2
<1>8. PICK A : A = LeafPlaces \cup InnerPlaces
  OBVIOUS
<1>9. /\ IsFiniteSet(A)
      /\ Cardinality(A) = Cardinality(LeafPlaces) + Cardinality(InnerPlaces)
  <2>1. /\ IsFiniteSet(A)
        /\ Cardinality(A) = Cardinality(LeafPlaces) + Cardinality(InnerPlaces)
                              - Cardinality(LeafPlaces \cap InnerPlaces)
    BY <1>4, <1>8, FS_Union
  <2>2. Cardinality(LeafPlaces \cap InnerPlaces) = 0
    BY <1>6, FS_EmptySet
  <2>3. Cardinality(LeafPlaces) \in Nat /\ Cardinality(InnerPlaces) \in Nat
    BY <1>4, FS_CardinalityType
  <2> QED
    BY <2>1, <2>2, <2>3
<1>10. Cardinality(Places) = Cardinality(A) + Cardinality(DeclPlaces)
  <2>1. Cardinality(A \cup DeclPlaces) =
          Cardinality(A) + Cardinality(DeclPlaces) - Cardinality(A \cap DeclPlaces)
    BY <1>4, <1>9, FS_Union
  <2>2. Cardinality(A \cap DeclPlaces) = 0
    BY <1>7, <1>8, FS_EmptySet
  <2>3. Cardinality(A) \in Nat /\ Cardinality(DeclPlaces) \in Nat
    BY <1>4, <1>9, FS_CardinalityType
  <2> QED
    BY <1>5, <1>8, <2>1, <2>2, <2>3
<1> QED
  BY <1>3, <1>4, <1>9, <1>10

\* There are as many of these as leaves, multiparts and declarations of them.
LEMMA CountLeaves ==
  ASSUME IsTree(body), IsMail, Usual
  PROVE  Cardinality(Leaves) = Cardinality(LeafPlaces)
<1> DEFINE F == [l \in LeafPlaces |-> CHOOSE t \in Leaves : LeafAt(l, t)]
<1>1. ASSUME NEW l \in LeafPlaces
      PROVE  F[l] \in Leaves /\ LeafAt(l, F[l]) /\ l \in Places
  BY DEF LeafPlaces
<1>2. F \in [LeafPlaces -> Leaves]
  BY <1>1
<1> HIDE DEF F
<1>3. \A k, l \in LeafPlaces : F[k] = F[l] => k = l
  BY <1>1 DEF IsMail
<1>4. ASSUME NEW t \in Leaves
      PROVE  \E l \in LeafPlaces : F[l] = t
  <2>1. PICK l \in Places : LeafAt(l, t)
    BY DEF IsMail
  <2>2. l \in LeafPlaces
    BY <2>1 DEF LeafPlaces
  <2>3. PICK s \in Leaves : s = F[l] /\ LeafAt(l, s)
    BY <1>1, <2>2
  <2>4. s.text = t.text
    <3>1. eml[l + 3] = Line("said", s.text)
      BY <2>3, LeafAtIs
    <3>2. eml[l + 3] = Line("said", t.text)
      BY <2>1, LeafAtIs
    <3> QED
      BY <3>1, <3>2, LineIs
  <2>5. s = t
    BY <2>1, <2>3, <2>4 DEF IsMail
  <2> QED
    BY <2>2, <2>3, <2>5
<1>5. IsFiniteSet(LeafPlaces)
  BY CountPlaces
<1> QED
  BY <1>2, <1>3, <1>4, <1>5, SameCount

LEMMA CountInner ==
  ASSUME IsTree(body), IsMail, Usual
  PROVE  Cardinality(Inner) = Cardinality(InnerPlaces)
<1> DEFINE F == [l \in InnerPlaces |-> CHOOSE m \in Inner : InnerAt(l, m)]
<1>1. ASSUME NEW l \in InnerPlaces
      PROVE  F[l] \in Inner /\ InnerAt(l, F[l]) /\ l \in Places
  BY DEF InnerPlaces
<1>2. F \in [InnerPlaces -> Inner]
  BY <1>1
<1> HIDE DEF F
<1>3. \A k, l \in InnerPlaces : F[k] = F[l] => k = l
  BY <1>1 DEF IsMail
<1>4. ASSUME NEW m \in Inner
      PROVE  \E l \in InnerPlaces : F[l] = m
  <2>1. PICK l \in Places : InnerAt(l, m)
    BY DEF IsMail
  <2>2. l \in InnerPlaces
    BY <2>1 DEF InnerPlaces
  <2>3. PICK s \in Inner : s = F[l] /\ InnerAt(l, s)
    BY <1>1, <2>2
  <2>4. s.b = m.b
    <3>1. eml[l + 1].n = s.b
      BY <2>3, InnerAtIs
    <3>2. eml[l + 1].n = m.b
      BY <2>1, InnerAtIs
    <3> QED
      BY <3>1, <3>2
  <2>5. s = m
    BY <2>1, <2>3, <2>4 DEF IsMail
  <2> QED
    BY <2>2, <2>3, <2>5
<1>5. IsFiniteSet(InnerPlaces)
  BY CountPlaces
<1> QED
  BY <1>2, <1>3, <1>4, <1>5, SameCount

LEMMA CountDecls ==
  ASSUME IsTree(body), IsMail, Usual
  PROVE  Cardinality(DeclPlaces) = Cardinality(InnerPlaces)
<1> DEFINE F == [l \in InnerPlaces |-> l + 1]
<1>1. PICK z \in Nat : z = Len(eml)
  BY DEF IsMail
<1>2. \A l \in Places : l \in Nat
  BY <1>1 DEF Places
<1>3. ASSUME NEW l \in InnerPlaces
      PROVE  l \in Nat /\ F[l] \in DeclPlaces
  <2>1. PICK m \in Inner : InnerAt(l, m)
    BY DEF InnerPlaces
  <2>2. l \in Places /\ l + 1 \in Places /\ l \in Nat
    BY <1>2, <2>1, InnerAtIs
  <2>3. (l + 1) - 1 = l
    BY <2>2
  <2>4. l + 1 \in DeclPlaces
    BY <2>1, <2>2, <2>3 DEF DeclPlaces
  <2> QED
    BY <2>2, <2>4
<1>4. F \in [InnerPlaces -> DeclPlaces]
  BY <1>3
<1>5. \A k, l \in InnerPlaces : F[k] = F[l] => k = l
  <2> TAKE k, l \in InnerPlaces
  <2>1. k \in Nat /\ l \in Nat /\ F[k] = k + 1 /\ F[l] = l + 1
    BY <1>3
  <2> QED
    BY <2>1
<1>6. ASSUME NEW d \in DeclPlaces
      PROVE  \E l \in InnerPlaces : F[l] = d
  <2>1. d \in Nat /\ d - 1 \in InnerPlaces
    BY <1>2 DEF DeclPlaces, InnerPlaces
  <2>2. (d - 1) + 1 = d
    BY <2>1
  <2>3. F[d - 1] = d
    BY <2>1, <2>2
  <2> QED
    BY <2>1, <2>3
<1> HIDE DEF F
<1>7. IsFiniteSet(InnerPlaces)
  BY CountPlaces
<1> QED
  BY <1>4, <1>5, <1>6, <1>7, SameCount

\* The parts are the mail, its leaves, and two for each inner multipart.
LEMMA CountParts ==
  ASSUME IsTree(body), IsMail, Usual, Parsed(parts, bot, p), bot > Len(parts)
  PROVE  Len(parts) = 1 + Cardinality(Leaves) + 2 * Cardinality(Inner)
<1> DEFINE F == [y \in 2..Len(parts) |-> CHOOSE l \in Places : parts[y] = Cut(l)]
<1>1. PICK d \in Nat : d = Len(parts) /\ 1 <= d
  BY DEF Parsed
<1>2. ASSUME NEW y \in 2..Len(parts)
      PROVE  F[y] \in Places /\ parts[y] = Cut(F[y])
  BY DEF Parsed, FromPlaces
<1>3. F \in [2..Len(parts) -> Places]
  BY <1>2
<1> HIDE DEF F
<1>4. \A y, z \in 2..Len(parts) : F[y] = F[z] => y = z
  BY <1>2 DEF Parsed
<1>5. ASSUME NEW l \in Places
      PROVE  \E y \in 2..Len(parts) : F[y] = l
  <2>1. Taken(parts, bot, p, l)
    BY AllTaken
  <2>2. PICK y \in 2..Len(parts) : parts[y] = Cut(l)
    BY <2>1 DEF Parsed
  <2>3. F[y] = l
    BY <1>2, <2>2, CutOnce
  <2> QED
    BY <2>3
<1>6. IsFiniteSet(2..Len(parts)) /\ Cardinality(2..Len(parts)) = d - 1
  <2>1. PICK a \in Int : a = 2
    OBVIOUS
  <2>2. d \in Int
    BY <1>1
  <2>3. IsFiniteSet(a..d) /\ Cardinality(a..d) = IF a > d THEN 0 ELSE d - a + 1
    BY <2>2, FS_Interval
  <2>4. (IF a > d THEN 0 ELSE d - a + 1) = d - 1
    BY <1>1, <2>1
  <2> QED
    BY <1>1, <2>1, <2>3, <2>4
<1>7. Cardinality(Places) = d - 1
  <2>1. PICK S : S = 2..Len(parts)
    OBVIOUS
  <2>2. F \in [S -> Places]
    BY <1>3, <2>1
  <2>3. /\ \A y, z \in S : F[y] = F[z] => y = z
        /\ \A l \in Places : \E y \in S : F[y] = l
    BY <1>4, <1>5, <2>1
  <2>4. IsFiniteSet(S) /\ Cardinality(S) = d - 1
    BY <1>6, <2>1
  <2>5. Cardinality(Places) = Cardinality(S)
    BY <2>2, <2>3, <2>4, SameCount
  <2> QED
    BY <2>4, <2>5
<1>8. /\ Cardinality(Places) =
           Cardinality(LeafPlaces) + Cardinality(InnerPlaces) + Cardinality(DeclPlaces)
      /\ Cardinality(LeafPlaces) \in Nat /\ Cardinality(InnerPlaces) \in Nat
  BY CountPlaces, FS_CardinalityType
<1>9. /\ Cardinality(Leaves) = Cardinality(LeafPlaces)
      /\ Cardinality(Inner) = Cardinality(InnerPlaces)
      /\ Cardinality(DeclPlaces) = Cardinality(InnerPlaces)
  BY CountLeaves, CountInner, CountDecls
<1>10. PICK a, c \in Nat : a = Cardinality(Leaves) /\ c = Cardinality(Inner)
  BY <1>8, <1>9
<1>11. d - 1 = a + c + c
  BY <1>7, <1>8, <1>9, <1>10
<1>12. d = 1 + a + 2 * c
  BY <1>1, <1>10, <1>11
<1> QED
  BY <1>1, <1>10, <1>12

-----------------------------------------------------------------------------
(* The invariant.                                                          *)

\* The lines are those of a mail; in one that the code can read no search has failed, and
\* the list of parts is what the walk has come by.
ParseInv ==
  /\ body \in Bodies /\ eml = MailLines(body)
  /\ Usual => OffInv(off) /\ Parsed(parts, bot, p)

\* What the lemmas above need of a state.
LEMMA ReadyIs ==
  ASSUME body \in Bodies, eml = MailLines(body), Usual
  PROVE  IsTree(body) /\ IsMail
<1>1. IsTree(body)
  BY BodiesAssumption
<1> QED
  BY <1>1, MailIs

\* The list begins with the mail itself.
LEMMA ParseInvInit ==
  ASSUME MimeInit
  PROVE  ParseInv
<1>1. body \in Bodies
  <2>1. (CHOOSE m \in Bodies : TRUE) \in Bodies
    BY BodiesAssumption
  <2> QED
    BY <2>1 DEF MimeInit
<1>2. /\ eml = MailLines(body) /\ off = FALSE /\ bot = 1 /\ p = 0 /\ parts = <<Root>>
  BY DEF MimeInit, Root
<1>3. ASSUME Usual
      PROVE  Parsed(parts, bot, p)
  <2>1. /\ parts \in Seq({Root} \cup FromPlaces) /\ Len(parts) = 1 /\ parts[1] = Root
    BY <1>2
  <2>2. 2..1 = {} /\ 1 <= 1 + 1
    OBVIOUS
  <2>3. ASSUME NEW l \in Places
        PROVE  ~Taken(parts, 1, 0, l)
    <3>1. \A y \in 1..1 : ~(y < 1)
      OBVIOUS
    <3> QED
      BY <2>1, <3>1 DEF Taken
  <2>4. Parsed(parts, 1, 0)
    BY <2>1, <2>2, <2>3 DEF Parsed
  <2> QED
    BY <1>2, <2>4
<1> QED
  BY <1>1, <1>2, <1>3 DEF ParseInv, OffInv

\* While the mail stays, what is said of the parser is about what it was about.
LEMMA ParsedSame ==
  ASSUME body' = body, eml' = eml
  PROVE  /\ Usual' <=> Usual
         /\ Parsed(parts', bot', p') => Parsed(parts, bot, p)'
         /\ OffInv(off') => OffInv(off)'
<1>1. Usual' <=> Usual
  BY DEF Usual, Leaves, Inner, Bounds
<1>2. /\ Root' = Root /\ Places' = Places
  BY DEF Root, Part, Line, Places
<1>3. \A b : Marks(b)' = Marks(b)
  BY DEF Marks
<1>4. \A l : Cut(l)' = Cut(l)
  BY DEF Cut, Type, Text, Boundary, Part, Line
<1>5. FromPlaces' = FromPlaces
  BY <1>2, <1>4 DEF FromPlaces
<1>6. \A l : Taken(parts', bot', p', l) <=> Taken(parts, bot, p, l)'
  BY DEF Taken
<1>7. ASSUME Parsed(parts', bot', p')
      PROVE  Parsed(parts, bot, p)'
  BY <1>2, <1>3, <1>4, <1>5, <1>6, <1>7 DEF Parsed
<1>8. OffInv(off') => OffInv(off)'
  BY DEF OffInv, StopsAt, Inner
<1> QED
  BY <1>1, <1>7, <1>8

\* Every step keeps the invariant; unmime_header does not touch the parser.
LEMMA ParseInvNext ==
  ASSUME ParseInv, [MimeNext]_mimeVars
  PROVE  ParseInv'
<1>1. body' = body /\ eml' = eml
  <2>1. CASE unmime_header
    BY <2>1 DEF unmime_header, DecodesWord, CopiesRest, mail
  <2>2. CASE ParseMailBody
    BY <2>2 DEF ParseMailBody, OpensMultipart, ClosesMultipart, TakesPart, ShowsPart, mail
  <2>3. CASE UNCHANGED mimeVars
    BY <2>3 DEF mimeVars, mail
  <2> QED
    BY <2>1, <2>2, <2>3 DEF MimeNext
<1>2. ASSUME Usual
      PROVE  OffInv(off') /\ Parsed(parts', bot', p')
  <2>1. IsTree(body) /\ IsMail /\ OffInv(off) /\ Parsed(parts, bot, p)
    BY <1>2, ReadyIs DEF ParseInv
  <2>2. CASE OpensMultipart
    <3>1. off = FALSE
      BY <2>1, <2>2 DEF OpensMultipart, OffInv
    <3> QED
      BY <1>2, <2>1, <2>2, <3>1, OpensKeeps DEF OffInv
  <2>3. CASE ClosesMultipart
    <3>1. off = FALSE
      BY <2>1, <2>3 DEF ClosesMultipart, OffInv
    <3> QED
      BY <1>2, <2>1, <2>3, <3>1, ClosesKeeps DEF OffInv
  <2>4. CASE TakesPart
    <3>1. off = FALSE
      BY <2>1, <2>4 DEF TakesPart, OffInv
    <3> QED
      BY <1>2, <2>1, <2>4, <3>1, TakesKeeps DEF OffInv
  <2>5. CASE ShowsPart
    <3>1. off = FALSE
      BY <2>1, <2>5 DEF ShowsPart, OffInv
    <3> QED
      BY <1>2, <2>1, <2>5, <3>1, ShowsKeeps
  <2>6. CASE unmime_header
    <3>1. parts' = parts /\ bot' = bot /\ p' = p /\ off' = off
      BY <2>6 DEF unmime_header, DecodesWord, CopiesRest, parser
    <3> QED
      BY <2>1, <3>1
  <2>7. CASE UNCHANGED mimeVars
    <3>1. parts' = parts /\ bot' = bot /\ p' = p /\ off' = off
      BY <2>7 DEF mimeVars, parser
    <3> QED
      BY <2>1, <3>1
  <2> QED
    BY <2>2, <2>3, <2>4, <2>5, <2>6, <2>7 DEF MimeNext, ParseMailBody
<1>3. body' \in Bodies /\ eml' = MailLines(body)'
  <2>1. MailLines(body)' = MailLines(body)
    BY <1>1 DEF MailLines, Multi, PartLines, InnerLines, LeafLines, Line, Empty, IsInner
  <2> QED
    BY <1>1, <2>1 DEF ParseInv
<1>4. Usual' => OffInv(off)' /\ Parsed(parts, bot, p)'
  BY <1>1, <1>2, ParsedSame
<1> QED
  BY <1>3, <1>4 DEF ParseInv

\* At the end of the list the invariant says what LeavesShown does.
LEMMA ParseInvShows ==
  ASSUME ParseInv
  PROVE  LeavesShown
<1>1. ASSUME Usual
      PROVE  /\ off => \E m \in Inner : StopsAt(m)
             /\ bot > Len(parts) =>
                  /\ \A t \in Leaves :
                       Cardinality({i \in DOMAIN parts : IsLeaf(parts[i], t)}) = 1
                  /\ Len(parts) = 1 + Cardinality(Leaves) + 2 * Cardinality(Inner)
  <2>1. IsTree(body) /\ IsMail /\ OffInv(off) /\ Parsed(parts, bot, p)
    BY <1>1, ReadyIs DEF ParseInv
  <2>2. ASSUME bot > Len(parts)
        PROVE  /\ \A t \in Leaves :
                    Cardinality({i \in DOMAIN parts : IsLeaf(parts[i], t)}) = 1
               /\ Len(parts) = 1 + Cardinality(Leaves) + 2 * Cardinality(Inner)
    BY <1>1, <2>1, <2>2, LeafShownOnce, CountParts
  <2> QED
    BY <2>1, <2>2 DEF OffInv
<1> QED
  BY <1>1 DEF LeavesShown

\* For mails of any number of parts and of multiparts in them, whose parts have a header
\* and whose boundaries do not begin with each other: when ParseMailBody comes to the end of
\* its list, every part of the mail is in it once, with its type and all of its text, and
\* beside them are the mail and two parts for each inner multipart; and nothing stops it on
\* the way but a text of less than no length, behind a boundary that is declared in the last
\* line of a header (main.c:1791-1865, 1727-1729).
THEOREM LeavesShownAlways == MimeSpec => []LeavesShown
<1>1. MimeInit => ParseInv
  BY ParseInvInit
<1>2. ParseInv /\ [MimeNext]_mimeVars => ParseInv'
  BY ParseInvNext
<1>3. ParseInv => LeavesShown
  BY ParseInvShows
<1> QED
  BY <1>1, <1>2, <1>3, PTL DEF MimeSpec
=============================================================================
