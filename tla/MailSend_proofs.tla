--------------------------- MODULE MailSend_proofs ---------------------------
(***************************************************************************)
(* The stream of commands arrives as it was written: MailSend implements   *)
(* ByteStream, for every size of a chunk and every length of a command.    *)
(***************************************************************************)
EXTENDS MailSend, SequenceTheorems, TLAPS

USE DEF Asked, Shuts

\* The jobs after Append and Tail: no job appears from nowhere.
LEMMA JobAdded ==
  ASSUME NEW S, NEW q \in Seq(S), NEW e \in S
  PROVE  /\ Append(q, e) \in Seq(S) /\ Len(Append(q, e)) = Len(q) + 1
         /\ \A i \in 1..Len(q) : Append(q, e)[i] = q[i]
         /\ Append(q, e)[Len(q) + 1] = e
  OBVIOUS

LEMMA JobTaken ==
  ASSUME NEW S, NEW q \in Seq(S), q # <<>>
  PROVE  /\ Tail(q) \in Seq(S) /\ Len(Tail(q)) = Len(q) - 1
         /\ Len(q) \in Nat \ {0} /\ Head(q) = q[1]
         /\ \A i \in 1..(Len(q) - 1) : Tail(q)[i] = q[i + 1]
  OBVIOUS

\* The bytes of a new command, and of a part of the queue.
LEMMA BytesType ==
  ASSUME NEW from \in Nat, NEW to \in Nat, from <= to + 1
  PROVE  /\ Bytes(from, to) \in Seq(Nat)
         /\ Len(Bytes(from, to)) = to - from + 1
         /\ \A k \in 1..(to - from + 1) : Bytes(from, to)[k] = from + k - 1
  BY DEF Bytes

LEMMA Joined ==
  ASSUME NEW s \in Seq(Nat), NEW t \in Seq(Nat)
  PROVE  /\ s \o t \in Seq(Nat) /\ Len(s \o t) = Len(s) + Len(t)
         /\ \A k \in 1..Len(s) : (s \o t)[k] = s[k]
         /\ \A k \in 1..Len(t) : (s \o t)[Len(s) + k] = t[k]
  OBVIOUS

LEMMA Cut ==
  ASSUME NEW s \in Seq(Nat), NEW m \in 1..(Len(s) + 1), NEW n \in (m - 1)..Len(s)
  PROVE  /\ SubSeq(s, m, n) \in Seq(Nat) /\ Len(SubSeq(s, m, n)) = n - m + 1
         /\ \A k \in 1..(n - m + 1) : SubSeq(s, m, n)[k] = s[m + k - 1]
  OBVIOUS

-----------------------------------------------------------------------------
(* The inductive invariant.  One lemma for each group of actions.          *)

Names == {"send_str", "ClearSendQ", "end_socket"}

\* What a job that is taken, or one that is added, leaves of the others.
LEMMA TakenJobs ==
  ASSUME jobs \in Seq(Names), NEW job, Starts(job)
  PROVE  /\ jobs' \in Seq(Names) /\ Len(jobs') \in Nat
         /\ hpc = "idle" /\ jobs[1] = job /\ 1 \in 1..Len(jobs)
         /\ Len(jobs) = Len(jobs') + 1
         /\ \A i \in 1..Len(jobs') : i + 1 \in 1..Len(jobs) /\ jobs'[i] = jobs[i + 1]
         /\ \A other : Asked(other)' => Asked(other)
         /\ Asked(job)
BY JobTaken DEF Starts, Names

LEMMA AddedJobs ==
  ASSUME jobs \in Seq(Names), NEW job \in Names, jobs' = Append(jobs, job)
  PROVE  /\ jobs' \in Seq(Names) /\ Len(jobs) \in Nat
         /\ Len(jobs') = Len(jobs) + 1 /\ jobs'[Len(jobs) + 1] = job
         /\ \A i \in 1..Len(jobs) : jobs'[i] = jobs[i]
         /\ \A other : Asked(other)' => Asked(other) \/ other = job
BY JobAdded DEF Names

LEMMA ConnectStep == StreamInv /\ create_connect => StreamInv'
<1> SUFFICES ASSUME StreamInv, create_connect PROVE StreamInv'
  OBVIOUS
<1>t. TypeOK
  BY DEF StreamInv
<1>1. TypeOK'
  <2>1. sendq_p' \in Seq(Nat) /\ wire' \in Seq(Nat) /\ jobs' \in Seq(Names)
    BY <1>t DEF TypeOK, create_connect, Names
  <2>2. queued' \in BOOLEAN /\ hpc' \in {"idle", "send"} /\ sock' \in {"closed", "up", "shut"}
    BY <1>t, Zenon DEF TypeOK, create_connect
  <2>3. owed' \in Nat /\ written' \in Nat /\ conns' \in Nat
    BY <1>t DEF TypeOK, create_connect
  <2> QED BY <2>1, <2>2, <2>3 DEF TypeOK, Names
<1>2. QueueInv'
  BY <1>t DEF QueueInv, TypeOK, create_connect
<1>3. RoomInv'
  BY <1>t DEF RoomInv, TypeOK, create_connect
<1> QED BY <1>1, <1>2, <1>3 DEF StreamInv

LEMMA CommandStep == StreamInv /\ send_str => StreamInv'
<1> SUFFICES ASSUME StreamInv, send_str PROVE StreamInv'
  OBVIOUS
<1>t. TypeOK /\ QueueInv /\ RoomInv
  BY DEF StreamInv
<1>1. PICK n \in 1..(MaxBytes - written) :
        /\ sendq_p' = sendq_p \o Bytes(written + 1, written + n)
        /\ written' = written + n
  BY DEF send_str
<1> DEFINE new == Bytes(written + 1, written + n)
<1>2. n \in Nat /\ n >= 1 /\ written \in Nat /\ sendq_p \in Seq(Nat)
  BY <1>t, BoundAssumption DEF TypeOK
<1>3. /\ new \in Seq(Nat) /\ Len(new) = n
      /\ \A k \in 1..n : new[k] = written + k
  <2>1. written + 1 \in Nat /\ written + n \in Nat /\ written + 1 <= written + n + 1
    BY <1>2
  <2>2. /\ new \in Seq(Nat)
        /\ Len(new) = (written + n) - (written + 1) + 1
        /\ \A k \in 1..((written + n) - (written + 1) + 1) : new[k] = written + 1 + k - 1
    BY <2>1, BytesType
  <2> HIDE DEF new
  <2> QED BY <1>2, <2>2
<1> HIDE DEF new
<1>4. /\ sendq_p' \in Seq(Nat) /\ Len(sendq_p') = Len(sendq_p) + n
      /\ \A k \in 1..Len(sendq_p) : sendq_p'[k] = sendq_p[k]
      /\ \A k \in 1..n : sendq_p'[Len(sendq_p) + k] = written + k
  <2>1. sendq_p' = sendq_p \o new
    BY <1>1 DEF new
  <2>2. /\ sendq_p \o new \in Seq(Nat) /\ Len(sendq_p \o new) = Len(sendq_p) + Len(new)
        /\ \A k \in 1..Len(sendq_p) : (sendq_p \o new)[k] = sendq_p[k]
        /\ \A k \in 1..Len(new) : (sendq_p \o new)[Len(sendq_p) + k] = new[k]
    BY <1>2, <1>3, Joined
  <2> QED BY <1>3, <2>1, <2>2
<1>5. TypeOK'
  BY <1>1, <1>2, <1>4, <1>t DEF TypeOK, send_str
<1>6. QueueInv'
  <2>1. ASSUME sock = "up", NEW k \in 1..Len(sendq_p')
        PROVE  sendq_p'[k] = Len(wire) + k
    <3>0. Len(wire) \in Nat /\ Len(sendq_p) \in Nat /\ Len(wire) + Len(sendq_p) = written
      BY <1>t, <2>1 DEF TypeOK, QueueInv
    <3>1. CASE k \in 1..Len(sendq_p)
      BY <1>4, <1>t, <2>1, <3>1 DEF QueueInv
    <3>2. CASE k \notin 1..Len(sendq_p)
      <4>1. k - Len(sendq_p) \in 1..n
        BY <1>2, <1>4, <3>0, <3>2
      <4>2. sendq_p'[Len(sendq_p) + (k - Len(sendq_p))] = written + (k - Len(sendq_p))
        BY <1>4, <4>1
      <4> QED BY <3>0, <4>2
    <3> QED BY <3>1, <3>2
  <2>2. Len(wire) \in Nat /\ Len(sendq_p) \in Nat
    BY <1>t DEF TypeOK
  <2>3. Len(sendq_p') = Len(sendq_p) + n /\ written' = written + n
    BY <1>1, <1>4
  <2>4. jobs' = jobs /\ sock' = sock /\ wire' = wire /\ queued' = TRUE
    BY DEF send_str
  <2>5. \A k \in 1..Len(wire') : wire'[k] = k
    BY <1>t, <2>4 DEF QueueInv
  <2>6. sock' = "up" => Len(wire') + Len(sendq_p') = written' /\ ~Asked("ClearSendQ")'
    BY <1>2, <1>t, <2>2, <2>3, <2>4 DEF QueueInv
  <2>7. sock' = "up" => \A k \in 1..Len(sendq_p') : sendq_p'[k] = Len(wire') + k
    BY <2>1, <2>4
  <2> QED BY <2>4, <2>5, <2>6, <2>7 DEF QueueInv
<1>7. RoomInv'
  BY <1>t, <1>1 DEF RoomInv, QueueInv, TypeOK, send_str
<1> QED BY <1>5, <1>6, <1>7 DEF StreamInv

\* Handing bytes to the stack.
LEMMA TakeStep ==
  ASSUME StreamInv, NEW j \in 1..Amount, Takes(j)
  PROVE  /\ sendq_p' \in Seq(Nat) /\ wire' \in Seq(Nat)
         /\ queued /\ queued' = TRUE
         /\ Len(wire') = Len(wire) + j
         /\ Len(wire') + Len(sendq_p') = written
         /\ j <= Len(sendq_p) /\ j >= 1 /\ j \in Nat /\ Len(sendq_p) \in Nat
         /\ \A k \in 1..Len(wire') : wire'[k] = k
         /\ \A k \in 1..Len(sendq_p') : sendq_p'[k] = Len(wire') + k
<1>t. TypeOK /\ QueueInv /\ sock = "up" /\ hpc = "send"
  BY DEF StreamInv, Takes
<1>1. Len(sendq_p) \in Nat /\ Len(wire) \in Nat /\ j \in Nat /\ 1 <= j /\ j <= Len(sendq_p)
  BY <1>t, ChunkAssumption DEF TypeOK, Amount
<1>2. sendq_p \in Seq(Nat) /\ wire \in Seq(Nat)
  BY <1>t DEF TypeOK
<1> DEFINE out == SubSeq(sendq_p, 1, j)
           left == SubSeq(sendq_p, j + 1, Len(sendq_p))
<1>3. /\ out \in Seq(Nat) /\ Len(out) = j
      /\ \A k \in 1..j : out[k] = sendq_p[k]
  <2>1. 1 \in 1..(Len(sendq_p) + 1) /\ j \in (1 - 1)..Len(sendq_p) /\ j - 1 + 1 = j
    BY <1>1
  <2>2. /\ out \in Seq(Nat) /\ Len(out) = j - 1 + 1
        /\ \A k \in 1..(j - 1 + 1) : out[k] = sendq_p[1 + k - 1]
    BY <1>2, <2>1, Cut
  <2> HIDE DEF out
  <2> QED BY <1>1, <2>1, <2>2
<1>4. /\ left \in Seq(Nat) /\ Len(left) = Len(sendq_p) - j
      /\ \A k \in 1..(Len(sendq_p) - j) : left[k] = sendq_p[j + k]
  <2>1. j + 1 \in 1..(Len(sendq_p) + 1) /\ Len(sendq_p) \in ((j + 1) - 1)..Len(sendq_p)
    BY <1>1
  <2>2. /\ left \in Seq(Nat) /\ Len(left) = Len(sendq_p) - (j + 1) + 1
        /\ \A k \in 1..(Len(sendq_p) - (j + 1) + 1) : left[k] = sendq_p[(j + 1) + k - 1]
    BY <1>2, <2>1, Cut
  <2> HIDE DEF left
  <2>3. Len(sendq_p) - (j + 1) + 1 = Len(sendq_p) - j
    BY <1>1
  <2>4. \A k \in 1..(Len(sendq_p) - j) : (j + 1) + k - 1 = j + k
    BY <1>1
  <2> QED BY <2>2, <2>3, <2>4
<1>5. wire' = wire \o out /\ sendq_p' = left /\ queued' = queued
  BY DEF Takes
<1> HIDE DEF out, left
<1>6. /\ wire' \in Seq(Nat) /\ Len(wire') = Len(wire) + j
      /\ \A k \in 1..Len(wire) : wire'[k] = wire[k]
      /\ \A k \in 1..j : wire'[Len(wire) + k] = out[k]
  BY <1>2, <1>3, <1>5, Joined
<1>7. /\ Len(wire) + Len(sendq_p) = written
      /\ \A k \in 1..Len(sendq_p) : sendq_p[k] = Len(wire) + k
      /\ \A k \in 1..Len(wire) : wire[k] = k
  BY <1>t DEF QueueInv
<1>8. queued /\ queued' = TRUE
  BY <1>t, <1>5, Zenon DEF QueueInv, TypeOK
<1>9. ASSUME NEW k \in 1..Len(wire') PROVE wire'[k] = k
  <2>1. CASE k \in 1..Len(wire)
    BY <1>6, <1>7, <2>1
  <2>2. CASE k \notin 1..Len(wire)
    <3>1. k - Len(wire) \in 1..j /\ Len(wire) + (k - Len(wire)) = k
      BY <1>1, <1>6, <2>2
    <3>2. wire'[Len(wire) + (k - Len(wire))] = out[k - Len(wire)]
      BY <1>6, <3>1
    <3>3. out[k - Len(wire)] = sendq_p[k - Len(wire)] /\ k - Len(wire) \in 1..Len(sendq_p)
      BY <1>1, <1>3, <3>1
    <3>4. sendq_p[k - Len(wire)] = Len(wire) + (k - Len(wire))
      BY <1>7, <3>3
    <3> QED BY <3>1, <3>2, <3>3, <3>4
  <2> QED BY <2>1, <2>2
<1>10. ASSUME NEW k \in 1..Len(sendq_p') PROVE sendq_p'[k] = Len(wire') + k
  <2>1. k \in 1..(Len(sendq_p) - j) /\ j + k \in 1..Len(sendq_p)
    BY <1>1, <1>4, <1>5
  <2>2. sendq_p'[k] = sendq_p[j + k]
    BY <1>4, <1>5, <2>1
  <2>3. sendq_p[j + k] = Len(wire) + (j + k)
    BY <1>7, <2>1
  <2> QED BY <1>1, <1>6, <2>1, <2>2, <2>3
<1>11. Len(wire') + Len(sendq_p') = written
  <2>1. Len(wire') = Len(wire) + j /\ Len(sendq_p') = Len(sendq_p) - j
    BY <1>4, <1>5, <1>6
  <2>2. (Len(wire) + j) + (Len(sendq_p) - j) = Len(wire) + Len(sendq_p)
    BY <1>1
  <2> QED BY <1>7, <2>1, <2>2
<1> QED BY <1>1, <1>4, <1>5, <1>6, <1>8, <1>9, <1>10, <1>11

LEMMA SendingStep == StreamInv /\ Sending => StreamInv'
<1> SUFFICES ASSUME StreamInv, Sending PROVE StreamInv'
  OBVIOUS
<1>t. TypeOK /\ QueueInv /\ RoomInv
  BY DEF StreamInv
<1>l. Len(sendq_p) \in Nat /\ Len(wire) \in Nat /\ Len(jobs) \in Nat
  BY <1>t DEF TypeOK
<1>a. \A j \in 1..(Amount - 1) : j \in 1..Amount
  BY <1>l, ChunkAssumption DEF Amount
<1>1. ASSUME NEW j \in 1..Amount, Takes(j),
             (hpc' = hpc /\ owed' = owed) \/ (hpc' = "idle" /\ owed' = owed + 1)
      PROVE  StreamInv'
  <2>1. sock = "up" /\ hpc = "send" /\ sock' = sock /\ jobs' = jobs
        /\ written' = written /\ conns' = conns
    BY <1>1 DEF Takes
  <2>2. owed = 0 /\ ~Asked("send_str")
    BY <1>t, <2>1 DEF RoomInv, TypeOK
  <2>3. TypeOK'
    <3>1. sendq_p' \in Seq(Nat) /\ wire' \in Seq(Nat) /\ queued' \in BOOLEAN
      BY <1>1, TakeStep
    <3>2. owed' \in Nat
      BY <1>1, <1>t DEF TypeOK
    <3>3. hpc' \in {"idle", "send"}
      BY <1>1, <1>t DEF TypeOK
    <3> QED BY <1>t, <2>1, <3>1, <3>2, <3>3 DEF TypeOK
  <2>4. QueueInv'
    BY <1>1, <1>t, <2>1, TakeStep DEF QueueInv
  <2>5. RoomInv'
    <3>1. queued' = TRUE
      BY <1>1, TakeStep
    <3>2. ~Asked("send_str")'
      BY <2>1, <2>2
    <3>3. owed' = 0 \/ (owed' = 1 /\ hpc' = "idle")
      BY <1>1, <2>2
    <3> QED BY <3>1, <3>2, <3>3 DEF RoomInv
  <2> QED BY <2>3, <2>4, <2>5 DEF StreamInv
<1>2. CASE TakesAll
  <2>1. Amount \in 1..Amount
    BY <1>2, <1>l, ChunkAssumption DEF TakesAll, Amount
  <2> QED BY <1>1, <1>2, <2>1 DEF TakesAll
<1>3. CASE TakesSome
  BY <1>1, <1>3, <1>a DEF TakesSome
<1>4. CASE Delayed
  <2>1. owed = 0 /\ ~Asked("send_str") /\ queued /\ hpc = "send"
    BY <1>t, <1>4 DEF RoomInv, QueueInv, TypeOK, Delayed
  <2>2. TypeOK'
    BY <1>4, <1>t DEF TypeOK, Delayed
  <2>3. QueueInv'
    BY <1>4, <1>t, <2>1 DEF QueueInv, Delayed
  <2>4. RoomInv'
    BY <1>4, <1>t, <2>1 DEF RoomInv, Delayed
  <2> QED BY <2>2, <2>3, <2>4 DEF StreamInv
<1>5. CASE SendFails
  <2>1. sock' # "up" /\ sock' \in {"closed", "up", "shut"}
    BY <1>5, <1>t DEF SendFails, TypeOK
  <2>2. TypeOK'
    BY <1>5, <1>t, <2>1 DEF TypeOK, SendFails
  <2>3. QueueInv'
    BY <1>5, <1>t, <2>1 DEF QueueInv, SendFails
  <2>4. RoomInv'
    BY <2>1 DEF RoomInv
  <2> QED BY <2>2, <2>3, <2>4 DEF StreamInv
<1>6. CASE Finished
  <2>1. Len(sendq_p) = 0 /\ Len(<<>>) = 0
    BY <1>6, <1>l, ChunkAssumption DEF Finished, Amount
  <2>2. hpc = "send" /\ hpc' = "idle" /\ sendq_p' = <<>> /\ queued' = FALSE
        /\ jobs' = jobs /\ sock' = sock /\ owed' = owed /\ written' = written
        /\ wire' = wire /\ conns' = conns
    BY <1>6 DEF Finished
  <2>3. TypeOK'
    <3>1. sendq_p' \in Seq(Nat)
      BY <2>2
    <3>2. hpc' \in {"idle", "send"} /\ queued' \in BOOLEAN
      BY <2>2
    <3> QED BY <1>t, <2>2, <3>1, <3>2 DEF TypeOK
  <2>4. QueueInv'
    BY <1>l, <1>t, <2>1, <2>2 DEF QueueInv
  <2>5. RoomInv'
    BY <1>t, <2>2 DEF RoomInv, TypeOK
  <2> QED BY <2>3, <2>4, <2>5 DEF StreamInv
<1> QED BY <1>2, <1>3, <1>4, <1>5, <1>6 DEF Sending

LEMMA JobStep == StreamInv /\ (Job \/ end_connect) => StreamInv'
<1> SUFFICES ASSUME StreamInv, Job \/ end_connect PROVE StreamInv'
  OBVIOUS
<1>t. TypeOK /\ QueueInv /\ RoomInv /\ jobs \in Seq(Names)
  BY DEF StreamInv, TypeOK, Names
<1>1. CASE Resumes
  <2>1. Starts("send_str") /\ hpc' = "send" /\ sendq_p' = sendq_p /\ queued' = queued
        /\ sock' = sock /\ owed' = owed /\ written' = written /\ wire' = wire
        /\ conns' = conns
    BY <1>1 DEF Resumes
  <2>2. TypeOK'
    BY <1>t, <2>1, TakenJobs DEF TypeOK, Names
  <2>3. sock = "up" => queued /\ owed = 0 /\ ~Asked("send_str")'
    <3>1. SUFFICES ASSUME sock = "up", Asked("send_str")' PROVE FALSE
      BY <1>t, <2>1, TakenJobs DEF RoomInv, TypeOK
    <3>2. PICK i \in 1..Len(jobs') : jobs'[i] = "send_str"
      BY <3>1
    <3>3. i + 1 \in 1..Len(jobs) /\ jobs[i + 1] = "send_str" /\ jobs[1] = "send_str"
          /\ 1 \in 1..Len(jobs)
      BY <1>t, <2>1, <3>2, TakenJobs
    <3>4. i + 1 = 1
      BY <1>t, <3>1, <3>3 DEF RoomInv
    <3> QED BY <3>2, <3>4
  <2>4. QueueInv'
    <3>1. sock' = "up" => queued' /\ ~Asked("ClearSendQ")'
      BY <1>t, <2>1, <2>3, TakenJobs DEF QueueInv
    <3> QED BY <1>t, <2>1, <3>1 DEF QueueInv
  <2>5. RoomInv'
    BY <2>1, <2>3 DEF RoomInv
  <2> QED BY <2>2, <2>4, <2>5 DEF StreamInv
<1>2. CASE ClearSendQ
  <2>1. Starts("ClearSendQ") /\ sendq_p' = <<>> /\ queued' = FALSE /\ hpc' = hpc
        /\ sock' = sock /\ owed' = owed /\ written' = written /\ wire' = wire
        /\ conns' = conns
    BY <1>2 DEF ClearSendQ
  <2>2. sock' # "up" /\ hpc' = "idle"
    BY <1>t, <2>1, TakenJobs DEF QueueInv
  <2>3. TypeOK'
    <3>1. sendq_p' \in Seq(Nat)
      BY <2>1
    <3>2. queued' \in BOOLEAN /\ jobs' \in Seq(Names)
      BY <1>t, <2>1, TakenJobs
    <3> QED BY <1>t, <2>1, <3>1, <3>2 DEF TypeOK, Names
  <2>4. QueueInv'
    BY <1>t, <2>1, <2>2 DEF QueueInv
  <2>5. RoomInv'
    BY <2>2 DEF RoomInv
  <2> QED BY <2>3, <2>4, <2>5 DEF StreamInv
<1>3. CASE end_socket
  <2>1. Starts("end_socket") /\ sock' # "up" /\ sock' \in {"closed", "shut"}
    BY <1>3, <1>t DEF end_socket, TypeOK
  <2>2. TypeOK'
    BY <1>3, <1>t, <2>1, TakenJobs DEF TypeOK, end_socket, Names
  <2>3. QueueInv'
    BY <1>3, <1>t, <2>1 DEF QueueInv, end_socket
  <2>4. RoomInv'
    BY <2>1 DEF RoomInv
  <2> QED BY <2>2, <2>3, <2>4 DEF StreamInv
<1>4. CASE end_connect
  <2>1. sock' # "up" /\ sock' \in {"closed", "shut"}
    BY <1>4, <1>t DEF end_connect, TypeOK
  <2>2. TypeOK'
    BY <1>4, <1>t, <2>1 DEF TypeOK, end_connect
  <2>3. QueueInv'
    BY <1>4, <1>t, <2>1 DEF QueueInv, end_connect
  <2>4. RoomInv'
    BY <2>1 DEF RoomInv
  <2> QED BY <2>2, <2>3, <2>4 DEF StreamInv
<1> QED BY <1>1, <1>2, <1>3, <1>4 DEF Job

LEMMA MessageStep ==
  StreamInv /\ (ENIP_BUFFER_FREE \/ ENIP_SOCK_REMOTE_CLOSED \/ ENIP_SOCK_CLOSED)
    => StreamInv'
<1> SUFFICES ASSUME StreamInv,
                    ENIP_BUFFER_FREE \/ ENIP_SOCK_REMOTE_CLOSED \/ ENIP_SOCK_CLOSED
             PROVE  StreamInv'
  OBVIOUS
<1>t. TypeOK /\ QueueInv /\ RoomInv /\ jobs \in Seq(Names) /\ Len(jobs) \in Nat
  BY DEF StreamInv, TypeOK, Names
<1>1. CASE ENIP_BUFFER_FREE
  <2> DEFINE job == IF queued THEN "send_str" ELSE "end_socket"
  <2>1. /\ owed > 0 /\ owed' = owed - 1 /\ sock # "closed" /\ job \in Names
        /\ jobs' = Append(jobs, job)
        /\ sendq_p' = sendq_p /\ queued' = queued /\ hpc' = hpc
        /\ sock' = sock /\ written' = written /\ wire' = wire /\ conns' = conns
    BY <1>1 DEF ENIP_BUFFER_FREE, Names
  <2>2. sock = "up" => owed = 1 /\ ~Asked("send_str") /\ queued /\ hpc = "idle"
    BY <1>t, <2>1 DEF RoomInv, TypeOK
  <2> HIDE DEF job
  <2>3. /\ jobs' \in Seq(Names) /\ Len(jobs') = Len(jobs) + 1
        /\ \A i \in 1..Len(jobs) : jobs'[i] = jobs[i]
        /\ \A other : Asked(other)' => Asked(other) \/ other = job
    BY <1>t, <2>1, AddedJobs
  <2>4. TypeOK'
    <3>1. owed' \in Nat
      BY <1>t, <2>1 DEF TypeOK
    <3> QED BY <1>t, <2>1, <2>3, <3>1 DEF TypeOK, Names
  <2>5. QueueInv'
    <3>1. ~Asked("ClearSendQ") => ~Asked("ClearSendQ")'
      BY <2>3 DEF job
    <3> QED BY <1>t, <2>1, <3>1 DEF QueueInv
  <2>6. RoomInv'
    <3>1. SUFFICES ASSUME sock = "up" PROVE RoomInv'
      BY <2>1 DEF RoomInv
    <3>2. owed' = 0 /\ queued' /\ hpc' = "idle"
      BY <2>1, <2>2, <3>1
    <3>3. \A i \in 1..Len(jobs') : jobs'[i] = "send_str" => i = Len(jobs')
      BY <1>t, <2>2, <2>3, <3>1
    <3> QED BY <3>2, <3>3 DEF RoomInv
  <2> QED BY <2>4, <2>5, <2>6 DEF StreamInv
<1>2. CASE ENIP_SOCK_REMOTE_CLOSED
  <2>1. /\ jobs' = Append(jobs, "end_socket") /\ "end_socket" \in Names
        /\ sendq_p' = sendq_p /\ queued' = queued /\ hpc' = hpc /\ owed' = owed
        /\ sock' = sock /\ written' = written /\ wire' = wire /\ conns' = conns
    BY <1>2 DEF ENIP_SOCK_REMOTE_CLOSED, Names
  <2>2. /\ jobs' \in Seq(Names) /\ Len(jobs') = Len(jobs) + 1
        /\ \A i \in 1..Len(jobs) : jobs'[i] = jobs[i]
        /\ jobs'[Len(jobs) + 1] = "end_socket"
        /\ \A other : Asked(other)' => Asked(other) \/ other = "end_socket"
    BY <1>t, <2>1, AddedJobs
  <2>3. TypeOK'
    BY <1>t, <2>1, <2>2 DEF TypeOK, Names
  <2>4. QueueInv'
    BY <1>t, <2>1, <2>2 DEF QueueInv
  <2>5. RoomInv'
    <3>1. \A i \in 1..Len(jobs') : jobs'[i] = "send_str" =>
             i \in 1..Len(jobs) /\ jobs[i] = "send_str"
      BY <1>t, <2>2
    <3>2. ~Asked("send_str") => ~Asked("send_str")'
      BY <2>2
    <3>3. Asked("send_str")' => Asked("send_str")
      BY <2>2
    <3> QED BY <1>t, <2>1, <3>1, <3>2, <3>3 DEF RoomInv
  <2> QED BY <2>3, <2>4, <2>5 DEF StreamInv
<1>3. CASE ENIP_SOCK_CLOSED
  <2>1. /\ jobs' = Append(jobs, "ClearSendQ") /\ "ClearSendQ" \in Names
        /\ sendq_p' = sendq_p /\ queued' = queued /\ hpc' = hpc /\ owed' = 0
        /\ sock' = "closed" /\ written' = written /\ wire' = wire /\ conns' = conns
    BY <1>3 DEF ENIP_SOCK_CLOSED, Names
  <2>2. jobs' \in Seq(Names)
    BY <1>t, <2>1, AddedJobs
  <2>3. TypeOK'
    BY <1>t, <2>1, <2>2 DEF TypeOK, Names
  <2>4. QueueInv'
    BY <1>t, <2>1 DEF QueueInv
  <2>5. RoomInv'
    BY <2>1 DEF RoomInv
  <2> QED BY <2>3, <2>4, <2>5 DEF StreamInv
<1> QED BY <1>1, <1>2, <1>3

LEMMA StreamInit == Init => StreamInv
<1> SUFFICES ASSUME Init PROVE StreamInv
  OBVIOUS
<1>1. sendq_p \in Seq(Nat) /\ wire \in Seq(Nat) /\ jobs \in Seq(Names)
  BY DEF Init
<1>2. TypeOK
  BY <1>1 DEF Init, TypeOK, Names
<1>3. QueueInv /\ RoomInv
  BY DEF Init, QueueInv, RoomInv
<1> QED BY <1>2, <1>3 DEF StreamInv

LEMMA StreamStep == StreamInv /\ [Next]_vars => StreamInv'
<1> SUFFICES ASSUME StreamInv, [Next]_vars PROVE StreamInv'
  OBVIOUS
<1>1. CASE UNCHANGED vars
  BY <1>1 DEF StreamInv, TypeOK, QueueInv, RoomInv, vars
<1>2. CASE Next
  BY <1>2, ConnectStep, CommandStep, SendingStep, JobStep, MessageStep DEF Next
<1> QED BY <1>1, <1>2

-----------------------------------------------------------------------------
\* The queue and the bytes the stack has taken make up the stream, and a
\* report of room is on its way only while there is a queue: in every
\* reachable state of send_str and its callers (main.c:237-300).
THEOREM StreamInvariant == Spec => []StreamInv
<1>1. StreamInv /\ [Next]_vars => StreamInv'
  BY StreamStep
<1> QED BY StreamInit, <1>1, PTL DEF Spec

\* ENIP_BUFFER_FREE never finds sendq_p = NULL on a living connection
\* (main.c:959-987), for any size of chunk and any commands.
THEOREM RoomIsWaitedForAlways == Spec => []RoomIsWaitedFor
<1>1. StreamInv => RoomIsWaitedFor
  BY DEF StreamInv, RoomInv, TypeOK, RoomIsWaitedFor
<1> QED BY StreamInvariant, <1>1, PTL

-----------------------------------------------------------------------------
(* The refinement.                                                         *)

LEMMA StreamStarts == Init => Stream!Init
BY DEF Init, Stream!Init

LEMMA StreamMoves == StreamInv /\ [Next]_vars => [Stream!Next]_(Stream!vars)
<1> SUFFICES ASSUME StreamInv, [Next]_vars PROVE [Stream!Next]_(Stream!vars)
  OBVIOUS
<1>t. TypeOK /\ QueueInv
  BY DEF StreamInv
<1>l. written \in Nat /\ wire \in Seq(Nat) /\ Len(wire) \in Nat /\ Len(sendq_p) \in Nat
  BY <1>t DEF TypeOK
<1>1. ASSUME NEW j \in 1..Amount, Takes(j) PROVE Stream!Transmit
  <2>1. sock = "up" /\ sock' = sock /\ written' = written
    BY <1>1 DEF Takes
  <2>2. /\ wire' \in Seq(Nat) /\ Len(wire') = Len(wire) + j /\ j \in Nat
        /\ j >= 1 /\ j <= Len(sendq_p)
        /\ \A k \in 1..Len(wire') : wire'[k] = k
    BY <1>1, TakeStep
  <2>3. j \in 1..(written - Len(wire))
    <3>1. Len(wire) + Len(sendq_p) = written
      BY <1>t, <2>1 DEF QueueInv
    <3> QED BY <1>l, <2>2, <3>1
  <2>4. wire' = [k \in 1..(Len(wire) + j) |-> k]
    <3>1. wire' \in [1..Len(wire') -> Nat]
      BY <2>2
    <3>2. wire' = [k \in 1..Len(wire') |-> wire'[k]]
      BY <3>1
    <3> QED BY <2>2, <3>2
  <2> QED BY <2>1, <2>3, <2>4 DEF Stream!Transmit
<1>a. \A j \in 1..(Amount - 1) : j \in 1..Amount
  BY <1>l, ChunkAssumption DEF Amount
<1>2. CASE create_connect
  BY <1>2 DEF create_connect, Stream!Next, Stream!Connect
<1>3. CASE send_str
  BY <1>3, <1>l, BoundAssumption DEF send_str, Stream!Next, Stream!Write
<1>4. CASE Sending
  <2>1. CASE TakesAll
    <3>1. Amount \in 1..Amount
      BY <2>1, <1>l, ChunkAssumption DEF TakesAll, Amount
    <3> QED BY <1>1, <2>1, <3>1 DEF TakesAll, Stream!Next
  <2>2. CASE TakesSome
    BY <1>1, <1>a, <2>2 DEF TakesSome, Stream!Next
  <2>3. CASE Delayed \/ Finished
    BY <2>3 DEF Delayed, Finished, Stream!vars
  <2>4. CASE SendFails
    BY <2>4, <1>t DEF SendFails, TypeOK, Stream!Next, Stream!End, Stream!vars
  <2> QED BY <1>4, <2>1, <2>2, <2>3, <2>4 DEF Sending
<1>5. CASE Resumes \/ ClearSendQ \/ ENIP_BUFFER_FREE \/ ENIP_SOCK_REMOTE_CLOSED
  BY <1>5 DEF Resumes, ClearSendQ, ENIP_BUFFER_FREE, ENIP_SOCK_REMOTE_CLOSED, Stream!vars
<1>6. CASE end_socket \/ end_connect \/ ENIP_SOCK_CLOSED
  BY <1>6, <1>t DEF end_socket, end_connect, ENIP_SOCK_CLOSED, TypeOK, Stream!Next,
     Stream!End
<1>7. CASE UNCHANGED vars
  BY <1>7 DEF vars, Stream!vars
<1> QED BY <1>2, <1>3, <1>4, <1>5, <1>6, <1>7 DEF Next, Job

\* send_str, with all its partial and delayed sends, implements the stream of
\* bytes that the dialogue relies on (main.c:244-300).
THEOREM StreamImplements == Spec => Implements
<1>1. StreamInv /\ [Next]_vars => [Stream!Next]_(Stream!vars)
  BY StreamMoves
<1> QED BY StreamStarts, StreamInvariant, <1>1, PTL DEF Spec, Implements, Stream!Spec
=============================================================================
