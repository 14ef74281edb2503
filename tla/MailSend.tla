------------------------------ MODULE MailSend ------------------------------
(***************************************************************************)
(* send_str of ARM/MailClient/MailDaemon: the queue of bytes between the   *)
(* commands of the dialogue and the TCP stack of the phone.                *)
(*                                                                         *)
(* HELPER runs send_str; it hands at most Chunk bytes at a time to the     *)
(* stack, which takes all of them, some, or none ("Send delayed...").      *)
(* When the stack has room again it sends ENIP_BUFFER_FREE, and the MMI    *)
(* process has HELPER go on.  A command given while there is a queue is    *)
(* only added to it.  A byte is its number in the stream.                  *)
(***************************************************************************)
EXTENDS Integers, Sequences

CONSTANTS
  Chunk,     \* 0x400: the most handed over by one call of send
  MaxBytes,  \* bound: bytes of a connection
  MaxConn    \* bound: connections

ASSUME ChunkAssumption == Chunk \in Nat \ {0}
ASSUME BoundAssumption == MaxBytes \in Nat /\ MaxConn \in Nat

VARIABLES
  sendq_p,  \* the bytes of the queue
  queued,   \* sendq_p # NULL
  hpc,      \* HELPER is between jobs, "idle", or inside send_str, "send"
  jobs,     \* jobs of HELPER that the MMI process has asked for
  sock,     \* "closed" (sock=-1), "up", "shut" by end_socket
  owed,     \* ENIP_BUFFER_FREE that are still to be read
  written,  \* bytes given to send_str since the connection was made
  wire,     \* the bytes the stack has taken
  conns     \* connections so far

vars == <<sendq_p, queued, hpc, jobs, sock, owed, written, wire, conns>>

Shuts == sock' = IF sock = "up" THEN "shut" ELSE sock

Bytes(from, to) == [k \in 1..(to - from + 1) |-> from + k - 1]

-----------------------------------------------------------------------------
(* HELPER.                                                                 *)

\* create_connect: the queue of an earlier connection is dropped.
create_connect ==
  /\ hpc = "idle" /\ jobs = <<>> /\ sock = "closed"
  /\ conns < MaxConn
  /\ sendq_p' = <<>> /\ queued' = FALSE
  /\ sock' = "up" /\ owed' = 0
  /\ written' = 0 /\ wire' = <<>> /\ conns' = conns + 1
  /\ UNCHANGED <<hpc, jobs>>

\* A command is sent at once, even when others are waiting for room.
SendsAtOnce ==
  /\ hpc = "idle"
  /\ \E n \in 1..(MaxBytes - written) :
       /\ sendq_p' = sendq_p \o Bytes(written + 1, written + n)
       /\ written' = written + n
  /\ queued' = TRUE
  /\ hpc' = "send"
  /\ UNCHANGED <<jobs, sock, owed, wire, conns>>

\* send_str with a command of n bytes.
send_str ==
  /\ hpc = "idle"
  /\ \E n \in 1..(MaxBytes - written) :
       /\ sendq_p' = sendq_p \o Bytes(written + 1, written + n)
       /\ written' = written + n
  /\ queued' = TRUE
  /\ hpc' = IF queued THEN "idle" ELSE "send"
  /\ UNCHANGED <<jobs, sock, owed, wire, conns>>

Amount == IF Len(sendq_p) > Chunk THEN Chunk ELSE Len(sendq_p)

\* What has been taken stays in the queue.
TakesAgain(j) ==
  /\ hpc = "send" /\ sock = "up"
  /\ wire' = wire \o SubSeq(sendq_p, 1, j)
  /\ sendq_p' = IF j < Amount THEN sendq_p ELSE SubSeq(sendq_p, j + 1, Len(sendq_p))
  /\ UNCHANGED <<queued, jobs, sock, written, conns>>

\* One call of send: j of the i bytes are taken, and leave the queue.
Takes(j) ==
  /\ hpc = "send" /\ sock = "up"
  /\ wire' = wire \o SubSeq(sendq_p, 1, j)
  /\ sendq_p' = SubSeq(sendq_p, j + 1, Len(sendq_p))
  /\ UNCHANGED <<queued, jobs, sock, written, conns>>

TakesAll == Amount > 0 /\ Takes(Amount) /\ UNCHANGED <<hpc, owed>>

TakesSome ==
  /\ \E j \in 1..(Amount - 1) : Takes(j)
  /\ hpc' = "idle" /\ owed' = owed + 1

\* None: errors 0xC9 and 0xD6.
Delayed ==
  /\ hpc = "send" /\ sock = "up" /\ Amount > 0
  /\ hpc' = "idle" /\ owed' = owed + 1
  /\ UNCHANGED <<sendq_p, queued, jobs, sock, written, wire, conns>>

\* Any other error: end_socket.  The queue stays.
SendFails ==
  /\ hpc = "send" /\ Amount > 0
  /\ hpc' = "idle" /\ Shuts
  /\ UNCHANGED <<sendq_p, queued, jobs, owed, written, wire, conns>>

\* The queue is empty, and freed.
Finished ==
  /\ hpc = "send" /\ Amount = 0
  /\ sendq_p' = <<>> /\ queued' = FALSE
  /\ hpc' = "idle"
  /\ UNCHANGED <<jobs, sock, owed, written, wire, conns>>

Starts(job) == hpc = "idle" /\ jobs # <<>> /\ Head(jobs) = job /\ jobs' = Tail(jobs)

\* send_str(0).
Resumes ==
  /\ Starts("send_str")
  /\ hpc' = "send"
  /\ UNCHANGED <<sendq_p, queued, sock, owed, written, wire, conns>>

ClearSendQ ==
  /\ Starts("ClearSendQ")
  /\ sendq_p' = <<>> /\ queued' = FALSE
  /\ UNCHANGED <<hpc, sock, owed, written, wire, conns>>

end_socket ==
  /\ Starts("end_socket") /\ Shuts
  /\ UNCHANGED <<sendq_p, queued, hpc, owed, written, wire, conns>>

\* end_connect, after send_quit: what of QUIT is still in the queue is lost.
end_connect ==
  /\ hpc = "idle" /\ Shuts
  /\ UNCHANGED <<sendq_p, queued, hpc, jobs, owed, written, wire, conns>>

-----------------------------------------------------------------------------
(* MMI.                                                                    *)

\* The report that there is room does not have HELPER go on.
RoomUnused ==
  /\ owed > 0 /\ owed' = owed - 1
  /\ sock # "closed"
  /\ UNCHANGED <<sendq_p, queued, hpc, jobs, sock, written, wire, conns>>

\* Without a queue: "Illegal ENIP_BUFFER_FREE!", and the connection ends.
ENIP_BUFFER_FREE ==
  /\ owed > 0 /\ owed' = owed - 1
  /\ sock # "closed"
  /\ jobs' = Append(jobs, IF queued THEN "send_str" ELSE "end_socket")
  /\ UNCHANGED <<sendq_p, queued, hpc, sock, written, wire, conns>>

\* The server has hung up (once in a connection).
ENIP_SOCK_REMOTE_CLOSED ==
  /\ sock = "up" /\ \A i \in 1..Len(jobs) : jobs[i] # "end_socket"
  /\ jobs' = Append(jobs, "end_socket")
  /\ UNCHANGED <<sendq_p, queued, hpc, sock, owed, written, wire, conns>>

\* The stack has closed the socket, or the connection is broken.
ENIP_SOCK_CLOSED ==
  /\ sock # "closed" /\ sock' = "closed" /\ owed' = 0
  /\ jobs' = Append(jobs, "ClearSendQ")
  /\ UNCHANGED <<sendq_p, queued, hpc, written, wire, conns>>

-----------------------------------------------------------------------------
Init ==
  /\ sendq_p = <<>> /\ queued = FALSE /\ hpc = "idle" /\ jobs = <<>>
  /\ sock = "closed" /\ owed = 0 /\ written = 0 /\ wire = <<>> /\ conns = 0

Sending == TakesAll \/ TakesSome \/ Delayed \/ SendFails \/ Finished

Job == Resumes \/ ClearSendQ \/ end_socket

Next ==
  \/ create_connect \/ send_str \/ Sending \/ Job \/ end_connect
  \/ ENIP_BUFFER_FREE \/ ENIP_SOCK_REMOTE_CLOSED \/ ENIP_SOCK_CLOSED

Spec == Init /\ [][Next]_vars

\* HELPER goes on, messages are read, and a stack that puts off and puts off
\* takes the bytes in the end.
FairSpec == /\ Spec
            /\ WF_vars(Sending) /\ WF_vars(Job) /\ WF_vars(ENIP_BUFFER_FREE)
            /\ SF_vars(TakesAll)

-----------------------------------------------------------------------------
TypeOK ==
  /\ sendq_p \in Seq(Nat) /\ queued \in BOOLEAN
  /\ hpc \in {"idle", "send"}
  /\ jobs \in Seq({"send_str", "ClearSendQ", "end_socket"})
  /\ sock \in {"closed", "up", "shut"}
  /\ owed \in Nat /\ written \in Nat /\ wire \in Seq(Nat) /\ conns \in Nat

\* The stream of ByteStream is what send_str makes of the queue: no byte is
\* lost, doubled or overtaken between the dialogue and the stack.
Stream == INSTANCE ByteStream WITH over <- sock # "up"
Implements == Stream!Spec

\* As long as the stack reports room once for each time it had none, the
\* report finds a queue: it never ends a connection that is in order.
RoomIsWaitedFor == sock = "up" /\ owed > 0 => queued

\* A command does not stay in the queue while the connection lasts.
Flushed == queued ~> ~queued \/ sock # "up"

\* The inductive invariant behind Implements and RoomIsWaitedFor.
Asked(job) == \E i \in 1..Len(jobs) : jobs[i] = job

QueueInv ==
  /\ \A k \in 1..Len(wire) : wire[k] = k
  /\ ~queued => sendq_p = <<>>
  /\ sock = "up" =>
       /\ ~queued => hpc = "idle"
       /\ Len(wire) + Len(sendq_p) = written
       /\ \A k \in 1..Len(sendq_p) : sendq_p[k] = Len(wire) + k
       /\ ~Asked("ClearSendQ")

RoomInv ==
  sock = "up" =>
    /\ owed <= 1
    /\ owed = 1 => ~Asked("send_str")
    /\ owed = 1 \/ Asked("send_str") => queued /\ hpc = "idle"
    /\ \A i, j \in 1..Len(jobs) : jobs[i] = "send_str" /\ jobs[j] = "send_str" => i = j

StreamInv == TypeOK /\ QueueInv /\ RoomInv
=============================================================================
