----------------------------- MODULE ByteStream -----------------------------
(***************************************************************************)
(* What the dialogue of MailPop3 takes for granted of a connection to the  *)
(* server: the bytes of the commands, numbered in the order in which they  *)
(* are written, arrive in that order, none twice and none left out, until  *)
(* the connection is over.                                                 *)
(***************************************************************************)
EXTENDS Integers, Sequences

VARIABLES
  written,  \* bytes written to this connection
  wire,     \* the bytes that have gone out
  over      \* nothing goes out any more

vars == <<written, wire, over>>

Init == written = 0 /\ wire = <<>> /\ over = TRUE

Connect == over /\ written' = 0 /\ wire' = <<>> /\ over' = FALSE

Write == /\ written' \in Nat /\ written' > written
         /\ UNCHANGED <<wire, over>>

Transmit == /\ ~over
            /\ \E n \in 1..(written - Len(wire)) :
                 wire' = [k \in 1..(Len(wire) + n) |-> k]
            /\ UNCHANGED <<written, over>>

End == over' = TRUE /\ UNCHANGED <<written, wire>>

Next == Connect \/ Write \/ Transmit \/ End

Spec == Init /\ [][Next]_vars
=============================================================================
