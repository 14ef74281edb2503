--------------------------- MODULE MCMailHeaders ---------------------------
(* MailHeaders for TLC. *)
EXTENDS MailHeaders

\* The second is an hour later, and has an earlier date.
MCSample ==
  {[date |-> [year |-> 2008, month |-> 3, day |-> 1, hour |-> 1], zone |-> 3],
   [date |-> [year |-> 2008, month |-> 2, day |-> 29, hour |-> 15], zone |-> -8]}
=============================================================================
