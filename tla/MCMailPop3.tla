----------------------------- MODULE MCMailPop3 -----------------------------
(* MailPop3 for TLC. *)
EXTENDS MailPop3, TLC

CONSTANTS u1, u2
MCUidl == {u1, u2}
MCOne  == {u1}
MCOneSize == u1 :> 1
MCSize == u1 :> 1 @@ u2 :> 3
=============================================================================
