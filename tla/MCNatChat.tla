----------------------------- MODULE MCNatChat -----------------------------
(* NatChat for TLC: the contacts can be told apart by nothing. *)
EXTENDS NatChat, TLC

MCContacts == Permutations(Contact)
=============================================================================
