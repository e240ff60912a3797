----------------------------- MODULE MCReactions -----------------------------
(***************************************************************************)
(* Reactions on two devices with a user each.                              *)
(***************************************************************************)
EXTENDS Reactions, TLC

CONSTANTS alice, bob, phone, tablet

MCUserOf == phone :> alice @@ tablet :> bob

=============================================================================
