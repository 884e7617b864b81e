---------------------------- MODULE MCMembership ----------------------------
(* Small instances of Membership for TLC.                                  *)
EXTENDS Membership
CONSTANTS self, a, b

MCOthers == {a, b}
MCDialable == {a}
=============================================================================
