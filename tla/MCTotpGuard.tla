---------------------------- MODULE MCTotpGuard ----------------------------
(***************************************************************************)
(* One owner, one derived client that delegates to it, two addresses.      *)
(***************************************************************************)
EXTENDS TotpGuard, TLC

CONSTANTS owner, derived

MCSeedOwner == [c \in {owner, derived} |-> owner]

\* The addresses are interchangeable.
Addresses == Permutations(Ip)
=============================================================================
