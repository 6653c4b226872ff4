--------------------------- MODULE MCOAuthServer ---------------------------
(***************************************************************************)
(* One owner and one derived client that delegates to it, one address.     *)
(* The two requests are interchangeable.                                   *)
(***************************************************************************)
EXTENDS OAuthServer, TLC

CONSTANTS owner, derived

MCSeedOwner == [c \in {owner, derived} |-> owner]
RequestSymmetry == Permutations(Request)
=============================================================================
