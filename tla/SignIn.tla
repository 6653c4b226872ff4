------------------------------- MODULE SignIn -------------------------------
(***************************************************************************)
(* What the token store promises about OAuth sign-ins, with no clock, no   *)
(* disk and no crash.  A sign-in is a chain of refresh tokens: it opens    *)
(* once, at any moment at most one token can extend it, extending it hands *)
(* the key to a younger token and spends the old one for good, and once it *)
(* closes it never opens again.  Tokens are numbered in the order they are *)
(* issued, and a sign-in has the number of its first token.                *)
(***************************************************************************)
EXTENDS Integers

CONSTANT MaxMint         \* bound on the tokens issued

VARIABLES
  issued,                \* how many tokens have been issued
  keys                   \* keys[f]: the tokens that can extend sign-in f

Token == 1..MaxMint

Init == issued = 0 /\ keys = [f \in Token |-> {}]

Stays(f)  == keys'[f] = keys[f]
Closes(f) == keys'[f] = {}

\* Sign-in f opens with the token that is being issued.
Opens(f) == issued' = f /\ issued < f /\ keys'[f] = {f}

\* The only key of f is exchanged for one that was issued after it.
Extends(f) ==
  \E old \in Token, new \in Token :
    /\ keys[f] = {old} /\ keys'[f] = {new}
    /\ old < new /\ new <= issued

Next ==
  /\ issued' \in {issued, issued + 1}
  /\ keys' = [f \in Token |-> keys'[f]]
  /\ \A f \in Token : Stays(f) \/ Closes(f) \/ Opens(f) \/ Extends(f)

Spec == Init /\ [][Next]_<<issued, keys>>
=============================================================================
