---------------------------- MODULE MCDashboard -----------------------------
(***************************************************************************)
(* Two owners, two requests at a time.  Requests, credentials and owners   *)
(* are interchangeable.                                                    *)
(***************************************************************************)
EXTENDS Dashboard, TLC

PanelSymmetry == Permutations(Slot) \cup Permutations(Key) \cup Permutations(Owner)
=============================================================================
