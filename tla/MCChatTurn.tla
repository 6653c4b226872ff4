----------------------------- MODULE MCChatTurn -----------------------------
(***************************************************************************)
(* Two turns of one client, in two sessions or in two tabs of one.         *)
(***************************************************************************)
EXTENDS ChatTurn

CONSTANTS t1, t2, s1, s2

TwoSessions == [t \in Turn |-> IF t = t1 THEN s1 ELSE s2]
TwoTabs     == [t \in Turn |-> s1]

MCClientOf == [s \in Session |-> CHOOSE c \in Client : TRUE]
=============================================================================
