----------------------------- MODULE MCChatApi -----------------------------
(* Model values for checking ChatApi with TLC. *)
EXTENDS ChatApi, TLC

CONSTANTS k1, r1, r3
=============================================================================
