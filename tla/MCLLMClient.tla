----------------------------- MODULE MCLLMClient -----------------------------
(* Model values and bounds for checking LLMClient with TLC. *)
EXTENDS LLMClient

CONSTANTS c1, c2, c3, pa
=============================================================================
