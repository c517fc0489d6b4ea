----------------------------- MODULE MCConsole -----------------------------
(***************************************************************************)
(* The sign-in of the admin console and the provider settings with their   *)
(* caches.  They share no state, and no step of one enables, disables or   *)
(* undoes a step of the other, so each is checked by itself: in a          *)
(* behaviour one of them is on, and the other rests as it began.           *)
(***************************************************************************)
EXTENDS AdminSessions, ProviderCache, TLC

CONSTANTS i1, i2, t1, t2, s1, s2, p1, c1, c2, w1

VARIABLE part  \* the component that is on

consoleVars == <<part, adminVars, vars>>

ConsoleInit == part \in {"sign-in", "providers"} /\ AdminInit /\ Init

ConsoleNext ==
  /\ UNCHANGED part
  /\ \/ part = "sign-in" /\ AdminNext /\ UNCHANGED vars
     \/ part = "providers" /\ Next /\ UNCHANGED adminVars

ConsoleSpec == ConsoleInit /\ [][ConsoleNext]_consoleVars
=============================================================================
