--------------------------- MODULE AdminSessions ---------------------------
(* The sign-in of the admin console: the failed-login limiter, which lives in *)
(* memory, and the sessions, which live in the database.  One browser with     *)
(* several tabs that share its cookie; anybody may try passwords from any      *)
(* address.  Between the limiter's check and its update nothing is awaited     *)
(* that could suspend, so the first part of a login is one step; every         *)
(* statement of the database is a step of its own.                            *)
EXTENDS Integers

CONSTANTS
  Ips,          \* client addresses
  Tabs,         \* requests the browser can have in flight
  Sids,         \* session ids; each is drawn once
  NoSession,    \* no cookie
  NoRow,        \* no row in `sessions`
  NoRecord,     \* no entry in _login_attempts
  MaxAttempts,  \* settings.omnifusion_max_login_attempts
  Lockout,      \* settings.omnifusion_login_lockout_seconds
  Life          \* lifetime of a session

ASSUME AdminAssumption ==
  /\ MaxAttempts \in Nat \ {0} /\ Lockout \in Nat \ {0}
  /\ Life \in Nat
  /\ NoSession \notin Sids /\ NoRow \notin Nat
  /\ NoRecord \notin [count : Nat, idle : Nat, left : Int]

VARIABLES
  attempts,   \* _login_attempts: count, seconds left of the lock, seconds since ts
  sessions,   \* age of each session in the table
  drawn,      \* session ids that have been drawn
  jar,        \* the browser's cookie
  tab,        \* the request of each tab
  failed,     \* history: ages of an address's latest failures since its last sign-in
  givenUp     \* history: sessions that a completed login or logout has ended

limiter == <<attempts, failed>>
adminVars == <<attempts, sessions, drawn, jar, tab, failed, givenUp>>

\* The failures of an address, latest first, with one more than it is allowed;
\* all ages from Lockout on, and failures that never were, are alike.
NoFailures == [n \in 0..MaxAttempts |-> Lockout]
WithFailure(ages) == [n \in 0..MaxAttempts |-> IF n = 0 THEN 0 ELSE ages[n - 1]]

\* A request at a place, with the cookie that came with it.
At(place, cookie) == [place |-> place, cookie |-> cookie, fresh |-> NoSession]
Idle == At("idle", NoSession)

AdminInit ==
  /\ attempts = [i \in Ips |-> NoRecord]
  /\ sessions = [s \in Sids |-> NoRow]
  /\ drawn = {}
  /\ jar = NoSession
  /\ tab = [t \in Tabs |-> Idle]
  /\ failed = [i \in Ips |-> NoFailures]
  /\ givenUp = {}

----------------------------------------------------------------------------
(* The limiter.  left = locked_until - now, and Past from the lock's end on:  *)
(* a record that was never locked has locked_until = 0, which is long past.   *)
Past == -1
Locked(i) == attempts[i] # NoRecord /\ attempts[i].left > 0

\* Mutant: unlocked records are forgotten at once.
ForgottenUnlocked(i) == attempts[i] # NoRecord /\ attempts[i].left = Past
\* The entries that _prune_login_attempts drops.
Forgotten(i) ==
  /\ attempts[i] # NoRecord
  /\ attempts[i].left = Past /\ attempts[i].idle > Lockout

Count(i) == IF attempts[i] = NoRecord \/ Forgotten(i) THEN 0 ELSE attempts[i].count

\* _record_failed_login: the address that has used up its attempts is locked.
\* Counts from MaxAttempts on are alike.
Recorded(i) ==
  LET count == Count(i) + 1 IN
  [count |-> IF count > MaxAttempts THEN MaxAttempts ELSE count, idle |-> 0,
   left |-> IF count >= MaxAttempts THEN Lockout ELSE Past]

\* A login with a wrong name or password, from an address that is not locked.
LoginFails(i) ==
  /\ ~Locked(i)
  /\ attempts' = [j \in Ips |-> IF j = i THEN Recorded(i)
                                ELSE IF Forgotten(j) THEN NoRecord ELSE attempts[j]]
  /\ failed' = [failed EXCEPT ![i] = WithFailure(@)]
  /\ UNCHANGED <<sessions, drawn, jar, tab, givenUp>>

\* The right password: the failures of the address are forgotten.
LoginAccepted(t, i) ==
  /\ tab[t] = Idle /\ ~Locked(i)
  /\ attempts' = [attempts EXCEPT ![i] = NoRecord]
  /\ failed' = [failed EXCEPT ![i] = NoFailures]
  /\ tab' = [tab EXCEPT ![t] = At("accepted", jar)]
  /\ UNCHANGED <<sessions, drawn, jar, givenUp>>

----------------------------------------------------------------------------
Move(t, place) == tab' = [tab EXCEPT ![t].place = place]
Done(t) == tab' = [tab EXCEPT ![t] = Idle]
Without(S) == [s \in Sids |-> IF s \in S THEN NoRow ELSE sessions[s]]

\* Mutant: the login leaves the session of the cookie alone.
RotateNot(t) ==
  /\ tab[t].place = "accepted"
  /\ Move(t, "rotated")
  /\ UNCHANGED <<limiter, sessions, drawn, jar, givenUp>>
\* The session that the login's cookie names is deleted ...
Rotate(t) ==
  /\ tab[t].place = "accepted"
  /\ sessions' = Without({tab[t].cookie})
  /\ Move(t, "rotated")
  /\ UNCHANGED <<limiter, drawn, jar, givenUp>>

\* ... and one with a new id is inserted, in a transaction of its own.
NewSid == CHOOSE s \in Sids \ drawn : TRUE
Create(t) ==
  /\ tab[t].place = "rotated" /\ drawn # Sids
  /\ sessions' = [sessions EXCEPT ![NewSid] = 0]
  /\ drawn' = drawn \cup {NewSid}
  /\ tab' = [tab EXCEPT ![t] = [place |-> "created", cookie |-> NoSession, fresh |-> NewSid]]
  /\ givenUp' = givenUp \cup ({tab[t].cookie} \ {NoSession})
  /\ UNCHANGED <<limiter, jar>>

\* A statement of the login or of the logout fails: status 500.
StatementFails(t) ==
  /\ tab[t].place \in {"accepted", "rotated", "authorised"}
  /\ Done(t)
  /\ UNCHANGED <<limiter, sessions, drawn, jar, givenUp>>

\* verify_admin_session finds the session of a request that changes something.
Verified(t) ==
  /\ tab[t] = Idle /\ jar # NoSession
  /\ sessions[jar] # NoRow /\ sessions[jar] <= Life
  /\ tab' = [tab EXCEPT ![t] = At("verified", jar)]
  /\ UNCHANGED <<limiter, sessions, drawn, jar, givenUp>>

\* verify_admin_session deletes a session that has expired, and redirects.
Expired(t) ==
  /\ tab[t] = Idle /\ jar # NoSession
  /\ sessions[jar] # NoRow /\ sessions[jar] > Life
  /\ sessions' = Without({jar})
  /\ UNCHANGED <<limiter, drawn, jar, tab, givenUp>>

\* validate_csrf reads the session again: it may be gone, or the token wrong.
TokenAccepted(t) ==
  /\ tab[t].place = "verified" /\ sessions[tab[t].cookie] # NoRow
  /\ Move(t, "authorised")
  /\ UNCHANGED <<limiter, sessions, drawn, jar, givenUp>>
TokenRefused(t) ==
  /\ tab[t].place = "verified"
  /\ Done(t)
  /\ UNCHANGED <<limiter, sessions, drawn, jar, givenUp>>

\* logout deletes the row; any other change leaves the sessions alone.
Logout(t) ==
  /\ tab[t].place = "authorised"
  /\ sessions' = Without({tab[t].cookie})
  /\ givenUp' = givenUp \cup {tab[t].cookie}
  /\ tab' = [tab EXCEPT ![t] = At("loggedOut", NoSession)]
  /\ UNCHANGED <<limiter, drawn, jar>>

\* The browser takes the answer's cookie, whatever it holds by then ...
Answered(t) ==
  /\ tab[t].place \in {"created", "loggedOut"}
  /\ jar' = IF tab[t].place = "created" THEN tab[t].fresh ELSE NoSession
  /\ Done(t)
  /\ UNCHANGED <<limiter, sessions, drawn, givenUp>>
\* ... or never sees it.
AnswerLost(t) ==
  /\ tab[t].place \in {"created", "loggedOut"}
  /\ Done(t)
  /\ UNCHANGED <<limiter, sessions, drawn, jar, givenUp>>

\* session_sweep_loop.
SweepSessions ==
  /\ \E s \in Sids : sessions[s] # NoRow /\ sessions[s] > Life
  /\ sessions' = Without({s \in Sids : sessions[s] # NoRow /\ sessions[s] > Life})
  /\ UNCHANGED <<limiter, drawn, jar, tab, givenUp>>

\* The process restarts: the limiter forgets, the sessions stay.
Restart ==
  /\ attempts' = [i \in Ips |-> NoRecord]
  /\ failed' = [i \in Ips |-> NoFailures]
  /\ tab' = [t \in Tabs |-> Idle]
  /\ UNCHANGED <<sessions, drawn, jar, givenUp>>

\* One second.
OlderRecord(r) ==
  [count |-> r.count,
   idle |-> IF r.idle > Lockout THEN r.idle ELSE r.idle + 1,
   left |-> IF r.left = Past THEN Past ELSE r.left - 1]
Second ==
  /\ attempts' = [i \in Ips |-> IF attempts[i] = NoRecord THEN NoRecord
                                ELSE OlderRecord(attempts[i])]
  /\ failed' = [i \in Ips |-> [n \in 0..MaxAttempts |->
       IF failed[i][n] < Lockout THEN failed[i][n] + 1 ELSE Lockout]]
  /\ sessions' = [s \in Sids |-> IF sessions[s] = NoRow \/ sessions[s] > Life
                                 THEN sessions[s] ELSE sessions[s] + 1]
  /\ UNCHANGED <<drawn, jar, tab, givenUp>>

----------------------------------------------------------------------------
AdminNext ==
  \/ \E i \in Ips : LoginFails(i) \/ \E t \in Tabs : LoginAccepted(t, i)
  \/ \E t \in Tabs :
       \/ Rotate(t) \/ Create(t) \/ StatementFails(t)
       \/ Verified(t) \/ Expired(t) \/ TokenAccepted(t) \/ TokenRefused(t)
       \/ Logout(t) \/ Answered(t) \/ AnswerLost(t)
  \/ SweepSessions \/ Restart \/ Second

AdminSpec == AdminInit /\ [][AdminNext]_adminVars

----------------------------------------------------------------------------
Records == [count : 1..MaxAttempts, idle : 0..(Lockout + 1), left : Past..Lockout]
TabPlaces == {"idle", "accepted", "rotated", "created", "verified", "authorised", "loggedOut"}

(* Types; an entry of the limiter is at most one lockout old when it is       *)
(* dropped, and only ids that have been drawn are in use.                      *)
AdminTypeOK ==
  /\ attempts \in [Ips -> Records \cup {NoRecord}]
  /\ failed \in [Ips -> [0..MaxAttempts -> 0..Lockout]]
  /\ sessions \in [Sids -> (0..(Life + 1)) \cup {NoRow}]
  /\ drawn \subseteq Sids /\ jar \in drawn \cup {NoSession}
  /\ \A s \in Sids \ drawn : sessions[s] = NoRow
  /\ givenUp \subseteq drawn
  /\ tab \in [Tabs -> [place : TabPlaces, cookie : drawn \cup {NoSession},
                       fresh : drawn \cup {NoSession}]]

(* Within any lockout period an address fails at most MaxAttempts times after *)
(* its last sign-in or the last restart (the failure before those is at least  *)
(* a lockout ago), although entries are pruned by the failures of other       *)
(* addresses and the count outlives the lock.                                 *)
LockoutHolds == AdminTypeOK /\ \A i \in Ips : failed[i][MaxAttempts] = Lockout

(* A session that a completed logout, or a completed login with its cookie,    *)
(* has ended is never in the table again, whatever the other tabs do.         *)
GivenUpIsDead == \A s \in givenUp : sessions[s] = NoRow
============================================================================
