------------------------- MODULE AdminConsoleProofs -------------------------
(* Proofs about the two parts of the admin console.  AdminSessions: a session *)
(* that was given up stays dead, and the lock-out of the login limiter holds. *)
(* PlaygroundJobs: the flags of a job agree with its task, and a run that     *)
(* left the registry was stopped.  The two share no state and no name.        *)
EXTENDS AdminSessions, PlaygroundJobs, FiniteSetTheorems, TLAPS

(* A login that has deleted the cookie's session finds it deleted until it    *)
(* has inserted the new one; only a request with a cookie is verified.        *)
CookiesKnown ==
  \A t \in Tabs :
    /\ tab[t].place = "rotated" /\ tab[t].cookie # NoSession
         => sessions[tab[t].cookie] = NoRow
    /\ tab[t].place \in {"verified", "authorised"} => tab[t].cookie # NoSession

(* A record counts every failure of the last lockout, and is as old as the    *)
(* latest; when the count is used up, the address is locked until that one is  *)
(* a lockout old.  Without a record there are no such failures.               *)
Counted(ages, r) ==
  /\ \A n \in 0..MaxAttempts : n >= r.count => ages[n] = Lockout
  /\ \A n \in 0..MaxAttempts : ages[n] = Lockout \/ ages[n] >= r.idle
  /\ r.count = MaxAttempts => r.idle >= Lockout \/ r.idle + r.left >= Lockout
RecordsCount ==
  \A i \in Ips : IF attempts[i] = NoRecord THEN failed[i] = NoFailures
                 ELSE Counted(failed[i], attempts[i])

IInv == AdminTypeOK /\ GivenUpIsDead /\ CookiesKnown /\ RecordsCount

(* The limiter and the sessions share no variable, so that their invariants   *)
(* are kept apart from each other.                                            *)
LimiterTypes ==
  /\ attempts \in [Ips -> Records \cup {NoRecord}]
  /\ failed \in [Ips -> [0..MaxAttempts -> 0..Lockout]]
SessionTypes ==
  /\ sessions \in [Sids -> (0..(Life + 1)) \cup {NoRow}]
  /\ drawn \subseteq Sids /\ jar \in drawn \cup {NoSession}
  /\ \A s \in Sids \ drawn : sessions[s] = NoRow
  /\ givenUp \subseteq drawn
  /\ tab \in [Tabs -> [place : TabPlaces, cookie : drawn \cup {NoSession},
                       fresh : drawn \cup {NoSession}]]

LimiterInv == LimiterTypes /\ RecordsCount
SessionInv == SessionTypes /\ GivenUpIsDead /\ CookiesKnown

LEMMA Parts == IInv <=> LimiterInv /\ SessionInv
BY DEF IInv, AdminTypeOK, LimiterInv, SessionInv, LimiterTypes, SessionTypes

USE AdminAssumption

LEMMA RecordsAreRecords == NoRecord \notin Records
BY DEF Records, Past

----------------------------------------------------------------------------
(* A record that is dropped is older than a lockout: no recent failure.       *)
LEMMA ForgottenUncounted ==
  ASSUME LimiterInv, NEW i \in Ips, Forgotten(i)
  PROVE  failed[i] = NoFailures
<1>1. /\ attempts[i] \in Records /\ Counted(failed[i], attempts[i])
      /\ failed[i] \in [0..MaxAttempts -> 0..Lockout]
  BY DEF LimiterInv, LimiterTypes, RecordsCount, Forgotten
<1>2. \A n \in 0..MaxAttempts : failed[i][n] = Lockout
  <2>1. attempts[i].idle \in Nat /\ attempts[i].idle > Lockout
    BY <1>1 DEF Forgotten, Records
  <2>2. \A n \in 0..MaxAttempts : failed[i][n] = Lockout \/ failed[i][n] >= attempts[i].idle
    BY <1>1 DEF Counted
  <2>3. QED BY <1>1, <2>1, <2>2
<1>3. QED BY <1>1, <1>2 DEF NoFailures

(* An address with a new failure: if its count was used up, all the others    *)
(* are a lockout old by now, since it is not locked.                          *)
LEMMA FailureCounted ==
  ASSUME LimiterInv, NEW i \in Ips, ~Locked(i)
  PROVE  /\ Recorded(i) \in Records
         /\ WithFailure(failed[i]) \in [0..MaxAttempts -> 0..Lockout]
         /\ Counted(WithFailure(failed[i]), Recorded(i))
<1> DEFINE ages == failed[i]
           new == WithFailure(ages)
<1>1. ages \in [0..MaxAttempts -> 0..Lockout]
  BY DEF LimiterInv, LimiterTypes
<1>2. /\ new \in [0..MaxAttempts -> 0..Lockout]
      /\ new[0] = 0
      /\ \A n \in 1..MaxAttempts : new[n] = ages[n - 1]
  BY <1>1 DEF WithFailure
<1>3. /\ Count(i) \in 0..MaxAttempts
      /\ \A n \in 0..MaxAttempts : n >= Count(i) => ages[n] = Lockout
      /\ Count(i) = MaxAttempts => \A n \in 0..MaxAttempts : ages[n] = Lockout
  <2>1. CASE attempts[i] = NoRecord
    <3>1. ages = NoFailures
      BY <2>1 DEF LimiterInv, RecordsCount
    <3>2. QED BY <2>1, <3>1 DEF Count, NoFailures
  <2>2. CASE attempts[i] # NoRecord
    <3>1. attempts[i] \in Records /\ Counted(ages, attempts[i])
      BY <2>2 DEF LimiterInv, LimiterTypes, RecordsCount
    <3>2. attempts[i].left <= 0
      BY <2>2, <3>1 DEF Locked, Records, Past
    <3>3. Forgotten(i) => \A n \in 0..MaxAttempts : ages[n] = Lockout
      BY ForgottenUncounted DEF NoFailures
    <3>4. CASE Forgotten(i)
      BY <3>3, <3>4 DEF Count
    <3>5. CASE ~Forgotten(i)
      <4>1. Count(i) = attempts[i].count /\ Count(i) \in 0..MaxAttempts
        BY <2>2, <3>1, <3>5 DEF Count, Records
      <4>2. Count(i) = MaxAttempts => attempts[i].idle >= Lockout
        BY <3>1, <3>2, <4>1 DEF Counted, Records, Past
      <4>3. \A n \in 0..MaxAttempts :
              ages[n] \in 0..Lockout /\ (ages[n] = Lockout \/ ages[n] >= attempts[i].idle)
        BY <1>1, <3>1 DEF Counted
      <4>4. attempts[i].idle \in Nat
        BY <3>1 DEF Records
      <4>5. QED BY <3>1, <4>1, <4>2, <4>3, <4>4 DEF Counted
    <3>6. QED BY <3>4, <3>5
  <2>3. QED BY <2>1, <2>2
<1>4. /\ Recorded(i) \in Records
      /\ Recorded(i).idle = 0
      /\ Recorded(i).count \in {Count(i) + 1, MaxAttempts}
      /\ Recorded(i).count < Count(i) + 1 => Count(i) = MaxAttempts
      /\ Recorded(i).count = MaxAttempts => Recorded(i).left = Lockout
  BY <1>3 DEF Recorded, Records, Past
<1> HIDE DEF ages, new
<1>5. ASSUME NEW n \in 0..MaxAttempts, n >= Recorded(i).count
      PROVE  new[n] = Lockout
  <2>1. n \in 1..MaxAttempts /\ n - 1 \in 0..MaxAttempts
    BY <1>4, <1>5 DEF Records
  <2>2. n - 1 >= Count(i) \/ Count(i) = MaxAttempts
    BY <1>3, <1>4, <1>5
  <2>3. QED BY <1>2, <1>3, <2>1, <2>2
<1>6. \A n \in 0..MaxAttempts : new[n] >= Recorded(i).idle
  BY <1>2, <1>4
<1>7. Recorded(i).count = MaxAttempts => Recorded(i).idle + Recorded(i).left >= Lockout
  BY <1>4
<1>8. Counted(new, Recorded(i))
  BY <1>5, <1>6, <1>7 DEF Counted
<1>9. QED BY <1>2, <1>4, <1>8 DEF ages, new

(* A second makes the failures and their record older alike.                  *)
LEMMA TickCounts ==
  ASSUME NEW ages \in [0..MaxAttempts -> 0..Lockout], NEW r \in Records, Counted(ages, r)
  PROVE  /\ OlderRecord(r) \in Records
         /\ Counted([n \in 0..MaxAttempts |->
                       IF ages[n] < Lockout THEN ages[n] + 1 ELSE Lockout], OlderRecord(r))
<1> DEFINE new == [n \in 0..MaxAttempts |-> IF ages[n] < Lockout THEN ages[n] + 1 ELSE Lockout]
<1>1. /\ OlderRecord(r) \in Records /\ OlderRecord(r).count = r.count
      /\ OlderRecord(r).idle = IF r.idle > Lockout THEN r.idle ELSE r.idle + 1
      /\ OlderRecord(r).left = IF r.left = Past THEN Past ELSE r.left - 1
  BY DEF OlderRecord, Records, Past
<1>2. \A n \in 0..MaxAttempts :
        new[n] = IF ages[n] < Lockout THEN ages[n] + 1 ELSE Lockout
  OBVIOUS
<1> HIDE DEF new
<1>3. \A n \in 0..MaxAttempts : n >= OlderRecord(r).count => new[n] = Lockout
  BY <1>1, <1>2 DEF Counted
<1>4. ASSUME NEW n \in 0..MaxAttempts
      PROVE  new[n] = Lockout \/ new[n] >= OlderRecord(r).idle
  <2>1. ages[n] \in 0..Lockout /\ r.idle \in Nat /\ (ages[n] = Lockout \/ ages[n] >= r.idle)
    BY DEF Counted, Records
  <2>2. CASE ages[n] = Lockout
    BY <1>2, <2>2
  <2>3. CASE ages[n] < Lockout
    BY <1>1, <1>2, <2>1, <2>3
  <2>4. QED BY <2>1, <2>2, <2>3
<1>5. OlderRecord(r).count = MaxAttempts =>
        OlderRecord(r).idle >= Lockout \/ OlderRecord(r).idle + OlderRecord(r).left >= Lockout
  <2>1. r.idle \in Nat /\ r.left \in Int /\ r.left >= Past
    BY DEF Records, Past
  <2>2. r.count = MaxAttempts => r.idle >= Lockout \/ r.idle + r.left >= Lockout
    BY DEF Counted
  <2>3. r.idle + r.left >= Lockout
          => OlderRecord(r).idle >= Lockout \/ OlderRecord(r).idle + OlderRecord(r).left >= Lockout
    <3>1. CASE r.idle > Lockout
      BY <1>1, <2>1, <3>1
    <3>2. CASE r.idle <= Lockout
      BY <1>1, <2>1, <3>2 DEF Past
    <3>3. QED BY <2>1, <3>1, <3>2
  <2>4. r.idle >= Lockout => OlderRecord(r).idle >= Lockout
    BY <1>1, <2>1
  <2>5. QED BY <1>1, <2>2, <2>3, <2>4
<1>6. QED BY <1>1, <1>3, <1>4, <1>5 DEF Counted, new

(* Every step keeps the limiter's invariant.                                  *)
LEMMA LimiterSteps ==
  ASSUME LimiterInv, [AdminNext]_adminVars
  PROVE  LimiterInv'
<1>0. LimiterTypes /\ RecordsCount
  BY DEF LimiterInv
<1>1. ASSUME NEW i \in Ips, LoginFails(i) PROVE LimiterInv'
  <2>1. ASSUME NEW j \in Ips
        PROVE  /\ attempts'[j] \in Records \cup {NoRecord}
               /\ failed'[j] \in [0..MaxAttempts -> 0..Lockout]
               /\ IF attempts'[j] = NoRecord THEN failed'[j] = NoFailures
                  ELSE Counted(failed'[j], attempts'[j])
    <3>1. CASE j = i
      <4>1. attempts'[j] = Recorded(i) /\ failed'[j] = WithFailure(failed[i])
        BY <1>0, <1>1, <3>1 DEF LoginFails, LimiterTypes
      <4>2. QED BY <1>1, <4>1, FailureCounted, RecordsAreRecords DEF LoginFails
    <3>2. CASE j # i /\ Forgotten(j)
      <4>1. attempts'[j] = NoRecord /\ failed'[j] = failed[j]
        BY <1>0, <1>1, <3>2 DEF LoginFails, LimiterTypes
      <4>2. QED BY <1>0, <3>2, <4>1, ForgottenUncounted DEF LimiterTypes
    <3>3. CASE j # i /\ ~Forgotten(j)
      <4>1. attempts'[j] = attempts[j] /\ failed'[j] = failed[j]
        BY <1>0, <1>1, <3>3 DEF LoginFails, LimiterTypes
      <4>2. QED BY <1>0, <4>1 DEF LimiterTypes, RecordsCount
    <3>4. QED BY <3>1, <3>2, <3>3
  <2>2. /\ attempts' = [j \in Ips |-> attempts'[j]]
        /\ failed' = [j \in Ips |-> failed'[j]]
    BY <1>0, <1>1 DEF LoginFails, LimiterTypes
  <2>3. LimiterTypes'
    BY <2>1, <2>2 DEF LimiterTypes
  <2>4. RecordsCount'
    BY <2>1 DEF RecordsCount
  <2>5. QED BY <2>3, <2>4 DEF LimiterInv
<1>2. NoFailures \in [0..MaxAttempts -> 0..Lockout]
  BY DEF NoFailures
<1>3. ASSUME NEW i \in Ips, NEW t \in Tabs, LoginAccepted(t, i) PROVE LimiterInv'
  BY <1>0, <1>2, <1>3 DEF LoginAccepted, LimiterInv, LimiterTypes, RecordsCount
<1>4. CASE Restart
  BY <1>2, <1>4 DEF Restart, LimiterInv, LimiterTypes, RecordsCount
<1>5. CASE Second
  <2>1. ASSUME NEW j \in Ips
        PROVE  /\ attempts'[j] \in Records \cup {NoRecord}
               /\ failed'[j] \in [0..MaxAttempts -> 0..Lockout]
               /\ IF attempts'[j] = NoRecord THEN failed'[j] = NoFailures
                  ELSE Counted(failed'[j], attempts'[j])
    <3>1. failed'[j] = [n \in 0..MaxAttempts |->
                          IF failed[j][n] < Lockout THEN failed[j][n] + 1 ELSE Lockout]
      BY <1>5 DEF Second
    <3>2. failed[j] \in [0..MaxAttempts -> 0..Lockout]
      BY <1>0 DEF LimiterTypes
    <3>3. failed'[j] \in [0..MaxAttempts -> 0..Lockout]
      BY <3>1, <3>2
    <3>4. CASE attempts[j] = NoRecord
      <4>1. attempts'[j] = NoRecord /\ failed[j] = NoFailures
        BY <1>0, <1>5, <3>4 DEF Second, RecordsCount
      <4>2. failed'[j] = NoFailures
        BY <3>1, <4>1 DEF NoFailures
      <4>3. QED BY <3>3, <4>1, <4>2
    <3>5. CASE attempts[j] # NoRecord
      <4>1. attempts'[j] = OlderRecord(attempts[j])
        BY <1>5, <3>5 DEF Second
      <4>2. attempts[j] \in Records /\ Counted(failed[j], attempts[j])
        BY <1>0, <3>5 DEF LimiterTypes, RecordsCount
      <4>3. QED BY <3>1, <3>2, <3>3, <4>1, <4>2, TickCounts, RecordsAreRecords
    <3>6. QED BY <3>4, <3>5
  <2>2. /\ attempts' = [j \in Ips |-> attempts'[j]]
        /\ failed' = [j \in Ips |-> failed'[j]]
    BY <1>5 DEF Second
  <2>3. LimiterTypes'
    BY <2>1, <2>2 DEF LimiterTypes
  <2>4. RecordsCount'
    BY <2>1 DEF RecordsCount
  <2>5. QED BY <2>3, <2>4 DEF LimiterInv
<1>6. CASE UNCHANGED limiter
  BY <1>0, <1>6 DEF limiter, LimiterInv, LimiterTypes, RecordsCount
<1>7. QED
  BY <1>1, <1>3, <1>4, <1>5, <1>6
  DEF AdminNext, adminVars, limiter, Rotate, Create, StatementFails, Verified, Expired,
      TokenAccepted, TokenRefused, Logout, Answered, AnswerLost, SweepSessions

----------------------------------------------------------------------------
Request == [place : TabPlaces, cookie : drawn \cup {NoSession}, fresh : drawn \cup {NoSession}]

(* A step that draws no session id, revives no session and puts one request   *)
(* to another place.                                                          *)
LEMMA RequestMoves ==
  ASSUME SessionInv, NEW t \in Tabs, NEW r \in Request,
         tab' = [tab EXCEPT ![t] = r],
         drawn' = drawn, jar' \in drawn \cup {NoSession},
         sessions' \in [Sids -> (0..(Life + 1)) \cup {NoRow}],
         \A s \in Sids : sessions[s] = NoRow => sessions'[s] = NoRow,
         givenUp \subseteq givenUp', givenUp' \subseteq drawn,
         \A s \in givenUp' \ givenUp : sessions'[s] = NoRow,
         r.place = "rotated" /\ r.cookie # NoSession => sessions'[r.cookie] = NoRow,
         r.place \in {"verified", "authorised"} => r.cookie # NoSession
  PROVE  SessionInv'
<1>1. SessionTypes /\ GivenUpIsDead /\ CookiesKnown
  BY DEF SessionInv
<1>2. SessionTypes'
  BY <1>1 DEF SessionTypes, Request
<1>3. GivenUpIsDead'
  BY <1>1 DEF SessionTypes, GivenUpIsDead
<1>4. ASSUME NEW u \in Tabs
      PROVE  /\ tab'[u].place = "rotated" /\ tab'[u].cookie # NoSession
                  => sessions'[tab'[u].cookie] = NoRow
             /\ tab'[u].place \in {"verified", "authorised"} => tab'[u].cookie # NoSession
  <2>1. CASE u = t
    BY <1>1, <2>1 DEF SessionTypes
  <2>2. CASE u # t
    <3>1. tab'[u] = tab[u] /\ tab[u].cookie \in Sids \cup {NoSession}
      BY <1>1, <2>2 DEF SessionTypes
    <3>2. QED BY <1>1, <3>1 DEF CookiesKnown
  <2>3. QED BY <2>1, <2>2
<1>5. CookiesKnown'
  BY <1>4 DEF CookiesKnown
<1>6. QED BY <1>2, <1>3, <1>5 DEF SessionInv

(* A step that leaves the requests where they are and revives no session.     *)
LEMMA RowsGo ==
  ASSUME SessionInv, UNCHANGED <<tab, drawn, jar, givenUp>>,
         sessions' \in [Sids -> (0..(Life + 1)) \cup {NoRow}],
         \A s \in Sids : sessions[s] = NoRow => sessions'[s] = NoRow
  PROVE  SessionInv'
<1>1. SessionTypes /\ GivenUpIsDead /\ CookiesKnown
  BY DEF SessionInv
<1>2. SessionTypes'
  BY <1>1 DEF SessionTypes
<1>3. GivenUpIsDead'
  BY <1>1 DEF SessionTypes, GivenUpIsDead
<1>4. CookiesKnown'
  <2>1. \A t \in Tabs : tab[t].cookie \in Sids \cup {NoSession}
    BY <1>1 DEF SessionTypes
  <2>2. QED BY <1>1, <2>1 DEF CookiesKnown
<1>5. QED BY <1>2, <1>3, <1>4 DEF SessionInv

(* What a DELETE leaves.                                                      *)
LEMMA Deleted ==
  ASSUME SessionTypes, NEW S, sessions' = Without(S)
  PROVE  /\ sessions' \in [Sids -> (0..(Life + 1)) \cup {NoRow}]
         /\ \A s \in Sids : sessions[s] = NoRow => sessions'[s] = NoRow
         /\ \A s \in Sids \cap S : sessions'[s] = NoRow
BY DEF Without, SessionTypes

(* A new session has an id that nobody has had, so that it is no cookie's and  *)
(* was not given up; the login's own cookie is dead already.                  *)
LEMMA CreateSteps ==
  ASSUME SessionInv, NEW t \in Tabs, Create(t)
  PROVE  SessionInv'
<1>1. SessionTypes /\ GivenUpIsDead /\ CookiesKnown
  BY DEF SessionInv
<1>2. NewSid \in Sids /\ NewSid \notin drawn
  BY <1>1 DEF Create, NewSid, SessionTypes
<1> DEFINE f == NewSid
<1>3. /\ f \in Sids /\ f \notin drawn
      /\ sessions' = [sessions EXCEPT ![f] = 0]
      /\ drawn' = drawn \cup {f}
      /\ tab' = [tab EXCEPT ![t] = [place |-> "created", cookie |-> NoSession, fresh |-> f]]
      /\ givenUp' = givenUp \cup ({tab[t].cookie} \ {NoSession})
      /\ jar' = jar
  BY <1>2 DEF Create
<1> HIDE DEF f
<1>4. /\ tab[t].cookie \in drawn \cup {NoSession}
      /\ tab[t].cookie # NoSession => sessions[tab[t].cookie] = NoRow
  BY <1>1 DEF SessionTypes, CookiesKnown, Create
<1>5. SessionTypes'
  <2>1. tab' \in [Tabs -> [place : TabPlaces, cookie : drawn' \cup {NoSession},
                           fresh : drawn' \cup {NoSession}]]
    <3>1. tab \in [Tabs -> [place : TabPlaces, cookie : drawn' \cup {NoSession},
                            fresh : drawn' \cup {NoSession}]]
      BY <1>1, <1>3 DEF SessionTypes
    <3>2. [place |-> "created", cookie |-> NoSession, fresh |-> f]
            \in [place : TabPlaces, cookie : drawn' \cup {NoSession}, fresh : drawn' \cup {NoSession}]
      BY <1>3 DEF TabPlaces
    <3>3. QED BY <1>3, <3>1, <3>2
  <2>2. sessions' \in [Sids -> (0..(Life + 1)) \cup {NoRow}]
    BY <1>1, <1>3 DEF SessionTypes
  <2>3. \A s \in Sids \ drawn' : sessions'[s] = NoRow
    BY <1>1, <1>3 DEF SessionTypes
  <2>4. QED BY <1>1, <1>3, <1>4, <2>1, <2>2, <2>3 DEF SessionTypes
<1>6. GivenUpIsDead'
  BY <1>1, <1>3, <1>4 DEF SessionTypes, GivenUpIsDead
<1>7. ASSUME NEW u \in Tabs
      PROVE  /\ tab'[u].place = "rotated" /\ tab'[u].cookie # NoSession
                  => sessions'[tab'[u].cookie] = NoRow
             /\ tab'[u].place \in {"verified", "authorised"} => tab'[u].cookie # NoSession
  <2>1. CASE u = t
    BY <1>1, <1>3, <2>1 DEF SessionTypes
  <2>2. CASE u # t
    <3>1. tab'[u] = tab[u] /\ tab[u].cookie \in drawn \cup {NoSession}
      BY <1>1, <1>3, <2>2 DEF SessionTypes
    <3>2. QED BY <1>1, <1>3, <3>1 DEF CookiesKnown, SessionTypes
  <2>3. QED BY <2>1, <2>2
<1>8. QED BY <1>5, <1>6, <1>7 DEF SessionInv, CookiesKnown

(* Every step of a request keeps the sessions' invariant.                     *)
LEMMA RequestSteps ==
  ASSUME SessionInv, NEW t \in Tabs,
         \/ \E i \in Ips : LoginAccepted(t, i)
         \/ Rotate(t) \/ StatementFails(t) \/ Verified(t) \/ TokenAccepted(t)
         \/ TokenRefused(t) \/ Logout(t) \/ Answered(t) \/ AnswerLost(t)
  PROVE  SessionInv'
<1>1. SessionTypes /\ GivenUpIsDead /\ CookiesKnown
  BY DEF SessionInv
<1>2. /\ tab[t] \in Request /\ jar \in drawn \cup {NoSession}
      /\ drawn \subseteq Sids /\ givenUp \subseteq drawn
      /\ sessions \in [Sids -> (0..(Life + 1)) \cup {NoRow}]
  BY <1>1 DEF SessionTypes, Request
<1>3. /\ tab \in [Tabs -> Request]
      /\ Idle \in Request /\ Idle.place = "idle"
      /\ At("accepted", jar) \in Request /\ At("accepted", jar).place = "accepted"
      /\ At("verified", jar) \in Request /\ At("verified", jar).cookie = jar
      /\ At("verified", jar).place = "verified"
      /\ At("loggedOut", NoSession) \in Request
      /\ At("loggedOut", NoSession).place = "loggedOut"
  BY <1>1, <1>2 DEF At, Idle, Request, TabPlaces, SessionTypes
<1>4. ASSUME NEW place \in TabPlaces, Move(t, place)
      PROVE  \E r \in Request : /\ tab' = [tab EXCEPT ![t] = r]
                                /\ r.place = place /\ r.cookie = tab[t].cookie
  <2>1. [tab[t] EXCEPT !.place = place] \in Request
    BY <1>2 DEF Request
  <2>2. tab' = [tab EXCEPT ![t] = [tab[t] EXCEPT !.place = place]]
    BY <1>4 DEF Move
  <2>3. QED BY <1>2, <2>1, <2>2 DEF Request
<1>5. CASE \E i \in Ips : LoginAccepted(t, i)
  <2>1. /\ tab' = [tab EXCEPT ![t] = At("accepted", jar)]
        /\ UNCHANGED <<sessions, drawn, jar, givenUp>>
    BY <1>5 DEF LoginAccepted
  <2>2. QED BY <1>2, <1>3, <2>1, RequestMoves
<1>6. CASE Rotate(t)
  <2>1. PICK r \in Request : /\ tab' = [tab EXCEPT ![t] = r]
                             /\ r.place = "rotated" /\ r.cookie = tab[t].cookie
    BY <1>4, <1>6 DEF Rotate, TabPlaces
  <2>2. sessions' = Without({tab[t].cookie}) /\ UNCHANGED <<drawn, jar, givenUp>>
    BY <1>6 DEF Rotate
  <2>3. r.cookie # NoSession => sessions'[r.cookie] = NoRow
    BY <1>1, <1>2, <2>1, <2>2, Deleted DEF Request
  <2>4. QED BY <1>1, <1>2, <2>1, <2>2, <2>3, Deleted, RequestMoves
<1>7. CASE StatementFails(t) \/ TokenRefused(t) \/ AnswerLost(t)
  <2>1. tab' = [tab EXCEPT ![t] = Idle] /\ UNCHANGED <<sessions, drawn, jar, givenUp>>
    BY <1>7 DEF StatementFails, TokenRefused, AnswerLost, Done
  <2>2. QED BY <1>2, <1>3, <2>1, RequestMoves
<1>8. CASE Answered(t)
  <2>1. /\ tab' = [tab EXCEPT ![t] = Idle] /\ UNCHANGED <<sessions, drawn, givenUp>>
        /\ jar' \in {tab[t].fresh, NoSession}
    BY <1>8 DEF Answered, Done
  <2>2. tab[t].fresh \in drawn \cup {NoSession}
    BY <1>2 DEF Request
  <2>3. QED BY <1>2, <1>3, <2>1, <2>2, RequestMoves
<1>9. CASE Verified(t)
  <2>1. /\ tab' = [tab EXCEPT ![t] = At("verified", jar)] /\ jar # NoSession
        /\ UNCHANGED <<sessions, drawn, jar, givenUp>>
    BY <1>9 DEF Verified
  <2>2. QED BY <1>2, <1>3, <2>1, RequestMoves
<1>10. CASE TokenAccepted(t)
  <2>1. PICK r \in Request : /\ tab' = [tab EXCEPT ![t] = r]
                             /\ r.place = "authorised" /\ r.cookie = tab[t].cookie
    BY <1>4, <1>10 DEF TokenAccepted, TabPlaces
  <2>2. UNCHANGED <<sessions, drawn, jar, givenUp>> /\ tab[t].place = "verified"
    BY <1>10 DEF TokenAccepted
  <2>3. r.cookie # NoSession
    BY <1>1, <2>1, <2>2 DEF CookiesKnown
  <2>4. QED BY <1>2, <2>1, <2>2, <2>3, RequestMoves
<1>11. CASE Logout(t)
  <2>1. /\ tab' = [tab EXCEPT ![t] = At("loggedOut", NoSession)]
        /\ sessions' = Without({tab[t].cookie})
        /\ givenUp' = givenUp \cup {tab[t].cookie}
        /\ UNCHANGED <<drawn, jar>> /\ tab[t].place = "authorised"
    BY <1>11 DEF Logout
  <2>2. tab[t].cookie \in drawn
    BY <1>1, <1>2, <2>1 DEF CookiesKnown, Request
  <2>3. sessions'[tab[t].cookie] = NoRow
    BY <1>1, <1>2, <2>1, <2>2, Deleted
  <2>4. QED BY <1>1, <1>2, <1>3, <2>1, <2>2, <2>3, Deleted, RequestMoves
<1>12. QED
  BY <1>5, <1>6, <1>7, <1>8, <1>9, <1>10, <1>11

(* Every step keeps the sessions' invariant.                                  *)
LEMMA SessionSteps ==
  ASSUME SessionInv, [AdminNext]_adminVars
  PROVE  SessionInv'
<1>1. SessionTypes /\ GivenUpIsDead /\ CookiesKnown
  BY DEF SessionInv
<1>2. ASSUME UNCHANGED <<sessions, drawn, jar, tab, givenUp>> PROVE SessionInv'
  BY <1>1, <1>2, RowsGo DEF SessionTypes
<1>3. ASSUME NEW i \in Ips, LoginFails(i) PROVE SessionInv'
  BY <1>2, <1>3 DEF LoginFails
<1>4. ASSUME NEW t \in Tabs, Expired(t) PROVE SessionInv'
  BY <1>1, <1>4, Deleted, RowsGo DEF Expired
<1>5. CASE SweepSessions
  BY <1>1, <1>5, Deleted, RowsGo DEF SweepSessions
<1>6. CASE Second
  <2>1. UNCHANGED <<tab, drawn, jar, givenUp>>
    BY <1>6 DEF Second
  <2>2. /\ sessions' \in [Sids -> (0..(Life + 1)) \cup {NoRow}]
        /\ \A s \in Sids : sessions[s] = NoRow => sessions'[s] = NoRow
    BY <1>1, <1>6 DEF Second, SessionTypes
  <2>3. QED BY <2>1, <2>2, RowsGo
<1>7. CASE Restart
  <2>1. /\ tab' = [t \in Tabs |-> Idle] /\ UNCHANGED <<sessions, drawn, jar, givenUp>>
    BY <1>7 DEF Restart
  <2>2. SessionTypes'
    BY <1>1, <2>1 DEF SessionTypes, Idle, At, TabPlaces
  <2>3. CookiesKnown'
    BY <2>1 DEF CookiesKnown, Idle, At
  <2>4. GivenUpIsDead'
    BY <1>1, <2>1 DEF GivenUpIsDead
  <2>5. QED BY <2>2, <2>3, <2>4 DEF SessionInv
<1>8. CASE UNCHANGED adminVars
  BY <1>2, <1>8 DEF adminVars
<1>9. QED
  BY <1>3, <1>4, <1>5, <1>6, <1>7, <1>8, CreateSteps, RequestSteps DEF AdminNext

----------------------------------------------------------------------------
(* The inductive invariant of the sessions.                                   *)
THEOREM SessionsInvariance == AdminSpec => []IInv
<1>1. AdminInit => IInv
  <2>1. AdminInit => LimiterInv
    BY DEF AdminInit, LimiterInv, LimiterTypes, RecordsCount, NoFailures
  <2>2. AdminInit => SessionInv
    BY DEF AdminInit, SessionInv, SessionTypes, GivenUpIsDead, CookiesKnown, Idle, At, TabPlaces
  <2>3. QED BY <2>1, <2>2, Parts
<1>2. IInv /\ [AdminNext]_adminVars => IInv'
  <2>1. IInv' <=> LimiterInv' /\ SessionInv'
    BY DEF IInv, AdminTypeOK, LimiterInv, SessionInv, LimiterTypes, SessionTypes
  <2>2. QED BY <2>1, Parts, LimiterSteps, SessionSteps
<1>3. QED BY <1>1, <1>2, PTL DEF AdminSpec

(* Within any lockout period an address fails at most MaxAttempts times after  *)
(* its last sign-in or the last restart (admin/routes.py, the login limiter), *)
(* for any numbers of addresses, attempts and seconds.                        *)
THEOREM LockoutIsKept == AdminSpec => []LockoutHolds
<1>1. IInv => LockoutHolds
  <2>1. ASSUME IInv, NEW i \in Ips PROVE failed[i][MaxAttempts] = Lockout
    <3>1. CASE attempts[i] = NoRecord
      BY <2>1, <3>1 DEF IInv, RecordsCount, NoFailures
    <3>2. CASE attempts[i] # NoRecord
      <4>1. attempts[i] \in Records /\ Counted(failed[i], attempts[i])
        BY <2>1, <3>2 DEF IInv, AdminTypeOK, RecordsCount
      <4>2. QED BY <4>1 DEF Records, Counted
    <3>3. QED BY <3>1, <3>2
  <2>2. QED BY <2>1 DEF IInv, LockoutHolds
<1>2. QED BY <1>1, SessionsInvariance, PTL

(* A session that a completed login or logout has ended is never in the table *)
(* again, for any numbers of tabs and sessions, whatever answers are lost.    *)
THEOREM EndedSessionsStayDead == AdminSpec => []GivenUpIsDead
<1>1. IInv => GivenUpIsDead
  BY DEF IInv
<1>2. QED BY <1>1, SessionsInvariance, PTL

----------------------------------------------------------------------------
(* What holds of every run: the registry knows only runs that were started;   *)
(* a task that is over has marked its job, completion is claimed by no task at *)
(* work, and a run whose job is cancelled, or that has left the registry, was *)
(* told to stop.                                                              *)
RunOK(r) ==
  /\ r \in registry => task[r] # "none"
  /\ r \in registry /\ task[r] = "over" => job[r].completed \/ job[r].cancelled
  /\ job[r].completed => task[r] = "over"
  /\ Live(r) /\ (job[r].cancelled \/ r \notin registry) => asked[r] # "nobody"

JobsInv == JobsTypeOK /\ \A r \in Runs : RunOK(r)

USE JobsAssumption

(* The operators on a job keep its type, and its flags as they say.           *)
LEMMA JobFields ==
  ASSUME NEW j \in Job,
         NEW i \in 0..(Evict + 1), NEW f \in Never..(Prune + 1), NEW c \in BOOLEAN
  PROVE  /\ Aged(j, i, f) \in Job
         /\ Aged(j, i, f).completed = j.completed
         /\ Aged(j, i, f).cancelled = j.cancelled
         /\ Shelved(j) \in Job
         /\ Shelved(j).completed = j.completed
         /\ Shelved(j).cancelled = j.cancelled
         /\ Completed(j, f) \in Job
         /\ Completed(j, f).completed
         /\ Completed(j, f).cancelled = j.cancelled
         /\ Aborted(j) \in Job
         /\ Aborted(j).completed = j.completed
         /\ Aborted(j).cancelled
         /\ Seen(j, c) \in Job
         /\ Seen(j, c).completed = j.completed
         /\ Seen(j, c).cancelled = j.cancelled
         /\ [j EXCEPT !.cancelled = TRUE] \in Job
         /\ [j EXCEPT !.cancelled = TRUE].completed = j.completed
         /\ [j EXCEPT !.cancelled = TRUE].cancelled
         /\ [j EXCEPT !.finished = f] \in Job
         /\ [j EXCEPT !.finished = f].completed = j.completed
         /\ [j EXCEPT !.finished = f].cancelled = j.cancelled
<1>1. ASSUME NEW a \in 0..(Evict + 1), NEW b \in Never..(Prune + 1)
      PROVE  /\ Aged(j, a, b) \in Job
             /\ Aged(j, a, b).completed = j.completed
             /\ Aged(j, a, b).cancelled = j.cancelled
  BY DEF Aged, Job
<1>2. /\ 0 \in 0..(Evict + 1) /\ 0 \in Never..(Prune + 1)
      /\ Never \in Never..(Prune + 1)
      /\ j.idle \in 0..(Evict + 1) /\ j.finished \in Never..(Prune + 1)
  BY DEF Never, Job
<1>3. ASSUME NEW k \in Job
      PROVE  /\ [k EXCEPT !.completed = TRUE] \in Job
             /\ [k EXCEPT !.completed = TRUE].completed
             /\ [k EXCEPT !.completed = TRUE].cancelled = k.cancelled
  BY DEF Job
<1>4. ASSUME NEW k \in Job
      PROVE  /\ [k EXCEPT !.cancelled = TRUE] \in Job
             /\ [k EXCEPT !.cancelled = TRUE].completed = k.completed
             /\ [k EXCEPT !.cancelled = TRUE].cancelled
  BY DEF Job
<1>5. ASSUME NEW k \in Job
      PROVE  /\ [k EXCEPT !.connected = c] \in Job
             /\ [k EXCEPT !.connected = c].completed = k.completed
             /\ [k EXCEPT !.connected = c].cancelled = k.cancelled
  BY DEF Job
<1>6. /\ [j EXCEPT !.finished = f] \in Job
      /\ [j EXCEPT !.finished = f].completed = j.completed
      /\ [j EXCEPT !.finished = f].cancelled = j.cancelled
  BY DEF Job
<1>7. QED
  BY <1>1, <1>2, <1>3, <1>4, <1>5, <1>6
  DEF Shelved, Completed, Aborted, Seen

Askers == {"nobody", "user", "sweep", "register"}
Readings ==
  /\ verdict \in [Runs -> Terminal \cup {"none"}]
  /\ reader \in [Readers -> Runs \cup {NoRun}]
  /\ gone \subseteq Readers

(* The types, without those of the registry.                                  *)
LEMMA TypesOf ==
  ASSUME JobsTypeOK
  PROVE  /\ job \in [Runs -> Job] /\ task \in [Runs -> Places]
         /\ asked \in [Runs -> Askers] /\ Readings /\ registry \subseteq Runs
BY DEF JobsTypeOK, Askers, Readings

(* A step that changes the job, the task or the asker of at most one run, and *)
(* leaves the registry alone.                                                 *)
LEMMA OneRun ==
  ASSUME JobsInv, NEW r \in Runs, NEW j \in Job, NEW p \in Places, NEW a \in Askers,
         UNCHANGED <<registry, started>>, Readings',
         job' = [job EXCEPT ![r] = j], task' = [task EXCEPT ![r] = p],
         asked' = [asked EXCEPT ![r] = a],
         r \in registry => p # "none",
         r \in registry /\ p = "over" => j.completed \/ j.cancelled,
         j.completed => p = "over",
         p \notin {"none", "over"} /\ (j.cancelled \/ r \notin registry) => a # "nobody"
  PROVE  JobsInv'
<1>1. /\ job \in [Runs -> Job] /\ task \in [Runs -> Places]
      /\ asked \in [Runs -> Askers]
  BY TypesOf DEF JobsInv
<1>2. JobsTypeOK'
  BY <1>1 DEF JobsInv, JobsTypeOK, Askers, Readings
<1>3. ASSUME NEW q \in Runs PROVE RunOK(q)'
  <2>1. CASE q = r
    BY <1>1, <2>1 DEF RunOK, Live, Places
  <2>2. CASE q # r
    <3>1. job'[q] = job[q] /\ task'[q] = task[q] /\ asked'[q] = asked[q]
      BY <1>1, <2>2
    <3>2. QED BY <3>1 DEF JobsInv, RunOK, Live
  <2>3. QED BY <2>1, <2>2
<1>4. QED BY <1>2, <1>3 DEF JobsInv

(* The steps of a task.                                                       *)
LEMMA TaskSteps ==
  ASSUME JobsInv, NEW r \in Runs,
         Work(r) \/ CancelSwallowed(r) \/ RunRefused(r)
  PROVE  JobsInv'
<1>1. /\ job \in [Runs -> Job] /\ task \in [Runs -> Places]
      /\ asked \in [Runs -> Askers] /\ Readings /\ RunOK(r)
  BY TypesOf DEF JobsInv
<1>2. PICK j \in Job, p \in Places, a \in Askers :
        /\ job[r] = j /\ task[r] = p /\ asked[r] = a
        /\ job = [job EXCEPT ![r] = j] /\ asked = [asked EXCEPT ![r] = a]
  BY <1>1
<1>3. CASE PanelDone(r)
  <2>1. /\ task' = [task EXCEPT ![r] = "judging"] /\ task[r] = "working"
        /\ UNCHANGED <<registry, started, job, verdict, reader, gone, asked>>
    BY <1>3 DEF PanelDone
  <2>2. "judging" \in Places /\ Readings'
    BY <1>1, <2>1 DEF Places, Readings
  <2>3. job' = [job EXCEPT ![r] = j] /\ asked' = [asked EXCEPT ![r] = a]
    BY <1>2, <2>1
  <2>4. /\ ~j.completed
        /\ j.cancelled \/ r \notin registry => a # "nobody"
    BY <1>1, <1>2, <2>1 DEF RunOK, Live
  <2>5. QED BY <2>1, <2>2, <2>3, <2>4, OneRun
<1>4. CASE CancelSwallowed(r)
  <2>1. /\ task' = [task EXCEPT ![r] = "judging"] /\ task[r] = "cancelling"
        /\ UNCHANGED <<registry, started, job, verdict, reader, gone, asked>>
    BY <1>4 DEF CancelSwallowed
  <2>2. "judging" \in Places /\ Readings'
    BY <1>1, <2>1 DEF Places, Readings
  <2>3. job' = [job EXCEPT ![r] = j] /\ asked' = [asked EXCEPT ![r] = a]
    BY <1>2, <2>1
  <2>4. /\ ~j.completed
        /\ j.cancelled \/ r \notin registry => a # "nobody"
    BY <1>1, <1>2, <2>1 DEF RunOK, Live
  <2>5. QED BY <2>1, <2>2, <2>3, <2>4, OneRun
<1>5. CASE RunRefused(r)
  <2>1. /\ task' = [task EXCEPT ![r] = "over"] /\ task[r] = "none"
        /\ UNCHANGED <<registry, started, job, verdict, reader, gone, asked>>
    BY <1>5 DEF RunRefused
  <2>2. "over" \in Places /\ Readings' /\ r \notin registry
    BY <1>1, <2>1 DEF Places, Readings, RunOK
  <2>3. job' = [job EXCEPT ![r] = j] /\ asked' = [asked EXCEPT ![r] = a]
    BY <1>2, <2>1
  <2>4. QED BY <2>1, <2>2, <2>3, OneRun
<1>6. ASSUME NEW event \in Terminal, NEW stamped \in BOOLEAN,
             End(r, event, stamped)
      PROVE  JobsInv'
  <2>1. PICK f \in Never..(Prune + 1) :
          job' = [job EXCEPT ![r] = Completed(job[r], f)]
    <3>1. 0 \in Never..(Prune + 1) /\ job[r].finished \in Never..(Prune + 1)
      BY <1>2 DEF Never, Job
    <3>2. QED BY <1>6, <3>1 DEF End
  <2>2. /\ task' = [task EXCEPT ![r] = "over"]
        /\ verdict' = [verdict EXCEPT ![r] = event]
        /\ UNCHANGED <<registry, started, reader, gone, asked>>
    BY <1>6 DEF End
  <2>3. "over" \in Places /\ Readings'
    BY <1>1, <2>2 DEF Places, Readings
  <2>4. /\ Completed(job[r], f) \in Job
        /\ Completed(job[r], f).completed
    <3>1. 0 \in 0..(Evict + 1)
      OBVIOUS
    <3>2. QED BY <1>2, <3>1, JobFields
  <2>5. QED BY <1>2, <2>1, <2>2, <2>3, <2>4, OneRun
<1>7. CASE Cancelled(r)
  <2>1. /\ task' = [task EXCEPT ![r] = "over"]
        /\ verdict' = [verdict EXCEPT ![r] = "cancelled"]
        /\ job' = [job EXCEPT ![r] = [job[r] EXCEPT !.cancelled = TRUE]]
        /\ UNCHANGED <<registry, started, reader, gone, asked>>
    BY <1>7 DEF Cancelled
  <2>2. "over" \in Places /\ Readings'
    BY <1>1, <2>1 DEF Places, Readings, Terminal
  <2>3. /\ [job[r] EXCEPT !.cancelled = TRUE] \in Job
        /\ [job[r] EXCEPT !.cancelled = TRUE].cancelled
    BY <1>2 DEF Job
  <2>4. QED BY <1>2, <2>1, <2>2, <2>3, OneRun
<1>8. CASE Work(r)
  BY <1>3, <1>6, <1>7, <1>8 DEF Work, Terminal
<1>9. QED BY <1>4, <1>5, <1>8

(* The steps of readers, browsers and the cancel route.                       *)
LEMMA ReaderSteps ==
  ASSUME JobsInv, NEW d \in Readers,
         \/ \E r \in Runs : Connect(d, r)
         \/ LeaveBrowser(d) \/ NoticesLeft(d)
         \/ ReaderCancelled(d) \/ TakesVerdict(d)
  PROVE  JobsInv'
<1>1. /\ job \in [Runs -> Job] /\ task \in [Runs -> Places]
      /\ asked \in [Runs -> Askers] /\ Readings
  BY TypesOf DEF JobsInv
<1>2. 0 \in 0..(Evict + 1) /\ 0 \in Never..(Prune + 1)
  BY DEF Never
<1>3. ASSUME NEW r \in Runs, NEW c \in BOOLEAN,
             UNCHANGED <<registry, started, task, asked>>, Readings',
             job' = [job EXCEPT ![r] = Seen(job[r], c)]
      PROVE  JobsInv'
  <2>1. PICK j \in Job :
          /\ job' = [job EXCEPT ![r] = j]
          /\ j.completed = job[r].completed /\ j.cancelled = job[r].cancelled
    <3>1. job[r] \in Job
      BY <1>1
    <3>2. /\ Seen(job[r], c) \in Job
          /\ Seen(job[r], c).completed = job[r].completed
          /\ Seen(job[r], c).cancelled = job[r].cancelled
      BY <1>2, <3>1, JobFields
    <3>3. QED BY <1>3, <3>2
  <2>2. PICK p \in Places, a \in Askers :
          /\ task[r] = p /\ asked[r] = a
          /\ task' = [task EXCEPT ![r] = p] /\ asked' = [asked EXCEPT ![r] = a]
    BY <1>1, <1>3
  <2>3. /\ r \in registry => p # "none"
        /\ r \in registry /\ p = "over" => j.completed \/ j.cancelled
        /\ j.completed => p = "over"
        /\ p \notin {"none", "over"} /\ (j.cancelled \/ r \notin registry)
             => a # "nobody"
    BY <2>1, <2>2 DEF JobsInv, RunOK, Live, Places
  <2>4. UNCHANGED <<registry, started>> /\ Readings'
    BY <1>3
  <2>5. QED BY <2>1, <2>2, <2>3, <2>4, OneRun
<1>4. ASSUME UNCHANGED <<registry, started, job, task, asked>>, Readings'
      PROVE  JobsInv'
  <2>1. JobsTypeOK'
    BY <1>4 DEF JobsInv, JobsTypeOK, Readings
  <2>2. \A q \in Runs : RunOK(q)'
    BY <1>4 DEF JobsInv, RunOK, Live
  <2>3. QED BY <2>1, <2>2 DEF JobsInv
<1>5. ASSUME NEW r \in Runs, Connect(d, r) PROVE JobsInv'
  <2>1. /\ reader' = [reader EXCEPT ![d] = r]
        /\ job' = [job EXCEPT ![r] = Seen(job[r], TRUE)]
        /\ UNCHANGED <<registry, started, task, verdict, gone, asked>>
    BY <1>5 DEF Connect
  <2>2. Readings'
    BY <1>1, <2>1 DEF Readings
  <2>3. QED BY <1>3, <2>1, <2>2
<1>6. CASE LeaveBrowser(d)
  BY <1>1, <1>4, <1>6 DEF LeaveBrowser, Readings
<1>7. CASE NoticesLeft(d)
  <2>1. /\ reader[d] # NoRun
        /\ reader' = [reader EXCEPT ![d] = NoRun] /\ gone' = gone \ {d}
        /\ job' = [job EXCEPT ![reader[d]] = Seen(job[reader[d]], FALSE)]
        /\ UNCHANGED <<registry, started, task, verdict, asked>>
    BY <1>7 DEF NoticesLeft, StopTask
  <2>2. reader[d] \in Runs /\ Readings'
    BY <1>1, <2>1 DEF Readings
  <2>3. QED BY <1>3, <2>1, <2>2
<1>8. CASE ReaderCancelled(d)
  BY <1>1, <1>4, <1>8 DEF ReaderCancelled, StopTask, Readings
<1>9. CASE TakesVerdict(d)
  <2>1. /\ reader' = [reader EXCEPT ![d] = NoRun] /\ gone' = gone \ {d}
        /\ verdict' = [verdict EXCEPT ![reader[d]] = "none"]
        /\ UNCHANGED <<registry, started, job, task, asked>>
    BY <1>9 DEF TakesVerdict, StopTask
  <2>2. Readings'
    BY <1>1, <2>1 DEF Readings
  <2>3. QED BY <1>4, <2>1, <2>2
<1>10. QED BY <1>5, <1>6, <1>7, <1>8, <1>9

(* The cancel route.                                                          *)
LEMMA AbortSteps ==
  ASSUME JobsInv, NEW r \in Runs, Abort(r)
  PROVE  JobsInv'
<1>1. /\ job \in [Runs -> Job] /\ task \in [Runs -> Places]
      /\ asked \in [Runs -> Askers] /\ Readings /\ RunOK(r)
  BY TypesOf DEF JobsInv
<1>2. PICK j \in Job :
        job' = [job EXCEPT ![r] = j] /\ j.cancelled /\ j.completed = job[r].completed
  <2>1. 0 \in 0..(Evict + 1) /\ 0 \in Never..(Prune + 1)
    BY DEF Never
  <2>2. QED BY <1>1, <2>1, JobFields DEF Abort
<1>3. PICK p \in Places, a \in Askers :
        /\ task' = [task EXCEPT ![r] = p] /\ asked' = [asked EXCEPT ![r] = a]
        /\ IF Live(r) THEN p = "cancelling" /\ a = "user" ELSE p = task[r] /\ a = asked[r]
  <2>1. "cancelling" \in Places /\ "user" \in Askers
    BY DEF Places, Askers
  <2>2. CASE Live(r)
    BY <1>1, <2>1, <2>2 DEF Abort, Cancelling
  <2>3. CASE ~Live(r)
    BY <1>1, <2>3 DEF Abort, Cancelling
  <2>4. QED BY <2>2, <2>3
<1>4. /\ r \in registry => p # "none"
      /\ j.completed => p = "over"
      /\ p \notin {"none", "over"} => a # "nobody"
  BY <1>1, <1>2, <1>3 DEF RunOK, Live, Places
<1>5. UNCHANGED <<registry, started>> /\ Readings'
  BY <1>1 DEF Abort, Readings
<1>6. QED BY <1>2, <1>3, <1>4, <1>5, OneRun

----------------------------------------------------------------------------
(* What a registration makes of the registry, and that it still has room.     *)
LEMMA RegisterSteps ==
  ASSUME JobsTypeOK, NEW r \in Runs, NEW others,
         others \subseteq registry, Cardinality(others) < MaxJobs, Registers(r, others)
  PROVE  /\ registry' \subseteq Runs /\ Cardinality(registry') <= MaxJobs
         /\ started' \in Seq(Runs)
         /\ \A q \in registry' : \E i \in DOMAIN started' : started'[i] = q
<1>1. /\ registry \subseteq Runs /\ started \in Seq(Runs)
      /\ \A q \in registry : \E i \in DOMAIN started : started[i] = q
  BY DEF JobsTypeOK
<1>2. registry' = others \cup {r} /\ started' = Append(started, r)
  BY DEF Registers
<1>3. Cardinality(others \cup {r}) <= MaxJobs
  <2>1. IsFiniteSet(others)
    BY <1>1, FS_Subset
  <2>2. /\ Cardinality(others) \in Nat
        /\ Cardinality(others \cup {r}) \in {Cardinality(others), Cardinality(others) + 1}
    BY <2>1, FS_CardinalityType, FS_AddElement
  <2>3. QED BY <2>2
<1>4. ASSUME NEW q \in registry' PROVE \E i \in DOMAIN started' : started'[i] = q
  <2>1. /\ Len(started) \in Nat /\ DOMAIN started = 1..Len(started)
        /\ DOMAIN started' = 1..(Len(started) + 1) /\ started'[Len(started) + 1] = r
        /\ \A i \in 1..Len(started) : started'[i] = started[i]
    BY <1>1, <1>2
  <2>2. CASE q = r
    BY <2>1, <2>2
  <2>3. CASE q # r
    <3>1. PICK i \in DOMAIN started : started[i] = q
      BY <1>1, <1>2, <2>3
    <3>2. QED BY <2>1, <3>1
  <2>4. QED BY <2>2, <2>3
<1>5. QED BY <1>1, <1>2, <1>3, <1>4

(* A run is registered where there is room.                                   *)
LEMMA RunSteps ==
  ASSUME JobsInv, NEW r \in Runs, Run(r)
  PROVE  JobsInv'
<1>1. /\ job \in [Runs -> Job] /\ task \in [Runs -> Places]
      /\ asked \in [Runs -> Askers] /\ Readings /\ JobsTypeOK
  BY TypesOf DEF JobsInv
<1>2. /\ job' = [job EXCEPT ![r] = NewJob] /\ task' = [task EXCEPT ![r] = "working"]
      /\ UNCHANGED <<verdict, reader, gone, asked>> /\ registry' = registry \cup {r}
  BY DEF Run, Registers
<1>3. /\ registry' \subseteq Runs /\ Cardinality(registry') <= MaxJobs
      /\ started' \in Seq(Runs)
      /\ \A q \in registry' : \E i \in DOMAIN started' : started'[i] = q
  <2>1. Registers(r, registry) /\ Cardinality(registry) < MaxJobs
    BY DEF Run
  <2>2. QED BY <1>1, <2>1, RegisterSteps
<1>4. /\ NewJob \in Job /\ ~NewJob.completed /\ ~NewJob.cancelled
  BY DEF NewJob, Job, Never
<1>5. JobsTypeOK'
  BY <1>1, <1>2, <1>3, <1>4 DEF JobsTypeOK, Places, Askers, Readings
<1>6. ASSUME NEW q \in Runs PROVE RunOK(q)'
  <2>1. CASE q = r
    BY <1>1, <1>2, <1>4, <2>1 DEF RunOK, Live
  <2>2. CASE q # r
    <3>1. job'[q] = job[q] /\ task'[q] = task[q] /\ asked'[q] = asked[q]
      BY <1>1, <1>2, <2>2
    <3>2. QED BY <1>2, <2>2, <3>1 DEF JobsInv, RunOK, Live
  <2>3. QED BY <2>1, <2>2
<1>7. QED BY <1>5, <1>6 DEF JobsInv

(* A run is registered in the place of another, whose task is told to stop.   *)
LEMMA EvictSteps ==
  ASSUME JobsInv, NEW r \in Runs, RunEvicting(r)
  PROVE  JobsInv'
<1>1. /\ job \in [Runs -> Job] /\ task \in [Runs -> Places]
      /\ asked \in [Runs -> Askers] /\ Readings /\ JobsTypeOK
  BY TypesOf DEF JobsInv
<1>2. PICK v \in Victims :
        /\ Replaces(r, v)
        /\ task' = [q \in Runs |-> IF q = r THEN "working"
                     ELSE IF q = v /\ Live(q) THEN "cancelling" ELSE task[q]]
        /\ asked' = [asked EXCEPT ![v] = IF Live(v) THEN "register" ELSE @]
        /\ UNCHANGED <<verdict, reader, gone>> /\ task[r] = "none"
  BY DEF RunEvicting
<1>3. v \in registry /\ v \in Runs /\ v # r
  BY <1>1, <1>2 DEF Victims, JobsInv, RunOK, JobsTypeOK
<1>4. /\ Registers(r, registry \ {v}) /\ registry' = (registry \ {v}) \cup {r}
      /\ job' = [q \in Runs |-> IF q = r THEN NewJob
                  ELSE IF q = v THEN Shelved(job[q]) ELSE job[q]]
  BY <1>2 DEF Replaces, Registers
<1>5. /\ registry' \subseteq Runs /\ Cardinality(registry') <= MaxJobs
      /\ started' \in Seq(Runs)
      /\ \A q \in registry' : \E i \in DOMAIN started' : started'[i] = q
  <2>1. Cardinality(registry) <= MaxJobs /\ IsFiniteSet(registry)
    <3>1. IsFiniteSet(registry)
      BY <1>1, FS_Subset DEF JobsTypeOK
    <3>2. QED BY <1>1, <3>1 DEF JobsTypeOK
  <2>2. Cardinality(registry \ {v}) < MaxJobs
    <3>1. Cardinality(registry) \in Nat
      BY <2>1, FS_CardinalityType
    <3>2. Cardinality(registry \ {v}) = Cardinality(registry) - 1
      BY <1>3, <2>1, FS_RemoveElement
    <3>3. QED BY <2>1, <3>1, <3>2
  <2>3. registry \ {v} \subseteq registry
    OBVIOUS
  <2>4. QED BY <1>1, <1>4, <2>2, <2>3, RegisterSteps
<1>6. /\ NewJob \in Job /\ ~NewJob.completed /\ ~NewJob.cancelled
  BY DEF NewJob, Job, Never
<1>7. PICK k \in Job : /\ Shelved(job[v]) = k
                            /\ k.completed = job[v].completed /\ k.cancelled = job[v].cancelled
  <2>1. 0 \in 0..(Evict + 1) /\ 0 \in Never..(Prune + 1)
    BY DEF Never
  <2>2. QED BY <1>1, <1>3, <2>1, JobFields
<1>8. JobsTypeOK'
  <2>1. job' \in [Runs -> Job]
    BY <1>1, <1>4, <1>6, <1>7
  <2>2. task' \in [Runs -> Places]
    BY <1>1, <1>2 DEF Places
  <2>3. asked' \in [Runs -> Askers]
    BY <1>1, <1>2 DEF Askers
  <2>4. Readings'
    BY <1>1, <1>2 DEF Readings
  <2>5. QED BY <1>5, <2>1, <2>2, <2>3, <2>4 DEF JobsTypeOK, Askers, Readings
<1>9. ASSUME NEW q \in Runs PROVE RunOK(q)'
  <2>1. CASE q = r
    BY <1>1, <1>2, <1>4, <1>6, <2>1 DEF RunOK, Live
  <2>2. CASE q = v
    <3>1. /\ job'[q] = k /\ q \notin registry' /\ RunOK(v)
          /\ task'[q] = IF Live(v) THEN "cancelling" ELSE task[v]
          /\ asked'[q] = IF Live(v) THEN "register" ELSE asked[v]
      BY <1>1, <1>2, <1>3, <1>4, <1>7, <2>2 DEF JobsInv
    <3>2. QED BY <1>7, <2>2, <3>1 DEF RunOK, Live
  <2>3. CASE q # r /\ q # v
    <3>1. job'[q] = job[q] /\ task'[q] = task[q] /\ asked'[q] = asked[q]
      BY <1>1, <1>2, <1>4, <2>3
    <3>2. QED BY <1>4, <2>3, <3>1 DEF JobsInv, RunOK, Live
  <2>4. QED BY <2>1, <2>2, <2>3
<1>10. QED BY <1>8, <1>9 DEF JobsInv

----------------------------------------------------------------------------
(* The sweep stops what was left alone, so that what it prunes, which is      *)
(* finished, has a task that is over or was told to stop.                     *)
LEMMA SweepSteps ==
  ASSUME JobsInv, Sweep
  PROVE  JobsInv'
<1>1. /\ job \in [Runs -> Job] /\ task \in [Runs -> Places]
      /\ asked \in [Runs -> Askers] /\ Readings /\ JobsTypeOK
  BY TypesOf DEF JobsInv
<1>2. 0 \in 0..(Evict + 1) /\ 0 \in Never..(Prune + 1)
  BY DEF Never
<1>3. ASSUME NEW q \in Runs
      PROVE  /\ Swept(q) \in Job
             /\ Swept(q).completed = job[q].completed
             /\ IF q \in registry /\ Left(q) THEN Swept(q).cancelled
                ELSE Swept(q).cancelled = job[q].cancelled
  <2>1. job[q] \in Job
    BY <1>1
  <2>2. ~(Left(q) /\ Pruned(q))
    BY DEF Left, Pruned
  <2>3. QED BY <1>2, <2>1, <2>2, JobFields DEF Swept
<1>4. /\ job' = [q \in Runs |-> Swept(q)]
      /\ registry' = registry \ {q \in registry : Pruned(q)}
      /\ task' = [q \in Runs |-> IF (q \in registry /\ Left(q)) /\ Live(q)
                                 THEN "cancelling" ELSE task[q]]
      /\ asked' = [q \in Runs |-> IF (q \in registry /\ Left(q)) /\ Live(q)
                                  THEN "sweep" ELSE asked[q]]
      /\ UNCHANGED <<started, verdict, reader, gone>>
  BY DEF Sweep, Cancelling
<1>5. Cardinality(registry') <= MaxJobs
  <2>1. IsFiniteSet(registry)
    BY <1>1, FS_Subset DEF JobsTypeOK
  <2>2. /\ Cardinality(registry') <= Cardinality(registry)
        /\ Cardinality(registry') \in Nat /\ Cardinality(registry) \in Nat
    BY <1>4, <2>1, FS_Subset, FS_CardinalityType
  <2>3. Cardinality(registry) <= MaxJobs
    BY <1>1 DEF JobsTypeOK
  <2>4. QED BY <2>2, <2>3
<1>6. JobsTypeOK'
  <2>1. job' \in [Runs -> Job]
    BY <1>3, <1>4
  <2>2. task' \in [Runs -> Places] /\ asked' \in [Runs -> Askers]
    BY <1>1, <1>4 DEF Places, Askers
  <2>3. Readings'
    BY <1>1, <1>4 DEF Readings
  <2>4. /\ registry' \subseteq Runs /\ started' \in Seq(Runs)
        /\ \A q \in registry' : \E i \in DOMAIN started' : started'[i] = q
    BY <1>1, <1>4 DEF JobsTypeOK
  <2>5. QED BY <1>5, <2>1, <2>2, <2>3, <2>4 DEF JobsTypeOK, Askers, Readings
<1>7. ASSUME NEW q \in Runs PROVE RunOK(q)'
  <2>1. /\ RunOK(q)
        /\ task'[q] = IF (q \in registry /\ Left(q)) /\ Live(q)
                      THEN "cancelling" ELSE task[q]
        /\ asked'[q] = IF (q \in registry /\ Left(q)) /\ Live(q)
                       THEN "sweep" ELSE asked[q]
    BY <1>4 DEF JobsInv
  <2>2. PICK k \in Job :
          /\ job'[q] = k /\ k.completed = job[q].completed
          /\ IF q \in registry /\ Left(q) THEN k.cancelled
             ELSE k.cancelled = job[q].cancelled
    BY <1>3, <1>4
  <2>3. q \in registry' => q \in registry
    BY <1>4
  <2>4. q \in registry /\ q \notin registry' => job[q].completed \/ job[q].cancelled
    BY <1>4 DEF Pruned, Finished
  <2>5. QED BY <2>1, <2>2, <2>3, <2>4 DEF RunOK, Live
<1>8. QED BY <1>6, <1>7 DEF JobsInv

(* Time passes for the jobs in the registry.                                  *)
LEMMA TickSteps ==
  ASSUME JobsInv, JobsTick
  PROVE  JobsInv'
<1>1. /\ job \in [Runs -> Job] /\ Readings /\ JobsTypeOK
      /\ UNCHANGED <<registry, started, task, verdict, reader, gone, asked>>
  BY TypesOf DEF JobsInv, JobsTick
<1>2. ASSUME NEW q \in Runs
      PROVE  /\ job'[q] \in Job /\ job'[q].completed = job[q].completed
             /\ job'[q].cancelled = job[q].cancelled
  <2>1. CASE q \notin registry
    BY <1>1, <2>1 DEF JobsTick
  <2>2. CASE q \in registry
    <3>1. /\ job[q].idle \in 0..(Evict + 1) /\ job[q].finished \in Never..(Prune + 1)
      BY <1>1 DEF Job
    <3>2. PICK i \in 0..(Evict + 1) : i = Older(job[q].idle, Evict + 1)
      BY <3>1 DEF Older
    <3>3. PICK f \in Never..(Prune + 1) :
            f = IF job[q].finished = Never THEN Never
                ELSE Older(job[q].finished, Prune + 1)
      BY <3>1 DEF Older, Never
    <3>4. job'[q] = Aged(job[q], i, f)
      BY <2>2, <3>2, <3>3 DEF JobsTick
    <3>5. PICK j \in Job : j = job[q]
      BY <1>1
    <3>6. /\ Aged(j, i, f) \in Job /\ Aged(j, i, f).completed = j.completed
          /\ Aged(j, i, f).cancelled = j.cancelled
      BY DEF Aged, Job
    <3>7. QED BY <3>4, <3>5, <3>6
  <2>3. QED BY <2>1, <2>2
<1>3. job' \in [Runs -> Job]
  <2>1. job' = [q \in Runs |-> job'[q]]
    BY DEF JobsTick
  <2>2. QED BY <1>2, <2>1
<1>4. JobsTypeOK'
  BY <1>1, <1>3 DEF JobsTypeOK
<1>5. ASSUME NEW q \in Runs PROVE RunOK(q)'
  BY <1>1, <1>2 DEF JobsInv, RunOK, Live
<1>6. QED BY <1>4, <1>5 DEF JobsInv

----------------------------------------------------------------------------
(* The inductive invariant of the playground's jobs.                          *)
THEOREM JobsInvariance == JobsSpec => []JobsInv
<1>1. JobsInit => JobsInv
  <2>1. SUFFICES ASSUME JobsInit PROVE JobsInv
    OBVIOUS
  <2>2. NewJob \in Job /\ ~NewJob.completed /\ ~NewJob.cancelled
    BY DEF NewJob, Job, Never
  <2>3. Cardinality({}) = 0
    BY FS_EmptySet
  <2>4. Cardinality(registry) <= MaxJobs
    BY <2>1, <2>3 DEF JobsInit
  <2>5. JobsTypeOK
    BY <2>1, <2>2, <2>4 DEF JobsInit, JobsTypeOK, Places
  <2>6. \A r \in Runs : RunOK(r)
    BY <2>1, <2>2 DEF JobsInit, RunOK, Live
  <2>7. QED BY <2>5, <2>6 DEF JobsInv
<1>2. JobsInv /\ [JobsNext]_jobsVars => JobsInv'
  <2>1. SUFFICES ASSUME JobsInv, [JobsNext]_jobsVars PROVE JobsInv'
    OBVIOUS
  <2>2. CASE UNCHANGED jobsVars
    BY <2>1, <2>2 DEF jobsVars, JobsInv, JobsTypeOK, RunOK, Live
  <2>3. CASE JobsNext
    BY <2>1, <2>3, RunSteps, EvictSteps, TaskSteps, AbortSteps, ReaderSteps, SweepSteps, TickSteps
    DEF JobsNext
  <2>4. QED BY <2>1, <2>2, <2>3
<1>3. QED BY <1>1, <1>2, PTL DEF JobsSpec

(* A task that is over has marked its job, and a job that claims completion   *)
(* has no task at work (admin/jobs.py), for any numbers of runs, readers and  *)
(* places and any ages.                                                       *)
THEOREM FlagsAreTrue == JobsSpec => []FlagsMatchTask
<1>1. JobsInv => FlagsMatchTask
  BY DEF JobsInv, RunOK, FlagsMatchTask, Finished, JobsTypeOK
<1>2. QED BY <1>1, JobsInvariance, PTL

(* A run that has left the registry is over or was told to stop.              *)
THEOREM NoOrphans == JobsSpec => []OrphansWereCancelled
<1>1. JobsInv => OrphansWereCancelled
  BY DEF JobsInv, RunOK, OrphansWereCancelled
<1>2. QED BY <1>1, JobsInvariance, PTL
============================================================================
