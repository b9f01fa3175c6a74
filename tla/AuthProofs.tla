----------------------------- MODULE AuthProofs -----------------------------
(***************************************************************************)
(* What the stores of Auth promise, for any number of goroutines, limits   *)
(* and times: they keep their types, a challenge serves one request,       *)
(* challenges and sessions stay within their limits, an ended session stays*)
(* ended, and the failures of an address exceed the limit at most by the   *)
(* requests that were past Check together.                                 *)
(***************************************************************************)
EXTENDS Auth, FiniteSetTheorems, TLAPS

-----------------------------------------------------------------------------
(* The types that the stores of sessions and challenges need.               *)

Control == pc = [t \in Threads |-> pc[t]] /\ job \in [Threads -> Job]

CoreType ==
    /\ now \in Nat /\ lastToken \in Nat /\ lastChallenge \in Nat
    /\ sessions \subseteq Session /\ entries \subseteq Challenge
    /\ Control

\* Locals of the requests.
LEMMA NoJobType == NoJob \in Job
  BY AuthAssumption DEF NoJob, Job

LEMMA DoneType ==
    ASSUME Control, NEW t \in Threads, Done(t)
    PROVE  Control'
  <1>1. pc' = [s \in Threads |-> pc'[s]]
    BY DEF Control, Done
  <1>2. job' \in [Threads -> Job]
    BY NoJobType DEF Control, Done
  <1> QED
    BY <1>1, <1>2 DEF Control

LEMMA GotoType ==
    ASSUME Control, NEW t \in Threads, NEW step, Goto(t, step)
    PROVE  Control'
  BY DEF Control, Goto

LEMMA AcceptType ==
    ASSUME Control, NEW t \in Threads, NEW j \in Job, NEW step,
           Accept(t, j, step)
    PROVE  Control'
  <1>1. pc' = [s \in Threads |-> pc'[s]]
    BY DEF Control, Accept
  <1>2. CASE step = "idle"
    <2>1. job' = [job EXCEPT ![t] = NoJob]
      BY <1>2 DEF Accept
    <2> QED
      BY <1>1, <2>1, NoJobType DEF Control
  <1>3. CASE step # "idle"
    <2>1. job' = [job EXCEPT ![t] = j]
      BY <1>3 DEF Accept
    <2> QED
      BY <1>1, <2>1 DEF Control
  <1> QED
    BY <1>2, <1>3

\* A request whose first locked section looks a session up.
LEMMA WithSessionType ==
    ASSUME CoreType, NEW t \in Threads, NEW k, NEW j \in Job, NEW step,
           WithSession(t, k, j, step)
    PROVE  CoreType'
  <1>1. PICK s : Accept(t, j, s)
    BY DEF WithSession
  <1>2. Control'
    BY <1>1, AcceptType DEF CoreType
  <1> QED
    BY <1>2 DEF CoreType, WithSession, GetSession

LEMMA RequestType ==
    ASSUME CoreType, NEW t \in Threads, Request(t)
    PROVE  CoreType'
  <1>0. Control /\ 1..lastToken \subseteq Nat /\ 1..lastChallenge \subseteq Nat
    BY DEF CoreType
  <1>1. CASE Login(t)
    <2>1. PICK ip \in IPs, good \in BOOLEAN :
             Accept(t, LoginJob(ip, good), IF good THEN "rotate" ELSE "fail")
      BY <1>1 DEF Login
    <2>2. LoginJob(ip, good) \in Job
      BY AuthAssumption DEF LoginJob, NoJob, Job
    <2>3. Control'
      BY <1>0, <2>1, <2>2, AcceptType
    <2> QED
      BY <1>1, <2>3 DEF CoreType, Login, stores
  <1>2. CASE Logout(t)
    <2>1. Control'
      BY <1>0, <1>2, AcceptType, NoJobType DEF Logout
    <2> QED
      BY <1>2, <2>1 DEF CoreType, Logout
  <1>3. CASE Visit(t)
    <2>1. PICK k \in Nat, poll \in BOOLEAN :
             Accept(t, VisitJob(k), IF Live(k) /\ ~ poll THEN "touch" ELSE "idle")
      BY <1>0, <1>3 DEF Visit
    <2>2. VisitJob(k) \in Job
      BY AuthAssumption DEF VisitJob, NoJob, Job
    <2>3. Control'
      BY <1>0, <2>1, <2>2, AcceptType
    <2> QED
      BY <1>3, <2>3 DEF CoreType, Visit, GetSession
  <1>4. CASE RegisterBegin(t)
    <2>1. BeginJob(Unix, "register") \in Job
      BY AuthAssumption DEF BeginJob, NoJob, Job
    <2> QED
      BY <1>4, <2>1, WithSessionType DEF RegisterBegin
  <1>5. CASE RegisterFinish(t)
    <2>1. PICK k, c \in Nat, x \in Creds, good \in BOOLEAN :
             WithSession(t, k, FinishJob("register", Unix, c, x, good), "take")
      BY <1>0, <1>5 DEF RegisterFinish
    <2>2. FinishJob("register", Unix, c, x, good) \in Job
      BY AuthAssumption DEF FinishJob, NoJob, Job
    <2> QED
      BY <2>1, <2>2, WithSessionType
  <1>6. CASE LoginBegin(t)
    <2>1. PICK ip \in IPs : Accept(t, BeginJob(ip, "login"), "count")
      BY <1>6 DEF LoginBegin
    <2>2. BeginJob(ip, "login") \in Job
      BY AuthAssumption DEF BeginJob, NoJob, Job
    <2>3. Control'
      BY <1>0, <2>1, <2>2, AcceptType
    <2> QED
      BY <1>6, <2>3 DEF CoreType, LoginBegin, stores
  <1>7. CASE LoginFinish(t)
    <2>1. PICK ip \in IPs, c \in Nat, x \in Creds, good \in BOOLEAN :
             Accept(t, FinishJob("passkey", ip, c, x, good), "take")
      BY <1>0, <1>7 DEF LoginFinish
    <2>2. FinishJob("passkey", ip, c, x, good) \in Job
      BY AuthAssumption DEF FinishJob, NoJob, Job
    <2>3. Control'
      BY <1>0, <2>1, <2>2, AcceptType
    <2> QED
      BY <1>7, <2>3 DEF CoreType, LoginFinish, stores
  <1>8. CASE Forget(t)
    <2>1. \A x \in Creds : ForgetJob(x) \in Job
      BY AuthAssumption DEF ForgetJob, NoJob, Job
    <2> QED
      BY <1>8, <2>1, WithSessionType DEF Forget
  <1> QED
    BY <1>1, <1>2, <1>3, <1>4, <1>5, <1>6, <1>7, <1>8 DEF Request

LEMMA StepType ==
    ASSUME CoreType, NEW t \in Threads, Step(t)
    PROVE  CoreType'
  <1>0. Control /\ now \in Nat /\ lastToken \in Nat /\ lastChallenge \in Nat
    BY DEF CoreType
  <1>1. CASE RecordFailure(t)
    BY <1>0, <1>1, DoneType DEF CoreType, RecordFailure
  <1>2. CASE DeleteByUsername(t)
    BY <1>0, <1>2, GotoType DEF CoreType, DeleteByUsername
  <1>3. CASE Create(t)
    <2>1. PICK rest \in WithRoom :
             sessions' = rest \cup {[token |-> lastToken + 1, created |-> now,
                                     active |-> now]}
      BY <1>3 DEF Create
    <2>2. sessions' \subseteq Session
      BY <1>0, <2>1 DEF CoreType, WithRoom, Session
    <2>3. job' = [job EXCEPT ![t].token = lastToken + 1]
      BY <1>3 DEF Create
    <2>4. job' \in [Threads -> Job]
      BY <1>0, <2>3 DEF Control, Job
    <2>5. pc' = [s \in Threads |-> pc'[s]]
      BY <1>0, <1>3 DEF Create, Control
    <2> QED
      BY <1>0, <1>3, <2>2, <2>4, <2>5 DEF CoreType, Create, Control
  <1>4. CASE Reset(t)
    BY <1>0, <1>4, GotoType DEF CoreType, Reset
  <1>5. CASE Answer(t)
    BY <1>0, <1>5, DoneType DEF CoreType, Answer, GetSession
  <1>6. CASE Touch(t)
    <2>1. ASSUME NEW s \in sessions PROVE [s EXCEPT !.active = now] \in Session
      BY <1>0 DEF CoreType, Session
    <2>2. sessions' \subseteq Session
      BY <1>6, <2>1 DEF CoreType, Touch
    <2> QED
      BY <1>0, <1>6, <2>2, DoneType DEF CoreType, Touch
  <1>7. CASE Store(t)
    <2>1. job[t].kind \in {"register", "login"}
      BY <1>0 DEF Control, Job
    <2>2. [token |-> lastChallenge + 1, kind |-> job[t].kind, born |-> now]
             \in Challenge
      BY <1>0, <2>1 DEF Challenge
    <2>3. entries' \subseteq Challenge
      BY <1>7, <2>2 DEF CoreType, Store, Kept
    <2> QED
      BY <1>0, <1>7, <2>3, DoneType DEF CoreType, Store
  <1>8. CASE Take(t)
    <2>1. Control'
      <3>1. CASE Done(t)
        BY <1>0, <3>1, DoneType
      <3>2. CASE ~ Done(t)
        <4>1. PICK e \in entries :
                 /\ pc' = [pc EXCEPT ![t] = "verify"]
                 /\ job' = [job EXCEPT ![t].kind = e.kind]
          BY <1>8, <3>2 DEF Take
        <4>2. e.kind \in {"register", "login"}
          BY DEF CoreType, Challenge
        <4>3. job' \in [Threads -> Job]
          BY <1>0, <4>1, <4>2 DEF Control, Job
        <4> QED
          BY <1>0, <4>1, <4>3 DEF Control
      <3> QED
        BY <3>1, <3>2
    <2> QED
      BY <1>8, <2>1 DEF CoreType, Take
  <1>9. CASE Verify(t)
    <2>1. Control'
      BY <1>0, <1>9, DoneType, GotoType DEF Verify
    <2> QED
      BY <1>9, <2>1 DEF CoreType, Verify, stores
  <1>10. CASE Count(t)
    BY <1>0, <1>10, DoneType, GotoType DEF CoreType, Count, stores
  <1>11. CASE InsertCredential(t)
    BY <1>0, <1>11, DoneType DEF CoreType, InsertCredential
  <1>12. CASE DeleteCredential(t)
    BY <1>0, <1>12, DoneType DEF CoreType, DeleteCredential
  <1>13. CASE Fail(t)
    BY <1>0, <1>13, DoneType DEF CoreType, Fail, stores
  <1> QED
    BY <1>1, <1>2, <1>3, <1>4, <1>5, <1>6, <1>7, <1>8, <1>9, <1>10, <1>11,
       <1>12, <1>13 DEF Step

LEMMA CoreTypeNext == CoreType /\ [Next]_vars => CoreType'
  <1> SUFFICES ASSUME CoreType, [Next]_vars PROVE CoreType'
    OBVIOUS
  <1>1. CASE \E t \in Threads : Request(t) \/ Step(t)
    BY <1>1, RequestType, StepType
  <1>2. CASE Cleanup
    BY <1>2 DEF CoreType, Control, Cleanup, SessionCleanup, LimiterCleanup,
                ChallengeCleanup
  <1>3. CASE Tick
    BY <1>3 DEF CoreType, Control, Tick, stores
  <1>4. CASE UNCHANGED vars
    BY <1>4 DEF CoreType, Control, vars, stores
  <1> QED
    BY <1>1, <1>2, <1>3, <1>4 DEF Next

LEMMA CoreTypeInit == Init => CoreType
  BY NoJobType DEF Init, CoreType, Control

LEMMA CoreTypeCorrect == Spec => []CoreType
  BY CoreTypeInit, CoreTypeNext, PTL DEF Spec

-----------------------------------------------------------------------------
(* Sessions.  Only Create adds one, and only Touch changes one.             *)

LEMMA SessionSteps ==
    ASSUME NEW t \in Threads, Request(t) \/ Step(t)
    PROVE  \/ Create(t) \/ Touch(t)
           \/ sessions' \subseteq sessions /\ lastToken' = lastToken
  <1>1. CASE Request(t)
    <2>1. ASSUME NEW k, GetSession(k) PROVE sessions' \subseteq sessions
      BY <2>1 DEF GetSession
    <2> QED
      BY <1>1, <2>1
      DEF Request, Login, Logout, Visit, RegisterBegin, RegisterFinish,
          LoginBegin, LoginFinish, Forget, WithSession, stores
  <1>2. CASE Step(t)
    BY <1>2
    DEF Step, RecordFailure, DeleteByUsername, Reset, Answer, GetSession, Store,
        Take, Verify, Count, InsertCredential, DeleteCredential, Fail, stores
  <1> QED
    BY <1>1, <1>2

LEMMA SessionStepsNext ==
    ASSUME [Next]_vars
    PROVE  \/ \E t \in Threads : Create(t) \/ Touch(t)
           \/ sessions' \subseteq sessions /\ lastToken' = lastToken
  BY SessionSteps
  DEF Next, Cleanup, SessionCleanup, LimiterCleanup, ChallengeCleanup, Tick,
      vars, stores

LEMMA TimeNext ==
    ASSUME CoreType, [Next]_vars
    PROVE  now' \in Nat /\ now' >= now
  <1>1. now \in Nat
    BY DEF CoreType
  <1>2. now' = now \/ now' = now + 1
    BY DEF Next, Request, Step, Cleanup, SessionCleanup, LimiterCleanup,
           ChallengeCleanup, Tick, Login, Logout, Visit, RegisterBegin,
           RegisterFinish, LoginBegin, LoginFinish, Forget, WithSession,
           RecordFailure, DeleteByUsername, Create, Reset, Answer, Touch, Store,
           Take, Verify, Count, InsertCredential, DeleteCredential, Fail, vars,
           stores
  <1> QED
    BY <1>1, <1>2

LEMMA StaysExpired ==
    ASSUME CoreType, [Next]_vars, NEW s \in sessions, ~ Expired(s)'
    PROVE  ~ Expired(s)
  <1>1. now \in Nat /\ now' \in Nat /\ now' >= now /\ TTL \in Nat
    BY TimeNext, AuthAssumption DEF CoreType
  <1>2. s.active \in Nat
    BY DEF CoreType, Session
  <1>3. ~ (now' - s.active > TTL)
    BY DEF Expired
  <1> QED
    BY <1>1, <1>2, <1>3 DEF Expired

\* A session that is gone from the map stays gone, and an expired one is revived
\* by nothing but the Touch of a request that had found it live.
THEOREM EndedForGood == Spec => EndedStaysEnded
  <1>1. ASSUME CoreType, [Next]_vars, NEW k \in 1..lastToken,
               NEW s \in sessions', s.token = k
        PROVE  \/ s \in sessions
               \/ /\ \E q \in sessions : q.token = k
                  /\ \E t \in Threads : pc[t] = "touch" /\ job[t].token = k
    <2>1. CASE \E t \in Threads : Create(t)
      <3>1. PICK t \in Threads : Create(t)
        BY <2>1
      <3>2. PICK rest \in WithRoom :
               sessions' = rest \cup {[token |-> lastToken + 1,
                                       created |-> now, active |-> now]}
        BY <3>1 DEF Create
      <3>3. rest \subseteq sessions
        BY DEF WithRoom
      <3>4. lastToken + 1 # k
        BY <1>1 DEF CoreType
      <3> QED
        BY <1>1, <3>2, <3>3, <3>4
    <2>2. CASE \E t \in Threads : Touch(t)
      <3>1. PICK t \in Threads : Touch(t)
        BY <2>2
      <3>2. PICK q \in sessions :
               s = IF q.token = job[t].token THEN [q EXCEPT !.active = now]
                                             ELSE q
        BY <1>1, <3>1 DEF Touch
      <3>3. q \in Session
        BY <1>1 DEF CoreType
      <3>4. s.token = q.token
        BY <3>2, <3>3 DEF Session
      <3> QED
        BY <1>1, <3>1, <3>2, <3>4 DEF Touch
    <2>3. CASE sessions' \subseteq sessions
      BY <1>1, <2>3
    <2> QED
      BY <1>1, <2>1, <2>2, <2>3, SessionStepsNext
  <1>2. ASSUME CoreType, [Next]_vars, NEW k \in 1..lastToken,
               ~ Live(k), Live(k)'
        PROVE  \E t \in Threads : pc[t] = "touch" /\ job[t].token = k
    <2>1. PICK s \in sessions' : s.token = k /\ ~ Expired(s)'
      BY <1>2 DEF Live
    <2>2. s \notin sessions
      BY <1>2, <2>1, StaysExpired DEF Live
    <2> QED
      BY <1>1, <1>2, <2>1, <2>2
  <1>3. ASSUME CoreType, [Next]_vars, NEW k \in 1..lastToken,
               \A s \in sessions : s.token # k
        PROVE  \A s \in sessions' : s.token # k
    BY <1>1, <1>3
  <1>4. CoreType /\ [Next]_vars =>
           [\A k \in 1..lastToken :
              /\ (\A s \in sessions : s.token # k)
                    => \A s \in sessions' : s.token # k
              /\ ~ Live(k) /\ Live(k)'
                    => \E t \in Threads : pc[t] = "touch" /\ job[t].token = k
           ]_vars
    BY <1>2, <1>3
  <1> QED
    BY <1>4, CoreTypeCorrect, PTL DEF Spec, EndedStaysEnded

\* Tokens are handed out in order, so that a new one is not in the map.
SessionInv ==
    /\ IsFiniteSet(sessions)
    /\ \A s \in sessions : s.token <= lastToken
    /\ SessionsBounded

LEMMA SessionInvCreate ==
    ASSUME CoreType, SessionInv, NEW t \in Threads, Create(t)
    PROVE  SessionInv'
  <1> DEFINE new == [token |-> lastToken + 1, created |-> now, active |-> now]
  <1>1. PICK rest \in WithRoom : sessions' = rest \cup {new}
    BY DEF Create
  <1>2. lastToken' = lastToken + 1 /\ lastToken \in Nat
    BY DEF Create, CoreType
  <1>3. rest \subseteq sessions
    BY DEF WithRoom
  <1>4. Cardinality(sessions) \in Nat
    BY FS_CardinalityType DEF SessionInv
  <1>5. IsFiniteSet(rest) /\ Cardinality(rest) <= MaxSessions - 1
                          /\ Cardinality(rest) \in Nat
    <2>1. CASE Cardinality(sessions) < MaxSessions
      BY <1>4, <2>1, AuthAssumption DEF WithRoom, SessionInv
    <2>2. CASE ~ (Cardinality(sessions) < MaxSessions)
      <3>1. PICK s \in sessions : rest = sessions \ {s}
        BY <2>2 DEF WithRoom
      <3>2. IsFiniteSet(rest) /\ Cardinality(rest) = Cardinality(sessions) - 1
        BY <3>1, FS_RemoveElement DEF SessionInv
      <3>3. Cardinality(sessions) <= MaxSessions
        BY DEF SessionInv, SessionsBounded
      <3>4. Cardinality(rest) \in Nat
        BY <3>2, FS_CardinalityType
      <3> QED
        BY <1>4, <3>2, <3>3, <3>4, AuthAssumption
    <2> QED
      BY <2>1, <2>2
  <1>6. IsFiniteSet(sessions') /\ Cardinality(sessions') <= Cardinality(rest) + 1
    <2> HIDE DEF new
    <2>1. /\ IsFiniteSet(rest \cup {new})
          /\ Cardinality(rest \cup {new}) =
                IF new \in rest THEN Cardinality(rest) ELSE Cardinality(rest) + 1
      BY <1>5, FS_AddElement
    <2> QED
      BY <1>1, <1>5, <2>1
  <1>7. Cardinality(sessions') <= MaxSessions
    <2>1. Cardinality(sessions') \in Nat
      BY <1>6, FS_CardinalityType
    <2> QED
      BY <1>5, <1>6, <2>1, AuthAssumption
  <1>8. \A s \in rest : s.token \in Nat /\ s.token <= lastToken
    BY <1>3 DEF CoreType, Session, SessionInv
  <1>9. new.token = lastToken + 1
    OBVIOUS
  <1>10. \A s \in sessions' : s.token <= lastToken + 1
    BY <1>1, <1>2, <1>8, <1>9
  <1>11. \A r, s \in sessions' : r.token = s.token => r = s
    <2>1. \A r, s \in rest : r.token = s.token => r = s
      BY <1>3 DEF SessionInv, SessionsBounded
    <2>2. \A s \in rest : s.token # new.token
      BY <1>2, <1>8, <1>9
    <2> QED
      BY <1>1, <2>1, <2>2
  <1> QED
    BY <1>2, <1>6, <1>7, <1>10, <1>11 DEF SessionInv, SessionsBounded

LEMMA SessionInvTouch ==
    ASSUME CoreType, SessionInv, NEW t \in Threads, Touch(t)
    PROVE  SessionInv'
  <1> DEFINE f == [s \in sessions |->
                     IF s.token = job[t].token THEN [s EXCEPT !.active = now]
                                               ELSE s]
  <1>1. sessions' = {f[s] : s \in sessions} /\ lastToken' = lastToken
    BY DEF Touch
  <1>2. \A s \in sessions : f[s].token = s.token
    BY DEF CoreType, Session
  <1> HIDE DEF f
  <1>3. f \in Surjection(sessions, sessions')
    <2>1. f \in [sessions -> sessions']
      BY <1>1 DEF f
    <2>2. \A y \in sessions' : \E s \in sessions : f[s] = y
      BY <1>1
    <2> QED
      BY <2>1, <2>2 DEF Surjection
  <1>4. /\ IsFiniteSet(sessions')
        /\ Cardinality(sessions') <= Cardinality(sessions)
    BY <1>3, FS_Surjection DEF SessionInv
  <1>5. Cardinality(sessions') <= MaxSessions
    <2>1. Cardinality(sessions') \in Nat /\ Cardinality(sessions) \in Nat
      BY <1>4, FS_CardinalityType DEF SessionInv
    <2>2. Cardinality(sessions) <= MaxSessions
      BY DEF SessionInv, SessionsBounded
    <2> QED
      BY <1>4, <2>1, <2>2, AuthAssumption
  <1>6. \A s \in sessions' : s.token <= lastToken
    BY <1>1, <1>2 DEF SessionInv
  <1>7. \A r, s \in sessions' : r.token = s.token => r = s
    BY <1>1, <1>2 DEF SessionInv, SessionsBounded
  <1> QED
    BY <1>1, <1>4, <1>5, <1>6, <1>7 DEF SessionInv, SessionsBounded

\* At most max_sessions sessions, each with a token of its own, although logins
\* create and delete sessions in separate locked sections.
THEOREM SessionsStayBounded == Spec => []SessionsBounded
  <1>1. Init => SessionInv
    BY FS_EmptySet, AuthAssumption DEF Init, SessionInv, SessionsBounded
  <1>2. CoreType /\ SessionInv /\ [Next]_vars => SessionInv'
    <2> SUFFICES ASSUME CoreType, SessionInv, [Next]_vars PROVE SessionInv'
      OBVIOUS
    <2>1. CASE \E t \in Threads : Create(t) \/ Touch(t)
      BY <2>1, SessionInvCreate, SessionInvTouch
    <2>2. CASE sessions' \subseteq sessions /\ lastToken' = lastToken
      <3>1. /\ IsFiniteSet(sessions')
            /\ Cardinality(sessions') <= Cardinality(sessions)
        BY <2>2, FS_Subset DEF SessionInv
      <3>2. Cardinality(sessions') <= MaxSessions
        <4>1. Cardinality(sessions') \in Nat /\ Cardinality(sessions) \in Nat
          BY <3>1, FS_CardinalityType DEF SessionInv
        <4>2. Cardinality(sessions) <= MaxSessions
          BY DEF SessionInv, SessionsBounded
        <4> QED
          BY <3>1, <4>1, <4>2, AuthAssumption
      <3> QED
        BY <2>2, <3>1, <3>2 DEF SessionInv, SessionsBounded
    <2> QED
      BY <2>1, <2>2, SessionStepsNext
  <1>3. SessionInv => SessionsBounded
    BY DEF SessionInv
  <1> QED
    BY <1>1, <1>2, <1>3, CoreTypeCorrect, PTL DEF Spec

-----------------------------------------------------------------------------
(* Challenges.                                                              *)

\* A finishing request that has taken its challenge.
Holding(t) == /\ job[t].op \in {"register", "passkey"}
              /\ pc[t] \notin {"idle", "take"}

ChallengeInv ==
    /\ \A e \in entries : e.token <= lastChallenge
    /\ \A t \in Threads : job[t].chal <= lastChallenge
    /\ \A t \in Threads : Holding(t) =>
          /\ \A e \in entries : e.token # job[t].chal
          /\ \A s \in Threads \ {t} : Holding(s) => job[s].chal # job[t].chal

\* Goroutine t takes no challenge.
Quiet(t) ==
    /\ \A s \in Threads \ {t} : pc'[s] = pc[s] /\ job'[s] = job[s]
    /\ job'[t].chal <= lastChallenge
    /\ Holding(t)' => Holding(t) /\ job'[t].chal = job[t].chal

LEMMA QuietStep ==
    ASSUME ChallengeInv, NEW t \in Threads, Quiet(t), entries' \subseteq entries,
           lastChallenge' = lastChallenge
    PROVE  ChallengeInv'
  <1>1. \A s \in Threads : /\ Holding(s)' => Holding(s)
                           /\ Holding(s)' => job'[s].chal = job[s].chal
                           /\ job'[s].chal <= lastChallenge
    BY DEF Quiet, Holding, ChallengeInv
  <1> QED
    BY <1>1 DEF ChallengeInv

LEMMA QuietDone ==
    ASSUME CoreType, NEW t \in Threads, Done(t)
    PROVE  Quiet(t)
  BY DEF Quiet, Done, Holding, CoreType, Control, NoJob

LEMMA QuietGoto ==
    ASSUME CoreType, ChallengeInv, NEW t \in Threads, NEW step, Goto(t, step),
           pc[t] \notin {"idle", "take"}
    PROVE  Quiet(t)
  BY DEF Quiet, Goto, Holding, CoreType, Control, ChallengeInv

LEMMA QuietAccept ==
    ASSUME CoreType, NEW t \in Threads, NEW j \in Job, NEW step,
           Accept(t, j, step), j.chal <= lastChallenge,
           j.op \in {"register", "passkey"} => step \in {"idle", "take"}
    PROVE  Quiet(t)
  <1>1. \A s \in Threads \ {t} : pc'[s] = pc[s] /\ job'[s] = job[s]
    BY DEF Accept, CoreType, Control
  <1>2. CASE step = "idle"
    <2>1. job'[t] = NoJob
      BY <1>2 DEF Accept, CoreType, Control
    <2> QED
      BY <1>1, <2>1 DEF Quiet, Holding, NoJob, CoreType
  <1>3. CASE step # "idle"
    <2>1. job'[t] = j /\ pc'[t] = step
      BY <1>3 DEF Accept, CoreType, Control
    <2> QED
      BY <1>1, <2>1 DEF Quiet, Holding
  <1> QED
    BY <1>2, <1>3

LEMMA QuietRequest ==
    ASSUME CoreType, NEW t \in Threads, Request(t)
    PROVE  Quiet(t) /\ entries' = entries /\ lastChallenge' = lastChallenge
  <1>0. /\ 1..lastToken \subseteq Nat /\ 1..lastChallenge \subseteq Nat
        /\ lastChallenge \in Nat /\ 0 <= lastChallenge
        /\ \A c \in 1..lastChallenge : c <= lastChallenge
    BY DEF CoreType
  <1>1. entries' = entries /\ lastChallenge' = lastChallenge
    BY DEF Request, Login, Logout, Visit, RegisterBegin, RegisterFinish,
           LoginBegin, LoginFinish, Forget, WithSession, stores
  <1>2. CASE Login(t)
    <2>1. PICK ip \in IPs, good \in BOOLEAN :
             Accept(t, LoginJob(ip, good), IF good THEN "rotate" ELSE "fail")
      BY <1>2 DEF Login
    <2>2. /\ LoginJob(ip, good) \in Job /\ LoginJob(ip, good).chal = 0
          /\ LoginJob(ip, good).op = "login"
      BY AuthAssumption DEF LoginJob, NoJob, Job
    <2> QED
      BY <1>0, <1>1, <2>1, <2>2, QuietAccept
  <1>3. CASE Logout(t)
    <2>1. NoJob.chal = 0 /\ NoJob.op = "none"
      BY DEF NoJob
    <2> QED
      BY <1>0, <1>1, <1>3, <2>1, QuietAccept, NoJobType DEF Logout
  <1>4. CASE Visit(t)
    <2>1. PICK k \in Nat : \E step : Accept(t, VisitJob(k), step)
      BY <1>0, <1>4 DEF Visit
    <2>2. VisitJob(k) \in Job /\ VisitJob(k).chal = 0 /\ VisitJob(k).op = "visit"
      BY AuthAssumption DEF VisitJob, NoJob, Job
    <2> QED
      BY <1>0, <1>1, <2>1, <2>2, QuietAccept
  <1>5. CASE RegisterBegin(t) \/ LoginBegin(t)
    <2>1. PICK ip \in IPs, kind \in {"register", "login"} :
             \E step : Accept(t, BeginJob(ip, kind), step)
      BY <1>5, AuthAssumption DEF RegisterBegin, LoginBegin, WithSession
    <2>2. /\ BeginJob(ip, kind) \in Job /\ BeginJob(ip, kind).chal = 0
          /\ BeginJob(ip, kind).op = "begin"
      BY AuthAssumption DEF BeginJob, NoJob, Job
    <2> QED
      BY <1>0, <1>1, <2>1, <2>2, QuietAccept
  <1>6. CASE RegisterFinish(t) \/ LoginFinish(t)
    <2>1. PICK op \in {"register", "passkey"}, ip \in IPs,
               c \in 1..lastChallenge, x \in Creds, good \in BOOLEAN,
               step \in {"idle", "take"} :
             Accept(t, FinishJob(op, ip, c, x, good), step)
      BY <1>6, AuthAssumption DEF RegisterFinish, LoginFinish, WithSession
    <2>2. /\ FinishJob(op, ip, c, x, good) \in Job
          /\ FinishJob(op, ip, c, x, good).chal = c
      BY <1>0, AuthAssumption DEF FinishJob, NoJob, Job
    <2> QED
      BY <1>0, <1>1, <2>1, <2>2, QuietAccept
  <1>7. CASE Forget(t)
    <2>1. PICK x \in Creds : \E step : Accept(t, ForgetJob(x), step)
      BY <1>7 DEF Forget, WithSession
    <2>2. /\ ForgetJob(x) \in Job /\ ForgetJob(x).chal = 0
          /\ ForgetJob(x).op = "forget"
      BY AuthAssumption DEF ForgetJob, NoJob, Job
    <2> QED
      BY <1>0, <1>1, <2>1, <2>2, QuietAccept
  <1> QED
    BY <1>2, <1>3, <1>4, <1>5, <1>6, <1>7 DEF Request

\* Every step of a request but Store and Take only moves on.
LEMMA QuietOther ==
    ASSUME CoreType, ChallengeInv, NEW t \in Threads, Step(t),
           ~ Store(t), ~ Take(t)
    PROVE  Quiet(t) /\ entries' = entries /\ lastChallenge' = lastChallenge
  <1>1. entries' = entries /\ lastChallenge' = lastChallenge
    BY DEF Step, RecordFailure, DeleteByUsername, Create, Reset, Answer, Touch,
           Verify, Count, InsertCredential, DeleteCredential, Fail, stores
  <1>2. CASE Create(t)
    <2>1. /\ \A s \in Threads \ {t} : pc'[s] = pc[s] /\ job'[s] = job[s]
          /\ job'[t].chal = job[t].chal /\ job'[t].op = job[t].op
      BY <1>2 DEF Create, CoreType, Control, Job
    <2>2. pc[t] = "create"
      BY <1>2 DEF Create
    <2> QED
      BY <1>1, <2>1, <2>2 DEF Quiet, Holding, ChallengeInv
  <1>3. CASE Done(t)
    BY <1>1, <1>3, QuietDone
  <1>4. CASE \E step : Goto(t, step) /\ pc[t] \notin {"idle", "take"}
    BY <1>1, <1>4, QuietGoto
  <1> QED
    BY <1>2, <1>3, <1>4
    DEF Step, RecordFailure, DeleteByUsername, Reset, Answer, Touch, Verify,
        Count, InsertCredential, DeleteCredential, Fail

LEMMA ChallengeInvStore ==
    ASSUME CoreType, ChallengeInv, NEW t \in Threads, Store(t)
    PROVE  ChallengeInv'
  <1> DEFINE new == [token |-> lastChallenge + 1, kind |-> job[t].kind,
                     born |-> now]
  <1>1. /\ lastChallenge \in Nat /\ lastChallenge' = lastChallenge + 1
        /\ \A s \in Threads : job[s].chal \in Nat
        /\ \A e \in entries : e.token \in Nat
    BY DEF CoreType, Control, Job, Challenge, Store
  <1>2. \A e \in entries' : e \in entries \/ e = new
    BY DEF Store, Kept
  <1>3. Quiet(t)
    BY QuietDone DEF Store
  <1>4. new.token = lastChallenge + 1
    OBVIOUS
  <1>5. \A s \in Threads : /\ Holding(s)' => Holding(s)
                           /\ Holding(s)' => job'[s].chal = job[s].chal
                           /\ job'[s].chal <= lastChallenge
    BY <1>3 DEF Quiet, Holding, ChallengeInv
  <1>6. \A s \in Threads : job'[s].chal \in Nat
    BY StepType DEF CoreType, Control, Job, Step
  <1>7. \A s \in Threads : job'[s].chal <= lastChallenge'
    BY <1>1, <1>5, <1>6
  <1>8. \A e \in entries' : e.token <= lastChallenge'
    BY <1>1, <1>2, <1>4 DEF ChallengeInv
  <1>9. ASSUME NEW s \in Threads, Holding(s)', NEW e \in entries'
        PROVE  e.token # job'[s].chal
    <2>1. CASE e \in entries
      BY <1>5, <1>9, <2>1 DEF ChallengeInv
    <2>2. CASE e = new
      BY <1>1, <1>4, <1>5, <1>6, <2>2
    <2> QED
      BY <1>2, <2>1, <2>2
  <1> QED
    BY <1>5, <1>7, <1>8, <1>9 DEF ChallengeInv

LEMMA ChallengeInvTake ==
    ASSUME CoreType, ChallengeInv, NEW t \in Threads, Take(t)
    PROVE  ChallengeInv'
  <1>1. /\ entries' = {e \in entries : e.token # job[t].chal}
        /\ lastChallenge' = lastChallenge
    BY DEF Take
  <1>2. CASE Done(t)
    BY <1>1, <1>2, QuietDone, QuietStep
  <1>3. CASE ~ Done(t)
    <2>1. PICK e \in entries :
             /\ e.token = job[t].chal
             /\ pc' = [pc EXCEPT ![t] = "verify"]
             /\ job' = [job EXCEPT ![t].kind = e.kind]
      BY <1>3 DEF Take
    <2>2. /\ \A s \in Threads : /\ job'[s].chal = job[s].chal
                                /\ job'[s].op = job[s].op
          /\ \A s \in Threads \ {t} : pc'[s] = pc[s]
      BY <2>1 DEF CoreType, Control, Job
    <2>3. \A s \in Threads \ {t} : Holding(s)' => Holding(s)
      BY <2>2 DEF Holding
    <2>4. \A s \in Threads \ {t} : Holding(s)' => job[s].chal # job[t].chal
      BY <2>1, <2>3 DEF ChallengeInv
    <2> QED
      BY <1>1, <2>2, <2>3, <2>4 DEF ChallengeInv
  <1> QED
    BY <1>2, <1>3

\* A challenge serves one request: the one whose Get took it out of the map is
\* the only one verified against it, whatever the others do meanwhile.
THEOREM ChallengesServeOnce == Spec => []ChallengeOnce
  <1>1. Init => ChallengeInv
    BY DEF Init, ChallengeInv, Holding, NoJob
  <1>2. CoreType /\ ChallengeInv /\ [Next]_vars => ChallengeInv'
    <2> SUFFICES ASSUME CoreType, ChallengeInv, [Next]_vars
                 PROVE  ChallengeInv'
      OBVIOUS
    <2>1. CASE \E t \in Threads : Request(t)
      BY <2>1, QuietRequest, QuietStep
    <2>2. CASE \E t \in Threads : Step(t)
      BY <2>2, QuietOther, QuietStep, ChallengeInvStore, ChallengeInvTake
    <2>3. CASE Cleanup \/ Tick \/ UNCHANGED vars
      <3>1. /\ entries' \subseteq entries /\ lastChallenge' = lastChallenge
            /\ pc' = pc /\ job' = job
        BY <2>3 DEF Cleanup, SessionCleanup, LimiterCleanup, ChallengeCleanup,
                    Tick, vars, stores
      <3> QED
        BY <3>1 DEF ChallengeInv, Holding
    <2> QED
      BY <2>1, <2>2, <2>3 DEF Next
  <1>3. ChallengeInv => ChallengeOnce
    BY DEF ChallengeInv, ChallengeOnce, Holding
  <1> QED
    BY <1>1, <1>2, <1>3, CoreTypeCorrect, PTL DEF Spec


-----------------------------------------------------------------------------
(* The other types.                                                         *)

Steps == {"idle", "create", "answer", "touch", "fail", "reset", "rotate",
          "count", "store", "take", "verify", "insert", "delete"}

\* A request of a passkey has one, and only a registration inserts it.
CredInv ==
    \A t \in Threads :
       /\ job[t].op \in {"register", "passkey"} => job[t].cred \in Creds
       /\ pc[t] = "insert" => job[t].op = "register"

RestType ==
    /\ requests \in Nat /\ order \subseteq Nat
    /\ attempts \in [IPs -> SUBSET Failure]
    /\ \A ip \in IPs : IsFiniteSet(attempts[ip])
    /\ creds \subseteq Creds
    /\ pc \in [Threads -> Steps]
    /\ CredInv

\* What a step of goroutine t does to its own locals leaves CredInv.
Fits(j, step) ==
    /\ step \in Steps
    /\ j.op \in {"register", "passkey"} => j.cred \in Creds
    /\ step = "insert" => j.op = "register"

LEMMA FitStep ==
    ASSUME CoreType, RestType, NEW t \in Threads, NEW j, NEW step,
           Fits(j, step),
           pc' = [pc EXCEPT ![t] = step], job' = [job EXCEPT ![t] = j]
    PROVE  pc' \in [Threads -> Steps] /\ CredInv'
  <1>1. pc' \in [Threads -> Steps]
    BY DEF RestType, Fits
  <1>2. \A s \in Threads : /\ pc'[s] = IF s = t THEN step ELSE pc[s]
                           /\ job'[s] = IF s = t THEN j ELSE job[s]
    BY DEF RestType, CoreType, Control
  <1> QED
    BY <1>1, <1>2 DEF RestType, CredInv, Fits

LEMMA FitDone ==
    ASSUME CoreType, RestType, NEW t \in Threads, Done(t)
    PROVE  pc' \in [Threads -> Steps] /\ CredInv'
  <1>1. Fits(NoJob, "idle")
    BY DEF Fits, NoJob, Steps
  <1> QED
    BY <1>1, FitStep DEF Done

LEMMA FitGoto ==
    ASSUME CoreType, RestType, NEW t \in Threads, NEW step \in Steps,
           Goto(t, step), step = "insert" => job[t].op = "register"
    PROVE  pc' \in [Threads -> Steps] /\ CredInv'
  <1>1. Fits(job[t], step)
    BY DEF Fits, RestType, CredInv
  <1>2. job' = [job EXCEPT ![t] = job[t]]
    BY DEF Goto, CoreType, Control
  <1> QED
    BY <1>1, <1>2, FitStep DEF Goto

LEMMA FitAccept ==
    ASSUME CoreType, RestType, NEW t \in Threads, NEW j, NEW step,
           Accept(t, j, step), Fits(j, step)
    PROVE  pc' \in [Threads -> Steps] /\ CredInv' /\ requests' \in Nat
  <1>1. requests' \in Nat
    BY DEF Accept, RestType
  <1>2. CASE step = "idle"
    <2>1. Done(t)
      BY <1>2 DEF Accept, Done
    <2> QED
      BY <1>1, <2>1, FitDone
  <1>3. CASE step # "idle"
    <2>1. job' = [job EXCEPT ![t] = j]
      BY <1>3 DEF Accept
    <2> QED
      BY <1>1, <2>1, FitStep DEF Accept
  <1> QED
    BY <1>2, <1>3

\* A request leaves the stores that RestType is about, and its job fits.
LEMMA RestRequest ==
    ASSUME CoreType, RestType, NEW t \in Threads, Request(t)
    PROVE  RestType'
  <1>1. order' = order /\ attempts' = attempts /\ creds' = creds
    BY DEF Request, Login, Logout, Visit, RegisterBegin, RegisterFinish,
           LoginBegin, LoginFinish, Forget, WithSession, stores
  <1>2. \E j, step : Accept(t, j, step) /\ Fits(j, step)
    <2>1. CASE Login(t)
      <3>1. PICK ip \in IPs, good \in BOOLEAN :
               Accept(t, LoginJob(ip, good), IF good THEN "rotate" ELSE "fail")
        BY <2>1 DEF Login
      <3>2. Fits(LoginJob(ip, good), IF good THEN "rotate" ELSE "fail")
        BY DEF Fits, LoginJob, NoJob, Steps
      <3> QED
        BY <3>1, <3>2
    <2>2. CASE Logout(t)
      <3>1. Fits(NoJob, "idle")
        BY DEF Fits, NoJob, Steps
      <3> QED
        BY <2>2, <3>1 DEF Logout
    <2>3. CASE Visit(t)
      <3>1. PICK k \in 1..lastToken, poll \in BOOLEAN :
               Accept(t, VisitJob(k), IF Live(k) /\ ~ poll THEN "touch" ELSE "idle")
        BY <2>3 DEF Visit
      <3>2. Fits(VisitJob(k), IF Live(k) /\ ~ poll THEN "touch" ELSE "idle")
        BY DEF Fits, VisitJob, NoJob, Steps
      <3> QED
        BY <3>1, <3>2
    <2>4. CASE RegisterBegin(t) \/ LoginBegin(t)
      <3>1. PICK ip \in IPs, kind \in {"register", "login"},
                 step \in {"store", "count", "idle"} :
               Accept(t, BeginJob(ip, kind), step)
        BY <2>4, AuthAssumption DEF RegisterBegin, LoginBegin, WithSession
      <3>2. Fits(BeginJob(ip, kind), step)
        BY DEF Fits, BeginJob, NoJob, Steps
      <3> QED
        BY <3>1, <3>2
    <2>5. CASE RegisterFinish(t) \/ LoginFinish(t)
      <3>1. PICK op \in {"register", "passkey"}, ip \in IPs,
                 c \in 1..lastChallenge, x \in Creds, good \in BOOLEAN,
                 step \in {"take", "idle"} :
               Accept(t, FinishJob(op, ip, c, x, good), step)
        BY <2>5, AuthAssumption DEF RegisterFinish, LoginFinish, WithSession
      <3>2. Fits(FinishJob(op, ip, c, x, good), step)
        BY DEF Fits, FinishJob, NoJob, Steps
      <3> QED
        BY <3>1, <3>2
    <2>6. CASE Forget(t)
      <3>1. PICK x \in Creds, step \in {"delete", "idle"} :
               Accept(t, ForgetJob(x), step)
        BY <2>6 DEF Forget, WithSession
      <3>2. Fits(ForgetJob(x), step)
        BY DEF Fits, ForgetJob, NoJob, Steps
      <3> QED
        BY <3>1, <3>2
    <2> QED
      BY <2>1, <2>2, <2>3, <2>4, <2>5, <2>6 DEF Request
  <1> QED
    BY <1>1, <1>2, FitAccept DEF RestType

\* There is a number left for a failure: those of fs are not all taken.
LEMMA FailureIsNew ==
    ASSUME NEW fs, IsFiniteSet(fs), now \in Nat
    PROVE  /\ NewFailure(fs) \notin fs
           /\ NewFailure(fs) \in Failure /\ NewFailure(fs).at = now
  <1> DEFINE k == Cardinality(fs)
             N == 1..(k + 1)
             F == [at : {now}, n : N]
             f == [i \in N |-> [at |-> now, n |-> i]]
  <1>1. k \in Nat
    BY FS_CardinalityType
  <1>2. \E g \in F : g \notin fs
    <2> SUFFICES ASSUME \A g \in F : g \in fs PROVE FALSE
      OBVIOUS
    <2>1. f \in Injection(N, fs)
      BY DEF Injection, IsInjective
    <2>2. Cardinality(N) <= k
      BY <2>1, FS_Injection
    <2>3. Cardinality(N) = k + 1
      BY <1>1, FS_Interval
    <2> QED
      BY <1>1, <2>2, <2>3
  <1>3. NewFailure(fs) \in F /\ NewFailure(fs) \notin fs
    BY <1>2 DEF NewFailure
  <1> QED
    BY <1>1, <1>3 DEF Failure


\* What RecordFailure leaves of the failures of the address.
LEMMA RecentFailures ==
    ASSUME NEW fs \in SUBSET Failure, IsFiniteSet(fs), now \in Nat
    PROVE  LET new == Recent(fs \cup {NewFailure(fs)})
           IN  /\ new \subseteq Failure /\ IsFiniteSet(new)
               /\ Recent(new) = new
               /\ Cardinality(new) <= Cardinality(Recent(fs)) + 1
  <1> DEFINE f == NewFailure(fs)
             new == Recent(fs \cup {f})
  <1>1. f \in Failure
    BY FailureIsNew
  <1> HIDE DEF f
  <1>2. new \subseteq Recent(fs) \cup {f} /\ new \subseteq fs \cup {f}
    BY DEF Recent
  <1>3. IsFiniteSet(Recent(fs))
    BY FS_Subset DEF Recent
  <1>4. /\ IsFiniteSet(Recent(fs) \cup {f})
        /\ Cardinality(Recent(fs) \cup {f}) <= Cardinality(Recent(fs)) + 1
    <2>1. Cardinality(Recent(fs)) \in Nat
      BY <1>3, FS_CardinalityType
    <2>2. /\ IsFiniteSet(Recent(fs) \cup {f})
          /\ Cardinality(Recent(fs) \cup {f}) =
                IF f \in Recent(fs) THEN Cardinality(Recent(fs))
                                    ELSE Cardinality(Recent(fs)) + 1
      BY <1>3, FS_AddElement
    <2> QED
      BY <2>1, <2>2
  <1>5. IsFiniteSet(new) /\ Cardinality(new) <= Cardinality(Recent(fs) \cup {f})
    BY <1>2, <1>4, FS_Subset
  <1>6. /\ Cardinality(new) \in Nat /\ Cardinality(Recent(fs)) \in Nat
        /\ Cardinality(Recent(fs) \cup {f}) \in Nat
    BY <1>3, <1>4, <1>5, FS_CardinalityType
  <1>7. Cardinality(new) <= Cardinality(Recent(fs)) + 1
    BY <1>4, <1>5, <1>6
  <1>8. Recent(new) = new
    BY DEF Recent
  <1>9. new \subseteq Failure
    BY <1>1, <1>2
  <1> QED
    BY <1>5, <1>7, <1>8, <1>9 DEF f

LEMMA RestStep ==
    ASSUME CoreType, RestType, NEW t \in Threads, Step(t)
    PROVE  RestType'
  <1>0. now \in Nat /\ job[t] \in Job /\ job[t].ip \in IPs
    BY DEF CoreType, Control, Job
  <1>1. CASE RecordFailure(t)
    <2> DEFINE fs == attempts[job[t].ip]
               new == Recent(fs \cup {NewFailure(fs)})
    <2>1. attempts' = [attempts EXCEPT ![job[t].ip] = new]
      BY <1>1 DEF RecordFailure
    <2>2. fs \in SUBSET Failure /\ IsFiniteSet(fs)
      BY <1>0 DEF RestType
    <2>3. new \subseteq Failure /\ IsFiniteSet(new)
      BY <1>0, <2>2, RecentFailures
    <2> HIDE DEF new
    <2>4. /\ attempts' \in [IPs -> SUBSET Failure]
          /\ \A ip \in IPs : IsFiniteSet(attempts'[ip])
      BY <1>0, <2>1, <2>3 DEF RestType
    <2>5. pc' \in [Threads -> Steps] /\ CredInv'
      BY <1>1, FitDone DEF RecordFailure
    <2> QED
      BY <1>1, <2>4, <2>5 DEF RestType, RecordFailure
  <1>2. CASE Reset(t)
    <2>1. attempts' = [attempts EXCEPT ![job[t].ip] = {}]
      BY <1>2 DEF Reset
    <2>2. /\ attempts' \in [IPs -> SUBSET Failure]
          /\ \A ip \in IPs : IsFiniteSet(attempts'[ip])
      BY <1>0, <2>1, FS_EmptySet DEF RestType
    <2>3. Goto(t, "answer") \/ Goto(t, "create")
      <3>1. CASE job[t].op = "login"
        BY <1>2, <3>1 DEF Reset
      <3>2. CASE job[t].op # "login"
        BY <1>2, <3>2 DEF Reset
      <3> QED
        BY <3>1, <3>2
    <2>4. {"answer", "create"} \subseteq Steps
      BY DEF Steps
    <2>5. pc' \in [Threads -> Steps] /\ CredInv'
      BY <2>3, <2>4, FitGoto
    <2> QED
      BY <1>2, <2>2, <2>5 DEF RestType, Reset
  <1>3. CASE Store(t)
    <2>1. order' \subseteq Nat
      <3>1. order' \subseteq order \cup {lastChallenge + 1}
        BY <1>3 DEF Store
      <3> QED
        BY <3>1 DEF RestType, CoreType
    <2>2. pc' \in [Threads -> Steps] /\ CredInv'
      BY <1>3, FitDone DEF Store
    <2> QED
      BY <1>3, <2>1, <2>2 DEF RestType, Store
  <1>4. CASE InsertCredential(t)
    <2>1. creds' \subseteq Creds
      BY <1>4 DEF InsertCredential, RestType, CredInv
    <2>2. pc' \in [Threads -> Steps] /\ CredInv'
      BY <1>4, FitDone DEF InsertCredential
    <2> QED
      BY <1>4, <2>1, <2>2 DEF RestType, InsertCredential
  <1>5. CASE DeleteCredential(t)
    <2>1. creds' \subseteq Creds
      BY <1>5 DEF DeleteCredential, RestType
    <2>2. pc' \in [Threads -> Steps] /\ CredInv'
      BY <1>5, FitDone DEF DeleteCredential
    <2> QED
      BY <1>5, <2>1, <2>2 DEF RestType, DeleteCredential
  <1>6. CASE Create(t)
    <2>1. PICK step \in {"reset", "answer"} : pc' = [pc EXCEPT ![t] = step]
      BY <1>6 DEF Create
    <2>2. job' = [job EXCEPT ![t] = [job[t] EXCEPT !.token = lastToken + 1]]
      BY <1>6 DEF Create
    <2>3. Fits([job[t] EXCEPT !.token = lastToken + 1], step)
      BY <1>0 DEF Fits, Steps, RestType, CredInv, Job
    <2>4. pc' \in [Threads -> Steps] /\ CredInv'
      BY <2>1, <2>2, <2>3, FitStep
    <2> QED
      BY <1>6, <2>4 DEF RestType, Create
  <1>7. CASE Take(t)
    <2>1. pc' \in [Threads -> Steps] /\ CredInv'
      <3>1. CASE Done(t)
        BY <3>1, FitDone
      <3>2. CASE ~ Done(t)
        <4>1. PICK e \in entries :
                 /\ pc' = [pc EXCEPT ![t] = "verify"]
                 /\ job' = [job EXCEPT ![t] = [job[t] EXCEPT !.kind = e.kind]]
          BY <1>7, <3>2 DEF Take
        <4>2. Fits([job[t] EXCEPT !.kind = e.kind], "verify")
          BY <1>0 DEF Fits, Steps, RestType, CredInv, Job
        <4> QED
          BY <4>1, <4>2, FitStep
      <3> QED
        BY <3>1, <3>2
    <2> QED
      BY <1>7, <2>1 DEF RestType, Take
  <1>8. CASE Verify(t)
    <2>1. pc' \in [Threads -> Steps] /\ CredInv'
      <3>1. CASE Done(t)
        BY <3>1, FitDone
      <3>2. CASE job[t].op = "register" /\ Goto(t, "insert")
        BY <3>2, FitGoto DEF Steps
      <3>3. CASE \E step \in {"reset", "fail"} : Goto(t, step)
        BY <3>3, FitGoto DEF Steps
      <3> QED
        BY <1>8, <3>1, <3>2, <3>3 DEF Verify
    <2> QED
      BY <1>8, <2>1 DEF RestType, Verify, stores
  <1>9. CASE DeleteByUsername(t) \/ Count(t)
    <2>1. pc' \in [Threads -> Steps] /\ CredInv'
      <3>1. CASE Done(t)
        BY <3>1, FitDone
      <3>2. CASE \E step \in {"create", "store"} : Goto(t, step)
        BY <3>2, FitGoto DEF Steps
      <3> QED
        BY <1>9, <3>1, <3>2 DEF DeleteByUsername, Count
    <2> QED
      BY <1>9, <2>1 DEF RestType, DeleteByUsername, Count, stores
  <1>10. CASE Answer(t) \/ Touch(t) \/ Fail(t)
    <2>1. pc' \in [Threads -> Steps] /\ CredInv'
      BY <1>10, FitDone DEF Answer, Touch, Fail
    <2> QED
      BY <1>10, <2>1 DEF RestType, Answer, Touch, Fail, stores
  <1> QED
    BY <1>1, <1>2, <1>3, <1>4, <1>5, <1>6, <1>7, <1>8, <1>9, <1>10 DEF Step

LEMMA RestTypeNext == CoreType /\ RestType /\ [Next]_vars => RestType'
  <1> SUFFICES ASSUME CoreType, RestType, [Next]_vars PROVE RestType'
    OBVIOUS
  <1>1. CASE \E t \in Threads : Request(t) \/ Step(t)
    BY <1>1, RestRequest, RestStep
  <1>2. CASE LimiterCleanup
    <2>1. \A ip \in IPs : attempts'[ip] \in {attempts[ip], {}}
      BY <1>2 DEF LimiterCleanup
    <2>2. /\ attempts' \in [IPs -> SUBSET Failure]
          /\ \A ip \in IPs : IsFiniteSet(attempts'[ip])
      BY <1>2, <2>1, FS_EmptySet DEF RestType, LimiterCleanup
    <2> QED
      BY <1>2, <2>2 DEF RestType, CredInv, LimiterCleanup
  <1>3. CASE SessionCleanup \/ ChallengeCleanup
    BY <1>3 DEF RestType, CredInv, SessionCleanup, ChallengeCleanup
  <1>4. CASE Tick \/ UNCHANGED vars
    BY <1>4 DEF RestType, CredInv, Tick, vars, stores
  <1> QED
    BY <1>1, <1>2, <1>3, <1>4 DEF Next, Cleanup

LEMMA RestTypeCorrect == Spec => []RestType
  <1>1. Init => RestType
    BY FS_EmptySet, AuthAssumption DEF Init, RestType, CredInv, NoJob, Steps
  <1> QED
    BY <1>1, RestTypeNext, CoreTypeCorrect, PTL DEF Spec

\* Every request keeps the locals of its kind from its first locked section to
\* its last, whichever handler it runs and wherever it fails: what is inserted
\* into the table is a passkey that a registration has named.
THEOREM AuthTypes == Spec => []TypeOK
  <1>1. CoreType /\ RestType => TypeOK
    BY DEF CoreType, RestType, TypeOK, Control, Steps
  <1> QED
    BY <1>1, CoreTypeCorrect, RestTypeCorrect, PTL


-----------------------------------------------------------------------------
(* The eviction finds room.                                                 *)

\* Whatever is in the map can be evicted: Get leaves tokens in order that are
\* no longer in the map, but nothing leaves order alone.
RoomInv ==
    /\ IsFiniteSet(entries)
    /\ \A e \in entries : e.token \in order
    /\ ChallengesBounded

LEMMA RoomInvStore ==
    ASSUME CoreType, RestType, RoomInv, NEW t \in Threads, Store(t)
    PROVE  RoomInv'
  <1> DEFINE new == [token |-> lastChallenge + 1, kind |-> job[t].kind,
                     born |-> now]
  <1>1. PICK n \in order \cup {0} :
           /\ Evicts(n)
           /\ entries' = Kept(n) \cup {new}
           /\ order' = {c \in order : c > n} \cup {lastChallenge + 1}
    BY DEF Store
  <1>2. \A e \in Kept(n) : e \in entries /\ e.token \in order /\ e.token > n
    BY DEF Kept, RoomInv
  <1>3. new.token = lastChallenge + 1
    OBVIOUS
  <1> HIDE DEF new
  <1>4. \A e \in entries' : e.token \in order'
    BY <1>1, <1>2, <1>3
  <1>5. IsFiniteSet(Kept(n))
    BY <1>2, FS_Subset DEF RoomInv
  <1>6. Cardinality(Kept(n)) \in Nat
    BY <1>5, FS_CardinalityType
  <1>7. Cardinality(Kept(n)) < ChallengeCap
    <2>1. CASE \A c \in order : c <= n
      <3>1. \A e \in entries : e.token \in Nat
        BY DEF CoreType, Challenge
      <3>2. n \in Nat
        BY DEF RestType
      <3>3. Kept(n) = {}
        BY <1>2, <2>1, <3>1, <3>2
      <3> QED
        BY <3>3, FS_EmptySet, AuthAssumption
    <2>2. CASE ~ \A c \in order : c <= n
      BY <1>1, <2>2 DEF Evicts
    <2> QED
      BY <2>1, <2>2
  <1>8. /\ IsFiniteSet(entries')
        /\ Cardinality(entries') =
              IF new \in Kept(n) THEN Cardinality(Kept(n))
                                 ELSE Cardinality(Kept(n)) + 1
    BY <1>1, <1>5, FS_AddElement
  <1>9. Cardinality(entries') <= ChallengeCap
    BY <1>6, <1>7, <1>8, AuthAssumption
  <1> QED
    BY <1>4, <1>8, <1>9 DEF RoomInv, ChallengesBounded

LEMMA RoomInvSubset ==
    ASSUME RoomInv, entries' \subseteq entries,
           \A e \in entries' : e.token \in order'
    PROVE  RoomInv'
  <1>1. IsFiniteSet(entries') /\ Cardinality(entries') <= Cardinality(entries)
    BY FS_Subset DEF RoomInv
  <1>2. Cardinality(entries') \in Nat /\ Cardinality(entries) \in Nat
    BY <1>1, FS_CardinalityType DEF RoomInv
  <1>3. Cardinality(entries') <= ChallengeCap
    BY <1>1, <1>2, AuthAssumption DEF RoomInv, ChallengesBounded
  <1> QED
    BY <1>1, <1>3 DEF RoomInv, ChallengesBounded

\* Every other step takes challenges out of the map, and out of order only with
\* them.
LEMMA RoomInvOther ==
    ASSUME RoomInv, [Next]_vars, \A t \in Threads : ~ Store(t)
    PROVE  RoomInv'
  <1>1. CASE \E t \in Threads : Request(t)
    <2>1. entries' = entries /\ order' = order
      BY <1>1
      DEF Request, Login, Logout, Visit, RegisterBegin, RegisterFinish,
          LoginBegin, LoginFinish, Forget, WithSession, stores
    <2> QED
      BY <2>1, RoomInvSubset DEF RoomInv
  <1>2. CASE \E t \in Threads : Step(t)
    <2>1. entries' \subseteq entries /\ order' = order
      BY <1>2
      DEF Step, RecordFailure, DeleteByUsername, Create, Reset, Answer, Touch,
          Take, Verify, Count, InsertCredential, DeleteCredential, Fail, stores
    <2> QED
      BY <2>1, RoomInvSubset DEF RoomInv
  <1>3. CASE ChallengeCleanup
    <2>1. entries' \subseteq entries
      BY <1>3 DEF ChallengeCleanup
    <2>2. \A e \in entries' : e.token \in order'
      BY <1>3 DEF ChallengeCleanup, RoomInv
    <2> QED
      BY <2>1, <2>2, RoomInvSubset
  <1>4. CASE SessionCleanup \/ LimiterCleanup \/ Tick \/ UNCHANGED vars
    <2>1. entries' = entries /\ order' = order
      BY <1>4 DEF SessionCleanup, LimiterCleanup, Tick, vars, stores
    <2> QED
      BY <2>1, RoomInvSubset DEF RoomInv
  <1> QED
    BY <1>1, <1>2, <1>3, <1>4 DEF Next, Cleanup

\* At most challengeMaxCap challenges are pending: Store finds room, because the
\* tokens that Get and cleanup leave in order include all those of the map.
THEOREM ChallengesStayBounded == Spec => []ChallengesBounded
  <1>1. Init => RoomInv
    BY FS_EmptySet, AuthAssumption DEF Init, RoomInv, ChallengesBounded
  <1>2. CoreType /\ RestType /\ RoomInv /\ [Next]_vars => RoomInv'
    BY RoomInvStore, RoomInvOther
  <1>3. RoomInv => ChallengesBounded
    BY DEF RoomInv
  <1> QED
    BY <1>1, <1>2, <1>3, CoreTypeCorrect, RestTypeCorrect, PTL DEF Spec


-----------------------------------------------------------------------------
(* Failed logins.                                                           *)

\* Requests that are past Check and may yet record a failure of the address.
MayFail(t) == \/ pc[t] = "fail"
              \/ job[t].op = "passkey" /\ pc[t] \in {"take", "verify"}

Pending(ip) == {t \in Threads : MayFail(t) /\ job[t].ip = ip}

FailInv ==
    \A ip \in IPs \ {Unix} :
       Cardinality(Recent(attempts[ip])) + Cardinality(Pending(ip))
          <= MaxAttempts - 1 + Cardinality(Threads)

LEMMA PendingFinite ==
    ASSUME NEW ip
    PROVE  /\ IsFiniteSet(Pending(ip)) /\ Cardinality(Pending(ip)) \in Nat
           /\ Cardinality(Threads) \in Nat
           /\ Cardinality(Pending(ip)) <= Cardinality(Threads)
  <1>1. /\ IsFiniteSet(Pending(ip))
        /\ Cardinality(Pending(ip)) <= Cardinality(Threads)
    BY FS_Subset, AuthAssumption DEF Pending
  <1> QED
    BY <1>1, FS_CardinalityType, AuthAssumption

LEMMA RecentFinite ==
    ASSUME RestType, NEW ip \in IPs
    PROVE  /\ IsFiniteSet(Recent(attempts[ip]))
           /\ Cardinality(Recent(attempts[ip])) \in Nat
  <1>1. IsFiniteSet(Recent(attempts[ip]))
    BY FS_Subset DEF Recent, RestType
  <1> QED
    BY <1>1, FS_CardinalityType

\* Counting, for one address: no new failure, and a request that is new among
\* those that may fail found the address below its limit.
LEMMA FewFailures ==
    ASSUME RestType, RestType', FailInv, NEW ip \in IPs \ {Unix},
           Recent(attempts[ip])' \subseteq Recent(attempts[ip]),
           Check(ip) \/ Pending(ip)' \subseteq Pending(ip)
    PROVE  Cardinality(Recent(attempts[ip])') + Cardinality(Pending(ip)')
              <= MaxAttempts - 1 + Cardinality(Threads)
  <1> DEFINE r == Cardinality(Recent(attempts[ip]))
             p == Cardinality(Pending(ip))
             n == Cardinality(Threads)
             rr == Cardinality(Recent(attempts[ip])')
             pp == Cardinality(Pending(ip)')
  <1>1. r \in Nat /\ IsFiniteSet(Recent(attempts[ip]))
    BY RecentFinite
  <1>2. rr \in Nat /\ rr <= r
    <2>1. IsFiniteSet(Recent(attempts[ip])') /\ rr <= r
      BY <1>1, FS_Subset
    <2> QED
      BY <2>1, FS_CardinalityType
  <1>3. p \in Nat /\ n \in Nat /\ IsFiniteSet(Pending(ip))
    BY PendingFinite
  <1>4. pp \in Nat /\ pp <= n
    <2>1. Pending(ip)' \subseteq Threads
      BY DEF Pending
    <2>2. IsFiniteSet(Pending(ip)') /\ pp <= n
      BY <2>1, FS_Subset, AuthAssumption
    <2> QED
      BY <2>2, FS_CardinalityType
  <1>5. r + p <= MaxAttempts - 1 + n
    BY DEF FailInv
  <1>6. CASE Check(ip)
    <2>1. r < MaxAttempts
      BY <1>6 DEF Check
    <2> QED
      BY <1>1, <1>2, <1>3, <1>4, <2>1, AuthAssumption
  <1>7. CASE Pending(ip)' \subseteq Pending(ip)
    <2>1. pp <= p
      BY <1>3, <1>7, FS_Subset
    <2> QED
      BY <1>1, <1>2, <1>3, <1>4, <1>5, <2>1, AuthAssumption
  <1> QED
    BY <1>6, <1>7

\* A step of goroutine t after which no other may fail than before, and t itself
\* only from an address that Check has let pass.
Careful(t) ==
    /\ \A s \in Threads \ {t} : pc'[s] = pc[s] /\ job'[s] = job[s]
    /\ MayFail(t)' => \/ MayFail(t) /\ job'[t].ip = job[t].ip
                      \/ job'[t].ip = Unix \/ Check(job'[t].ip)

LEMMA CarefulPending ==
    ASSUME NEW t \in Threads, Careful(t), NEW ip \in IPs \ {Unix}
    PROVE  Check(ip) \/ Pending(ip)' \subseteq Pending(ip)
  <1> SUFFICES ASSUME ~ Check(ip), NEW s \in Threads, MayFail(s)',
                      job'[s].ip = ip
               PROVE  MayFail(s) /\ job[s].ip = ip
    BY DEF Pending
  <1>1. CASE s = t
    BY <1>1 DEF Careful
  <1>2. CASE s # t
    BY <1>2 DEF Careful, MayFail
  <1> QED
    BY <1>1, <1>2

LEMMA CarefulStep ==
    ASSUME RestType, RestType', FailInv, NEW t \in Threads, Careful(t),
           \A ip \in IPs : Recent(attempts[ip])' \subseteq Recent(attempts[ip])
    PROVE  FailInv'
  <1>1. ASSUME NEW ip \in IPs \ {Unix}
        PROVE  Cardinality(Recent(attempts[ip])') + Cardinality(Pending(ip)')
                  <= MaxAttempts - 1 + Cardinality(Threads)
    BY CarefulPending, FewFailures
  <1> QED
    BY <1>1 DEF FailInv

LEMMA CarefulAccept ==
    ASSUME CoreType, NEW t \in Threads, NEW j, NEW step, Accept(t, j, step),
           \/ /\ step \notin {"fail", "verify"}
              /\ j.op = "passkey" => step # "take"
           \/ Allowed(j.ip)
    PROVE  Careful(t)
  <1>1. /\ \A s \in Threads \ {t} : pc'[s] = pc[s] /\ job'[s] = job[s]
        /\ pc'[t] = step
    BY DEF Accept, CoreType, Control
  <1>2. CASE step = "idle"
    BY <1>1, <1>2 DEF Careful, MayFail
  <1>3. CASE step # "idle"
    <2>1. job'[t] = j
      BY <1>3 DEF Accept, CoreType, Control
    <2> QED
      BY <1>1, <2>1 DEF Careful, MayFail, Allowed
  <1> QED
    BY <1>2, <1>3


LEMMA CarefulRequest ==
    ASSUME CoreType, NEW t \in Threads, Request(t)
    PROVE  Careful(t)
  <1>1. CASE Login(t)
    <2>1. PICK ip \in IPs, good \in BOOLEAN :
             /\ Allowed(ip)
             /\ Accept(t, LoginJob(ip, good), IF good THEN "rotate" ELSE "fail")
      BY <1>1 DEF Login
    <2>2. LoginJob(ip, good).ip = ip
      BY DEF LoginJob, NoJob
    <2> QED
      BY <2>1, <2>2, CarefulAccept
  <1>2. CASE LoginFinish(t)
    <2>1. PICK ip \in IPs, c \in 1..lastChallenge, x \in Creds,
               good \in BOOLEAN :
             Allowed(ip) /\ Accept(t, FinishJob("passkey", ip, c, x, good), "take")
      BY <1>2 DEF LoginFinish
    <2>2. FinishJob("passkey", ip, c, x, good).ip = ip
      BY DEF FinishJob, NoJob
    <2> QED
      BY <2>1, <2>2, CarefulAccept
  <1>3. CASE RegisterFinish(t)
    <2>1. PICK c \in 1..lastChallenge, x \in Creds, good \in BOOLEAN,
               step \in {"take", "idle"} :
             Accept(t, FinishJob("register", Unix, c, x, good), step)
      BY <1>3 DEF RegisterFinish, WithSession
    <2>2. FinishJob("register", Unix, c, x, good).op = "register"
      BY DEF FinishJob, NoJob
    <2> QED
      BY <2>1, <2>2, CarefulAccept
  <1>4. CASE Logout(t)
    BY <1>4, CarefulAccept DEF Logout
  <1>5. CASE Visit(t)
    <2>1. PICK k \in 1..lastToken, step \in {"touch", "idle"} :
             Accept(t, VisitJob(k), step)
      BY <1>5 DEF Visit
    <2> QED
      BY <2>1, CarefulAccept
  <1>6. CASE RegisterBegin(t) \/ LoginBegin(t)
    <2>1. PICK ip \in IPs, kind \in {"register", "login"},
               step \in {"store", "count", "idle"} :
             Accept(t, BeginJob(ip, kind), step)
      BY <1>6, AuthAssumption DEF RegisterBegin, LoginBegin, WithSession
    <2> QED
      BY <2>1, CarefulAccept
  <1>7. CASE Forget(t)
    <2>1. PICK x \in Creds, step \in {"delete", "idle"} :
             Accept(t, ForgetJob(x), step)
      BY <1>7 DEF Forget, WithSession
    <2> QED
      BY <2>1, CarefulAccept
  <1> QED
    BY <1>1, <1>2, <1>3, <1>4, <1>5, <1>6, <1>7 DEF Request

LEMMA CarefulDone ==
    ASSUME CoreType, NEW t \in Threads, Done(t)
    PROVE  Careful(t) /\ ~ MayFail(t)'
  BY DEF Done, Careful, MayFail, CoreType, Control

LEMMA CarefulGoto ==
    ASSUME CoreType, NEW t \in Threads, NEW step, Goto(t, step),
           step \notin {"fail", "take", "verify"} \/ MayFail(t)
    PROVE  Careful(t)
  BY DEF Goto, Careful, MayFail, CoreType, Control

LEMMA CarefulOther ==
    ASSUME CoreType, NEW t \in Threads, Step(t), ~ RecordFailure(t)
    PROVE  Careful(t)
  <1>1. CASE Done(t)
    BY <1>1, CarefulDone
  <1>2. CASE \E step : Goto(t, step) /\ step \notin {"fail", "take", "verify"}
    BY <1>2, CarefulGoto
  <1>3. CASE Create(t)
    BY <1>3 DEF Create, Careful, MayFail, CoreType, Control
  <1>4. CASE Take(t) /\ ~ Done(t)
    <2>1. PICK e \in entries :
             /\ pc' = [pc EXCEPT ![t] = "verify"]
             /\ job' = [job EXCEPT ![t].kind = e.kind]
      BY <1>4 DEF Take
    <2>2. pc[t] = "take"
      BY <1>4 DEF Take
    <2> QED
      BY <2>1, <2>2 DEF Careful, MayFail, CoreType, Control, Job
  <1>5. CASE Verify(t) /\ ~ Done(t)
    <2>1. pc[t] = "verify" /\ \E step : Goto(t, step)
      BY <1>5 DEF Verify
    <2>2. CASE job[t].op = "passkey"
      BY <2>1, <2>2, CarefulGoto DEF MayFail
    <2>3. CASE job[t].op = "register"
      BY <1>2, <1>5, <2>3 DEF Verify
    <2> QED
      BY <1>5, <2>2, <2>3 DEF Verify
  <1>6. CASE Reset(t)
    <2>1. CASE job[t].op = "login"
      BY <1>2, <1>6, <2>1 DEF Reset
    <2>2. CASE job[t].op # "login"
      BY <1>2, <1>6, <2>2 DEF Reset
    <2> QED
      BY <2>1, <2>2
  <1>7. CASE DeleteByUsername(t) \/ Count(t)
    BY <1>1, <1>2, <1>7 DEF DeleteByUsername, Count
  <1> QED
    BY <1>1, <1>3, <1>4, <1>5, <1>6, <1>7
    DEF Step, Answer, Touch, Store, InsertCredential, DeleteCredential, Fail

\* A request that records its failure is one fewer that may.
LEMMA FailInvRecord ==
    ASSUME CoreType, RestType, RestType', FailInv, NEW t \in Threads,
           RecordFailure(t)
    PROVE  FailInv'
  <1>0. now \in Nat /\ now' = now /\ pc[t] = "fail" /\ Done(t)
    BY DEF CoreType, RecordFailure
  <1>1. PICK me \in IPs : me = job[t].ip
    BY DEF CoreType, Control, Job
  <1> DEFINE fs == attempts[me]
             new == Recent(fs \cup {NewFailure(fs)})
  <1>2. /\ attempts'[me] = new
        /\ \A ip \in IPs \ {me} : attempts'[ip] = attempts[ip]
    BY <1>1 DEF RecordFailure, RestType
  <1>3. fs \in SUBSET Failure /\ IsFiniteSet(fs)
    BY DEF RestType
  <1>4. /\ Recent(new) = new /\ IsFiniteSet(new)
        /\ Cardinality(new) <= Cardinality(Recent(fs)) + 1
    BY <1>0, <1>3, RecentFailures
  <1> HIDE DEF new
  <1>5. Careful(t) /\ ~ MayFail(t)'
    BY <1>0, CarefulDone
  <1>6. ASSUME NEW ip \in IPs \ {Unix}, ip # me
        PROVE  Cardinality(Recent(attempts[ip])') + Cardinality(Pending(ip)')
                  <= MaxAttempts - 1 + Cardinality(Threads)
    <2>1. Recent(attempts[ip])' = Recent(attempts[ip])
      BY <1>0, <1>2, <1>6 DEF Recent
    <2> QED
      BY <1>5, <2>1, CarefulPending, FewFailures
  <1>7. ASSUME me # Unix
        PROVE  Cardinality(Recent(attempts[me])') + Cardinality(Pending(me)')
                  <= MaxAttempts - 1 + Cardinality(Threads)
    <2> DEFINE r == Cardinality(Recent(fs))
               p == Cardinality(Pending(me))
               n == Cardinality(Threads)
    <2>1. Recent(attempts[me])' = new
      BY <1>0, <1>2, <1>4 DEF Recent
    <2>2. r \in Nat /\ r + p <= MaxAttempts - 1 + n
      BY <1>7, RecentFinite DEF FailInv
    <2>3. p \in Nat /\ n \in Nat /\ IsFiniteSet(Pending(me))
      BY PendingFinite
    <2>4. t \in Pending(me) /\ t \notin Pending(me)'
      BY <1>0, <1>1, <1>5 DEF Pending, MayFail
    <2>5. Pending(me)' \subseteq Pending(me) \ {t}
      <3> SUFFICES ASSUME NEW s \in Threads, MayFail(s)', job'[s].ip = me
                   PROVE  s # t /\ MayFail(s) /\ job[s].ip = me
        BY DEF Pending
      <3>1. s # t
        BY <1>5
      <3> QED
        BY <1>5, <3>1 DEF Careful, MayFail
    <2>6. /\ IsFiniteSet(Pending(me) \ {t})
          /\ Cardinality(Pending(me) \ {t}) = p - 1
      BY <2>3, <2>4, FS_RemoveElement
    <2>7. /\ IsFiniteSet(Pending(me)')
          /\ Cardinality(Pending(me)') <= p - 1
      BY <2>5, <2>6, FS_Subset
    <2>8. Cardinality(Pending(me)') \in Nat /\ Cardinality(new) \in Nat
      BY <1>4, <2>7, FS_CardinalityType
    <2> QED
      BY <1>4, <2>1, <2>2, <2>3, <2>7, <2>8, AuthAssumption
  <1> QED
    BY <1>6, <1>7 DEF FailInv

LEMMA FailInvNext ==
    ASSUME CoreType, RestType, RestType', FailInv, [Next]_vars
    PROVE  FailInv'
  <1>1. CASE \E t \in Threads : Request(t)
    <2>1. attempts' = attempts /\ now' = now
      BY <1>1
      DEF Request, Login, Logout, Visit, RegisterBegin, RegisterFinish,
          LoginBegin, LoginFinish, Forget, WithSession, stores
    <2>2. \A ip \in IPs : Recent(attempts[ip])' \subseteq Recent(attempts[ip])
      BY <2>1 DEF Recent
    <2> QED
      BY <1>1, <2>2, CarefulRequest, CarefulStep
  <1>2. CASE \E t \in Threads : RecordFailure(t)
    BY <1>2, FailInvRecord
  <1>3. CASE \E t \in Threads : Step(t) /\ ~ RecordFailure(t)
    <2>1. now' = now /\ \A ip \in IPs : attempts'[ip] \in {attempts[ip], {}}
      BY <1>3
      DEF Step, DeleteByUsername, Create, Reset, Answer, Touch, Store, Take,
          Verify, Count, InsertCredential, DeleteCredential, Fail, stores,
          RestType
    <2>2. \A ip \in IPs : Recent(attempts[ip])' \subseteq Recent(attempts[ip])
      BY <2>1 DEF Recent
    <2> QED
      BY <1>3, <2>2, CarefulOther, CarefulStep
  <1>4. CASE Cleanup \/ Tick \/ UNCHANGED vars
    <2>1. /\ now \in Nat /\ now' \in {now, now + 1}
          /\ \A ip \in IPs : attempts'[ip] \in {attempts[ip], {}}
      BY <1>4
      DEF Cleanup, SessionCleanup, LimiterCleanup, ChallengeCleanup, Tick, vars,
          stores, CoreType
    <2>2. ASSUME NEW ip \in IPs
          PROVE  Recent(attempts[ip])' \subseteq Recent(attempts[ip])
      <3>1. \A f \in attempts[ip] : f.at \in Nat
        BY DEF RestType, Failure
      <3>2. Window \in Nat
        BY AuthAssumption
      <3>3. \A f \in attempts[ip] : f.at + Window > now' => f.at + Window > now
        BY <2>1, <3>1, <3>2
      <3> QED
        BY <2>1, <3>3 DEF Recent
    <2>3. pc' = pc /\ job' = job
      BY <1>4
      DEF Cleanup, SessionCleanup, LimiterCleanup, ChallengeCleanup, Tick, vars,
          stores
    <2>4. \A ip \in IPs : Pending(ip)' \subseteq Pending(ip)
      BY <2>3 DEF Pending, MayFail
    <2> QED
      BY <2>2, <2>4, FewFailures DEF FailInv
  <1> QED
    BY <1>1, <1>2, <1>3, <1>4 DEF Next, Step

\* Concurrent logins exceed the limit of failures per window by at most the
\* number of other goroutines: those that were past Check when it was reached.
THEOREM FailuresStayBounded == Spec => []FailuresBounded
  <1>1. Init => FailInv
    <2> SUFFICES ASSUME Init, NEW ip \in IPs
                 PROVE  Cardinality(Recent(attempts[ip]))
                           + Cardinality(Pending(ip))
                           <= MaxAttempts - 1 + Cardinality(Threads)
      BY DEF FailInv
    <2>1. Recent(attempts[ip]) = {} /\ Pending(ip) = {}
      BY DEF Init, Recent, Pending, MayFail, NoJob
    <2> QED
      BY <2>1, FS_EmptySet, FS_CardinalityType, AuthAssumption
  <1>2. CoreType /\ RestType /\ RestType' /\ FailInv /\ [Next]_vars => FailInv'
    BY FailInvNext
  <1>3. RestType /\ FailInv => FailuresBounded
    <2> SUFFICES ASSUME RestType, FailInv, NEW ip \in IPs \ {Unix}
                 PROVE  Cardinality(Recent(attempts[ip]))
                           <= MaxAttempts - 1 + Cardinality(Threads)
      BY DEF FailuresBounded
    <2>1. /\ Cardinality(Recent(attempts[ip])) \in Nat
          /\ Cardinality(Pending(ip)) \in Nat /\ Cardinality(Threads) \in Nat
      BY RecentFinite, PendingFinite
    <2> QED
      BY <2>1, AuthAssumption DEF FailInv
  <1> QED
    BY <1>1, <1>2, <1>3, CoreTypeCorrect, RestTypeCorrect, PTL DEF Spec
=============================================================================
