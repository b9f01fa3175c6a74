-------------------------------- MODULE Auth --------------------------------
(***************************************************************************)
(* Authentication (agent/internal/auth): the session store, the WebAuthn   *)
(* challenge store, the login rate limiter, each a map behind a mutex with *)
(* a cleanup goroutine, the passkeys in SQLite, and the handlers that use  *)
(* them.  One action is one locked section or one SQL statement; a request *)
(* that goes on after its first one has a step in pc and its locals in job.*)
(*                                                                         *)
(* There is one user, the administrator.  Tokens are random and are taken  *)
(* to be new each time: the next natural number.  Time is a natural number.*)
(* The slice of challenge tokens, to which each new one is appended, is the*)
(* set of its tokens: its first is the least.  The slice of the failures of*)
(* an address, whose order no code reads, is a set as well.                *)
(* go-webauthn is external: an answer of an authenticator verifies or does *)
(* not.  Names, flags, transports and signature counts are left out, since *)
(* a count that goes back is logged and changes nothing.                   *)
(***************************************************************************)
EXTENDS Integers, FiniteSets

CONSTANTS Threads,        \* HTTP goroutines
          IPs, Unix,      \* remote addresses; Unix is that of the unix socket
          Creds,          \* credential ids of authenticators
          InitCreds,      \* passkeys registered at the start
          MaxSessions, TTL,             \* cfg.Auth
          ChallengeCap, ChallengeTTL,   \* challengeMaxCap, challengeTTL
          MaxAttempts, Window,          \* NewLoginRateLimiter
          MaxRequests, MaxTime          \* bounds on requests and on time

ASSUME AuthAssumption ==
    /\ Unix \in IPs
    /\ InitCreds \subseteq Creds
    /\ MaxSessions \in Nat \ {0} /\ ChallengeCap \in Nat \ {0}
    /\ MaxAttempts \in Nat \ {0}
    /\ {TTL, ChallengeTTL, Window, MaxRequests, MaxTime} \subseteq Nat
    /\ IsFiniteSet(Threads)

VARIABLES now,
          sessions, lastToken,      \* SessionStore
          entries, order, lastChallenge,    \* ChallengeStore
          attempts,                 \* LoginRateLimiter: failures of an address
          creds,                    \* table webauthn_credentials
          pc, job, requests

stores == <<sessions, lastToken, entries, order, lastChallenge, attempts, creds>>
vars   == <<now, stores, pc, job, requests>>

Session   == [token : Nat, created : Nat, active : Nat]
Challenge == [token : Nat, kind : {"register", "login"}, born : Nat]

\* A failure is its time and a number, of those at that time.
Failure == [at : Nat, n : Nat]

\* Locals of a request: its address, the session or challenge token it works
\* with, the passkey it names and whether its password or answer is right.
Job == [op   : {"none", "login", "visit", "begin", "register", "passkey",
                "forget"},
        ip   : IPs, token : Nat, chal : Nat, kind : {"register", "login"},
        cred : Creds \cup {Unix}, good : BOOLEAN]

NoJob == [op |-> "none", ip |-> Unix, token |-> 0, chal |-> 0,
          kind |-> "login", cred |-> Unix, good |-> FALSE]

LoginJob(ip, good)   == [NoJob EXCEPT !.op = "login", !.ip = ip, !.good = good]
VisitJob(k)          == [NoJob EXCEPT !.op = "visit", !.token = k]
BeginJob(ip, kind)   == [NoJob EXCEPT !.op = "begin", !.ip = ip, !.kind = kind]
ForgetJob(x)         == [NoJob EXCEPT !.op = "forget", !.cred = x]
FinishJob(op, ip, c, x, good) ==
    [NoJob EXCEPT !.op = op, !.ip = ip, !.chal = c, !.cred = x, !.good = good]

Init ==
    /\ now = 0
    /\ sessions = {} /\ lastToken = 0
    /\ entries = {} /\ order = {} /\ lastChallenge = 0
    /\ attempts = [ip \in IPs |-> {}]
    /\ creds = InitCreds
    /\ pc = [t \in Threads |-> "idle"]
    /\ job = [t \in Threads |-> NoJob]
    /\ requests = 0

Goto(t, step) == pc' = [pc EXCEPT ![t] = step] /\ UNCHANGED job
Done(t)       == /\ pc' = [pc EXCEPT ![t] = "idle"]
                 /\ job' = [job EXCEPT ![t] = NoJob]

\* A request arrives and goes on with step, after its first locked section.
Accept(t, j, step) ==
    /\ pc[t] = "idle" /\ requests < MaxRequests
    /\ requests' = requests + 1
    /\ pc' = [pc EXCEPT ![t] = step]
    /\ job' = [job EXCEPT ![t] = IF step = "idle" THEN NoJob ELSE j]

-----------------------------------------------------------------------------
(* SessionStore. *)

Expired(s)  == now - s.active > TTL
Live(k)     == \E s \in sessions : s.token = k /\ ~ Expired(s)

\* Get: an expired session is deleted when it is looked up.
GetSession(k) ==
    sessions' = {s \in sessions : s.token # k \/ ~ Expired(s)}

\* Mutant: one session too many.
WithRoomLate == IF Cardinality(sessions) <= MaxSessions THEN {sessions}
                ELSE {sessions \ {s} : s \in sessions}

\* evictOldestLocked: the oldest by CreatedAt goes; of several, any.
WithRoom ==
    IF Cardinality(sessions) < MaxSessions THEN {sessions}
    ELSE {sessions \ {s} : s \in {q \in sessions :
            \A r \in sessions : q.created <= r.created}}

\* Create
Create(t) ==
    /\ pc[t] = "create"
    /\ lastToken' = lastToken + 1
    /\ \E rest \in WithRoom :
          sessions' = rest \cup {[token |-> lastToken + 1, created |-> now,
                                  active |-> now]}
    /\ job' = [job EXCEPT ![t].token = lastToken + 1]
    /\ pc' = [pc EXCEPT ![t] = IF job[t].op = "login" THEN "reset" ELSE "answer"]
    /\ UNCHANGED <<now, entries, order, lastChallenge, attempts, creds, requests>>

\* The session is looked up for the cookie.  If it has gone meanwhile, the
\* handler panics on the nil session: login loses its connection, the passkey
\* login recovers and answers 500.  The stores are the same either way.
Answer(t) ==
    /\ pc[t] = "answer"
    /\ GetSession(job[t].token)
    /\ Done(t)
    /\ UNCHANGED <<now, lastToken, entries, order, lastChallenge, attempts,
                   creds, requests>>

\* logout: Delete
Logout(t) ==
    \E k \in 1..lastToken :
       /\ Accept(t, NoJob, "idle")
       /\ sessions' = {s \in sessions : s.token # k}
       /\ UNCHANGED <<now, lastToken, entries, order, lastChallenge, attempts,
                      creds>>

\* Middleware.Wrap with a session cookie: Get, and for what is no background
\* poll Touch.  GET /api/auth/session and the list of passkeys are a Get alone.
Visit(t) ==
    \E k \in 1..lastToken, poll \in BOOLEAN :
       /\ Accept(t, VisitJob(k),
                 IF Live(k) /\ ~ poll THEN "touch" ELSE "idle")
       /\ GetSession(k)
       /\ UNCHANGED <<now, lastToken, entries, order, lastChallenge, attempts,
                      creds>>

\* Mutant: Touch stores the session that Get has returned.
TouchRevives(t) ==
    /\ pc[t] = "touch"
    /\ sessions' = {s \in sessions : s.token # job[t].token}
                   \cup {[token |-> job[t].token, created |-> now,
                          active |-> now]}
    /\ Done(t)
    /\ UNCHANGED <<now, lastToken, entries, order, lastChallenge, attempts,
                   creds, requests>>

Touch(t) ==
    /\ pc[t] = "touch"
    /\ sessions' = {IF s.token = job[t].token THEN [s EXCEPT !.active = now]
                                              ELSE s : s \in sessions}
    /\ Done(t)
    /\ UNCHANGED <<now, lastToken, entries, order, lastChallenge, attempts,
                   creds, requests>>

SessionCleanup ==
    /\ sessions' = {s \in sessions : ~ Expired(s)}
    /\ UNCHANGED <<now, lastToken, entries, order, lastChallenge, attempts,
                   creds, pc, job, requests>>

-----------------------------------------------------------------------------
(* LoginRateLimiter. *)

Recent(fs) == {f \in fs : f.at + Window > now}

NewFailure(fs) ==
    CHOOSE f \in [at : {now}, n : 1..(Cardinality(fs) + 1)] : f \notin fs

\* Mutant: one attempt too many.
CheckLate(ip) == Cardinality(Recent(attempts[ip])) <= MaxAttempts

Check(ip) == Cardinality(Recent(attempts[ip])) < MaxAttempts

\* The unix socket is not limited.
Allowed(ip) == ip = Unix \/ Check(ip)

RecordFailure(t) ==
    /\ pc[t] = "fail"
    /\ attempts' = [attempts EXCEPT
                      ![job[t].ip] = Recent(@ \cup {NewFailure(@)})]
    /\ Done(t)
    /\ UNCHANGED <<now, sessions, lastToken, entries, order, lastChallenge,
                   creds, requests>>

Reset(t) ==
    /\ pc[t] = "reset"
    /\ attempts' = [attempts EXCEPT ![job[t].ip] = {}]
    /\ Goto(t, IF job[t].op = "login" THEN "answer" ELSE "create")
    /\ UNCHANGED <<now, sessions, lastToken, entries, order, lastChallenge,
                   creds, requests>>

LimiterCleanup ==
    /\ attempts' = [ip \in IPs |-> IF Recent(attempts[ip]) = {} THEN {}
                                                        ELSE attempts[ip]]
    /\ UNCHANGED <<now, sessions, lastToken, entries, order, lastChallenge,
                   creds, pc, job, requests>>

-----------------------------------------------------------------------------
(* login with a password: the sessions of the user go, a new one comes.     *)

Login(t) ==
    \E ip \in IPs, good \in BOOLEAN :
       /\ Allowed(ip)
       /\ Accept(t, LoginJob(ip, good), IF good THEN "rotate" ELSE "fail")
       /\ UNCHANGED <<now, stores>>

DeleteByUsername(t) ==
    /\ pc[t] = "rotate"
    /\ sessions' = {}
    /\ Goto(t, "create")
    /\ UNCHANGED <<now, lastToken, entries, order, lastChallenge, attempts,
                   creds, requests>>

-----------------------------------------------------------------------------
(* ChallengeStore. *)

Stale(e) == now - e.born > ChallengeTTL

\* What is left of the challenges when the tokens of order up to n are evicted.
Kept(n) == {e \in entries : e.token \notin order \/ e.token > n}

\* Evict from the front of order until there is room or order is empty.
Evicts(n) ==
    /\ Cardinality(Kept(n)) < ChallengeCap \/ \A c \in order : c <= n
    /\ \A m \in order \cup {0} : m < n => Cardinality(Kept(m)) >= ChallengeCap

Store(t) ==
    /\ pc[t] = "store"
    /\ lastChallenge' = lastChallenge + 1
    /\ \E n \in order \cup {0} :
          /\ Evicts(n)
          /\ entries' = Kept(n) \cup {[token |-> lastChallenge + 1,
                                       kind |-> job[t].kind, born |-> now]}
          /\ order' = {c \in order : c > n} \cup {lastChallenge + 1}
    /\ Done(t)
    /\ UNCHANGED <<now, sessions, lastToken, attempts, creds, requests>>

\* Mutant: a challenge is deleted only when it is found expired.
TakeKeeps(t) ==
    /\ pc[t] = "take"
    /\ LET mine == {e \in entries : e.token = job[t].chal}
       IN  /\ entries' = {e \in entries : e \notin mine \/ ~ Stale(e)}
           /\ \/ \E e \in mine :
                    /\ ~ Stale(e)
                    /\ pc' = [pc EXCEPT ![t] = "verify"]
                    /\ job' = [job EXCEPT ![t].kind = e.kind]
              \/ (\A e \in mine : Stale(e)) /\ Done(t)
    /\ UNCHANGED <<now, sessions, lastToken, order, lastChallenge, attempts,
                   creds, requests>>

\* Mutant: the handler goes on although the challenge is unknown.
TakeUnknown(t) ==
    /\ pc[t] = "take"
    /\ entries' = {e \in entries : e.token # job[t].chal}
    /\ pc' = [pc EXCEPT ![t] = "verify"]
    /\ job' = [job EXCEPT ![t].kind =
                 IF \E e \in entries : e.token = job[t].chal THEN @ ELSE "nil"]
    /\ UNCHANGED <<now, sessions, lastToken, order, lastChallenge, attempts,
                   creds, requests>>

\* Get: always deleted; its token stays in order.
Take(t) ==
    /\ pc[t] = "take"
    /\ LET mine == {e \in entries : e.token = job[t].chal}
       IN  /\ entries' = entries \ mine
           /\ \/ \E e \in mine :
                    /\ ~ Stale(e)
                    /\ pc' = [pc EXCEPT ![t] = "verify"]
                    /\ job' = [job EXCEPT ![t].kind = e.kind]
              \/ (\A e \in mine : Stale(e)) /\ Done(t)
    /\ UNCHANGED <<now, sessions, lastToken, order, lastChallenge, attempts,
                   creds, requests>>

\* Mutant: the cleanup forgets the order of the challenges it keeps.
ChallengeCleanupForgets ==
    /\ entries' = {e \in entries : ~ Stale(e)}
    /\ order' = {}
    /\ UNCHANGED <<now, sessions, lastToken, lastChallenge, attempts, creds, pc,
                   job, requests>>

ChallengeCleanup ==
    /\ entries' = {e \in entries : ~ (Stale(e) /\ e.token \in order)}
    /\ order' = {c \in order : \E e \in entries : e.token = c /\ ~ Stale(e)}
    /\ UNCHANGED <<now, sessions, lastToken, lastChallenge, attempts, creds, pc,
                   job, requests>>

-----------------------------------------------------------------------------
(* Passkeys.  requireSession is a Get of the session store.                 *)

\* With a session k, go on with the job; without one, 401.
WithSession(t, k, j, step) ==
    /\ Accept(t, j, IF Live(k) THEN step ELSE "idle")
    /\ GetSession(k)
    /\ UNCHANGED <<now, lastToken, entries, order, lastChallenge, attempts,
                   creds>>

RegisterBegin(t) ==
    \E k \in 1..lastToken :
       WithSession(t, k, BeginJob(Unix, "register"), "store")

RegisterFinish(t) ==
    \E k \in 1..lastToken, c \in 1..lastChallenge, x \in Creds,
       good \in BOOLEAN :
       WithSession(t, k, FinishJob("register", Unix, c, x, good), "take")

LoginBegin(t) ==
    \E ip \in IPs :
       /\ Allowed(ip)
       /\ Accept(t, BeginJob(ip, "login"), "count")
       /\ UNCHANGED <<now, stores>>

\* CountCredentials: without a passkey there is no challenge.
Count(t) ==
    /\ pc[t] = "count"
    /\ IF creds = {} THEN Done(t) ELSE Goto(t, "store")
    /\ UNCHANGED <<now, stores, requests>>

LoginFinish(t) ==
    \E ip \in IPs, c \in 1..lastChallenge, x \in Creds, good \in BOOLEAN :
       /\ Allowed(ip)
       /\ Accept(t, FinishJob("passkey", ip, c, x, good), "take")
       /\ UNCHANGED <<now, stores>>

\* loadAdminUser and the library's check: a right answer to a challenge of the
\* same ceremony, at a login from a passkey that is registered.
Verify(t) ==
    /\ pc[t] = "verify"
    /\ LET j == job[t]
       IN  \/ /\ j.op = "register"
              /\ IF j.good /\ j.kind = "register" THEN Goto(t, "insert")
                                                  ELSE Done(t)
           \/ /\ j.op = "passkey"
              /\ Goto(t, IF j.good /\ j.kind = "login" /\ j.cred \in creds
                           THEN "reset" ELSE "fail")
    /\ UNCHANGED <<now, stores, requests>>

\* InsertCredential; a duplicate is refused by the primary key.
InsertCredential(t) ==
    /\ pc[t] = "insert"
    /\ creds' = creds \cup {job[t].cred}
    /\ Done(t)
    /\ UNCHANGED <<now, sessions, lastToken, entries, order, lastChallenge,
                   attempts, requests>>

Forget(t) ==
    \E k \in 1..lastToken, x \in Creds :
       WithSession(t, k, ForgetJob(x), "delete")

DeleteCredential(t) ==
    /\ pc[t] = "delete"
    /\ creds' = creds \ {job[t].cred}
    /\ Done(t)
    /\ UNCHANGED <<now, sessions, lastToken, entries, order, lastChallenge,
                   attempts, requests>>

\* A call of SQLite, of the library or of the random source fails, and the
\* request ends with an error.
Fail(t) ==
    /\ pc[t] \in {"count", "store", "create", "insert", "delete"}
    /\ Done(t)
    /\ UNCHANGED <<now, stores, requests>>

-----------------------------------------------------------------------------

Tick ==
    /\ now < MaxTime
    /\ now' = now + 1
    /\ UNCHANGED <<stores, pc, job, requests>>

Request(t) == \/ Login(t) \/ Logout(t) \/ Visit(t) \/ RegisterBegin(t)
              \/ RegisterFinish(t) \/ LoginBegin(t) \/ LoginFinish(t)
              \/ Forget(t)

Step(t) == \/ RecordFailure(t) \/ DeleteByUsername(t) \/ Create(t) \/ Reset(t)
           \/ Answer(t) \/ Touch(t) \/ Store(t) \/ Take(t) \/ Verify(t)
           \/ Count(t) \/ InsertCredential(t) \/ DeleteCredential(t) \/ Fail(t)

Cleanup == SessionCleanup \/ LimiterCleanup \/ ChallengeCleanup

Next == \/ \E t \in Threads : Request(t) \/ Step(t)
        \/ Cleanup
        \/ Tick

Spec == Init /\ [][Next]_vars

-----------------------------------------------------------------------------
(* Properties. *)

\* Every variable has its type: the maps of the three stores hold records with
\* their times, and a request that goes on has the locals of its kind.
TypeOK ==
    /\ {now, lastToken, lastChallenge, requests} \subseteq Nat
    /\ sessions \subseteq Session
    /\ entries \subseteq Challenge /\ order \subseteq Nat
    /\ attempts \in [IPs -> SUBSET Failure]
    /\ creds \subseteq Creds
    /\ pc \in [Threads -> {"idle", "create", "answer", "touch", "fail", "reset",
                           "rotate", "count", "store", "take", "verify",
                           "insert", "delete"}]
    /\ job \in [Threads -> Job]

\* docs/authentication.md, max_sessions: never more sessions than that, and a
\* token names one session, although logins evict and create concurrently.
SessionsBounded ==
    /\ Cardinality(sessions) <= MaxSessions
    /\ \A r, s \in sessions : r.token = s.token => r = s

\* docs/authentication.md, "the server stores up to 100 pending challenges": the
\* eviction always finds room, although Get and cleanup leave entries and order
\* in different states.
ChallengesBounded == Cardinality(entries) <= ChallengeCap

\* docs/authentication.md, "challenges are one-time use": a challenge that a
\* request is being verified against can serve no other request, now or later.
ChallengeOnce ==
    LET Holds(t) == /\ job[t].op \in {"register", "passkey"}
                    /\ pc[t] \notin {"idle", "take"}
    IN  \A t \in Threads : Holds(t) =>
           /\ \A e \in entries : e.token # job[t].chal
           /\ \A s \in Threads \ {t} : Holds(s) => job[s].chal # job[t].chal

\* A session that is gone from the map (logout, rotation, eviction, cleanup, or
\* a Get that found it expired) never comes back.  One that has expired and is
\* still in the map is live again only by the Touch of a request whose own Get
\* had found it live: session.go does not look at the TTL again in Touch, so a
\* session that expires between the two is extended.
EndedStaysEnded ==
    [][\A k \in 1..lastToken :
          /\ (\A s \in sessions : s.token # k) => \A s \in sessions' : s.token # k
          /\ ~ Live(k) /\ Live(k)'
                => \E t \in Threads : pc[t] = "touch" /\ job[t].token = k]_vars

\* login_rate.go, "5 failed attempts per 60 seconds per IP": up to the requests
\* that were past Check when the limit was reached, one per other goroutine.
FailuresBounded ==
    \A ip \in IPs \ {Unix} :
       Cardinality(Recent(attempts[ip]))
          <= MaxAttempts - 1 + Cardinality(Threads)
=============================================================================
