---------------------------- MODULE StorageProofs ----------------------------
(***************************************************************************)
(* TypeOK, NoDangling, DeletedStays and BestSource of Storage, for every   *)
(* set of peers, profiles and goroutines and every budget of failures and  *)
(* crashes.                                                                *)
(*                                                                         *)
(* NoDangling says of the tables in use that no peer has a profile that is *)
(* not there.  It is inductive only together with the same fact about each *)
(* file that a later start-up may turn into the tables (the database, its  *)
(* log, the backup) and about the copy of the database under way, which is *)
(* the database itself as long as SQLite does not checkpoint into it.      *)
(*                                                                         *)
(* BestSource says of the database that is opened that it is the best copy *)
(* there was.  It needs to know, at every level of the recovery chain, what*)
(* the levels before it found and what they have written so far            *)
(* (SourceInv).                                                            *)
(***************************************************************************)
EXTENDS Storage, TLAPS

Sound(c) == c \in Content => NoDangle(c)

\* Whatever may become the database keeps its profiles.
FilesInv == Sound(file) /\ Sound(log) /\ Sound(bak)

\* A backup copies the database as it is, and a restore has a backup.
CopyInv ==
    /\ image # None => phase = "up" /\ image = file
    /\ phase \in {"restore", "copy"} => bak # Absent

\* What a request under way has read is there to be used.
JobOK(w) ==
    /\ w.op # "idle" => w.name \in Names /\ w.read \in Profile
    /\ w.op \in {"create", "assign"} => w.key \in Keys
    /\ w.op = "update" => w.req \in ProfileReqs

WorkInv == \A t \in Threads : JobOK(work[t]) /\ (work[t].op # "idle" => phase = "up")

IInv == TypeOK /\ FilesInv /\ CopyInv /\ WorkInv

-----------------------------------------------------------------------------
(* The tables. *)

LEMMA Marks ==
    /\ None \notin Content /\ None \notin Peer /\ None \notin Profile
    /\ None \notin Names
    /\ Bad \notin Content /\ Absent \notin Content
    /\ Bad # None /\ Absent # None /\ Bad # Absent
PROOF BY StorageAssumption

LEMMA EmptySound == Empty \in Content /\ NoDangle(Empty)
PROOF
  <1>1. Empty \in Content BY DEF Empty, Content
  <1>2. QED BY <1>1 DEF Empty, NoDangle

LEMMA PutPeerSound ==
    ASSUME NEW c \in Content, NEW k \in Keys, NEW p \in Peer \cup {None},
           NoDangle(c), p # None => ~ ProfileMissing(c, p.profile)
    PROVE  PutPeer(c, k, p) \in Content /\ NoDangle(PutPeer(c, k, p))
PROOF
  <1> DEFINE d == PutPeer(c, k, p)
  <1>1. c.peers \in [Keys -> Peer \cup {None}] BY DEF Content
  <1>2. /\ d.peers = [c.peers EXCEPT ![k] = p]
        /\ d.profiles = c.profiles
    BY DEF PutPeer, Content
  <1>3. d \in Content BY <1>1 DEF PutPeer, Content
  <1>4. ASSUME NEW q \in Keys, d.peers[q] # None
        PROVE  ~ ProfileMissing(d, d.peers[q].profile)
    <2>1. CASE q = k
      <3>1. d.peers[q] = p BY <2>1, <1>1, <1>2
      <3>2. QED BY <3>1, <1>2, <1>4 DEF ProfileMissing
    <2>2. CASE q # k
      <3>1. d.peers[q] = c.peers[q] BY <2>2, <1>1, <1>2
      <3>2. QED BY <3>1, <1>2, <1>4 DEF ProfileMissing, NoDangle
    <2>3. QED BY <2>1, <2>2
  <1>5. QED BY <1>3, <1>4 DEF NoDangle

LEMMA PutProfileSound ==
    ASSUME NEW c \in Content, NEW n \in Names, NEW p \in Profile \cup {None},
           NoDangle(c), p = None => ~ InUse(c, n)
    PROVE  PutProfile(c, n, p) \in Content /\ NoDangle(PutProfile(c, n, p))
PROOF
  <1> DEFINE d == PutProfile(c, n, p)
  <1>1. c.profiles \in [Names -> Profile \cup {None}] BY DEF Content
  <1>2. /\ d.profiles = [c.profiles EXCEPT ![n] = p]
        /\ d.peers = c.peers
    BY DEF PutProfile, Content
  <1>3. d \in Content BY <1>1 DEF PutProfile, Content
  <1>4. ASSUME NEW q \in Keys, d.peers[q] # None
        PROVE  ~ ProfileMissing(d, d.peers[q].profile)
    <2> DEFINE m == c.peers[q].profile
    <2>1. c.peers[q] # None /\ d.peers[q] = c.peers[q] BY <1>2, <1>4
    <2>2. ~ ProfileMissing(c, m) BY <2>1 DEF NoDangle
    <2>3. CASE m = n
      <3>1. p # None BY <2>1, <2>3 DEF InUse
      <3>2. d.profiles[m] = p BY <2>3, <1>1, <1>2
      <3>3. QED BY <3>1, <3>2, <2>1 DEF ProfileMissing
    <2>4. CASE m # n
      <3>1. d.profiles[m] = c.profiles[m] BY <2>4, <1>1, <1>2
      <3>2. QED BY <3>1, <2>1, <2>2 DEF ProfileMissing
    <2>5. QED BY <2>3, <2>4
  <1>5. QED BY <1>3, <1>4 DEF NoDangle

\* Seeding into a table with no profile disturbs no peer: none has one.
LEMMA SeededSound ==
    ASSUME NEW c \in Content, NoDangle(c)
    PROVE  Seeded(c) \in Content /\ NoDangle(Seeded(c))
PROOF
  <1>1. CASE \A n \in Names : c.profiles[n] = None
    <2> DEFINE d == [c EXCEPT !.profiles = Seeds]
    <2>1. Seeded(c) = d BY <1>1 DEF Seeded
    <2>2. d \in Content BY StorageAssumption DEF Content
    <2>3. d.peers = c.peers BY DEF Content
    <2>4. ASSUME NEW k \in Keys, c.peers[k] # None
          PROVE  c.peers[k].profile = None
      <3>1. c.peers[k] \in Peer BY <2>4 DEF Content
      <3>2. c.peers[k].profile \in Names \cup {None} BY <3>1 DEF Peer
      <3>3. QED BY <3>2, <2>4, <1>1 DEF NoDangle, ProfileMissing
    <2>5. NoDangle(d) BY <2>3, <2>4 DEF NoDangle, ProfileMissing
    <2>6. QED BY <2>1, <2>2, <2>5
  <1>2. CASE ~ \A n \in Names : c.profiles[n] = None
    BY <1>2 DEF Seeded
  <1>3. QED BY <1>1, <1>2

\* What queries see while the agent serves.
LEMMA TablesSound ==
    ASSUME IInv, phase = "up"
    PROVE  Tables \in Content /\ NoDangle(Tables)
PROOF BY Marks DEF IInv, TypeOK, FilesInv, Sound, Tables

LEMMA SpendType ==
    ASSUME TypeOK, NEW w \in BudgetKinds, Spend(w)
    PROVE  budget' \in [BudgetKinds -> Nat]
PROOF
  <1>1. budget \in [BudgetKinds -> Nat] BY DEF TypeOK
  <1>2. budget[w] - 1 \in Nat BY <1>1 DEF Spend
  <1>3. budget' = [budget EXCEPT ![w] = budget[w] - 1] BY DEF Spend
  <1>4. QED BY <1>1, <1>2, <1>3

LEMMA IdleWork == Idle \in Work /\ Idle.op = "idle"
PROOF BY DEF Idle, Work

-----------------------------------------------------------------------------
(* Handlers. *)

\* A goroutine takes on a job, or is done with one.
LEMMA WorkStep ==
    ASSUME IInv, NEW t \in Threads, NEW w \in Work, JobOK(w), phase = "up",
           phase' = phase, work' = [work EXCEPT ![t] = w]
    PROVE  work' \in [Threads -> Work] /\ WorkInv'
PROOF
  <1>1. work \in [Threads -> Work] BY DEF IInv, TypeOK
  <1>2. work' \in [Threads -> Work] BY <1>1
  <1>3. ASSUME NEW u \in Threads PROVE JobOK(work'[u])
    <2>1. work'[u] = w \/ work'[u] = work[u] BY <1>1
    <2>2. JobOK(work[u]) BY DEF IInv, WorkInv
    <2>3. QED BY <2>1, <2>2 DEF JobOK
  <1>4. WorkInv' BY <1>3 DEF WorkInv, JobOK
  <1>5. QED BY <1>2, <1>4

LEMMA EndStep ==
    ASSUME IInv, NEW t \in Threads, phase = "up", End(t)
    PROVE  /\ work' \in [Threads -> Work] /\ WorkInv'
           /\ UNCHANGED <<conf, Start, image>>
           /\ budget' \in [BudgetKinds -> Nat]
PROOF
  <1>1. JobOK(Idle) BY DEF Idle, JobOK
  <1>2. phase' = phase /\ work' = [work EXCEPT ![t] = Idle]
    BY DEF End, Start
  <1>3. work' \in [Threads -> Work] /\ WorkInv'
    BY <1>1, <1>2, IdleWork, WorkStep
  <1>4. UNCHANGED <<conf, Start, image>> /\ budget' = budget BY DEF End
  <1>5. QED BY <1>3, <1>4 DEF IInv, TypeOK

\* A statement that keeps the tables sound.
LEMMA CommitStep ==
    ASSUME IInv, phase = "up", NEW c \in Content, NoDangle(c), Commit(c),
           work' \in [Threads -> Work], WorkInv',
           UNCHANGED <<conf, Start, image>>,
           budget' \in [BudgetKinds -> Nat]
    PROVE  IInv'
PROOF
  <1>1. /\ log' = c /\ last' = c /\ file' = file /\ bak' = bak
        /\ saved' = saved /\ short' = short
    BY DEF Commit
  <1>2. /\ conf' = conf /\ phase' = phase /\ source' = source
        /\ left' = left /\ image' = image
    BY DEF Start
  <1>3. TypeOK' BY <1>1, <1>2 DEF IInv, TypeOK
  <1>4. FilesInv' BY <1>1 DEF IInv, FilesInv, Sound
  <1>5. CopyInv' BY <1>1, <1>2 DEF IInv, CopyInv
  <1>6. QED BY <1>3, <1>4, <1>5 DEF IInv

\* A statement that fails.
LEMMA NoCommitStep ==
    ASSUME IInv, phase = "up", UNCHANGED <<files, history>>,
           work' \in [Threads -> Work], WorkInv',
           UNCHANGED <<conf, Start, image>>,
           budget' \in [BudgetKinds -> Nat]
    PROVE  IInv'
PROOF
  <1>1. /\ log' = log /\ last' = last /\ file' = file /\ bak' = bak
        /\ saved' = saved /\ short' = short
    BY DEF files, history
  <1>2. /\ conf' = conf /\ phase' = phase /\ source' = source
        /\ left' = left /\ image' = image
    BY DEF Start
  <1>3. TypeOK' BY <1>1, <1>2 DEF IInv, TypeOK
  <1>4. FilesInv' BY <1>1 DEF IInv, FilesInv, Sound
  <1>5. CopyInv' BY <1>1, <1>2 DEF IInv, CopyInv
  <1>6. QED BY <1>3, <1>4, <1>5 DEF IInv

LEMMA BeginStep ==
    ASSUME IInv, NEW t \in Threads, NEW w \in Work, JobOK(w), phase = "up",
           Begin(t, w)
    PROVE  IInv'
PROOF
  <1>1. budget' \in [BudgetKinds -> Nat]
    BY SpendType DEF Begin, IInv, BudgetKinds
  <1>2. phase' = phase /\ work' = [work EXCEPT ![t] = w]
    BY DEF Begin, Start
  <1>3. work' \in [Threads -> Work] /\ WorkInv' BY <1>2, WorkStep
  <1>4. UNCHANGED <<conf, Start, image>> /\ UNCHANGED <<files, history>>
    BY DEF Begin
  <1>5. QED BY <1>1, <1>3, <1>4, NoCommitStep

LEMMA OneStatementStep ==
    ASSUME IInv, phase = "up", NEW c \in Content, NoDangle(c), OneStatement(c)
    PROVE  IInv'
PROOF
  <1>1. budget' \in [BudgetKinds -> Nat]
    BY SpendType DEF OneStatement, IInv, BudgetKinds
  <1>2. /\ Commit(c) /\ UNCHANGED <<conf, Start, image>>
        /\ work' = work /\ phase' = phase
    BY DEF OneStatement, Start
  <1>3. work' \in [Threads -> Work] /\ WorkInv'
    BY <1>2 DEF IInv, TypeOK, WorkInv, JobOK
  <1>4. QED BY <1>1, <1>2, <1>3, CommitStep

LEMMA UseProfileInv ==
    ASSUME IInv, NEW t \in Threads, UseProfile(t) PROVE IInv'
PROOF
  <1>1. phase = "up" BY DEF UseProfile, Serving
  <1>2. PICK k \in Keys, n \in Names :
         /\ Tables.profiles[n] # None
         /\ Begin(t, [Idle EXCEPT !.op = IF Tables.peers[k] = None
                                           THEN "create" ELSE "assign",
                                  !.key = k, !.name = n,
                                  !.read = Tables.profiles[n]])
    BY DEF UseProfile
  <1> DEFINE w == [Idle EXCEPT !.op = IF Tables.peers[k] = None
                                        THEN "create" ELSE "assign",
                               !.key = k, !.name = n,
                               !.read = Tables.profiles[n]]
  <1>3. Tables.profiles[n] \in Profile
    BY <1>1, <1>2, TablesSound DEF Content
  <1>4. /\ w.op \in {"create", "assign"} /\ w.key = k /\ w.name = n
        /\ w.read = Tables.profiles[n]
    BY IdleWork DEF Work
  <1>5. w \in Work BY <1>3, IdleWork DEF Work
  <1>6. JobOK(w) BY <1>3, <1>4 DEF JobOK
  <1> HIDE DEF w
  <1>7. Begin(t, w) BY <1>2 DEF w
  <1>8. QED BY <1>1, <1>5, <1>6, <1>7, BeginStep

LEMMA ReadProfileInv ==
    ASSUME IInv, NEW t \in Threads, ReadProfile(t) PROVE IInv'
PROOF
  <1>1. phase = "up" BY DEF ReadProfile, Serving
  <1>2. PICK n \in Names, r \in ProfileReqs :
         /\ Tables.profiles[n] # None
         /\ Begin(t, [Idle EXCEPT !.op = "update", !.name = n,
                                  !.read = Tables.profiles[n], !.req = r])
    BY DEF ReadProfile
  <1> DEFINE w == [Idle EXCEPT !.op = "update", !.name = n,
                               !.read = Tables.profiles[n], !.req = r]
  <1>3. Tables.profiles[n] \in Profile
    BY <1>1, <1>2, TablesSound DEF Content
  <1>4. /\ w.op = "update" /\ w.name = n /\ w.req = r
        /\ w.read = Tables.profiles[n]
    BY IdleWork DEF Work
  <1>5. w \in Work BY <1>3, IdleWork DEF Work
  <1>6. JobOK(w) BY <1>3, <1>4 DEF JobOK
  <1> HIDE DEF w
  <1>7. Begin(t, w) BY <1>2 DEF w
  <1>8. QED BY <1>1, <1>5, <1>6, <1>7, BeginStep

LEMMA InsertPeerInv ==
    ASSUME IInv, NEW t \in Threads, InsertPeer(t) PROVE IInv'
PROOF
  <1> DEFINE w == work[t]
  <1>1. w.op = "create" /\ End(t) BY DEF InsertPeer
  <1>2. phase = "up" /\ w.key \in Keys /\ w.name \in Names
    BY <1>1 DEF IInv, WorkInv, JobOK
  <1>3. /\ work' \in [Threads -> Work] /\ WorkInv'
        /\ UNCHANGED <<conf, Start, image>>
        /\ budget' \in [BudgetKinds -> Nat]
    BY <1>1, <1>2, EndStep
  <1>4. PICK rs \in SUBSET Cidrs :
          IF ProfileMissing(Tables, w.name) \/ Tables.peers[w.key] # None
               THEN UNCHANGED <<files, history>>
               ELSE Commit(PutPeer(Tables, w.key,
                             [profile |-> w.name, routes |-> rs,
                              enabled |-> TRUE]))
    BY DEF InsertPeer
  <1>5. CASE ProfileMissing(Tables, w.name) \/ Tables.peers[w.key] # None
    BY <1>2, <1>3, <1>4, <1>5, NoCommitStep
  <1>6. CASE ~ (ProfileMissing(Tables, w.name) \/ Tables.peers[w.key] # None)
    <2> DEFINE p == [profile |-> w.name, routes |-> rs, enabled |-> TRUE]
               c == PutPeer(Tables, w.key, p)
    <2>1. p \in Peer /\ p.profile = w.name BY <1>2 DEF Peer
    <2>2. c \in Content /\ NoDangle(c)
      BY <1>2, <1>6, <2>1, TablesSound, PutPeerSound
    <2>3. Commit(c) BY <1>4, <1>6
    <2> HIDE DEF c
    <2>4. QED BY <1>2, <1>3, <2>2, <2>3, CommitStep
  <1>7. QED BY <1>5, <1>6

LEMMA AssignProfileInv ==
    ASSUME IInv, NEW t \in Threads, AssignProfile(t) PROVE IInv'
PROOF
  <1> DEFINE w == work[t]
  <1>1. w.op = "assign" /\ End(t) BY DEF AssignProfile
  <1>2. /\ phase = "up" /\ w.key \in Keys /\ w.name \in Names
        /\ w.read \in Profile
    BY <1>1 DEF IInv, WorkInv, JobOK
  <1>3. /\ work' \in [Threads -> Work] /\ WorkInv'
        /\ UNCHANGED <<conf, Start, image>>
        /\ budget' \in [BudgetKinds -> Nat]
    BY <1>1, <1>2, EndStep
  <1> DEFINE p == [Tables.peers[w.key] EXCEPT
                     !.profile = w.name, !.routes = Resolved(w.read)]
             c == PutPeer(Tables, w.key, p)
  <1>4. IF ProfileMissing(Tables, w.name) \/ Tables.peers[w.key] = None
          THEN UNCHANGED <<files, history>> ELSE Commit(c)
    BY DEF AssignProfile
  <1>5. CASE ProfileMissing(Tables, w.name) \/ Tables.peers[w.key] = None
    BY <1>2, <1>3, <1>4, <1>5, NoCommitStep
  <1>6. CASE ~ (ProfileMissing(Tables, w.name) \/ Tables.peers[w.key] = None)
    <2>1. Tables.peers[w.key] \in Peer
      BY <1>2, <1>6, TablesSound DEF Content
    <2>2. Resolved(w.read) \in SUBSET Cidrs
      BY <1>2 DEF Resolved, Profile
    <2>3. p \in Peer /\ p.profile = w.name BY <2>1, <2>2, <1>2 DEF Peer
    <2> HIDE DEF p
    <2>4. c \in Content /\ NoDangle(c)
      BY <1>2, <1>6, <2>3, TablesSound, PutPeerSound
    <2>5. Commit(c) BY <1>4, <1>6
    <2> HIDE DEF c
    <2>6. QED BY <1>2, <1>3, <2>4, <2>5, CommitStep
  <1>7. QED BY <1>5, <1>6

LEMMA ChangePeerInv ==
    ASSUME IInv, NEW t \in Threads, ChangePeer(t) PROVE IInv'
PROOF
  <1>1. phase = "up" BY DEF ChangePeer, Serving
  <1>2. PICK k \in Keys, rs \in SUBSET Cidrs :
         /\ Tables.peers[k] # None
         /\ \E p \in {None,
                      [Tables.peers[k] EXCEPT !.profile = None, !.routes = rs],
                      [Tables.peers[k] EXCEPT !.enabled = FALSE]} :
              OneStatement(PutPeer(Tables, k, p))
    BY DEF ChangePeer
  <1> DEFINE q == Tables.peers[k]
  <1>3. PICK p \in {None, [q EXCEPT !.profile = None, !.routes = rs],
                    [q EXCEPT !.enabled = FALSE]} :
              OneStatement(PutPeer(Tables, k, p))
    BY <1>2
  <1>4. q \in Peer BY <1>1, <1>2, TablesSound DEF Content
  <1>5. ~ ProfileMissing(Tables, q.profile)
    BY <1>1, <1>2, TablesSound DEF NoDangle
  <1> HIDE DEF q
  <1>6. p \in Peer \cup {None} BY <1>3, <1>4 DEF Peer
  <1>7. p # None => p.profile = None \/ p.profile = q.profile
    BY <1>3, <1>4 DEF Peer
  <1>8. p # None => ~ ProfileMissing(Tables, p.profile)
    BY <1>5, <1>7 DEF ProfileMissing
  <1> DEFINE c == PutPeer(Tables, k, p)
  <1>9. c \in Content /\ NoDangle(c)
    BY <1>1, <1>6, <1>8, TablesSound, PutPeerSound
  <1>10. OneStatement(c) BY <1>3
  <1> HIDE DEF c
  <1>11. QED BY <1>1, <1>9, <1>10, OneStatementStep

LEMMA CreateProfileInv ==
    ASSUME IInv, NEW t \in Threads, CreateProfile(t) PROVE IInv'
PROOF
  <1>1. phase = "up" BY DEF CreateProfile, Serving
  <1>2. PICK n \in Names, r \in ProfileReqs : OneStatement(PutProfile(Tables, n,
              [allow |-> r.allow, exclude |-> r.exclude, default |-> FALSE]))
    BY DEF CreateProfile
  <1> DEFINE p == [allow |-> r.allow, exclude |-> r.exclude, default |-> FALSE]
             c == PutProfile(Tables, n, p)
  <1>3. r \in [allow : SUBSET Cidrs, exclude : SUBSET Cidrs]
    BY StorageAssumption
  <1>4. p \in Profile BY <1>3 DEF Profile
  <1>5. OneStatement(c) BY <1>2
  <1> HIDE DEF p
  <1>6. c \in Content /\ NoDangle(c)
    BY <1>1, <1>4, TablesSound, PutProfileSound, Marks
  <1> HIDE DEF c
  <1>7. QED BY <1>1, <1>5, <1>6, OneStatementStep

LEMMA DeleteProfileInv ==
    ASSUME IInv, NEW t \in Threads, DeleteProfile(t) PROVE IInv'
PROOF
  <1>1. phase = "up" BY DEF DeleteProfile, Serving
  <1>2. PICK n \in Names : /\ ~ InUse(Tables, n)
                           /\ OneStatement(PutProfile(Tables, n, None))
    BY DEF DeleteProfile
  <1> DEFINE c == PutProfile(Tables, n, None)
  <1>3. c \in Content /\ NoDangle(c)
    BY <1>1, <1>2, TablesSound, PutProfileSound
  <1>4. OneStatement(c) BY <1>2
  <1> HIDE DEF c
  <1>5. QED BY <1>1, <1>3, <1>4, OneStatementStep

LEMMA MergedType ==
    ASSUME NEW p \in Profile, NEW r \in ProfileReqs, NEW q \in Merged(p, r)
    PROVE  q \in Profile
PROOF
  <1>1. r \in [allow : SUBSET Cidrs, exclude : SUBSET Cidrs]
    BY StorageAssumption
  <1>2. QED BY <1>1 DEF Merged, Profile

LEMMA WriteProfileInv ==
    ASSUME IInv, NEW t \in Threads, WriteProfile(t) PROVE IInv'
PROOF
  <1> DEFINE w == work[t]
             n == work[t].name
  <1>1. w.op = "update" /\ End(t) BY DEF WriteProfile
  <1>2. /\ phase = "up" /\ n \in Names /\ w.read \in Profile
        /\ w.req \in ProfileReqs
    BY <1>1 DEF IInv, WorkInv, JobOK
  <1>3. /\ work' \in [Threads -> Work] /\ WorkInv'
        /\ UNCHANGED <<conf, Start, image>>
        /\ budget' \in [BudgetKinds -> Nat]
    BY <1>1, <1>2, EndStep
  <1>4. PICK p \in Merged(w.read, w.req) :
             IF Tables.profiles[n] = None
               THEN UNCHANGED <<files, history>>
               ELSE Commit(PutProfile(Tables, n,
                      [p EXCEPT !.default = Tables.profiles[n].default]))
    BY DEF WriteProfile
  <1>5. CASE Tables.profiles[n] = None
    BY <1>2, <1>3, <1>4, <1>5, NoCommitStep
  <1>6. CASE Tables.profiles[n] # None
    <2> DEFINE q == [p EXCEPT !.default = Tables.profiles[n].default]
               c == PutProfile(Tables, n, q)
    <2>1. p \in Profile BY <1>2, <1>4, MergedType
    <2>2. Tables.profiles[n] \in Profile
      BY <1>2, <1>6, TablesSound DEF Content
    <2>3. q \in Profile BY <2>1, <2>2 DEF Profile
    <2>4. Commit(c) BY <1>4, <1>6
    <2> HIDE DEF q
    <2>5. c \in Content /\ NoDangle(c)
      BY <1>2, <2>3, TablesSound, PutProfileSound, Marks
    <2> HIDE DEF c
    <2>6. QED BY <1>2, <1>3, <2>4, <2>5, CommitStep
  <1>7. QED BY <1>5, <1>6

-----------------------------------------------------------------------------
(* The conf writer, checkpoints and backups. *)

LEMMA WriteConfInv ==
    ASSUME IInv, WriteConf PROVE IInv'
PROOF
  <1>1. conf' \subseteq Keys BY DEF WriteConf
  <1>2. /\ log' = log /\ last' = last /\ file' = file /\ bak' = bak
        /\ saved' = saved /\ short' = short /\ phase' = phase
        /\ source' = source /\ left' = left /\ image' = image
        /\ work' = work /\ budget' = budget
    BY DEF WriteConf, Start, files, history
  <1>3. TypeOK' BY <1>1, <1>2 DEF IInv, TypeOK
  <1>4. FilesInv' BY <1>2 DEF IInv, FilesInv, Sound
  <1>5. CopyInv' BY <1>2 DEF IInv, CopyInv
  <1>6. WorkInv' BY <1>2 DEF IInv, WorkInv, JobOK
  <1>7. QED BY <1>3, <1>4, <1>5, <1>6 DEF IInv

LEMMA AutoCheckpointInv ==
    ASSUME TornCopy = FALSE, IInv, AutoCheckpoint PROVE IInv'
PROOF
  <1>1. /\ phase = "up" /\ log # None /\ image = None
        /\ file' = log /\ log' = None
    BY DEF AutoCheckpoint
  <1>2. /\ last' = last /\ bak' = bak /\ conf' = conf
        /\ saved' = saved /\ short' = short /\ phase' = phase
        /\ source' = source /\ left' = left /\ image' = image
        /\ work' = work /\ budget' = budget
    BY DEF AutoCheckpoint, Start, history
  <1>3. TypeOK' BY <1>1, <1>2 DEF IInv, TypeOK
  <1>4. FilesInv' BY <1>1, <1>2, Marks DEF IInv, FilesInv, Sound
  <1>5. CopyInv' BY <1>1, <1>2 DEF CopyInv
  <1>6. WorkInv' BY <1>2 DEF IInv, WorkInv, JobOK
  <1>7. QED BY <1>3, <1>4, <1>5, <1>6 DEF IInv

LEMMA BackupBeginInv ==
    ASSUME IInv, BackupBegin PROVE IInv'
PROOF
  <1>1. /\ phase = "up" /\ file' = Tables /\ log' = None /\ bak' = Empty
        /\ image' = Tables /\ saved' = last /\ short' = short \cup {"bak"}
    BY DEF BackupBegin
  <1>2. /\ last' = last /\ conf' = conf /\ phase' = phase
        /\ source' = source /\ left' = left /\ work' = work
    BY DEF BackupBegin, Start
  <1>3. budget' \in [BudgetKinds -> Nat]
    BY SpendType DEF BackupBegin, IInv, BudgetKinds
  <1>4. /\ Tables \in Content /\ NoDangle(Tables)
        /\ Empty \in Content /\ NoDangle(Empty)
    BY <1>1, TablesSound, EmptySound
  <1>5. TypeOK' BY <1>1, <1>2, <1>3, <1>4 DEF IInv, TypeOK
  <1>6. FilesInv' BY <1>1, <1>4, Marks DEF FilesInv, Sound
  <1>7. CopyInv' BY <1>1, <1>2, <1>4, Marks DEF CopyInv
  <1>8. WorkInv' BY <1>2 DEF IInv, WorkInv, JobOK
  <1>9. QED BY <1>5, <1>6, <1>7, <1>8 DEF IInv

\* The copy is the database.
LEMMA BackupEndInv ==
    ASSUME IInv, BackupEnd PROVE IInv'
PROOF
  <1>1. /\ phase = "up" /\ image # None /\ bak' \in Copies
        /\ short' = short \ {"bak"} /\ image' = None
    BY DEF BackupEnd
  <1>2. /\ file' = file /\ log' = log /\ last' = last /\ conf' = conf
        /\ phase' = phase /\ source' = source /\ left' = left
        /\ work' = work /\ saved' = saved /\ budget' = budget
    BY DEF BackupEnd, Start
  <1>3. image = file /\ file \in Content /\ Sound(file)
    BY <1>1 DEF IInv, CopyInv, TypeOK, FilesInv
  <1>4. bak' = [peers |-> file.peers, profiles |-> file.profiles]
    BY <1>1, <1>3 DEF Copies
  <1>5. bak' = file BY <1>3, <1>4 DEF Content
  <1>6. TypeOK' BY <1>1, <1>2, <1>3, <1>5 DEF IInv, TypeOK
  <1>7. FilesInv' BY <1>2, <1>3, <1>5 DEF IInv, FilesInv, Sound
  <1>8. CopyInv' BY <1>1, <1>2 DEF CopyInv
  <1>9. WorkInv' BY <1>2 DEF IInv, WorkInv, JobOK
  <1>10. QED BY <1>6, <1>7, <1>8, <1>9 DEF IInv

LEMMA BackupFailsInv ==
    ASSUME IInv, BackupFails PROVE IInv'
PROOF
  <1>1. /\ phase = "up" /\ bak' \in {Empty, Bad} /\ image' = None
        /\ saved' = None
    BY DEF BackupFails
  <1>2. /\ file' = file /\ log' = log /\ last' = last /\ conf' = conf
        /\ phase' = phase /\ source' = source /\ left' = left
        /\ work' = work /\ short' = short
    BY DEF BackupFails, Start
  <1>3. budget' \in [BudgetKinds -> Nat]
    BY SpendType DEF BackupFails, IInv, BudgetKinds
  <1>4. TypeOK' BY <1>1, <1>2, <1>3, EmptySound DEF IInv, TypeOK
  <1>5. FilesInv' BY <1>1, <1>2, EmptySound, Marks DEF IInv, FilesInv, Sound
  <1>6. CopyInv' BY <1>1, <1>2 DEF CopyInv
  <1>7. WorkInv' BY <1>2 DEF IInv, WorkInv, JobOK
  <1>8. QED BY <1>4, <1>5, <1>6, <1>7 DEF IInv

-----------------------------------------------------------------------------
(* Start-up.  No request and no copy is under way. *)

Phases == {"down", "restore", "copy", "verify", "conf", "insert",
           "clean", "open", "seed", "up"}

LEMMA GotoStep ==
    ASSUME IInv, phase # "up", NEW p \in Phases, Goto(p)
    PROVE  /\ phase' = p /\ conf' = conf
           /\ image' = None
           /\ work' \in [Threads -> Work] /\ WorkInv'
PROOF
  <1>1. phase' = p /\ conf' = conf /\ work' = work /\ image' = image
    BY DEF Goto
  <1>2. image = None BY DEF IInv, CopyInv
  <1>3. WorkInv' BY <1>1 DEF IInv, WorkInv, JobOK
  <1>4. QED BY <1>1, <1>2, <1>3 DEF IInv, TypeOK

\* A step of start-up is checked by what it does to the files.
LEMMA StartStep ==
    ASSUME IInv, phase # "up", NEW p \in Phases, Goto(p),
           file' \in Content \cup {Bad, Absent}, Sound(file'),
           log' \in Content \cup {None}, Sound(log'),
           bak' = bak,
           source' \in {"", "backup", "conf", "clean"},
           left' \subseteq Keys,
           budget' \in [BudgetKinds -> Nat],
           last' \in Content, saved' = saved,
           short' \subseteq {"bak", "file", "read"},
           p \in {"insert", "seed", "up"} => file' \in Content,
           p \in {"restore", "copy"} => bak # Absent
    PROVE  IInv'
PROOF
  <1>1. /\ phase' = p /\ conf' = conf /\ image' = None
        /\ work' \in [Threads -> Work] /\ WorkInv'
    BY GotoStep
  <1>2. TypeOK' BY <1>1 DEF IInv, TypeOK, Phases
  <1>3. FilesInv' BY DEF IInv, FilesInv, Sound
  <1>4. CopyInv' BY <1>1 DEF CopyInv
  <1>5. QED BY <1>1, <1>2, <1>3, <1>4 DEF IInv

LEMMA CheckDBInv ==
    ASSUME IInv, CheckDB PROVE IInv'
PROOF
  <1> DEFINE p == IF file # Bad THEN "open"
                  ELSE IF bak # Absent THEN "restore" ELSE "conf"
  <1>1. /\ phase = "down" /\ Goto(p) /\ file' = Tables /\ log' = None
        /\ source' = "" /\ short' = short \ {"read"} /\ bak' = bak
        /\ left' = left /\ budget' = budget /\ last' = last /\ saved' = saved
    BY DEF CheckDB
  <1>2. p \in Phases /\ p \notin {"insert", "seed", "up"}
    BY DEF Phases
  <1>3. p \in {"restore", "copy"} => bak # Absent OBVIOUS
  <1>4. Tables \in Content \cup {Bad, Absent} /\ Sound(Tables)
    BY Marks DEF IInv, TypeOK, FilesInv, Tables
  <1>5. Sound(None) BY Marks DEF Sound
  <1> HIDE DEF p
  <1>6. QED BY <1>1, <1>2, <1>3, <1>4, <1>5, StartStep DEF IInv, TypeOK

LEMMA RestoreBeginInv ==
    ASSUME IInv, RestoreBegin PROVE IInv'
PROOF
  <1>1. /\ phase = "restore" /\ Goto("copy") /\ file' = Empty
        /\ short' = short \cup {"file"} /\ log' = log /\ bak' = bak
        /\ source' = source /\ left' = left /\ budget' = budget
        /\ last' = last /\ saved' = saved
    BY DEF RestoreBegin
  <1>2. "copy" \in Phases BY DEF Phases
  <1>3. bak # Absent BY <1>1 DEF IInv, CopyInv
  <1>4. Empty \in Content /\ Sound(Empty) BY EmptySound DEF Sound
  <1>5. QED
    BY <1>1, <1>2, <1>3, <1>4, StartStep DEF IInv, TypeOK, FilesInv

LEMMA RestoreCopyInv ==
    ASSUME IInv, RestoreCopy PROVE IInv'
PROOF
  <1>0. /\ phase = "copy" /\ log' = log /\ bak' = bak /\ source' = source
        /\ left' = left /\ saved' = saved
    BY DEF RestoreCopy
  <1>1. bak \in Content \cup {Bad} /\ Sound(bak)
    BY <1>0 DEF IInv, CopyInv, TypeOK, FilesInv
  <1>2. "verify" \in Phases /\ "conf" \in Phases BY DEF Phases
  <1>3. CASE /\ file' = bak
             /\ short' = IF "bak" \in short THEN short ELSE short \ {"file"}
             /\ last' = IF bak = Bad THEN last ELSE bak
             /\ Goto("verify")
             /\ UNCHANGED budget
    <2>1. last' \in Content BY <1>1, <1>3 DEF IInv, TypeOK
    <2>2. short' \subseteq {"bak", "file", "read"} BY <1>3 DEF IInv, TypeOK
    <2>3. QED
      BY <1>0, <1>1, <1>2, <1>3, <2>1, <2>2, StartStep
         DEF IInv, TypeOK, FilesInv
  <1>4. CASE /\ Spend("fault")
             /\ file' \in {Empty, Bad}
             /\ short' = short \cup {"read"}
             /\ Goto("conf")
             /\ UNCHANGED last
    <2>1. budget' \in [BudgetKinds -> Nat]
      BY <1>4, SpendType DEF IInv, BudgetKinds
    <2>2. file' \in Content \cup {Bad, Absent} /\ Sound(file')
      BY <1>4, EmptySound, Marks DEF Sound
    <2>3. QED
      BY <1>0, <1>2, <1>4, <2>1, <2>2, StartStep DEF IInv, TypeOK, FilesInv
  <1>5. QED BY <1>3, <1>4 DEF RestoreCopy

LEMMA VerifyInv ==
    ASSUME IInv, Verify PROVE IInv'
PROOF
  <1>0. /\ phase = "verify" /\ file' = file /\ log' = log /\ bak' = bak
        /\ left' = left /\ budget' = budget /\ last' = last
        /\ saved' = saved /\ short' = short
    BY DEF Verify, files, history
  <1>1. "open" \in Phases /\ "conf" \in Phases BY DEF Phases
  <1>2. CASE Goto("open") /\ source' = "backup"
    BY <1>0, <1>1, <1>2, StartStep DEF IInv, TypeOK, FilesInv
  <1>3. CASE Goto("conf") /\ UNCHANGED source
    BY <1>0, <1>1, <1>3, StartStep DEF IInv, TypeOK, FilesInv
  <1>4. QED BY <1>2, <1>3 DEF Verify

LEMMA ParseConfInv ==
    ASSUME IInv, ParseConf PROVE IInv'
PROOF
  <1>0. /\ phase = "conf" /\ bak' = bak /\ source' = source
        /\ last' = last /\ saved' = saved
    BY DEF ParseConf
  <1>1. "insert" \in Phases /\ "clean" \in Phases BY DEF Phases
  <1>2. CASE /\ file' = Empty /\ log' = None
             /\ left' = conf
             /\ short' = short \cup {"file"}
             /\ Goto("insert")
             /\ UNCHANGED budget
    <2>1. Empty \in Content /\ Sound(Empty) /\ Sound(None)
      BY EmptySound, Marks DEF Sound
    <2>2. QED BY <1>0, <1>1, <1>2, <2>1, StartStep DEF IInv, TypeOK
  <1>3. CASE /\ \/ conf = {} /\ UNCHANGED <<budget, short>>
                \/ /\ conf # {} /\ Spend("fault")
                   /\ short' = short \cup {"file"}
             /\ file' \in IF conf = {} THEN {file} ELSE {file, Absent}
             /\ Goto("clean")
             /\ UNCHANGED <<log, left>>
    <2>1. budget' \in [BudgetKinds -> Nat]
      BY <1>3, SpendType DEF IInv, BudgetKinds, TypeOK
    <2>2. short' \subseteq {"bak", "file", "read"} BY <1>3 DEF IInv, TypeOK
    <2>3. file' = file \/ file' = Absent BY <1>3
    <2>4. Sound(Absent) BY Marks DEF Sound
    <2>5. file' \in Content \cup {Bad, Absent} /\ Sound(file')
      BY <2>3, <2>4 DEF IInv, TypeOK, FilesInv
    <2>6. QED
      BY <1>0, <1>1, <1>3, <2>1, <2>2, <2>5, StartStep
         DEF IInv, TypeOK, FilesInv
  <1>4. QED BY <1>2, <1>3 DEF ParseConf

LEMMA InsertRecoveredInv ==
    ASSUME IInv, InsertRecovered PROVE IInv'
PROOF
  <1>1. /\ phase = "insert" /\ phase' = phase /\ log' = log /\ bak' = bak
        /\ conf' = conf /\ source' = source /\ work' = work
        /\ image' = image /\ last' = last /\ saved' = saved /\ short' = short
    BY DEF InsertRecovered, history
  <1>2. PICK k \in left :
          /\ \/ file' = PutPeer(file, k, RecoveredPeer) /\ UNCHANGED budget
             \/ Spend("fault") /\ UNCHANGED file
          /\ left' = left \ {k}
    BY DEF InsertRecovered
  <1>3. k \in Keys /\ left' \subseteq Keys BY <1>2 DEF IInv, TypeOK
  <1>4. file \in Content /\ NoDangle(file)
    BY <1>1 DEF IInv, TypeOK, FilesInv, Sound
  <1>5. RecoveredPeer \in Peer /\ RecoveredPeer.profile = None
    BY DEF RecoveredPeer, Peer
  <1>6. ~ ProfileMissing(file, RecoveredPeer.profile)
    BY <1>5 DEF ProfileMissing
  <1>7. /\ PutPeer(file, k, RecoveredPeer) \in Content
        /\ NoDangle(PutPeer(file, k, RecoveredPeer))
    BY <1>3, <1>4, <1>5, <1>6, PutPeerSound
  <1>8. file' \in Content /\ NoDangle(file') BY <1>2, <1>4, <1>7
  <1>9. budget' \in [BudgetKinds -> Nat]
    BY <1>2, SpendType DEF IInv, BudgetKinds, TypeOK
  <1>10. TypeOK' BY <1>1, <1>3, <1>8, <1>9 DEF IInv, TypeOK
  <1>11. FilesInv' BY <1>1, <1>8 DEF IInv, FilesInv, Sound
  <1>12. CopyInv' BY <1>1 DEF IInv, CopyInv
  <1>13. WorkInv' BY <1>1 DEF IInv, WorkInv, JobOK
  <1>14. QED BY <1>10, <1>11, <1>12, <1>13 DEF IInv

LEMMA InsertsDoneInv ==
    ASSUME IInv, InsertsDone PROVE IInv'
PROOF
  <1>0. /\ phase = "insert" /\ file' = file /\ log' = log /\ bak' = bak
        /\ left' = left /\ budget' = budget /\ last' = file
        /\ saved' = saved /\ short' \subseteq {"bak", "file", "read"}
    BY DEF InsertsDone, files, IInv, TypeOK
  <1>1. "open" \in Phases /\ "clean" \in Phases BY DEF Phases
  <1>2. file \in Content BY <1>0 DEF IInv, TypeOK
  <1>3. CASE Goto("open") /\ source' = "conf"
    BY <1>0, <1>1, <1>2, <1>3, StartStep DEF IInv, TypeOK, FilesInv
  <1>4. CASE Goto("clean") /\ UNCHANGED source
    BY <1>0, <1>1, <1>2, <1>4, StartStep DEF IInv, TypeOK, FilesInv
  <1>5. QED BY <1>3, <1>4 DEF InsertsDone

LEMMA CleanStartInv ==
    ASSUME IInv, CleanStart PROVE IInv'
PROOF
  <1>1. /\ phase = "clean" /\ Goto("open") /\ source' = "clean"
        /\ file' = Absent /\ log' = None /\ last' = Empty /\ bak' = bak
        /\ left' = left /\ budget' = budget /\ saved' = saved
        /\ short' = short
    BY DEF CleanStart
  <1>2. "open" \in Phases BY DEF Phases
  <1>3. Sound(Absent) /\ Sound(None) BY Marks DEF Sound
  <1>4. QED BY <1>1, <1>2, <1>3, EmptySound, StartStep DEF IInv, TypeOK

LEMMA OpenDBInv ==
    ASSUME IInv, OpenDB PROVE IInv'
PROOF
  <1> DEFINE p == IF file = Bad THEN "down" ELSE "seed"
  <1>1. /\ phase = "open" /\ Goto(p)
        /\ file' = IF file = Absent THEN Empty ELSE file
        /\ log' = log /\ bak' = bak /\ source' = source /\ left' = left
        /\ budget' = budget /\ last' = last /\ saved' = saved
        /\ short' = short
    BY DEF OpenDB, history
  <1>2. p \in Phases /\ p \notin {"restore", "copy"} BY DEF Phases
  <1>3. file' \in Content \cup {Bad, Absent} /\ Sound(file')
    BY <1>1, EmptySound DEF IInv, TypeOK, FilesInv, Sound
  <1>4. p \in {"insert", "seed", "up"} => file' \in Content
    BY <1>1, EmptySound DEF IInv, TypeOK
  <1> HIDE DEF p
  <1>5. QED
    BY <1>1, <1>2, <1>3, <1>4, StartStep DEF IInv, TypeOK, FilesInv

LEMMA SeedProfilesInv ==
    ASSUME IInv, SeedProfiles PROVE IInv'
PROOF
  <1>0. /\ phase = "seed" /\ file' = file /\ bak' = bak /\ source' = source
        /\ left' = left /\ saved' = saved
    BY DEF SeedProfiles
  <1>1. "up" \in Phases /\ "down" \in Phases BY DEF Phases
  <1>2. file \in Content /\ NoDangle(file)
    BY <1>0 DEF IInv, TypeOK, FilesInv, Sound
  <1>3. Seeded(file) \in Content /\ Sound(Seeded(file))
    BY <1>2, SeededSound DEF Sound
  <1>4. CASE /\ Goto("up")
             /\ log' = IF Seeded(file) = file THEN None ELSE Seeded(file)
             /\ last' = Seeded(file)
             /\ short' = short \ {"file"}
             /\ UNCHANGED budget
    <2>1. log' \in Content \cup {None} /\ Sound(log')
      BY <1>3, <1>4, Marks DEF Sound
    <2>2. QED
      BY <1>0, <1>1, <1>2, <1>3, <1>4, <2>1, StartStep
         DEF IInv, TypeOK, FilesInv
  <1>5. CASE Spend("fault") /\ Goto("down") /\ UNCHANGED <<log, last, short>>
    <2>1. budget' \in [BudgetKinds -> Nat]
      BY <1>5, SpendType DEF IInv, BudgetKinds
    <2>2. QED
      BY <1>0, <1>1, <1>2, <1>5, <2>1, StartStep DEF IInv, TypeOK, FilesInv
  <1>6. QED BY <1>4, <1>5 DEF SeedProfiles

-----------------------------------------------------------------------------
(* The environment. *)

LEMMA CrashInv ==
    ASSUME IInv, Crash PROVE IInv'
PROOF
  <1>1. /\ phase' = "down" /\ work' = [t \in Threads |-> Idle]
        /\ image' = None /\ log' = log /\ conf' = conf /\ source' = source
        /\ left' = left /\ last' = last /\ short' = short
        /\ bak' \in {bak, Empty, Bad} /\ file' \in {file, Empty, Bad}
        /\ saved' \in {saved, None}
    BY DEF Crash
  <1>2. budget' \in [BudgetKinds -> Nat]
    BY SpendType DEF Crash, IInv, BudgetKinds
  <1>3. work' \in [Threads -> Work] BY <1>1, IdleWork
  <1>4. TypeOK' BY <1>1, <1>2, <1>3, EmptySound DEF IInv, TypeOK
  <1>5. FilesInv' BY <1>1, EmptySound, Marks DEF IInv, FilesInv, Sound
  <1>6. CopyInv' BY <1>1 DEF CopyInv
  <1>7. WorkInv' BY <1>1, IdleWork DEF WorkInv, JobOK
  <1>8. QED BY <1>4, <1>5, <1>6, <1>7 DEF IInv

LEMMA DamageInv ==
    ASSUME IInv, Damage PROVE IInv'
PROOF
  <1>1. /\ phase = "down" /\ phase' = phase /\ file' = Bad /\ log' = None
        /\ work' = work /\ image' = image /\ conf' = conf
        /\ source' = source /\ left' = left /\ last' = last
        /\ short' = short /\ bak' \in {bak, Bad} /\ saved' \in {saved, None}
    BY DEF Damage, Start
  <1>2. budget' \in [BudgetKinds -> Nat]
    BY SpendType DEF Damage, IInv, BudgetKinds
  <1>3. TypeOK' BY <1>1, <1>2 DEF IInv, TypeOK
  <1>4. FilesInv' BY <1>1, Marks DEF IInv, FilesInv, Sound
  <1>5. CopyInv' BY <1>1 DEF IInv, CopyInv
  <1>6. WorkInv' BY <1>1 DEF IInv, WorkInv, JobOK
  <1>7. QED BY <1>3, <1>4, <1>5, <1>6 DEF IInv

-----------------------------------------------------------------------------
(* Together. *)

LEMMA InitInv ==
    ASSUME Init PROVE IInv
PROOF
  <1>1. work \in [Threads -> Work] BY IdleWork DEF Init
  <1>2. TypeOK BY <1>1, EmptySound, StorageAssumption DEF Init, TypeOK
  <1>3. FilesInv BY Marks DEF Init, FilesInv, Sound
  <1>4. CopyInv BY DEF Init, CopyInv
  <1>5. WorkInv BY IdleWork DEF Init, WorkInv, JobOK
  <1>6. QED BY <1>2, <1>3, <1>4, <1>5 DEF IInv

LEMMA NextInv ==
    ASSUME TornCopy = FALSE, IInv, [Next]_vars PROVE IInv'
PROOF
  <1>1. ASSUME NEW t \in Threads, Handler(t) PROVE IInv'
    BY <1>1, UseProfileInv, InsertPeerInv, AssignProfileInv, ChangePeerInv,
       CreateProfileInv, DeleteProfileInv, ReadProfileInv, WriteProfileInv
       DEF Handler
  <1>2. CASE WriteConf BY <1>2, WriteConfInv
  <1>3. CASE AutoCheckpoint BY <1>3, AutoCheckpointInv
  <1>4. CASE BackupBegin BY <1>4, BackupBeginInv
  <1>5. CASE BackupEnd BY <1>5, BackupEndInv
  <1>6. CASE BackupFails BY <1>6, BackupFailsInv
  <1>7. CASE StartUp
    BY <1>7, CheckDBInv, RestoreBeginInv, RestoreCopyInv, VerifyInv,
       ParseConfInv, InsertRecoveredInv, InsertsDoneInv, CleanStartInv,
       OpenDBInv, SeedProfilesInv
       DEF StartUp
  <1>8. CASE Crash BY <1>8, CrashInv
  <1>9. CASE Damage BY <1>9, DamageInv
  <1>10. CASE UNCHANGED vars
    <2>1. /\ file' = file /\ log' = log /\ bak' = bak /\ conf' = conf
          /\ phase' = phase /\ source' = source /\ left' = left
          /\ work' = work /\ image' = image /\ budget' = budget
          /\ last' = last /\ saved' = saved /\ short' = short
      BY <1>10 DEF vars, files, history
    <2>2. TypeOK' BY <2>1 DEF IInv, TypeOK
    <2>3. FilesInv' BY <2>1 DEF IInv, FilesInv, Sound
    <2>4. CopyInv' BY <2>1 DEF IInv, CopyInv
    <2>5. WorkInv' BY <2>1 DEF IInv, WorkInv, JobOK
    <2>6. QED BY <2>2, <2>3, <2>4, <2>5 DEF IInv
  <1>11. QED
    BY <1>1, <1>2, <1>3, <1>4, <1>5, <1>6, <1>7, <1>8, <1>9, <1>10 DEF Next

\* Once NewDB has opened the database its tables can be queried, and a goroutine
\* holds a profile only as long as the agent serves: through any sequence of
\* failed backups, damaged files, crashes and recoveries.
THEOREM StorageTypes ==
    ASSUME TornCopy = FALSE PROVE Spec => []TypeOK
PROOF
  <1>1. Init => IInv BY InitInv
  <1>2. IInv /\ [Next]_vars => IInv' BY NextInv
  <1>3. IInv => TypeOK BY DEF IInv
  <1>4. QED BY <1>1, <1>2, <1>3, PTL DEF Spec

\* No peer of a serving agent has a profile that is not there: the triggers of
\* db.go hold it against requests that interleave, and every database that
\* RecoverDB makes from a backup or from the conf has it, as long as no
\* checkpoint falls into the copy of a backup.
THEOREM ProfilesThere ==
    ASSUME TornCopy = FALSE PROVE Spec => []NoDangling
PROOF
  <1>1. Init => IInv BY InitInv
  <1>2. IInv /\ [Next]_vars => IInv' BY NextInv
  <1>3. IInv => NoDangling BY TablesSound DEF NoDangling
  <1>4. QED BY <1>1, <1>2, <1>3, PTL DEF Spec
-----------------------------------------------------------------------------
(* A profile comes back only by CreateProfile.                              *)

NoneBack(c, d) == \A n \in Names : c.profiles[n] = None => d.profiles[n] = None

LEMMA PutPeerProfiles ==
    ASSUME NEW c \in Content, NEW k \in Keys, NEW p
    PROVE  PutPeer(c, k, p).profiles = c.profiles
PROOF BY DEF Content, PutPeer

LEMMA PutProfileProfiles ==
    ASSUME NEW c \in Content, NEW n \in Names, NEW p, NEW m \in Names
    PROVE  PutProfile(c, n, p).profiles[m] = IF m = n THEN p ELSE c.profiles[m]
PROOF
  <1>1. c.profiles \in [Names -> Profile \cup {None}] BY DEF Content
  <1>2. PutProfile(c, n, p).profiles = [c.profiles EXCEPT ![n] = p]
    BY DEF Content, PutProfile
  <1>3. QED BY <1>1, <1>2

LEMMA CommitTables ==
    ASSUME NEW c \in Content, Commit(c) PROVE Tables' = c
PROOF BY Marks DEF Commit, Tables

LEMMA SameTables ==
    ASSUME UNCHANGED files PROVE Tables' = Tables
PROOF BY DEF files, Tables

\* A request brings no profile back, except by CreateProfile.
LEMMA HandlerKeepsProfiles ==
    ASSUME IInv, NEW t \in Threads, Handler(t), ~ CreateProfile(t)
    PROVE  NoneBack(Tables, Tables')
PROOF
  <1> DEFINE w == work[t]
  <1>0. ASSUME Tables' = Tables PROVE NoneBack(Tables, Tables')
    BY <1>0 DEF NoneBack
  <1>1. CASE UseProfile(t)
    BY <1>0, <1>1, SameTables DEF UseProfile, Begin
  <1>2. CASE ReadProfile(t)
    BY <1>0, <1>2, SameTables DEF ReadProfile, Begin
  <1>3. ASSUME phase = "up", NEW k \in Keys, NEW p \in Peer \cup {None},
               Commit(PutPeer(Tables, k, p))
        PROVE  NoneBack(Tables, Tables')
    <2>1. Tables \in Content BY <1>3, TablesSound
    <2>2. PutPeer(Tables, k, p) \in Content BY <2>1, <1>3 DEF PutPeer, Content
    <2>3. Tables' = PutPeer(Tables, k, p) BY <1>3, <2>2, CommitTables
    <2>4. Tables'.profiles = Tables.profiles
      BY <1>3, <2>1, <2>3, PutPeerProfiles
    <2>5. QED BY <2>4 DEF NoneBack
  <1>4. CASE InsertPeer(t)
    <2>1. phase = "up" /\ w.key \in Keys /\ w.name \in Names
      BY <1>4 DEF InsertPeer, IInv, WorkInv, JobOK
    <2>2. PICK rs \in SUBSET Cidrs :
            \/ UNCHANGED <<files, history>>
            \/ Commit(PutPeer(Tables, w.key, [profile |-> w.name,
                                  routes |-> rs, enabled |-> TRUE]))
      BY <1>4 DEF InsertPeer
    <2>3. [profile |-> w.name, routes |-> rs, enabled |-> TRUE] \in Peer
      BY <2>1 DEF Peer
    <2>4. QED BY <1>0, <1>3, <2>1, <2>2, <2>3, SameTables
  <1>5. CASE AssignProfile(t)
    <2> DEFINE p == [Tables.peers[w.key] EXCEPT
                       !.profile = w.name, !.routes = Resolved(w.read)]
    <2>1. /\ phase = "up" /\ w.key \in Keys /\ w.name \in Names
          /\ w.read \in Profile
      BY <1>5 DEF AssignProfile, IInv, WorkInv, JobOK
    <2>2. CASE UNCHANGED <<files, history>> BY <1>0, <2>2, SameTables
    <2>3. CASE Tables.peers[w.key] # None /\ Commit(PutPeer(Tables, w.key, p))
      <3>1. Tables.peers[w.key] \in Peer
        BY <2>1, <2>3, TablesSound DEF Content
      <3>2. Resolved(w.read) \in SUBSET Cidrs BY <2>1 DEF Resolved, Profile
      <3>3. p \in Peer BY <2>1, <3>1, <3>2 DEF Peer
      <3>4. QED BY <1>3, <2>1, <2>3, <3>3
    <2>4. QED BY <1>5, <2>2, <2>3 DEF AssignProfile
  <1>6. CASE ChangePeer(t)
    <2>1. phase = "up" BY <1>6 DEF ChangePeer, Serving
    <2>2. PICK k \in Keys, rs \in SUBSET Cidrs :
           /\ Tables.peers[k] # None
           /\ \E p \in {None,
                        [Tables.peers[k] EXCEPT !.profile = None, !.routes = rs],
                        [Tables.peers[k] EXCEPT !.enabled = FALSE]} :
                OneStatement(PutPeer(Tables, k, p))
      BY <1>6 DEF ChangePeer
    <2> DEFINE q == Tables.peers[k]
    <2>3. PICK p \in {None, [q EXCEPT !.profile = None, !.routes = rs],
                      [q EXCEPT !.enabled = FALSE]} :
                OneStatement(PutPeer(Tables, k, p))
      BY <2>2
    <2>4. q \in Peer BY <2>1, <2>2, TablesSound DEF Content
    <2> HIDE DEF q
    <2>5. p \in Peer \cup {None} BY <2>3, <2>4 DEF Peer
    <2>6. QED BY <1>3, <2>1, <2>3, <2>5 DEF OneStatement
  <1>7. CASE DeleteProfile(t)
    <2>1. phase = "up" BY <1>7 DEF DeleteProfile, Serving
    <2>2. PICK n \in Names : Commit(PutProfile(Tables, n, None))
      BY <1>7 DEF DeleteProfile, OneStatement
    <2>3. Tables \in Content BY <2>1, TablesSound
    <2>4. PutProfile(Tables, n, None) \in Content
      BY <2>3 DEF PutProfile, Content
    <2>5. Tables' = PutProfile(Tables, n, None) BY <2>2, <2>4, CommitTables
    <2>6. ASSUME NEW m \in Names, Tables.profiles[m] = None
          PROVE  Tables'.profiles[m] = None
      BY <2>3, <2>5, <2>6, PutProfileProfiles
    <2>7. QED BY <2>6 DEF NoneBack
  <1>8. CASE WriteProfile(t)
    <2> DEFINE n == work[t].name
    <2>1. /\ phase = "up" /\ n \in Names /\ w.read \in Profile
          /\ w.req \in ProfileReqs
      BY <1>8 DEF WriteProfile, IInv, WorkInv, JobOK
    <2>2. PICK p \in Merged(w.read, w.req) :
             IF Tables.profiles[n] = None
               THEN UNCHANGED <<files, history>>
               ELSE Commit(PutProfile(Tables, n,
                      [p EXCEPT !.default = Tables.profiles[n].default]))
      BY <1>8 DEF WriteProfile
    <2>3. CASE Tables.profiles[n] = None BY <1>0, <2>2, <2>3, SameTables
    <2>4. CASE Tables.profiles[n] # None
      <3> DEFINE q == [p EXCEPT !.default = Tables.profiles[n].default]
      <3>1. p \in Profile BY <2>1, <2>2, MergedType
      <3>2. Tables \in Content BY <2>1, TablesSound
      <3>3. Tables.profiles[n] \in Profile BY <2>1, <2>4, <3>2 DEF Content
      <3>4. q \in Profile BY <3>1, <3>3 DEF Profile
      <3>5. Commit(PutProfile(Tables, n, q)) BY <2>2, <2>4
      <3> HIDE DEF q
      <3>6. PutProfile(Tables, n, q) \in Content
        BY <2>1, <3>2, <3>4 DEF PutProfile, Content
      <3>7. Tables' = PutProfile(Tables, n, q) BY <3>5, <3>6, CommitTables
      <3>8. ASSUME NEW m \in Names, Tables.profiles[m] = None
            PROVE  Tables'.profiles[m] = None
        BY <2>1, <2>4, <3>2, <3>7, <3>8, PutProfileProfiles
      <3>9. QED BY <3>8 DEF NoneBack
    <2>5. QED BY <2>3, <2>4
  <1>9. QED
    BY <1>1, <1>2, <1>4, <1>5, <1>6, <1>7, <1>8 DEF Handler

\* While the agent serves, only a request changes what a query sees.
LEMMA ServingTables ==
    ASSUME IInv, Next, phase = "up", phase' = "up",
           ~ \E t \in Threads : Handler(t)
    PROVE  Tables' = Tables
PROOF
  <1>1. CASE WriteConf BY <1>1, SameTables DEF WriteConf
  <1>2. CASE AutoCheckpoint
    <2>1. log # None /\ file' = log /\ log' = None BY <1>2 DEF AutoCheckpoint
    <2>2. QED BY <2>1 DEF Tables
  <1>3. CASE BackupBegin
    BY <1>3 DEF BackupBegin, Tables
  <1>4. CASE BackupEnd \/ BackupFails
    BY <1>4 DEF BackupEnd, BackupFails, Tables
  <1>5. ~ StartUp
    BY DEF StartUp, CheckDB, RestoreBegin, RestoreCopy, Verify, ParseConf,
       InsertRecovered, InsertsDone, CleanStart, OpenDB, SeedProfiles
  <1>6. ~ Crash /\ ~ Damage BY DEF Crash, Damage
  <1>7. QED BY <1>1, <1>2, <1>3, <1>4, <1>5, <1>6 DEF Next

\* A request that read a profile before another one deleted it never brings it
\* back: of the steps of a serving agent only CreateProfile of
\* handlers_profiles.go makes a name known again.
THEOREM DeletedProfilesStay ==
    ASSUME TornCopy = FALSE PROVE Spec => DeletedStays
PROOF
  <1>1. Init => IInv BY InitInv
  <1>2. IInv /\ [Next]_vars => IInv' BY NextInv
  <1>3. ASSUME IInv, [Next]_vars
        PROVE  [phase = "up" /\ phase' = "up" =>
                  \A n \in Names : ~ Known(n) /\ Known(n)' =>
                     \E t \in Threads : CreateProfile(t)]_vars
    <2>1. CASE UNCHANGED vars BY <2>1
    <2>2. CASE Next
      <3> SUFFICES ASSUME phase = "up", phase' = "up", NEW n \in Names,
                          ~ Known(n), Known(n)',
                          ~ \E t \in Threads : CreateProfile(t)
                   PROVE  FALSE
        OBVIOUS
      <3>1. CASE \E t \in Threads : Handler(t)
        <4>1. PICK t \in Threads : Handler(t) BY <3>1
        <4>2. NoneBack(Tables, Tables')
          BY <1>3, <4>1, HandlerKeepsProfiles
        <4>3. QED BY <4>2 DEF NoneBack, Known
      <3>2. CASE ~ \E t \in Threads : Handler(t)
        BY <1>3, <2>2, <3>2, ServingTables DEF Known
      <3>3. QED BY <3>1, <3>2
    <2>3. QED BY <1>3, <2>1, <2>2
  <1>4. QED BY <1>1, <1>2, <1>3, PTL DEF Spec, DeletedStays

-----------------------------------------------------------------------------
(* RecoverDB takes the best source there is.                                *)

\* NewDB takes a file that is not there for an empty database.
Opened(f) == IF f = Absent THEN Empty ELSE f

\* A log belongs to a database that was opened.
LogInv == log # None => phase \in {"up", "down"} /\ file \in Content

\* The database is the one last committed, unless it is damaged or is part of
\* a copy or of an import; a serving agent has the tables last committed.
DiskInv ==
    /\ \/ file = Bad \/ "file" \in short
       \/ (IF log # None THEN log ELSE Opened(file)) = last
    /\ phase = "up" => Tables = last
    /\ phase \in {"copy", "insert"} => "file" \in short
    /\ phase = "open" => file # Bad

\* The backup is the one that saved remembers, or there is no whole one.
BackupInv ==
    /\ image # None => saved = image /\ "bak" \in short
    /\ image = None /\ "bak" \in short => saved = None
    /\ "bak" \notin short =>
         bak = saved \/ (saved = None /\ bak \in {Absent, Bad})

\* A level of RecoverDB is reached when the ones before it have nothing.
LevelInv ==
    /\ phase = "verify" => /\ file = bak /\ file # Absent
                           /\ "bak" \in short => "file" \in short
    /\ phase \in {"conf", "insert", "clean"} /\ "read" \notin short => saved = None
    /\ phase = "clean" => "file" \in short \/ conf = {}
    /\ phase \in {"open", "seed"} /\ short \subseteq {"bak"} =>
         /\ source = "backup" => file = saved
         /\ source = "conf"   => saved = None /\ file = FromConf(conf)
         /\ source = "clean"  => saved = None /\ conf = {} /\ Opened(file) = Empty

SourceInv == LogInv /\ DiskInv /\ BackupInv /\ LevelInv

\* A step of a serving agent is checked by what queries see, and the backup.
LEMMA ServingSource ==
    ASSUME IInv', phase' = "up", Tables' = last', BackupInv'
    PROVE  SourceInv'
PROOF
  <1>1. file' \in Content /\ file' # Absent
    BY Marks DEF IInv, TypeOK
  <1>2. LogInv' BY <1>1 DEF LogInv
  <1>3. DiskInv' BY <1>1 DEF DiskInv, Tables, Opened
  <1>4. LevelInv' BY DEF LevelInv
  <1>5. QED BY <1>2, <1>3, <1>4 DEF SourceInv

\* A request is one statement, or none.
LEMMA HandlerStatement ==
    ASSUME IInv, NEW t \in Threads, Handler(t)
    PROVE  /\ phase = "up" /\ phase' = "up" /\ UNCHANGED image
           /\ UNCHANGED <<files, history>> \/ \E c : Commit(c)
PROOF
  <1>1. CASE UseProfile(t)
    BY <1>1 DEF UseProfile, Serving, Begin, Start
  <1>2. CASE ReadProfile(t)
    BY <1>2 DEF ReadProfile, Serving, Begin, Start
  <1>3. CASE InsertPeer(t)
    <2>1. phase = "up" /\ phase' = "up" /\ image' = image
      BY <1>3 DEF InsertPeer, IInv, WorkInv, End, Start
    <2>2. QED BY <1>3, <2>1 DEF InsertPeer
  <1>4. CASE AssignProfile(t)
    <2>1. phase = "up" /\ phase' = "up" /\ image' = image
      BY <1>4 DEF AssignProfile, IInv, WorkInv, End, Start
    <2>2. QED BY <1>4, <2>1 DEF AssignProfile
  <1>5. CASE ChangePeer(t)
    BY <1>5 DEF ChangePeer, Serving, OneStatement, Start
  <1>6. CASE CreateProfile(t)
    BY <1>6 DEF CreateProfile, Serving, OneStatement, Start
  <1>7. CASE DeleteProfile(t)
    BY <1>7 DEF DeleteProfile, Serving, OneStatement, Start
  <1>8. CASE WriteProfile(t)
    <2>1. phase = "up" /\ phase' = "up" /\ image' = image
      BY <1>8 DEF WriteProfile, IInv, WorkInv, End, Start
    <2>2. QED BY <1>8, <2>1 DEF WriteProfile
  <1>9. QED
    BY <1>1, <1>2, <1>3, <1>4, <1>5, <1>6, <1>7, <1>8 DEF Handler

LEMMA HandlerSource ==
    ASSUME IInv, IInv', SourceInv, NEW t \in Threads, Handler(t)
    PROVE  SourceInv'
PROOF
  <1>1. /\ phase = "up" /\ phase' = "up" /\ image' = image
        /\ UNCHANGED <<files, history>> \/ \E c : Commit(c)
    BY HandlerStatement
  <1>2. bak' = bak /\ saved' = saved /\ short' = short
    BY <1>1 DEF files, history, Commit
  <1>3. BackupInv' BY <1>1, <1>2 DEF SourceInv, BackupInv
  <1>4. CASE UNCHANGED <<files, history>>
    <2>1. file' = file /\ log' = log /\ last' = last
      BY <1>4 DEF files, history
    <2>2. Tables' = last' BY <1>1, <2>1 DEF Tables, SourceInv, DiskInv
    <2>3. QED BY <1>1, <1>3, <2>2, ServingSource
  <1>5. CASE \E c : Commit(c)
    <2>1. log' = last' BY <1>5 DEF Commit
    <2>2. log' # None BY <2>1, Marks DEF IInv, TypeOK
    <2>3. Tables' = last' BY <2>1, <2>2 DEF Tables
    <2>4. QED BY <1>1, <1>3, <2>3, ServingSource
  <1>6. QED BY <1>1, <1>4, <1>5

LEMMA WriteConfSource ==
    ASSUME IInv', SourceInv, WriteConf PROVE SourceInv'
PROOF
  <1>1. /\ phase = "up" /\ phase' = "up" /\ image' = image /\ file' = file
        /\ log' = log /\ bak' = bak /\ last' = last /\ saved' = saved
        /\ short' = short
    BY DEF WriteConf, Start, files, history
  <1>2. BackupInv' BY <1>1 DEF SourceInv, BackupInv
  <1>3. Tables' = last' BY <1>1 DEF Tables, SourceInv, DiskInv
  <1>4. QED BY <1>1, <1>2, <1>3, ServingSource

LEMMA AutoCheckpointSource ==
    ASSUME IInv', SourceInv, AutoCheckpoint PROVE SourceInv'
PROOF
  <1>1. /\ phase = "up" /\ phase' = "up" /\ image' = image /\ log # None
        /\ file' = log /\ log' = None /\ bak' = bak /\ last' = last
        /\ saved' = saved /\ short' = short
    BY DEF AutoCheckpoint, Start, history
  <1>2. BackupInv' BY <1>1 DEF SourceInv, BackupInv
  <1>3. Tables' = last' BY <1>1 DEF Tables, SourceInv, DiskInv
  <1>4. QED BY <1>1, <1>2, <1>3, ServingSource

\* What is saved is what was last committed.
LEMMA BackupBeginSource ==
    ASSUME IInv, IInv', SourceInv, BackupBegin PROVE SourceInv'
PROOF
  <1>1. /\ phase = "up" /\ phase' = "up" /\ file' = Tables /\ log' = None
        /\ image' = Tables /\ saved' = last /\ short' = short \cup {"bak"}
        /\ last' = last
    BY DEF BackupBegin, Start
  <1>2. Tables = last BY <1>1 DEF SourceInv, DiskInv
  <1>3. image' # None BY <1>1, TablesSound, Marks
  <1>4. BackupInv' BY <1>1, <1>2, <1>3 DEF BackupInv
  <1>5. Tables' = last' BY <1>1, <1>2 DEF Tables
  <1>6. QED BY <1>1, <1>4, <1>5, ServingSource

LEMMA BackupEndSource ==
    ASSUME IInv, IInv', SourceInv, BackupEnd PROVE SourceInv'
PROOF
  <1>1. /\ phase = "up" /\ phase' = "up" /\ image # None /\ bak' \in Copies
        /\ short' = short \ {"bak"} /\ image' = None /\ file' = file
        /\ log' = log /\ last' = last /\ saved' = saved
    BY DEF BackupEnd, Start
  <1>2. image = file /\ file \in Content /\ saved = image
    BY <1>1 DEF IInv, CopyInv, TypeOK, SourceInv, BackupInv
  <1>3. bak' = [peers |-> file.peers, profiles |-> file.profiles]
    BY <1>1, <1>2 DEF Copies
  <1>4. bak' = file BY <1>2, <1>3 DEF Content
  <1>5. BackupInv' BY <1>1, <1>2, <1>4 DEF BackupInv
  <1>6. Tables' = last' BY <1>1 DEF Tables, SourceInv, DiskInv
  <1>7. QED BY <1>1, <1>5, <1>6, ServingSource

LEMMA BackupFailsSource ==
    ASSUME IInv', SourceInv, BackupFails PROVE SourceInv'
PROOF
  <1>1. /\ phase = "up" /\ phase' = "up" /\ image # None /\ image' = None
        /\ saved' = None /\ short' = short /\ file' = file /\ log' = log
        /\ last' = last
    BY DEF BackupFails, Start
  <1>2. "bak" \in short BY <1>1 DEF SourceInv, BackupInv
  <1>3. BackupInv' BY <1>1, <1>2 DEF BackupInv
  <1>4. Tables' = last' BY <1>1 DEF Tables, SourceInv, DiskInv
  <1>5. QED BY <1>1, <1>3, <1>4, ServingSource

\* Start-up leaves the backup alone.
LEMMA StartUpBackup ==
    ASSUME SourceInv, bak' = bak, saved' = saved, image' = image,
           ("bak" \in short') = ("bak" \in short)
    PROVE  BackupInv'
PROOF BY DEF SourceInv, BackupInv

LEMMA StartUpImage ==
    ASSUME IInv, phase # "up", NEW p, Goto(p)
    PROVE  phase' = p /\ conf' = conf /\ image = None /\ image' = image
PROOF BY DEF IInv, CopyInv, Goto

\* Without a log the database is its file.
LEMMA StartUpLog ==
    ASSUME SourceInv, phase \notin {"up", "down"} PROVE log = None
PROOF BY DEF SourceInv, LogInv

LEMMA CheckDBSource ==
    ASSUME IInv, SourceInv, CheckDB PROVE SourceInv'
PROOF
  <1> DEFINE p == IF file # Bad THEN "open"
                  ELSE IF bak # Absent THEN "restore" ELSE "conf"
  <1>1. /\ phase = "down" /\ Goto(p) /\ file' = Tables /\ log' = None
        /\ source' = "" /\ short' = short \ {"read"} /\ bak' = bak
        /\ last' = last /\ saved' = saved
    BY DEF CheckDB
  <1>2. phase' = p /\ image = None /\ image' = image
    BY <1>1 DEF Goto, IInv, CopyInv
  <1>3. p \notin {"up", "copy", "insert", "verify", "clean", "seed"} OBVIOUS
  <1>4. BackupInv'
    <2>1. short' = short \ {"read"} BY <1>1
    <2>2. ("bak" \in short') = ("bak" \in short) BY <2>1
    <2>3. QED BY <1>1, <1>2, <2>2, StartUpBackup
  <1>5. file = Bad => log = None /\ file' = Bad
    BY <1>1, Marks DEF SourceInv, LogInv, Tables
  <1>6. file # Bad => file' # Bad BY <1>1, Marks DEF IInv, TypeOK, Tables
  <1>7. file' # Bad /\ "file" \notin short' => Opened(file') = last'
    BY <1>1, <1>5, Marks DEF SourceInv, DiskInv, Tables, Opened, IInv, TypeOK
  <1>8. p = "conf" => saved = None
    BY <1>2, Marks DEF SourceInv, BackupInv, IInv, TypeOK
  <1>9. LogInv' BY <1>1 DEF LogInv
  <1>10. DiskInv' BY <1>1, <1>2, <1>3, <1>6, <1>7 DEF DiskInv
  <1>11. LevelInv' BY <1>1, <1>2, <1>3, <1>8 DEF LevelInv
  <1>12. QED BY <1>4, <1>9, <1>10, <1>11 DEF SourceInv

LEMMA RestoreBeginSource ==
    ASSUME IInv, SourceInv, RestoreBegin PROVE SourceInv'
PROOF
  <1>1. /\ phase = "restore" /\ Goto("copy") /\ file' = Empty
        /\ short' = short \cup {"file"} /\ log' = log /\ bak' = bak
        /\ source' = source /\ last' = last /\ saved' = saved
    BY DEF RestoreBegin
  <1>2. phase' = "copy" /\ image' = image BY <1>1, StartUpImage
  <1>3. BackupInv' BY <1>1, <1>2, StartUpBackup
  <1>4. log' = None BY <1>1, StartUpLog
  <1>5. LogInv' BY <1>4 DEF LogInv
  <1>6. DiskInv' BY <1>1, <1>2 DEF DiskInv
  <1>7. LevelInv' BY <1>2 DEF LevelInv
  <1>8. QED BY <1>3, <1>5, <1>6, <1>7 DEF SourceInv

LEMMA RestoreCopySource ==
    ASSUME IInv, SourceInv, RestoreCopy PROVE SourceInv'
PROOF
  <1>1. /\ phase = "copy" /\ log' = log /\ bak' = bak /\ saved' = saved
    BY DEF RestoreCopy
  <1>2. log' = None /\ "file" \in short
    BY <1>1, StartUpLog DEF SourceInv, DiskInv
  <1>3. bak # Absent BY <1>1 DEF IInv, CopyInv
  <1>4. LogInv' BY <1>2 DEF LogInv
  <1>5. CASE /\ file' = bak
             /\ short' = IF "bak" \in short THEN short ELSE short \ {"file"}
             /\ last' = IF bak = Bad THEN last ELSE bak
             /\ Goto("verify")
    <2>1. phase' = "verify" /\ image' = image BY <1>1, <1>5, StartUpImage
    <2>2. BackupInv' BY <1>1, <1>5, <2>1, StartUpBackup
    <2>3. DiskInv' BY <1>2, <1>3, <1>5, <2>1 DEF DiskInv, Opened
    <2>4. LevelInv' BY <1>1, <1>2, <1>3, <1>5, <2>1 DEF LevelInv
    <2>5. QED BY <1>4, <2>2, <2>3, <2>4 DEF SourceInv
  <1>6. CASE /\ short' = short \cup {"read"}
             /\ Goto("conf")
    <2>1. phase' = "conf" /\ image' = image BY <1>1, <1>6, StartUpImage
    <2>2. BackupInv' BY <1>1, <1>6, <2>1, StartUpBackup
    <2>3. DiskInv' BY <1>2, <1>6, <2>1 DEF DiskInv
    <2>4. LevelInv' BY <1>6, <2>1 DEF LevelInv
    <2>5. QED BY <1>4, <2>2, <2>3, <2>4 DEF SourceInv
  <1>7. QED BY <1>5, <1>6 DEF RestoreCopy

\* A copy that is whole and can be read is the backup that saved remembers; one
\* that cannot be read is none.
LEMMA VerifySource ==
    ASSUME IInv, SourceInv, Verify PROVE SourceInv'
PROOF
  <1>1. /\ phase = "verify" /\ file' = file /\ log' = log /\ bak' = bak
        /\ last' = last /\ saved' = saved /\ short' = short
    BY DEF Verify, files, history
  <1>2. log' = None /\ file = bak
    BY <1>1, StartUpLog DEF SourceInv, LevelInv
  <1>3. LogInv' BY <1>2 DEF LogInv
  <1>4. image = None BY <1>1 DEF IInv, CopyInv
  <1>5. CASE file # Bad /\ Goto("open") /\ source' = "backup"
    <2>1. phase' = "open" /\ image' = image BY <1>1, <1>5, StartUpImage
    <2>2. BackupInv' BY <1>1, <2>1, StartUpBackup
    <2>3. DiskInv' BY <1>1, <1>5, <2>1 DEF SourceInv, DiskInv
    <2>4. short \subseteq {"bak"} => "bak" \notin short /\ saved = bak
      BY <1>1, <1>2, <1>5, Marks DEF SourceInv, LevelInv, BackupInv
    <2>5. LevelInv' BY <1>1, <1>2, <1>5, <2>1, <2>4 DEF LevelInv
    <2>6. QED BY <1>3, <2>2, <2>3, <2>5 DEF SourceInv
  <1>6. CASE file = Bad /\ Goto("conf") /\ UNCHANGED source
    <2>1. phase' = "conf" /\ image' = image BY <1>1, <1>6, StartUpImage
    <2>2. BackupInv' BY <1>1, <2>1, StartUpBackup
    <2>3. DiskInv' BY <1>1, <1>6, <2>1 DEF SourceInv, DiskInv
    <2>4. saved = None
      BY <1>2, <1>4, <1>6, Marks DEF SourceInv, BackupInv, IInv, TypeOK
    <2>5. LevelInv' BY <1>1, <2>1, <2>4 DEF LevelInv
    <2>6. QED BY <1>3, <2>2, <2>3, <2>5 DEF SourceInv
  <1>7. QED BY <1>5, <1>6 DEF Verify

LEMMA ParseConfSource ==
    ASSUME IInv, SourceInv, ParseConf PROVE SourceInv'
PROOF
  <1>1. /\ phase = "conf" /\ bak' = bak /\ source' = source
        /\ last' = last /\ saved' = saved
    BY DEF ParseConf
  <1>2. log = None BY <1>1, StartUpLog
  <1>3. "read" \notin short => saved = None
    BY <1>1 DEF SourceInv, LevelInv
  <1>4. CASE /\ file' = Empty /\ log' = None
             /\ short' = short \cup {"file"}
             /\ Goto("insert")
    <2>1. phase' = "insert" /\ image' = image BY <1>1, <1>4, StartUpImage
    <2>2. BackupInv' BY <1>1, <1>4, <2>1, StartUpBackup
    <2>3. DiskInv' BY <1>4, <2>1 DEF DiskInv
    <2>4. LevelInv' BY <1>1, <1>3, <1>4, <2>1 DEF LevelInv
    <2>5. LogInv' BY <1>4 DEF LogInv
    <2>6. QED BY <2>2, <2>3, <2>4, <2>5 DEF SourceInv
  <1>5. CASE /\ \/ conf = {} /\ UNCHANGED <<budget, short>>
                \/ /\ conf # {} /\ Spend("fault")
                   /\ short' = short \cup {"file"}
             /\ file' \in IF conf = {} THEN {file} ELSE {file, Absent}
             /\ Goto("clean")
             /\ UNCHANGED <<log, left>>
    <2>1. phase' = "clean" /\ conf' = conf /\ image' = image
      BY <1>1, <1>5, StartUpImage
    <2>2. ("bak" \in short') = ("bak" \in short) BY <1>5
    <2>3. BackupInv' BY <1>1, <2>1, <2>2, StartUpBackup
    <2>4. "file" \notin short' => short' = short /\ file' = file BY <1>5
    <2>5. log' = log BY <1>5
    <2>6. DiskInv' BY <1>1, <2>1, <2>4, <2>5 DEF SourceInv, DiskInv
    <2>7. "file" \in short' \/ conf' = {} BY <1>5, <2>1
    <2>8. "read" \in short => "read" \in short' BY <1>5
    <2>9. LevelInv' BY <1>1, <1>3, <2>1, <2>7, <2>8 DEF LevelInv
    <2>10. LogInv' BY <1>2, <2>5 DEF LogInv
    <2>11. QED BY <2>3, <2>6, <2>9, <2>10 DEF SourceInv
  <1>6. QED BY <1>4, <1>5 DEF ParseConf

LEMMA InsertRecoveredSource ==
    ASSUME IInv, SourceInv, InsertRecovered PROVE SourceInv'
PROOF
  <1>1. /\ phase = "insert" /\ phase' = phase /\ log' = log /\ bak' = bak
        /\ image' = image /\ saved' = saved /\ short' = short
    BY DEF InsertRecovered, history
  <1>2. log' = None /\ "file" \in short
    BY <1>1, StartUpLog DEF SourceInv, DiskInv
  <1>3. BackupInv' BY <1>1, StartUpBackup
  <1>4. DiskInv' BY <1>1, <1>2 DEF DiskInv
  <1>5. LevelInv' BY <1>1 DEF SourceInv, LevelInv
  <1>6. LogInv' BY <1>2 DEF LogInv
  <1>7. QED BY <1>3, <1>4, <1>5, <1>6 DEF SourceInv

LEMMA FromConfPeers ==
    ASSUME NEW ks \in SUBSET Keys, ks # {} PROVE HasPeers(FromConf(ks))
PROOF
  <1>1. PICK k \in Keys : k \in ks OBVIOUS
  <1> DEFINE f == [q \in Keys |-> IF q \in ks THEN RecoveredPeer ELSE None]
  <1>2. FromConf(ks).peers = f BY DEF FromConf, Empty
  <1>3. f[k] = RecoveredPeer BY <1>1
  <1>4. RecoveredPeer # None
    <2>1. RecoveredPeer \in Peer BY DEF RecoveredPeer, Peer
    <2>2. QED BY <2>1, Marks
  <1> HIDE DEF f
  <1>5. QED BY <1>2, <1>3, <1>4 DEF HasPeers

LEMMA InsertsDoneSource ==
    ASSUME IInv, SourceInv, InsertsDone PROVE SourceInv'
PROOF
  <1>1. /\ phase = "insert" /\ file' = file /\ log' = log /\ bak' = bak
        /\ last' = file /\ saved' = saved
        /\ short' = IF file = FromConf(conf) THEN short \ {"file"} ELSE short
    BY DEF InsertsDone, files
  <1>2. /\ log' = None /\ "file" \in short
        /\ "read" \notin short => saved = None
    BY <1>1, StartUpLog DEF SourceInv, DiskInv, LevelInv
  <1>3. file \in Content /\ file # Bad /\ file # Absent
    BY <1>1, Marks DEF IInv, TypeOK
  <1>4. LogInv' BY <1>2 DEF LogInv
  <1>5. ("bak" \in short') = ("bak" \in short) BY <1>1
  <1>6. ("read" \in short') = ("read" \in short) BY <1>1
  <1>7. CASE Goto("open") /\ source' = "conf"
    <2>1. phase' = "open" /\ conf' = conf /\ image' = image
      BY <1>1, <1>7, StartUpImage
    <2>2. BackupInv' BY <1>1, <1>5, <2>1, StartUpBackup
    <2>3. DiskInv' BY <1>1, <1>2, <1>3, <2>1 DEF DiskInv, Opened
    <2>4. short' \subseteq {"bak"} => "read" \notin short /\ file = FromConf(conf)
      BY <1>1, <1>2, <1>6
    <2>5. LevelInv' BY <1>1, <1>2, <1>7, <2>1, <2>4 DEF LevelInv
    <2>6. QED BY <1>4, <2>2, <2>3, <2>5 DEF SourceInv
  <1>8. CASE ~ HasPeers(file) /\ Goto("clean")
    <2>1. phase' = "clean" /\ conf' = conf /\ image' = image
      BY <1>1, <1>8, StartUpImage
    <2>2. BackupInv' BY <1>1, <1>5, <2>1, StartUpBackup
    <2>3. DiskInv' BY <1>1, <1>2, <1>3, <2>1 DEF DiskInv, Opened
    <2>4. conf \subseteq Keys BY DEF IInv, TypeOK
    <2>5. file = FromConf(conf) => conf = {}
      BY <1>8, <2>4, FromConfPeers
    <2>6. LevelInv' BY <1>1, <1>2, <1>6, <2>1, <2>5 DEF LevelInv
    <2>7. QED BY <1>4, <2>2, <2>3, <2>6 DEF SourceInv
  <1>9. QED BY <1>7, <1>8 DEF InsertsDone

LEMMA CleanStartSource ==
    ASSUME IInv, SourceInv, CleanStart PROVE SourceInv'
PROOF
  <1>1. /\ phase = "clean" /\ Goto("open") /\ source' = "clean"
        /\ file' = Absent /\ log' = None /\ last' = Empty /\ bak' = bak
        /\ saved' = saved /\ short' = short
    BY DEF CleanStart
  <1>2. phase' = "open" /\ conf' = conf /\ image' = image
    BY <1>1, StartUpImage
  <1>3. BackupInv' BY <1>1, <1>2, StartUpBackup
  <1>4. /\ "read" \notin short => saved = None
        /\ "file" \in short \/ conf = {}
    BY <1>1 DEF SourceInv, LevelInv
  <1>5. LogInv' BY <1>1 DEF LogInv
  <1>6. DiskInv' BY <1>1, <1>2, Marks DEF DiskInv, Opened
  <1>7. LevelInv' BY <1>1, <1>2, <1>4 DEF LevelInv, Opened
  <1>8. QED BY <1>3, <1>5, <1>6, <1>7 DEF SourceInv

LEMMA OpenDBSource ==
    ASSUME IInv, SourceInv, OpenDB PROVE SourceInv'
PROOF
  <1>1. /\ phase = "open" /\ file # Bad
        /\ file' = Opened(file) /\ log' = log /\ bak' = bak
        /\ source' = source /\ last' = last /\ saved' = saved
        /\ short' = short
    BY DEF OpenDB, history, Opened, SourceInv, DiskInv
  <1>2. Goto("seed") BY <1>1 DEF OpenDB
  <1>3. phase' = "seed" /\ conf' = conf /\ image' = image
    BY <1>1, <1>2, StartUpImage
  <1>4. log = None BY <1>1, StartUpLog
  <1>5. BackupInv' BY <1>1, <1>3, StartUpBackup
  <1>6. Opened(Opened(file)) = Opened(file) BY DEF Opened
  <1>7. FromConf(conf) \in Content
    BY DEF FromConf, Empty, Content, RecoveredPeer, Peer
  <1>8. file = saved \/ file = FromConf(conf) => Opened(file) = file
    BY <1>7, Marks DEF Opened, IInv, TypeOK
  <1>9. LogInv' BY <1>1, <1>4 DEF LogInv
  <1>10. DiskInv' BY <1>1, <1>3, <1>4, <1>6 DEF SourceInv, DiskInv
  <1>11. LevelInv' BY <1>1, <1>3, <1>6, <1>8 DEF SourceInv, LevelInv
  <1>12. QED BY <1>5, <1>9, <1>10, <1>11 DEF SourceInv

LEMMA SeedProfilesSource ==
    ASSUME IInv, IInv', SourceInv, SeedProfiles PROVE SourceInv'
PROOF
  <1>1. /\ phase = "seed" /\ file' = file /\ bak' = bak /\ saved' = saved
    BY DEF SeedProfiles
  <1>2. log = None BY <1>1, StartUpLog
  <1>3. CASE /\ Goto("up")
             /\ log' = IF Seeded(file) = file THEN None ELSE Seeded(file)
             /\ last' = Seeded(file)
             /\ short' = short \ {"file"}
    <2>1. phase' = "up" /\ image' = image BY <1>1, <1>3, StartUpImage
    <2>2. BackupInv' BY <1>1, <1>3, <2>1, StartUpBackup
    <2>3. last' # None BY Marks DEF IInv, TypeOK
    <2>4. Tables' = last' BY <1>1, <1>3, <2>3 DEF Tables
    <2>5. QED BY <2>1, <2>2, <2>4, ServingSource
  <1>4. CASE Goto("down") /\ UNCHANGED <<log, last, short>>
    <2>1. phase' = "down" /\ image' = image BY <1>1, <1>4, StartUpImage
    <2>2. BackupInv' BY <1>1, <1>4, <2>1, StartUpBackup
    <2>3. DiskInv' BY <1>1, <1>4, <2>1 DEF SourceInv, DiskInv
    <2>4. LevelInv' BY <2>1 DEF LevelInv
    <2>5. LogInv' BY <1>2, <1>4 DEF LogInv
    <2>6. QED BY <2>2, <2>3, <2>4, <2>5 DEF SourceInv
  <1>5. QED BY <1>3, <1>4 DEF SeedProfiles

LEMMA CrashSource ==
    ASSUME IInv, SourceInv, Crash PROVE SourceInv'
PROOF
  <1>1. /\ phase # "down" /\ phase' = "down" /\ image' = None /\ log' = log
        /\ last' = last /\ short' = short
        /\ bak' \in IF image = None THEN {bak} ELSE {Empty, Bad}
        /\ saved' = IF image = None THEN saved ELSE None
        /\ file' \in IF phase = "copy" THEN {Empty, Bad} ELSE {file}
    BY DEF Crash
  <1>2. BackupInv' BY <1>1 DEF SourceInv, BackupInv
  <1>3. phase # "copy" => file' = file BY <1>1
  <1>4. phase = "copy" => "file" \in short /\ log = None
    BY StartUpLog DEF SourceInv, DiskInv
  <1>5. DiskInv' BY <1>1, <1>3, <1>4 DEF SourceInv, DiskInv
  <1>6. LogInv' BY <1>1, <1>3, <1>4 DEF SourceInv, LogInv
  <1>7. LevelInv' BY <1>1 DEF LevelInv
  <1>8. QED BY <1>2, <1>5, <1>6, <1>7 DEF SourceInv

LEMMA DamageSource ==
    ASSUME IInv, SourceInv, Damage PROVE SourceInv'
PROOF
  <1>1. /\ phase = "down" /\ phase' = phase /\ file' = Bad /\ log' = None
        /\ image' = image /\ short' = short
        /\ \/ bak' = bak /\ saved' = saved
           \/ bak' = Bad /\ saved' = None
    BY DEF Damage, Start
  <1>2. image = None BY <1>1 DEF IInv, CopyInv
  <1>3. BackupInv' BY <1>1, <1>2 DEF SourceInv, BackupInv
  <1>4. DiskInv' BY <1>1 DEF DiskInv
  <1>5. LogInv' /\ LevelInv' BY <1>1 DEF LogInv, LevelInv
  <1>6. QED BY <1>3, <1>4, <1>5 DEF SourceInv

LEMMA InitSource ==
    ASSUME Init PROVE SourceInv
PROOF
  <1>1. LogInv /\ BackupInv /\ LevelInv BY DEF Init, LogInv, BackupInv, LevelInv
  <1>2. DiskInv BY DEF Init, DiskInv, Opened
  <1>3. QED BY <1>1, <1>2 DEF SourceInv

LEMMA NextSource ==
    ASSUME IInv, IInv', SourceInv, [Next]_vars PROVE SourceInv'
PROOF
  <1>1. CASE \E t \in Threads : Handler(t) BY <1>1, HandlerSource
  <1>2. CASE WriteConf \/ AutoCheckpoint
    BY <1>2, WriteConfSource, AutoCheckpointSource
  <1>3. CASE BackupBegin \/ BackupEnd \/ BackupFails
    BY <1>3, BackupBeginSource, BackupEndSource, BackupFailsSource
  <1>4. CASE StartUp
    BY <1>4, CheckDBSource, RestoreBeginSource, RestoreCopySource,
       VerifySource, ParseConfSource, InsertRecoveredSource,
       InsertsDoneSource, CleanStartSource, OpenDBSource, SeedProfilesSource
       DEF StartUp
  <1>5. CASE Crash \/ Damage BY <1>5, CrashSource, DamageSource
  <1>6. CASE UNCHANGED vars
    <2>1. /\ file' = file /\ log' = log /\ bak' = bak /\ conf' = conf
          /\ phase' = phase /\ source' = source /\ image' = image
          /\ last' = last /\ saved' = saved /\ short' = short
      BY <1>6 DEF vars, files, history
    <2>2. LogInv' BY <2>1 DEF SourceInv, LogInv
    <2>3. DiskInv' BY <2>1 DEF SourceInv, DiskInv, Tables
    <2>4. BackupInv' BY <2>1 DEF SourceInv, BackupInv
    <2>5. LevelInv' BY <2>1 DEF SourceInv, LevelInv
    <2>6. QED BY <2>2, <2>3, <2>4, <2>5 DEF SourceInv
  <1>7. QED BY <1>1, <1>2, <1>3, <1>4, <1>5, <1>6 DEF Next

LEMMA SourceIsBest ==
    ASSUME IInv, SourceInv PROVE BestSource
PROOF
  <1> SUFFICES ASSUME phase = "seed", short \subseteq {"bak"}
               PROVE  CASE source = ""       -> file = last
                        [] source = "backup" -> file = saved
                        [] source = "conf"   -> saved = None /\ file = FromConf(conf)
                        [] source = "clean"  -> saved = None /\ conf = {} /\ file = Empty
    BY DEF BestSource
  <1>1. file \in Content /\ file # Bad /\ Opened(file) = file /\ log = None
    BY StartUpLog, Marks DEF IInv, TypeOK, Opened
  <1>2. source = "" => file = last BY <1>1 DEF SourceInv, DiskInv
  <1>3. /\ source = "backup" => file = saved
        /\ source = "conf" => saved = None /\ file = FromConf(conf)
        /\ source = "clean" => saved = None /\ conf = {} /\ file = Empty
    BY <1>1 DEF SourceInv, LevelInv
  <1>4. source \in {"", "backup", "conf", "clean"} BY DEF IInv, TypeOK
  <1>5. QED BY <1>2, <1>3, <1>4

\* RecoverDB: whatever was damaged, however often a backup, a restore or an
\* import was cut short by a failure or a crash, the database that NewDB opens
\* is the one last committed, else the last whole backup, else the peers of the
\* conf, else empty, each only when the ones before it are not to be had.
THEOREM RecoversBest ==
    ASSUME TornCopy = FALSE PROVE Spec => []BestSource
PROOF
  <1>1. Init => IInv /\ SourceInv BY InitInv, InitSource
  <1>2. (IInv /\ SourceInv) /\ [Next]_vars => (IInv /\ SourceInv)'
    BY NextInv, NextSource
  <1>3. IInv /\ SourceInv => BestSource BY SourceIsBest
  <1>4. QED BY <1>1, <1>2, <1>3, PTL DEF Spec
=============================================================================
