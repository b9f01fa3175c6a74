------------------------------- MODULE Storage -------------------------------
(***************************************************************************)
(* The database file over the life of the agent: the tables peers and      *)
(* profiles with their triggers, the handlers of profiles, the hourly      *)
(* backup, and RecoverDB and the seeding of profiles at start-up           *)
(* (agent/internal/storage, api/handlers_profiles.go, cmd/wg-sockd).       *)
(*                                                                         *)
(* A statement commits into the write-ahead log; a checkpoint moves the log*)
(* into the file, which is all that a backup copies.  Files survive the    *)
(* process; the environment may damage a file while the agent is down.     *)
(* Of a peer only its profile, its routes and whether it is enabled matter *)
(* here; Agent has the rest.                                               *)
(***************************************************************************)
EXTENDS Naturals, FiniteSets

CONSTANTS Keys,         \* public keys
          Names,        \* profile names
          Cidrs,        \* blocks of addresses
          Seeds,        \* peer_profiles of the configuration
          ProfileReqs,  \* allowed_ips and exclude_ips of requests
          Threads,      \* HTTP goroutines
          TornCopy,     \* SQLite may checkpoint while a backup is copied
          None, Bad, Absent,
          Budget        \* how often the environment may act

Profile == [allow : SUBSET Cidrs, exclude : SUBSET Cidrs, default : BOOLEAN]
Peer    == [profile : Names \cup {None}, routes : SUBSET Cidrs,
            enabled : BOOLEAN]
Content == [peers : [Keys -> Peer \cup {None}],
            profiles : [Names -> Profile \cup {None}]]

\* A file of no bytes opens as a database with no rows.
Empty == [peers |-> [k \in Keys |-> None], profiles |-> [n \in Names |-> None]]

BudgetKinds == {"request", "backup", "fault", "damage", "crash"}

ASSUME StorageAssumption ==
    /\ Seeds \in [Names -> Profile \cup {None}]
    /\ ProfileReqs \subseteq [allow : SUBSET Cidrs, exclude : SUBSET Cidrs]
    /\ TornCopy \in BOOLEAN
    /\ None \notin Names \cup Peer \cup Profile \cup Content
    /\ {Bad, Absent} \cap (Content \cup {None}) = {} /\ Bad # Absent
    /\ Budget \in [BudgetKinds -> Nat]

VARIABLES file, log,  \* wg-sockd.db, and what it is with its log applied
          bak,        \* wg-sockd.db.bak
          conf,       \* the enabled peers of wg0.conf
          phase,      \* what the main goroutine does: "down" ... "up"
          source,     \* where RecoverDB says the database came from
          left,       \* peers of the conf still to be inserted
          work,       \* the request a goroutine is in
          image,      \* the file when the copy to bak began, if one runs
          budget,
          last,       \* history: the tables as last committed
          saved,      \* history: the tables when the last backup began,
                      \* unless it failed
          short       \* history: files that hold part of a copy; "read" if a
                      \* backup could not be read

files   == <<file, log, bak>>
history == <<last, saved, short>>
vars    == <<files, conf, phase, source, left, work, image, budget, history>>

\* What a query sees.
Tables == IF log # None THEN log ELSE file

Idle == [op |-> "idle", key |-> None, name |-> None, read |-> None,
         req |-> None]

Init == /\ file = Absent /\ log = None /\ bak = Absent
        /\ conf = {}
        /\ phase = "down"
        /\ source = "" /\ left = {}
        /\ work = [t \in Threads |-> Idle]
        /\ image = None
        /\ budget = Budget
        /\ last = Empty /\ saved = None /\ short = {}

Spend(what) == /\ budget[what] > 0
               /\ budget' = [budget EXCEPT ![what] = @ - 1]

\* One statement, committed to the log.
Commit(c) == /\ log' = c
             /\ last' = c
             /\ UNCHANGED <<file, bak, saved, short>>

Start == <<phase, source, left>>

-----------------------------------------------------------------------------
(* The tables and their triggers. *)

\* fk_peers_profile_insert and fk_peers_profile_update
ProfileMissing(c, n) == n # None /\ c.profiles[n] = None

\* Mutant: without the trigger.
InUseNever(c, n) == FALSE

\* fk_profiles_delete
InUse(c, n) == \E k \in Keys : c.peers[k] # None /\ c.peers[k].profile = n

PutPeer(c, k, p)    == [c EXCEPT !.peers[k] = p]
PutProfile(c, n, p) == [c EXCEPT !.profiles[n] = p]

\* ComputeAllowedIPs: the difference of two sets of addresses.
Resolved(p) == IF p.exclude = {} THEN p.allow ELSE p.allow \ p.exclude

-----------------------------------------------------------------------------
(* Handlers.  A profile is read in one statement and used in a later one.   *)

Serving(t) == phase = "up" /\ work[t] = Idle

Begin(t, w) == /\ Spend("request")
               /\ work' = [work EXCEPT ![t] = w]
               /\ UNCHANGED <<files, conf, Start, image, history>>

End(t) == /\ work' = [work EXCEPT ![t] = Idle]
          /\ UNCHANGED <<conf, Start, image, budget>>

\* One request that is one statement.
OneStatement(c) == /\ Spend("request")
                   /\ Commit(c)
                   /\ UNCHANGED <<conf, Start, work, image>>

\* CreatePeer, BatchCreatePeers with a profile: GetProfile finds it.
\* UpdatePeer, ApprovePeer: the same, for a peer there is.
UseProfile(t) ==
    /\ Serving(t)
    /\ \E k \in Keys, n \in Names :
         /\ Tables.profiles[n] # None
         /\ Begin(t, [Idle EXCEPT !.op = IF Tables.peers[k] = None
                                           THEN "create" ELSE "assign",
                                  !.key = k, !.name = n,
                                  !.read = Tables.profiles[n]])

\* The insert: refused by the trigger if the profile has gone, and by the
\* unique key.  client_allowed_ips is the request's own.
InsertPeer(t) ==
    /\ work[t].op = "create"
    /\ \E rs \in SUBSET Cidrs \ {{}} :
         LET w == work[t]
         IN  IF ProfileMissing(Tables, w.name) \/ Tables.peers[w.key] # None
               THEN UNCHANGED <<files, history>>
               ELSE Commit(PutPeer(Tables, w.key,
                             [profile |-> w.name, routes |-> rs,
                              enabled |-> TRUE]))
    /\ End(t)

\* The update of profile and client_allowed_ips, from the profile as read.
AssignProfile(t) ==
    /\ work[t].op = "assign"
    /\ LET w == work[t]
       IN  IF ProfileMissing(Tables, w.name) \/ Tables.peers[w.key] = None
             THEN UNCHANGED <<files, history>>
             ELSE Commit(PutPeer(Tables, w.key,
                           [Tables.peers[w.key] EXCEPT
                              !.profile = w.name, !.routes = Resolved(w.read)]))
    /\ End(t)

\* A profile is detached from a peer, for routes that the request names, or the
\* peer disabled, or deleted.
ChangePeer(t) ==
    /\ Serving(t)
    /\ \E k \in Keys, rs \in SUBSET Cidrs :
         /\ Tables.peers[k] # None
         /\ \E p \in {None,
                      [Tables.peers[k] EXCEPT !.profile = None, !.routes = rs],
                      [Tables.peers[k] EXCEPT !.enabled = FALSE]} :
              OneStatement(PutPeer(Tables, k, p))

\* Create: allowed_ips must not be empty.
CreateProfile(t) ==
    /\ Serving(t)
    /\ \E n \in Names, r \in ProfileReqs :
         /\ r.allow # {}
         /\ Tables.profiles[n] = None
         /\ OneStatement(PutProfile(Tables, n,
              [allow |-> r.allow, exclude |-> r.exclude, default |-> FALSE]))

DeleteProfile(t) ==
    /\ Serving(t)
    /\ \E n \in Names :
         /\ Tables.profiles[n] # None
         /\ ~ InUse(Tables, n)
         /\ OneStatement(PutProfile(Tables, n, None))

\* UpdateProfile reads the profile first.
ReadProfile(t) ==
    /\ Serving(t)
    /\ \E n \in Names, r \in ProfileReqs :
         /\ Tables.profiles[n] # None
         /\ Begin(t, [Idle EXCEPT !.op = "update", !.name = n,
                                  !.read = Tables.profiles[n], !.req = r])

\* A request names allowed_ips or exclude_ips or both.
Merged(p, r) == {[p EXCEPT !.allow = r.allow], [p EXCEPT !.exclude = r.exclude],
                 [p EXCEPT !.allow = r.allow, !.exclude = r.exclude]}

\* Mutant: the row is put back if it has gone.
WriteProfileBack(t) ==
    /\ work[t].op = "update"
    /\ \E p \in Merged(work[t].read, work[t].req) :
         Commit(PutProfile(Tables, work[t].name, p))
    /\ End(t)

\* UPDATE ... WHERE name = n writes every column but is_default.
WriteProfile(t) ==
    /\ work[t].op = "update"
    /\ LET n == work[t].name
       IN  \E p \in Merged(work[t].read, work[t].req) :
             IF Tables.profiles[n] = None
               THEN UNCHANGED <<files, history>>
               ELSE Commit(PutProfile(Tables, n,
                      [p EXCEPT !.default = Tables.profiles[n].default]))
    /\ End(t)

\* The conf writer, of which ConfWriter has the details.
WriteConf ==
    /\ phase = "up"
    /\ conf' = {k \in Keys : Tables.peers[k] # None /\ Tables.peers[k].enabled}
    /\ UNCHANGED <<files, Start, work, image, budget, history>>

-----------------------------------------------------------------------------
(* Backup. *)

\* SQLite moves a long log into the file, also while the file is copied.
AutoCheckpoint ==
    /\ phase = "up" /\ log # None
    /\ TornCopy \/ image = None
    /\ file' = log /\ log' = None
    /\ UNCHANGED <<bak, conf, Start, work, image, budget, history>>

\* Mutant: the file is copied without the checkpoint.
BackupBeginStale ==
    /\ phase = "up" /\ image = None
    /\ Spend("backup")
    /\ bak' = Empty
    /\ image' = file
    /\ saved' = last /\ short' = short \cup {"bak"}
    /\ UNCHANGED <<file, log, conf, Start, work, last>>

\* PRAGMA wal_checkpoint(TRUNCATE), and os.Create, which empties the old one.
BackupBegin ==
    /\ phase = "up" /\ image = None
    /\ Spend("backup")
    /\ file' = Tables /\ log' = None
    /\ bak' = Empty
    /\ image' = Tables
    /\ saved' = last /\ short' = short \cup {"bak"}
    /\ UNCHANGED <<conf, Start, work, last>>

\* What a copy of the file can be: its pages before and after a checkpoint.
Copies == {[peers |-> a.peers, profiles |-> b.profiles] : a, b \in {image, file}}

\* io.Copy and Sync
BackupEnd ==
    /\ phase = "up" /\ image # None
    /\ bak' \in Copies
    /\ short' = short \ {"bak"}
    /\ image' = None
    /\ UNCHANGED <<file, log, conf, Start, work, budget, last, saved>>

\* The copy fails on the way.
BackupFails ==
    /\ phase = "up" /\ image # None
    /\ Spend("fault")
    /\ bak' \in {Empty, Bad}
    /\ image' = None
    /\ saved' = None
    /\ UNCHANGED <<file, log, conf, Start, work, last, short>>

-----------------------------------------------------------------------------
(* Start-up: RecoverDB, NewDB, SeedProfiles. *)

Goto(p) == phase' = p /\ UNCHANGED <<conf, work, image>>

\* RecoverDB opens, checks and closes the database, which empties the log.
CheckDB ==
    /\ phase = "down"
    /\ Goto(IF file # Bad THEN "open"
            ELSE IF bak # Absent THEN "restore" ELSE "conf")
    /\ file' = Tables /\ log' = None
    /\ source' = ""
    /\ short' = short \ {"read"}
    /\ UNCHANGED <<bak, left, budget, last, saved>>

\* Level 1: os.Create empties the database.
RestoreBegin ==
    /\ phase = "restore"
    /\ Goto("copy")
    /\ file' = Empty
    /\ short' = short \cup {"file"}
    /\ UNCHANGED <<log, bak, source, left, budget, last, saved>>

RestoreCopy ==
    /\ phase = "copy"
    /\ \/ /\ file' = bak
          /\ short' = IF "bak" \in short THEN short ELSE short \ {"file"}
          /\ last' = IF bak = Bad THEN last ELSE bak
          /\ Goto("verify")
          /\ UNCHANGED budget
       \/ /\ Spend("fault")
          /\ file' \in {Empty, Bad}
          /\ short' = short \cup {"read"}
          /\ Goto("conf")
          /\ UNCHANGED last
    /\ UNCHANGED <<log, bak, source, left, saved>>

Verify ==
    /\ phase = "verify"
    /\ IF file # Bad THEN Goto("open") /\ source' = "backup"
                     ELSE Goto("conf") /\ UNCHANGED source
    /\ UNCHANGED <<files, left, budget, history>>

\* Level 2: a fresh database, if the conf has peers; parsing the conf may fail,
\* or the fresh database, when the old one has gone.
ParseConf ==
    /\ phase = "conf"
    /\ \/ /\ conf # {}
          /\ file' = Empty /\ log' = None
          /\ left' = conf
          /\ short' = short \cup {"file"}
          /\ Goto("insert")
          /\ UNCHANGED budget
       \/ /\ \/ conf = {} /\ UNCHANGED <<budget, short>>
             \/ /\ conf # {} /\ Spend("fault")
                /\ short' = short \cup {"file"}
          /\ file' \in IF conf = {} THEN {file} ELSE {file, Absent}
          /\ Goto("clean")
          /\ UNCHANGED <<log, left>>
    /\ UNCHANGED <<bak, source, last, saved>>

\* InsertRecoveredPeer: enabled, without profile, routes and address.
RecoveredPeer == [profile |-> None, routes |-> {}, enabled |-> TRUE]

InsertRecovered ==
    /\ phase = "insert"
    /\ \E k \in left :
         /\ \/ file' = PutPeer(file, k, RecoveredPeer) /\ UNCHANGED budget
            \/ Spend("fault") /\ UNCHANGED file
         /\ left' = left \ {k}
    /\ UNCHANGED <<log, bak, conf, phase, source, work, image, history>>

HasPeers(c) == \E k \in Keys : c.peers[k] # None

FromConf(ks) == [Empty EXCEPT !.peers = [k \in Keys |->
                    IF k \in ks THEN RecoveredPeer ELSE None]]

InsertsDone ==
    /\ phase = "insert" /\ left = {}
    /\ IF HasPeers(file) THEN Goto("open") /\ source' = "conf"
                         ELSE Goto("clean") /\ UNCHANGED source
    /\ short' = IF file = FromConf(conf) THEN short \ {"file"} ELSE short
    /\ last' = file
    /\ UNCHANGED <<files, left, budget, saved>>

\* Mutant: the damaged file stays.
CleanStartNot ==
    /\ phase = "clean"
    /\ Goto("open") /\ source' = "clean"
    /\ UNCHANGED <<files, left, budget, history>>

\* Level 3.
CleanStart ==
    /\ phase = "clean"
    /\ Goto("open") /\ source' = "clean"
    /\ file' = Absent /\ log' = None
    /\ last' = Empty
    /\ UNCHANGED <<bak, left, budget, saved, short>>

\* Mutant: no schema.
OpenDBBare ==
    /\ phase = "open"
    /\ Goto(IF file = Bad THEN "down" ELSE "seed")
    /\ UNCHANGED <<files, source, left, budget, history>>

\* NewDB: the schema; a file that SQLite cannot open is fatal.
OpenDB ==
    /\ phase = "open"
    /\ Goto(IF file = Bad THEN "down" ELSE "seed")
    /\ file' = IF file = Absent THEN Empty ELSE file
    /\ UNCHANGED <<log, bak, source, left, budget, history>>

Seeded(c) == IF \A n \in Names : c.profiles[n] = None
               THEN [c EXCEPT !.profiles = Seeds] ELSE c

\* SeedProfiles, one transaction; an error is fatal.
SeedProfiles ==
    /\ phase = "seed"
    /\ \/ /\ Goto("up")
          /\ log' = IF Seeded(file) = file THEN None ELSE Seeded(file)
          /\ last' = Seeded(file)
          /\ short' = short \ {"file"}
          /\ UNCHANGED budget
       \/ Spend("fault") /\ Goto("down") /\ UNCHANGED <<log, last, short>>
    /\ UNCHANGED <<file, bak, source, left, saved>>

-----------------------------------------------------------------------------
(* The environment. *)

\* The process ends, with a request, a copy or a start-up under way.
Crash ==
    /\ phase # "down"
    /\ Spend("crash")
    /\ phase' = "down"
    /\ work' = [t \in Threads |-> Idle]
    /\ image' = None
    /\ bak' \in IF image = None THEN {bak} ELSE {Empty, Bad}
    /\ saved' = IF image = None THEN saved ELSE None
    /\ file' \in IF phase = "copy" THEN {Empty, Bad} ELSE {file}
    /\ UNCHANGED <<log, conf, source, left, last, short>>

\* The database, and perhaps the backup with it, is damaged on the disk.
Damage ==
    /\ phase = "down" /\ file # Absent
    /\ Spend("damage")
    /\ file' = Bad /\ log' = None
    /\ \/ UNCHANGED <<bak, saved>>
       \/ bak # Absent /\ bak' = Bad /\ saved' = None
    /\ UNCHANGED <<conf, Start, work, image, last, short>>

StartUp == \/ CheckDB \/ RestoreBegin \/ RestoreCopy \/ Verify \/ ParseConf
           \/ InsertRecovered \/ InsertsDone \/ CleanStart \/ OpenDB
           \/ SeedProfiles

Handler(t) == \/ UseProfile(t) \/ InsertPeer(t) \/ AssignProfile(t)
              \/ ChangePeer(t) \/ CreateProfile(t) \/ DeleteProfile(t)
              \/ ReadProfile(t) \/ WriteProfile(t)

Next == \/ \E t \in Threads : Handler(t)
        \/ WriteConf \/ AutoCheckpoint
        \/ BackupBegin \/ BackupEnd \/ BackupFails
        \/ StartUp
        \/ Crash \/ Damage

\* The service manager starts the agent again, and start-up does not wait.
Spec == Init /\ [][Next]_vars /\ WF_vars(StartUp)

-----------------------------------------------------------------------------
(* Properties. *)

Work == [op   : {"idle", "create", "assign", "update"},
         key  : Keys \cup {None},
         name : Names \cup {None},
         read : Profile \cup {None},
         req  : ProfileReqs \cup {None}]

\* Every variable has its type; once the database is open it can be queried.
TypeOK ==
    /\ file \in Content \cup {Bad, Absent}
    /\ log \in Content \cup {None}
    /\ bak \in Content \cup {Bad, Absent}
    /\ conf \subseteq Keys
    /\ phase \in {"down", "restore", "copy", "verify", "conf", "insert",
                  "clean", "open", "seed", "up"}
    /\ source \in {"", "backup", "conf", "clean"}
    /\ left \subseteq Keys
    /\ work \in [Threads -> Work]
    /\ image \in Content \cup {None}
    /\ budget \in [BudgetKinds -> Nat]
    /\ last \in Content
    /\ saved \in Content \cup {None}
    /\ short \subseteq {"bak", "file", "read"}
    /\ phase \in {"insert", "seed", "up"} => file \in Content

NoDangle(c) == \A k \in Keys : c.peers[k] # None =>
                                 ~ ProfileMissing(c, c.peers[k].profile)

\* The triggers stand in for foreign keys: a peer never has a profile that is
\* not there, whatever handlers read before another one deleted it, and also
\* in a database that came from a backup or from the conf.
NoDangling == phase = "up" => NoDangle(Tables)

\* RecoverDB: the database that is opened is the one last committed, or if that
\* is damaged the last whole backup, or if there is none the peers of the conf,
\* or if it has none empty; unless a copy or an import of it failed or was cut
\* short.
BestSource ==
    phase = "seed" /\ short \subseteq {"bak"} =>
      CASE source = ""       -> file = last
        [] source = "backup" -> file = saved
        [] source = "conf"   -> saved = None /\ file = FromConf(conf)
        [] source = "clean"  -> saved = None /\ conf = {} /\ file = Empty

Known(n) == Tables.profiles[n] # None

\* A profile that was deleted while another request was updating it, or using
\* it for a peer, stays deleted: only CreateProfile brings it back while the
\* agent serves.
DeletedStays ==
    [][phase = "up" /\ phase' = "up" =>
         \A n \in Names : ~ Known(n) /\ Known(n)' =>
            \E t \in Threads : CreateProfile(t)]_vars

\* Whatever is damaged and wherever a start-up was cut short, the agent comes
\* up again.
Starts == []<>(phase = "up")
=============================================================================
