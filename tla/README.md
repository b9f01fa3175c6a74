# wg-sockd: a TLA+ verification project

`wg-sockd` is a daemon (the *agent*, `src/agent`) that manages the peers of one
WireGuard interface behind an HTTP API on a unix socket.  A peer lives in four
places at once: the SQLite table `peers`, the kernel device, a per-peer iptables
chain, and the text file `wg0.conf`.  Nothing makes a change of the four atomic.
HTTP handlers change them call by call and undo their calls when one fails; a
reconciliation loop compares table and kernel every 30 seconds and repairs what
it finds; a debouncer rewrites the file.  Access is guarded by sessions, passkeys
and a login rate limiter, all in memory.  Requests come through a unix socket that
heals itself, a rate limiter and a guard against full disks; the database is backed
up every hour and recovered at start-up.  This project models those parts, checks
what they promise on small instances with TLC, and proves the central promises
for every size with TLAPS.

## 1. The system: inventory

| Component (source) | State | Operations | Module |
|---|---|---|---|
| peer handlers (`api/handlers.go`) | locals of each request | CreatePeer, BatchCreatePeers, UpdatePeer, RotateKeys, ApprovePeer, DeletePeer | `Agent` |
| reconciler (`reconciler/reconciler.go`) | RWMutex, snapshots of a pass | ReconcileOnce, RunLoop, Pause, Resume | `Agent`, file part in `ConfWriter` |
| peer storage (`storage/peers.go`, `db.go`) | table `peers`, two unique indexes | insert, update, delete, key change, upsert | `PeerStores` |
| WireGuard client (`wireguard/wgctrl.go`) | the device's peers | ConfigurePeers, RemovePeer, GetDevice | `PeerStores` |
| firewall (`firewall/iptables.go`) | chains, jumps of the dispatch chain, jump from FORWARD | ApplyPeer, RemovePeer, Sync | `Firewall` (commands), `FirewallSpec` and `PeerStores` (calls) |
| conf writer (`confwriter/debounce.go`, `shared.go`, `writer.go`) | pending flag, timer, closed flag, the file | Notify, flush, DirectWrite, Close, WriteConf | `ConfWriter` |
| process (`cmd/wg-sockd/main.go`) | phase of start-up and shutdown | recovery, seeding, initial pass, Sync, signal handling | `Agent`, `ConfWriter`, `Firewall`, `Storage`, `Frontend` |
| profiles (`storage/profiles.go`, `api/handlers_profiles.go`) | table `profiles`, three triggers | create, update, delete, seed, resolve | `Storage` |
| address arithmetic (`wireguard/cidr.go`, `ipv6.go`) | none | exclusion of CIDRs; next address and IPv6 addresses | exclusion in `Storage`, the rest not modelled |
| backup and recovery (`storage/backup.go`, `db.go`) | database file, write-ahead log, backup file | Backup, RecoverDB, NewDB | `Storage` |
| disk checker, read-only guard (`health/diskcheck.go`, `middleware/readonly.go`) | an atomic flag | check loop, guard | `Frontend` |
| socket monitor (`sockmon/monitor.go`) | mutex, listener and server | Start, check, recreate, Shutdown | `SocketMonitor` |
| authentication (`auth/*.go`, `storage/webauthn.go`) | sessions, challenges with their order list, table of passkeys | login, logout, visit, register and log in with a passkey, delete one, cleanups | `Auth` |
| login rate limiter (`auth/login_rate.go`) | times of failures per address | Check, RecordFailure, Reset, cleanup | `Auth` |
| request rate limiter (`middleware/ratelimit.go`) | a bucket per connection | allow, cleanup | `RateLimiter` |
| configuration, metrics, client conf text, CLI, UI | none that is shared | parsing, formatting, reporting | not modelled |

**How they interact.**  Handlers run in HTTP goroutines, concurrently.  They call
the four stores directly.  The reconciler runs in a goroutine of its own and
holds its RWMutex for reading during a pass; `Pause` takes it for writing.  Only
BatchCreatePeers and DeletePeer pause it.  CreatePeer, UpdatePeer, RotateKeys and
ApprovePeer run against passes.  The file is written by the debouncer's timer
goroutine (`flush`), by handlers (`DirectWrite`), by the reconciler and by
`Close` at shutdown, each with peers it read from the table earlier.  iptables is
called as a process per command, without a lock.  A request passes the socket's
server, the rate limiter and the read-only guard, in this order; the monitor and
the shutdown compete for the mutex around that server.  The backup copies the
database file while handlers write.

**What is hard.**  A pass decides from a snapshot of the device and one of the
table, taken at different times.  A handler decides from the row it read at its
start.  A rollback undoes calls in four different orders, and its own calls may
fail.  WireGuard's cryptokey routing moves an allowed IP silently from one peer
to another.  The process may end between any two calls.  The debounced write may
be cancelled, overtaken, or closed.  A firewall call is up to ten commands, most of
whose failures are only logged.  The recovery chain overwrites the database it
recovers, step by step.  `PROJECT.json` lists these hazards at the
lines where they bite, with the properties that watch them.

**What makes it correct.**
* stores: kernel peers = enabled rows, in the end, after failures and crashes;
  routes and preshared keys as the rows say; the two address columns agree;
* reconciler: what a pass decides is still true of the table when it acts, as
  long as handlers pause it; an import is never taken for unknown peers;
* handlers: a failed request leaves nothing behind; a revoked key is out;
* firewall: no peer is live without its chain; a jump leads to a complete chain; a
  failure stays with its own peer until the next Sync repairs it;
* database: no peer has a profile that is not there; what is opened at start-up is
  the best copy there is, and the agent comes up;
* front end: a deleted socket comes back; a signal ends the agent; the rate limit
  holds in every window of time; the guard follows the disk;
* conf writer: which steps may forget a change, and that no other does; the file
  has the peers of the table in the end;
* authentication: limits hold under concurrent logins; a challenge serves one
  request; a session that is gone never comes back, and an expired one only by a
  request that had found it live.

## 2. Modules

* `PeerStores` – the stores' data and one operator per call on them: the effect
  of a successful `INSERT`, `UPDATE`, `DELETE`, `ConfigurePeers`, `RemovePeer`,
  `ApplyPeer`, `Sync`.  The kernel operators contain cryptokey routing (`Strip`):
  giving a host to a peer takes it from every other one.  `FwRemove` contains
  what iptables refuses: `-X` of a chain a jump still refers to.
* `Agent` – the handlers, the reconciler and the start-up.  One action is one
  call on a store.  `pc[t]` is the next call of goroutine `t`; `job[t]` has its
  locals (row read, rows made, request, rollback calls still to make); `rec` the
  locals of the pass (snapshots `kset` and `rows`, keys still to visit, key at
  hand); `mu` the pauser.  An error path sets `undo` to the list of rollback
  calls in the order the code makes them (`RollbackOf`, and the shorter lists of
  the earlier error paths), and `Undo...` actions make them one by one.
* `ConfWriter` – the file.  The table is abstracted to its set of enabled peers.
  Each locked section of `DebouncedWriter` is one action; a read of the table and
  the write that follows are two.
* `Auth` – sessions, challenges, the login rate limiter, passkeys.  Each locked
  section and each SQL statement is one action; `pc[t]` and `job[t]` are the next
  section and the locals of a request, and the three cleanup goroutines may run
  at any time.  Tokens are random in the code and the next number here; time is a
  number that `Tick` advances.  A session is a record in a set, as the map is
  keyed by the token of its value; `order` is the insertion list of the challenge
  store, which `Get` leaves alone, as a set: tokens grow, so the least is the first
  of the list.  `attempts` has the failures of an address as a set of numbered times.
* `FirewallSpec` – a firewall call as one step, with the operators of `PeerStores`
  that `Agent` works with, and what is promised when a command fails: nothing about
  this peer (`bad`) until the next Sync, and everything about the others.
* `Firewall` – the same calls iptables command by command.  A chain is the set of
  its ACCEPT rules that are live and whether it ends in DROP, since the first match
  decides and only a flush removes rules; the dispatch chain is a bag of jumps.
  `work[t]` is the call goroutine `t` is in, its next command and its locals; the
  main goroutine `Boot` runs Sync before the agent serves.  `seen`, `bad` and `late`
  are history for the refinement mapping (`Settled`): the rules of a peer as they
  were when its call began, until it is over.
* `Storage` – the database file.  `file` and `log` are the file and what it is with
  its write-ahead log applied, `bak` the backup, `conf` the peers of `wg0.conf`.  A
  statement is one step; a profile is read in one and used in a later one.  `phase`
  is the step the main goroutine is at: RecoverDB level by level, NewDB, seeding.
  A file is damaged (`Bad`) only while the agent is down.
* `RateLimiter`, `SocketMonitor` and their composition `Frontend` – the token bucket
  of a connection; the listener, its monitor and Shutdown; and the way of a request
  through both and the read-only guard, with the disk checker.  Listeners are
  numbered; what is at the socket path is a listener's socket, nothing, a plain file
  or the socket of another process.
* `MCAgent`, `MCConfWriter`, `MCAuth`, `MCFirewall`, `MCStorage`, `MCFrontend` –
  constants for TLC.
* `AgentProofs`, `AgentStoreProofs`, `AgentSerialProofs`, `ConfWriterProofs`,
  `AuthProofs`, `StorageProofs`, `FirewallProofs`, `FrontendProofs` – theorems.

What is abstracted: names, notes, DNS, MTU, endpoints, keepalives, profiles and
time stamps; private keys; the text of the file.  A client address is a model
value with a host part (`HostOf`); two addresses may have one host (`a1`, `a1x`:
another mask), which the unique index on the text does not see.  A preshared key
is named after the public key it was made with.  An endpoint or keepalive of an
update is `none`, `good` or `bad`, because the code refuses a bad one after its
first effect.  Requests that fail validation at the start change nothing and are
not taken.  `cfg.IPv6Prefix` is taken as empty.  In `Agent` a firewall call is one
step that succeeds or has no effect; `Firewall` justifies the first half, and says
what a failing command really leaves.

In `Storage` a peer is its profile, its routes and whether it is enabled, and a CIDR
is a block of addresses, so that `ComputeAllowedIPs` is a difference of sets, as the
library's IP set builder computes it; a copy that is cut short leaves a file that
SQLite takes for empty, or one that it does not open.  In `RateLimiter` a unit of
time is one in which `Rate` tokens come back, and fractions of a token are left out.
In `Frontend` a connection takes requests one after the other, as HTTP/1.1 does.

In `Auth` there is one user, the administrator, and an answer of an authenticator
verifies or does not; passwords, bearer tokens, cookies, signature counts (a count
that goes back is only logged) and the WebAuthn protocol are left out.
`max_sessions` is taken to be positive; with 0 the code keeps one session.

The environment has a budget per kind of event (`Budget`): requests, failing
calls, failing iptables calls (logged and ignored by the code), failing rollback
calls, peers set by hand with `wg`, and ends of the process.  `Auth` has bounds on
requests and on time (`MaxRequests`, `MaxTime`), `Frontend` one on its clock
(`MaxNow`).  These are the only bounds; the proofs hold for all of them.

## 3. Runs

Passing:

| Run | Instance | Checks and shows |
|---|---|---|
| `agent_paused` | 2 goroutines, batch (1 or 2 peers), delete, passes; 2 requests, 1 failing call, 1 foreign `wg` call, 1 crash | `TypeOK`; `PassMatchesDB`: a pass acts on what is still true of the table; `ImportUnseen`: no pass quarantines an import |
| `agent_converge` | 2 goroutines, every handler that does not pause, and delete; passes | `Converges`: kernel peers = enabled rows in the end, whatever the interleaving |
| `agent_faults` | 1 goroutine, every handler, passes; 2 requests, one failing call, iptables call and rollback call, 1 crash | `BootRepairs`: when the start-up pass is over, and no call failed, kernel peers = enabled rows; `Converges` |
| `agent_import` | 2 goroutines, create and batch; 3 requests, addresses that share a host, 1 failing call | `NeverExposed`: whatever the kernel routes to an imported peer meets a chain with rules, its own or that of a peer with an address of the same host; `NoResidue`: a failed import leaves nothing |
| `agent_sequential` | every handler, 3 requests one at a time, with preshared keys, distinct hosts, a peer and a quarantined peer, 1 failing call | `Confined` (traffic of an enabled peer is decided by its own chain and no other) and `RevokedIsOut` between requests as long as no call failed; `AddressRoutes`; `RotationUndone`: a rotation that fails at any of its calls has put back the row when it answers, and for an enabled row key, preshared key and route |
| `conf_converge` | 2 handlers, 2 flush goroutines, every writer; 2 requests, 1 failing read, write, signal, time-out, crash; 1.7 million states | `TypeOK`; `ForgottenOnlyBy`: once the file is current, or a write is owed or under way that makes it so, this ends only by a step of four kinds; `ConfConverges`: the file has the peers of the table in the end |
| `auth_stores` | 2 goroutines, 1 remote address and the unix socket, 1 passkey, limits and times of 1 or 2, 5 requests, 2 ticks | `TypeOK`; `SessionsBounded`, `ChallengesBounded`: the limits hold although Get, cleanup and eviction leave map and order list different; `ChallengeOnce`; `FailuresBounded`: failures in a window exceed the limit at most by the requests that were past Check; `EndedStaysEnded`: a session gone from the map stays gone, and an expired one is extended only by the Touch of a request whose Get found it live |
| `firewall` | 2 goroutines and the start-up, 2 peers at 2 hosts, 2 destinations, rows with and without address; 3 requests, 2 failing commands, 1 crash; 1.1 million states | `TypeOK`; `AtomicActivation`: a peer without a jump gets one only when its chain is complete; `CallsAreAtomic`: every call is one step of `FirewallSpec` |
| `storage` | 2 goroutines, 2 peers, 2 profiles, one seeded; 3 requests, 1 backup, 1 failing step, 1 damage, 2 crashes; 0.7 million states | `TypeOK`; `NoDangling`: no peer has a profile that is not there, in a restored database too; `BestSource`: the database opened is the last commit, else the last backup, else the peers of the conf, else empty; `DeletedStays`: a deleted profile is not brought back by a request that read it; `Starts`: the agent always comes up again |
| `frontend` | 1 connection, burst 2, 1 token a tick, 3 ticks; 3 requests, the path changed twice, 1 failing listen, the disk full or freed once, a signal; 0.6 million states | `TypeOK`, with the mutex; `RateBound`: at most burst + rate * time requests in any window; `Heals`: a deleted or replaced socket is served again; `Stops`: after a signal the agent ends; `FollowsDisk`: the guard's flag follows the disk |

With a violation, where a document promises what the code does not do:

| Run | Property | What happens |
|---|---|---|
| `bug_rotate_reconcile` | `RowsConverge` | A pass that listed the row before a rotation re-adds the old key, which takes the route from the new one.  Later passes remove the old key and never configure a peer that is present: the rotated peer stays without a route. |
| `bug_rotate_disabled` | `DisabledIsOut` | The rotation of a disabled peer configures its new key in the kernel, and its rollbacks the old one, where `reconciler.go:107` and `112` say that no key of a disabled peer may be.  The next pass removes it. |

**Why the bounds are enough.**  Every race the code has is between two actors: a
pair of goroutines, or a goroutine and a pass.  Two goroutines, three or four
keys (an existing peer, a peer per request, a rotated key) and two hosts let every
such pair meet, with one failure at every point of it.  Two flush goroutines let the
timer fire while an earlier flush is between its read and its write.  Two peers in
a batch are the least for which it can conflict with itself.  Three requests in a row let a
request meet what two earlier ones left.  Five requests and limits of two let
`Auth` fill the maps and evict: two passkey ceremonies and a login, or two
concurrent logins and a ceremony.  TTLs of one and windows of two ticks let an
entry expire while a request works with it.  In `Firewall` two failing commands let
one hide the other, and three requests and a crash let Sync meet the remains of two
interrupted calls.  In `Storage` two crashes let a recovery be cut short and the next
one too.  In `Frontend` a bucket is full again after two ticks and deleted after
three, so that the cleanup meets a bucket at its last moment.  Deadlock is checked wherever the ticker
runs; runs without it may stop when the budgets are spent.

**Why some instances are narrow.**  The following leave the properties, for
reasons in the code; each can be seen by widening the constants in the cfg named.
* `RevokedIsOut` with two goroutines that rotate one peer (`AgentSequential`): the
  loser's `UpdatePeerPublicKey` finds no row, and its rollback re-adds the old key
  that the winner has revoked (`handlers.go:1158`).
* `AddressRoutes` with two concurrent updates of one peer: whether `allowed_ips`
  changes is decided from the row read at the start (`handlers.go:895`).
* `Confined` after a failed call: RotateKeys removes the chain first
  (`handlers.go:1120`), every rollback re-adds the peer to the kernel and not the
  chain, and a pass applies rules only to a peer it re-adds.  Also with an update
  that moves a peer and has a malformed endpoint (`SomeReqs`): the kernel is changed
  before the endpoint is refused (`handlers.go:877`, `924`), and chain and row keep
  the old address.
* `RowsConverge` with a batch import that names a taken address: the batch does
  not ask `IsClientAddressTaken`, the kernel gives the address to the new peer,
  the insert fails, and the rollback does not give it back.
* The peer limit: `CountPeers` and the insert are two statements, and two
  creations below the limit both insert.
* No change of the conf is forgotten: four kinds of step do forget one until the
  next pass, and `ForgottenOnlyBy` says that no other does.  DirectWrite drops the
  pending flag, which may be that of a change announced after the peers it writes
  were read (`CancelsOwed`; `debounce.go:115`, whose comment speaks of "a duplicate
  write").  Flushes are not serialised with each other or with the other writers, so
  that an older read may be written last (`WritesOld`; `debounce.go:73-83`).  An
  update that only enables or disables a peer, and a rollback, announce nothing
  (`ChangesUnannounced`; `handlers.go:1013`).  A failing read or write is only logged
  (`CallFails`).
* An imported peer's own chain decides its traffic (`AgentImport`): addresses are
  compared as text (`handlers.go:223`), so that two rows may have one host; the jumps
  of the dispatch chain are appended (`iptables.go:166-167`), the first that matches
  decides, and every chain ends in DROP.  The newer peer is then under the rules of
  the older one.  `Filtered` demands that no other chain decides, and `Confined` has it
  for distinct hosts; `NeverExposed` allows the chains of peers of the same host.
* `RotationUndone` of a disabled row: the rollbacks put the old key into the kernel
  whatever `enabled` is (`handlers.go:1141`, `1158`, `1202`), where it was not before.
  The property says nothing of it; `DisabledIsOut` says what should hold, and
  `bug_rotate_disabled` shows that it does not.
* An expired session stays expired: Touch does not look at the TTL again
  (`session.go:92-98`), and a session that expires between the Get and the Touch of a
  request is extended.
* `conf = db` when the process has stopped: `Close` runs before the servers drain,
  and a handler that comes after it announces to a closed debouncer
  (`debounce.go:42`).
* A failing `ListPeers` makes `getPeers` return nil and `flush` write a file
  without peers (`main.go:334`), until the next pass.
* `ImportUnseen` with `"create"` in `Ops` (`AgentPaused`): CreatePeer does not pause
  the reconciler, although `handlers.go:27` says that handlers do "around
  operations that must be atomic (kernel write + DB commit)".  A pass between its
  kernel call and its insert removes the peer and inserts a quarantine row, and
  the insert fails.
* At most `MaxAttempts` failures per window (`AuthStores`): Check and RecordFailure
  are two locked sections, and every goroutine may be between them, hence the
  bound of `FailuresBounded`.
* A login that always answers: between its Create and its Get another login's
  rotation may delete the session, and the handler dereferences nil
  (`auth/handlers.go:165`).
* The eviction of a session is called LRU (`session.go:18`) and goes by creation,
  not by use; `WithRoom` has it as the code does.
* `Confined` with passes: a pass removes the chain of a zombie although an approval
  has enabled the peer since the pass listed it (`reconciler.go:119`).
* `CallsAreAtomic` with `Overlap = TRUE` (`FirewallCalls`): nothing serialises two
  calls for one peer, say of an update and a rotation; the flush of one runs between
  the appends of the other, and the chain has rules of both rows.
* A live chain is never incomplete: ApplyPeer flushes the chain of a peer that
  already has its jump and then fills it (`iptables.go:139`), although the comment at
  line 159 says that packets are never routed to an empty chain; hence
  `AtomicActivation` speaks of peers without a jump.  Sync inserts the jump from
  FORWARD before any peer's chain is filled (`iptables.go:231`), which the comment at
  lines 26-29 says is prevented.
* `BestSource` and `NoDangling` with `TornCopy = TRUE` (`StorageRecovery`): SQLite may checkpoint
  during the copy, and the backup mixes two states; SQLite's integrity check does not
  know of the triggers.
* `BestSource` without its exception: a crash in the middle of a restore leaves a file
  of no bytes, a healthy database to SQLite, and the next start takes it as it is
  (`backup.go:99-107`); a crash during the import from the conf leaves some of the
  peers in the same way; and a crash after `os.Create` of a backup leaves an empty
  one, which level 1 restores and reports as "backup".
* A restored backup brings back peers that were deleted since, and seeding recurs
  whenever the table of profiles is empty, not only on the first start, of which
  `README.md:419` and the comment at `profiles.go:167` speak.
* Two updates of one profile: each writes every field as it read it
  (`handlers_profiles.go:203`), so that the later one undoes the other's.  An update
  may also leave `allowed_ips` empty, which a creation must not.
* `Heals` without its exception: a socket of another process at the path is taken for
  the agent's own (`monitor.go:111`), although `README.md:526` says "deleted or
  replaced".
* No listener after Shutdown: a tick that is taken together with the signal may wait
  for the mutex and re-create the listener when Shutdown returns; it serves until the
  process ends.
* The rate limiter and the read-only guard wrap the routes of `NewRouter` only; those
  of `/api/auth` are registered beside them.
* Sequential, and not in a model: an update that clears the address of a peer
  dereferences the nil network of a failed parse (`handlers.go:875`); environment
  variables override explicit flags, although `main.go:129` lists flags last.

**Fairness.**  `Agent`: weak fairness of each started handler (a goroutine goes
on) and of the reconciler (the ticker keeps firing; with a pass in progress the
goroutine goes on) and of the start-up's Sync; strong fairness of `Pause`, since
Go's RWMutex blocks new readers once a writer waits, while in the model a pass may
begin again and again.  `ConfWriter`: weak fairness of handlers, of flush
goroutines and the timer, of the reconciler and of a shutdown that has begun.
`Storage`: weak fairness of the start-up, since a service manager starts the agent
again and no step of the start-up waits for anything.  `Frontend`: weak fairness of
the ticker's checks, of a re-creation that has begun, of the disk checker and of the
steps of a shutdown; strong fairness of the shutdown's `Lock`, which a re-creation
that fails again and again could otherwise starve: Go's mutex hands itself to a
waiter that has waited for a millisecond.  Nothing makes requests, failures, crashes,
signals, or a restart in `Agent` and `ConfWriter`, happen.

**The refinement.**  `Firewall` implements `FirewallSpec` (`CallsAreAtomic ==
Calls!Spec`, with `fw <- Settled`).  While a call for a peer runs, the abstract rules
are those of the peer before it; the command that ends the call is the abstract step
`Apply` or `Remove`, and a call that finds a failure is `Break`.  All commands of Sync
are stutters, except that the jump from FORWARD appears (`TurnOn`), until its last one
is `Sync`: whatever earlier calls and crashes left, the rules are those of the rows.
What is left undetermined are the peers in `bad`: those with a call that failed or was
cut short, until a Sync.

**Mutants.**  Each property of a passing run has a mutant: an operator, marked
`Mutant` and placed before the definition it replaces, that changes the code's
behaviour as a plausible slip would (Pause that does not wait, a pass that does
not lock, a rollback that forgets a call, rules that do not follow the address, a
pending flag that is reset too late, a challenge that is not deleted, a Touch that
stores what Get returned, a mutex that is not unlocked on an error path, a trigger
that is missing, a backup without the checkpoint).  TLC finds the property violated.

## 4. Proofs

**`AgentProofs!TypeCorrect`**: `Spec => []TypeOK`.  `TypeOK` is not inductive: the
call `HostOf[job[t].req.addr]` is well defined only because of the step `t` is at,
and `RowOf(rec.rows, k)` only because `k` has a row in the snapshot.  The
invariant `TypeInv` has four parts, so that a step is shown to keep each by the
lemma for what it touches: `Stores`; `Control`, which ties the step of each
goroutine to the shape of its locals (`Shape`) and says that an unwinding handler
owes a rollback call; `RecShape`, the same for the pass; and `Rest`.  Lemmas give
the type of each store operator.

**`AgentProofs!PauseProtectsPass`**: if only handlers that pause are called
(`OnlyPausing`), `Spec => []PassMatchesDB`, for any number of goroutines, peers,
failures, foreign changes and crashes.  `Locked` says that a handler past `pause`
owns the lock and that a pass runs only while nobody does; hence only the pass
itself changes the table.  `PassInv` says what it does to it: every row of its
snapshot is still there and rows added since are disabled (`Snapshot`); a key
still to visit in the first loop has no row outside the snapshot and none that is
enabled (`Visiting`); a key of the second loop is enabled in it (`Readding`).

**`AgentStoreProofs`** has what start-up, passes and imports leave in the stores, on
top of `AgentProofs!TypeInv`:
* `StartupRepairs`: `Spec => []BootRepairs` if nobody sets peers by hand
  (`Budget["foreign"] = 0`), whatever handlers, failed rollbacks, passes and crashes
  left.  `BootInv` says how far the pass of the start-up has come: in its first loop
  the kernel has the enabled peers of its snapshot and what is still to visit
  (`Dropping`), in its second one the enabled peers but what is still to visit
  (`Restoring`).
* `PauseHidesImport`: under `OnlyPausing`, `Spec => []ImportUnseen`.  It is not enough
  that a pass and a paused import exclude each other: the pass must not have listed
  keys before that an import makes now.  `UnseenInv` says that what a pass has seen and
  what requests make are disjoint sets of used keys.
* `ImportsLeaveNothing` and `ImportsNeverExposed`: `Spec => []NoResidue` and
  `Spec => []NeverExposed` for any number of concurrent imports, any of whose calls may
  fail, when the calls whose result the code ignores succeed (`ImportsOnly`).
  `ResidueInv` says for each import which of the three stores have its keys at its
  step, or, while it unwinds, by the rollback calls it still owes; and for all other
  keys that the kernel has them iff a row enables them.  `NeverExposed` also speaks of
  the other jumps for a host: `JumpInv` says that every jump leads to a chain with
  rules, of a peer that has an address of that host in the table or in the import
  that is at work, and that the rows of an import that has inserted them keep the
  addresses its jumps were made for.

**`AgentSerialProofs`** is about requests that come one at a time.  The code does not
enforce this; section 3 has what goes wrong otherwise.
* `AddressesRoute`: `Spec => []AddressRoutes` with passes, failing calls and rollbacks,
  crashes and peers set by hand beside the requests (`OneAtATime`).  Whether UpdatePeer
  writes `allowed_ips` is decided from the row read at its start; `RowRead` says that
  the `UPDATE` still finds this row, for which keys must be unique in the table
  (`UniqueKeys`).
* `RevokedKeysOut`: `Spec => []RevokedIsOut` with crashes at any step, but without
  passes after the start-up and failing rollback calls (`Serial`).  `RevokedIsOut`
  speaks of the moments between requests; `RevokedInv` of all: a key in the kernel has
  a row, or is held by a request between its kernel call and its insert or rollback
  (`Held`), and a key whose row is about to go has left the kernel (`Revoking`).  A new
  key is never one that is in use (`UsedInv`), and the rows a handler works with are
  still there (`TableInv`).
* `FailedRotationUndone`: `Spec => RotationUndone` for one failing call, whichever it
  is (`OneFault`); of the kernel's old key it speaks for enabled rows.
  The rollback re-adds the old peer without `replace_allowed_ips`, so
  that it is as before only if nothing of it was left (`Cleared`).  With two failing
  calls, RemovePeer (whose error is only logged) and a later one, this is not so; with
  failing rollback calls nothing can be promised.
* `PeersStayConfined`: `Spec => []Confined` for every sequence of requests, with passes
  only at start-up, no crash, no failing iptables call, no malformed endpoint that is
  refused after the move and no two client addresses of one host (`Undisturbed`; the
  run's constants satisfy it).  Each of these does leave a peer unconfined, or under
  the rules of another, in the code: section 3 has endpoint and host; a crash between
  the kernel call and the `UPDATE` of a move leaves the two with different addresses; a
  failing iptables call is only logged.  `Confined` speaks of the moments between
  requests.  `ConfinedInv` says at all times that the kernel routes to each peer what its
  row says (`Fits`) and that an enabled row with an address has its rules (`Covered`),
  except for the row a handler is at (`Rerouting`, `Uncovered`), and what the handler's
  next steps need to make up for it: the address of a move is still free, the row read
  again by id is the one that was changed, since ids are unique (`Tidy`), and the keys of
  an import are in no row.  It uses `RevokedInv` (which rollbacks there can be) and
  `AddrInv` (the route of a row is the host of its address).  That no other chain decides
  is `OwnedInv`: every jump is one of an enabled row with an address of the jump's host
  (`Owned`) or one of the handler at work (`Passing`: the rules of an import go in before
  its rows, those of a peer that is moved, disabled or deleted go out after its row has
  changed), and client addresses are unique in the table (`UniqueAddrs`).

**`ConfWriterProofs!TypeCorrect`** and **`ForgottenOnlyBySteps`**:
`Spec => ForgottenOnlyBy`, with every writer, overlapping flushes, failures, shutdowns,
crashes and restarts, and nothing assumed of the instance.  A step that is none of
the four kinds either keeps the write that is owed, hands it on (the timer to a flush,
a flush from its read to its write), or announces the change it makes.  One fact about
the past is needed, `ClosedAtEnd`: a closed debouncer, which drops what Notify is
told, is not that of a running agent.

**`AuthProofs`**: six theorems for any number of goroutines, requests, limits and
times.  `AuthTypes`: `Spec => []TypeOK`, in two parts: `CoreType`, which is all
that sessions need, and `RestType`, with `CredInv` for what a request knows of a passkey.
`ChallengesServeOnce`: `Spec => []ChallengeOnce`, from `ChallengeInv`, which adds
that every challenge token in use is at most the last one handed out, so that a
new challenge is none that a request holds; all steps but Store and Take are
`Quiet`: they take no challenge.  `ChallengesStayBounded`: `Spec =>
[]ChallengesBounded`; map and list differ in one direction only, every challenge of the
map is in the list (`RoomInv`), so that the eviction of a full map finds one.
`SessionsStayBounded`: `Spec =>
[]SessionsBounded`, from `SessionInv` (finitely many sessions, tokens at most the
last), with the cardinality theorems for eviction (`FS_RemoveElement`) and for
Touch, which maps the set onto its image (`FS_Surjection`).  `EndedForGood`:
`Spec => EndedStaysEnded`, since only Create adds a session, with a new token, and
Touch changes only sessions that are there (`SessionSteps`); time does not go back
(`TimeNext`), so that a session nobody touches stays expired (`StaysExpired`).
`FailuresStayBounded`:
`Spec => []FailuresBounded`; the inductive form (`FailInv`) counts the failures in the
window and the requests that are past Check and may still fail together: RecordFailure
moves one from the second to the first, and only Check adds, below the limit.

**`StorageProofs`**: four theorems for any keys, profiles, goroutines, requests and
budgets, if no checkpoint runs during a copy (`TornCopy = FALSE`).
`StorageTypes` and `ProfilesThere`: `Spec => []TypeOK` and `Spec => []NoDangling`.
Neither is inductive: the tables
in use may come from any of the files, and a request works with what it read earlier.
`IInv` adds `FilesInv` (the file, its log and the backup are sound, whichever of them
will be opened next), `CopyInv` (while a copy runs it is of the file as it is now, and
a restore has a backup) and `WorkInv` (what the locals of a request hold at its step).
Statements, requests, start-up steps and restores each have a lemma that shows them to
keep `IInv`, so that an action only shows that the tables it writes are sound.
`RecoversBest`: `Spec => []BestSource`, from `SourceInv`: the file with its log is what
was last committed unless it is damaged or cut short (`DiskInv`), the backup is the one
last taken unless it is (`BackupInv`), and a level of the recovery chain is reached only
when the ones before it had nothing (`LevelInv`).  `DeletedProfilesStay`: `Spec =>
DeletedStays`, since of the statements only the creation adds a profile.

**`FirewallProofs`**: `FirewallTypes`, `Spec => []TypeOK` however calls overlap, ties
the command a call is at to its locals.  `ActivatedAtomically` and `CallsImplemented`:
`Spec => AtomicActivation` and `Spec => CallsAreAtomic`, the refinement, if calls for
one peer do not overlap (`Overlap = FALSE`), for any number of peers, destinations,
goroutines, failing commands and crashes.  Each command of a call is a stutter under the
mapping, or the last one, which must have built what the abstract step says at once.
`StepInv` says, for each command a call may be at, what of its chain and jumps is there
already (`LocalOK`), what the rows and rules were when it began (`LinkInv`, `SeenInv`),
what a peer without a call looks like (`IdleInv`) and which peers Sync has done
(`BootInv`); a peer with a failed call is exempt, as it is in the abstract
specification.

**`FrontendProofs`**: `LimiterBounds`, `LimiterSpec => []RateBound` for any rate, burst
and idle time with `Burst <= Rate * Idle`, which the code has (burst = rate, and five
minutes).  `RateBound` speaks of pairs of requests that were let through; the inductive
invariant relates each such request to the bucket: the requests since it and the tokens
left are at most `Burst + Rate * time`.  A deleted bucket stands for a full one, because
it was idle long enough; this is where the assumption is used.  `FrontendBounds`: every
step of `Frontend` is a step of the limiter or leaves it alone, so that the bound holds
there.  `MutexOwned`: `Spec => []TypeOK`, in which the mutex is held exactly by the step
that has locked it.

**Only model-checked.**  The liveness properties (`Converges`, `RowsConverge`,
`ConfConverges`, `Starts`, `Heals`, `Stops`, `FollowsDisk`), which need fairness, are
beyond the prover.  Every safety property of a passing run has its theorem; where a
theorem has an assumption, the run's instance satisfies it.

## 5. Not modelled, and the plan

Not modelled for good: parsing and formatting (configuration, the text of the
conf files, metrics, the health report), the CLI and the UI, which are clients of
the API, TLS, the TCP and management listeners and sockets as such.  `NextAddress`
reads the addresses in use and proposes one, without reserving it (what two clients
then do with it is the unique index's business, which `Agent` has), and gives up
after 65535 candidates; `DeriveIPv6` maps the host part of an IPv4 address into a
prefix, a pure function of text.  Both change no state.  Of WebAuthn only the life of
challenges, sessions and passkeys is modelled, not the protocol, which a library
implements.

Next: `PeerStores` takes a call on the firewall for one step, which `FirewallProofs`
shows of calls for different peers; a theorem that joins the two would say that `FwApply`
and `FwRemove` are the steps of `FirewallSpec` for the row they get.  And the
assumptions of the serial theorems may be weakened, say to requests that run side by side
but for different peers.
