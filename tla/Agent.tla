------------------------------- MODULE Agent --------------------------------
(***************************************************************************)
(* The agent's peer management: the API handlers that change peers         *)
(* (agent/internal/api/handlers.go), each run by an HTTP goroutine, the    *)
(* reconciliation loop (agent/internal/reconciler) and the start-up of     *)
(* cmd/wg-sockd, all working on the stores of PeerStores without a common  *)
(* transaction.  One action is one call on a store; what a handler or the  *)
(* reconciler read earlier and uses later is in its local record.          *)
(*                                                                         *)
(* The only lock is the reconciler's RWMutex: ReconcileOnce holds it for   *)
(* reading (rec.pc # "idle"), Pause for writing (mu).                      *)
(*                                                                         *)
(* Requests that fail validation change nothing and are not taken.  The    *)
(* conf file is the subject of ConfWriter; here a synchronous conf write   *)
(* succeeds or fails, which is what decides a rollback.                    *)
(***************************************************************************)
EXTENDS PeerStores

CONSTANTS Threads,      \* HTTP goroutines
          Ops,          \* the handlers that clients call, and "reconcile" if
                        \* the ticker of RunLoop fires within the behaviour
          BatchSizes,   \* lengths of a batch import
          UpdateReqs,   \* bodies of PUT /api/peers/{id}
          PskModes,     \* whether an import asks for preshared keys
          PeerLimit,    \* cfg.PeerLimit, 0 for none
          InitRows,     \* peers that exist at the start
          Budget        \* how often the environment may act

UpdateReq == [addr   : Addrs \cup {None},       \* client_address, if given
              allow  : Allows \cup {None},      \* client_allowed_ips, if given
              enable : {"keep", "on", "off"},   \* enabled, if given
              tune   : {"none", "bad", "good"}] \* endpoint or keepalive

\* Requests; calls of a handler or a pass that fail; iptables calls that fail,
\* which are logged and ignored; rollback calls that fail; peers set by hand;
\* ends of the process.
EnvKinds == {"request", "fault", "iptables", "rollback", "foreign", "crash"}

ASSUME AgentAssumption ==
    /\ Ops \subseteq {"create", "batch", "update", "rotate", "approve",
                      "delete", "reconcile"}
    /\ BatchSizes \subseteq Nat \ {0}
    /\ UpdateReqs \subseteq UpdateReq
    /\ PskModes \subseteq BOOLEAN
    /\ PeerLimit \in Nat
    /\ InitRows \subseteq Row /\ IsFiniteSet(InitRows)
    /\ \A r \in InitRows : r.id \in 1..Cardinality(InitRows)
    /\ \A q, r \in InitRows :
          q.key = r.key \/ q.id = r.id \/ (q.addr = r.addr /\ q.addr # None)
             => q = r
    /\ Budget \in [EnvKinds -> Nat]
    /\ None \notin Threads

VARIABLES db, lastId, kernel, fw,   \* the stores
          used,     \* keys that exist; key generation never repeats one
          mu,       \* the handler that has paused the reconciler, or None
          phase,    \* start-up: "boot" (ReconcileOnce), "sync" (Sync), "up"
          pc, job,  \* the goroutines: next step, and locals
          rec,      \* the reconciler: next step, and locals
          budget    \* what the environment may still do

stores == <<db, lastId, kernel, fw>>
vars   == <<stores, used, mu, phase, pc, job, rec, budget>>

\* Locals of a handler: the row it read, the rows it makes, its request, and
\* the rollback calls it still owes.
Locals(op, row, new, req) ==
    [op |-> op, row |-> row, new |-> new, req |-> req, undo |-> <<>>]

NoJob == Locals("none", None, <<>>, None)

\* Locals of ReconcileOnce: the two snapshots, the keys the current loop has
\* still to visit, and the key it is working on.
IdleRec == [pc |-> "idle", kset |-> {}, rows |-> {}, todo |-> {}, cur |-> None]

RowOf(rows, k) == CHOOSE r \in rows : r.key = k
Enabled(rows)  == {r \in rows : r.enabled}

Init ==
    /\ db = InitRows
    /\ lastId = Cardinality(InitRows)
    /\ kernel = [k \in Keys |->
                   IF k \in EnabledKeys(InitRows)
                     THEN [ips |-> IPsOf(RowOf(InitRows, k)),
                           psk |-> RowOf(InitRows, k).psk]
                     ELSE None]
    /\ fw = FwSync([chain |-> [k \in Keys |-> None], jumps |-> {}], InitRows)
    /\ used = {r.key : r \in InitRows}
    /\ mu = None
    /\ phase = "up"
    /\ pc = [t \in Threads |-> "idle"]
    /\ job = [t \in Threads |-> NoJob]
    /\ rec = IdleRec
    /\ budget = Budget

-----------------------------------------------------------------------------
(* How a handler moves on, calls and returns.                              *)

\* The environment acts: a call fails, or one of the actions outside the agent.
Spend(what) == /\ budget[what] > 0
               /\ budget' = [budget EXCEPT ![what] = @ - 1]
Fault == Spend("fault")

\* A call takes effect, or it fails, which is logged and changes what it says.
Try(kind, effect, failed) == \/ effect /\ UNCHANGED budget
                             \/ Spend(kind) /\ failed

Goto(t, step) == /\ pc' = [pc EXCEPT ![t] = step]
                 /\ UNCHANGED <<job, mu>>

\* Return: locals are gone, and a deferred Resume releases the reconciler.
Return(t) == /\ pc' = [pc EXCEPT ![t] = "idle"]
             /\ job' = [job EXCEPT ![t] = NoJob]
             /\ mu' = IF mu = t THEN None ELSE mu

\* Take the error path: the rollback calls of s in order, then return.
Unwind(t, s) == /\ pc' = [pc EXCEPT ![t] = "undo"]
                /\ job' = [job EXCEPT ![t].undo = s]
                /\ UNCHANGED mu

\* A request arrives at an idle goroutine of a running agent.
Accept(t, j, step) ==
    /\ phase = "up" /\ pc[t] = "idle" /\ j.op \in Ops
    /\ Spend("request")
    /\ pc' = [pc EXCEPT ![t] = step]
    /\ job' = [job EXCEPT ![t] = j]
    /\ UNCHANGED <<stores, mu, phase, rec>>

\* Mutant: Pause does not wait for a pass that is running.
PauseNoWait(t) ==
    /\ pc[t] = "pause" /\ mu = None
    /\ mu' = t
    /\ pc' = [pc EXCEPT ![t] = IF job[t].op = "batch" THEN "fw" ELSE "dkernel"]
    /\ UNCHANGED <<stores, used, phase, job, rec, budget>>

\* h.reconciler.Pause(): waits for ReconcileOnce and for other pausers.
Pause(t) ==
    /\ pc[t] = "pause"
    /\ mu = None /\ rec.pc = "idle"
    /\ mu' = t
    /\ pc' = [pc EXCEPT ![t] = IF job[t].op = "batch" THEN "fw" ELSE "dkernel"]
    /\ UNCHANGED <<stores, used, phase, job, rec, budget>>

-----------------------------------------------------------------------------
(* CreatePeer and BatchCreatePeers: checks and key generation, firewall,   *)
(* kernel, database, conf; the batch pauses the reconciler first.          *)

\* Mutant: allowed_ips is the client address as given, with its mask.
NewRowRaw(k, a, al, withPsk) ==
    [id |-> 0, key |-> k, addr |-> a, ips |-> a, allow |-> al,
     enabled |-> TRUE, auto |-> FALSE, psk |-> IF withPsk THEN k ELSE None]

NewRow(k, a, al, withPsk) ==
    [id |-> 0, key |-> k, addr |-> a, ips |-> HostOf[a], allow |-> al,
     enabled |-> TRUE, auto |-> FALSE, psk |-> IF withPsk THEN k ELSE None]

NewRows(t) == {job[t].new[i] : i \in DOMAIN job[t].new}
NewKeys(t) == {r.key : r \in NewRows(t)}

\* Mutant: no firewall rules before the peer is in the kernel.
CreatePeerOpen(t) ==
    \E k \in Keys \ used, a \in Addrs, al \in Allows, p \in PskModes :
       /\ PeerLimit > 0 => Cardinality(db) < PeerLimit
       /\ ~ ClientAddressTaken(db, a, None)
       /\ used' = used \cup {k}
       /\ Accept(t, Locals("create", None, <<NewRow(k, a, al, p)>>, None),
                 "kernel")

CreatePeer(t) ==
    \E k \in Keys \ used, a \in Addrs, al \in Allows, p \in PskModes :
       /\ PeerLimit > 0 => Cardinality(db) < PeerLimit
       /\ ~ ClientAddressTaken(db, a, None)
       /\ used' = used \cup {k}
       /\ Accept(t, Locals("create", None, <<NewRow(k, a, al, p)>>, None), "fw")

\* The batch does not ask whether an address is taken.
BatchCreatePeers(t) ==
    \E n \in BatchSizes :
    \E ks \in [1..n -> Keys \ used], as \in [1..n -> Addrs], al \in Allows,
       p \in PskModes :
       /\ \A i, j \in 1..n : i # j => ks[i] # ks[j]
       /\ PeerLimit > 0 => Cardinality(db) + n <= PeerLimit
       /\ used' = used \cup {ks[i] : i \in 1..n}
       /\ Accept(t, Locals("batch", None,
                           [i \in 1..n |-> NewRow(ks[i], as[i], al, p)], None),
                 "pause")

\* ApplyPeer for every new peer; one that fails is logged and passed over.
ImportFirewall(t) ==
    /\ pc[t] = "fw"
    /\ Try("iptables", fw' = FwApplyNew(fw, NewRows(t)),
           \E r \in NewRows(t) : fw' = FwApplyNew(fw, NewRows(t) \ {r}))
    /\ Goto(t, "kernel")
    /\ UNCHANGED <<db, lastId, kernel, used, phase, rec>>

ImportKernel(t) ==
    /\ pc[t] = "kernel"
    /\ \/ /\ kernel' = ConfigureNew(kernel, job[t].new)
          /\ Goto(t, "insert")
          /\ UNCHANGED budget
       \/ Fault /\ Unwind(t, <<"fw">>) /\ UNCHANGED kernel
    /\ UNCHANGED <<db, lastId, fw, used, phase, rec>>

ImportInsert(t) ==
    /\ pc[t] = "insert"
    /\ \/ /\ ~ InsertConflict(db, job[t].new)
          /\ db' = InsertRows(db, lastId, job[t].new)
          /\ lastId' = lastId + Len(job[t].new)
          /\ Goto(t, "conf")
          /\ UNCHANGED budget
       \/ /\ \/ InsertConflict(db, job[t].new) /\ UNCHANGED budget
             \/ Fault
          /\ Unwind(t, <<"fw", "kernel">>)
          /\ UNCHANGED <<db, lastId>>
    /\ UNCHANGED <<kernel, fw, used, phase, rec>>

\* Mutant: the rollback of a creation leaves the peer in the kernel.
RollbackOfInKernel(op) ==
    CASE op = "create" -> <<"fw", "db">>
      [] op = "batch"  -> <<"db", "fw", "kernel">>
      [] op = "rotate" -> <<"key", "psk", "kernel", "old">>

\* Mutant: the rollback of a rotation keeps the new preshared key.
RollbackOfKeepPsk(op) ==
    CASE op = "create" -> <<"fw", "db", "kernel">>
      [] op = "batch"  -> <<"db", "fw", "kernel">>
      [] op = "rotate" -> <<"key", "kernel", "old">>

\* rewriteConf of an import or a rotation, synchronous.
RollbackOf(op) == CASE op = "create" -> <<"fw", "db", "kernel">>
                    [] op = "batch"  -> <<"db", "fw", "kernel">>
                    [] op = "rotate" -> <<"key", "psk", "kernel", "old">>

ConfWrite(t) ==
    /\ pc[t] = "conf"
    /\ \/ /\ IF job[t].op = "rotate" THEN Goto(t, "rapply") ELSE Return(t)
          /\ UNCHANGED budget
       \/ Fault /\ Unwind(t, RollbackOf(job[t].op))
    /\ UNCHANGED <<stores, used, phase, rec>>

-----------------------------------------------------------------------------
(* The rollback calls.  A failing one is logged and the next one made.     *)

Unwinding(t, step) == pc[t] = "undo" /\ Head(job[t].undo) = step

NextUndo(t) ==
    IF Len(job[t].undo) > 1
      THEN /\ job' = [job EXCEPT ![t].undo = Tail(@)]
           /\ UNCHANGED <<pc, mu>>
      ELSE Return(t)

UndoFirewall(t) ==
    /\ Unwinding(t, "fw")
    /\ Try("iptables", fw' = FwRemoveNew(fw, NewRows(t)),
           \E r \in NewRows(t) : fw' = FwRemoveNew(fw, NewRows(t) \ {r}))
    /\ NextUndo(t)
    /\ UNCHANGED <<db, lastId, kernel, used, phase, rec>>

\* A loop over the keys; one call of it may fail.
UndoDB(t) ==
    /\ Unwinding(t, "db")
    /\ Try("rollback", db' = DeleteRows(db, NewKeys(t)),
           \E k \in NewKeys(t) : db' = DeleteRows(db, NewKeys(t) \ {k}))
    /\ NextUndo(t)
    /\ UNCHANGED <<lastId, kernel, fw, used, phase, rec>>

UndoKernel(t) ==
    /\ Unwinding(t, "kernel")
    /\ Try("rollback", kernel' = RemovePeers(kernel, NewKeys(t)),
           \E k \in NewKeys(t) :
              kernel' = RemovePeers(kernel, NewKeys(t) \ {k}))
    /\ NextUndo(t)
    /\ UNCHANGED <<db, lastId, fw, used, phase, rec>>

\* UpdatePeerPublicKey(new, old), refused by the index if old is back.
UndoKey(t) ==
    /\ Unwinding(t, "key")
    /\ LET old == job[t].row.key   new == job[t].new[1].key
       IN  Try("rollback",
               db' = IF HasKey(db, old) THEN db
                     ELSE UpdateRows(db, new,
                                     [r \in db |-> [r EXCEPT !.key = old]]),
               UNCHANGED db)
    /\ NextUndo(t)
    /\ UNCHANGED <<lastId, kernel, fw, used, phase, rec>>

UndoPsk(t) ==
    /\ Unwinding(t, "psk")
    /\ Try("rollback",
           db' = UpdateRows(db, job[t].row.key,
                            [r \in db |-> [r EXCEPT !.psk = job[t].row.psk]]),
           UNCHANGED db)
    /\ NextUndo(t)
    /\ UNCHANGED <<lastId, kernel, fw, used, phase, rec>>

\* Re-add the old peer as it was when the handler read it.
UndoOld(t) ==
    /\ Unwinding(t, "old")
    /\ LET r == job[t].row
       IN  Try("rollback",
               kernel' = ConfigurePeer(kernel, r.key, IPsOf(r), r.psk, FALSE),
               UNCHANGED kernel)
    /\ NextUndo(t)
    /\ UNCHANGED <<db, lastId, fw, used, phase, rec>>

-----------------------------------------------------------------------------
(* UpdatePeer.  The kernel follows the address first, then the endpoint and *)
(* keepalive are validated, then the row is updated, then the firewall.     *)

\* Mutant: the first address of a peer is not taken for a change.
MovesFromSet(t) == /\ job[t].row.addr # None
                   /\ job[t].req.addr \notin {None, job[t].row.addr}

\* needsWgUpdate, before the endpoint is looked at
Moves(t) == job[t].req.addr \notin {None, job[t].row.addr}

\* Mutant: the rules do not follow the address.
FirewallRelevantNoAddr(q) == q.allow # None \/ q.enable # "keep"

FirewallRelevant(q) == q.addr # None \/ q.allow # None \/ q.enable # "keep"

UpdatePeer(t) ==
    \E r \in db, q \in UpdateReqs :
       /\ q.addr # None => ~ ClientAddressTaken(db, q.addr, r.key)
       /\ Accept(t, Locals("update", r, <<>>, q),
                 IF q.addr \notin {None, r.addr} THEN "ukernel" ELSE "utune")
       /\ UNCHANGED used

UpdateKernel(t) ==
    /\ pc[t] = "ukernel"
    /\ \/ /\ kernel' = ConfigurePeer(kernel, job[t].row.key,
                                     {HostOf[job[t].req.addr]}, None, TRUE)
          /\ Goto(t, "utune")
          /\ UNCHANGED budget
       \/ Fault /\ Return(t) /\ UNCHANGED kernel
    /\ UNCHANGED <<db, lastId, fw, used, phase, rec>>

\* A bad endpoint or keepalive ends the request here, after the kernel change.
UpdateTune(t) ==
    /\ pc[t] = "utune"
    /\ \/ /\ job[t].req.tune = "bad"
          /\ Return(t)
          /\ UNCHANGED <<kernel, budget>>
       \/ /\ job[t].req.tune = "none"
          /\ Goto(t, "udb")
          /\ UNCHANGED <<kernel, budget>>
       \/ /\ job[t].req.tune = "good"
          /\ Goto(t, "udb")
          /\ Try("fault",
                 kernel' = ConfigurePeer(kernel, job[t].row.key,
                                         {}, None, FALSE),
                 UNCHANGED kernel)
    /\ UNCHANGED <<db, lastId, fw, used, phase, rec>>

UpdateDB(t) ==
    /\ pc[t] = "udb"
    /\ LET q == job[t].req
           k == job[t].row.key
           refused == \/ ~ HasKey(db, k)
                      \/ q.addr # None /\ ClientAddressTaken(db, q.addr, k)
           set == [r \in db |->
                     [r EXCEPT
                        !.addr    = IF q.addr = None THEN @ ELSE q.addr,
                        !.ips     = IF Moves(t) THEN HostOf[q.addr] ELSE @,
                        !.allow   = IF q.allow = None THEN @ ELSE q.allow,
                        !.enabled = IF q.enable = "keep" THEN @
                                                         ELSE q.enable = "on"]]
       IN  \/ /\ ~ refused
              /\ db' = UpdateRows(db, k, set)
              /\ IF ~ FirewallRelevant(q) THEN Return(t)
                 ELSE Goto(t, IF Moves(t) THEN "ufw" ELSE "reread")
              /\ UNCHANGED budget
           \/ /\ \/ refused /\ UNCHANGED budget
                 \/ Fault
              /\ Return(t)
              /\ UNCHANGED db
    /\ UNCHANGED <<lastId, kernel, fw, used, phase, rec>>

UpdateFirewall(t) ==
    /\ pc[t] = "ufw"
    /\ Try("iptables", fw' = FwRemove(fw, job[t].row), UNCHANGED fw)
    /\ Goto(t, "reread")
    /\ UNCHANGED <<db, lastId, kernel, used, phase, rec>>

\* UpdatePeer and ApprovePeer read the row again, by id, for the firewall.
Reread(t) ==
    /\ pc[t] = "reread"
    /\ \/ /\ \E r \in db : /\ r.id = job[t].row.id
                           /\ job' = [job EXCEPT ![t].row = r]
          /\ pc' = [pc EXCEPT ![t] = "apply"]
          /\ UNCHANGED <<mu, budget>>
       \/ /\ \/ (\A r \in db : r.id # job[t].row.id) /\ UNCHANGED budget
             \/ Fault
          /\ Return(t)
    /\ UNCHANGED <<stores, used, phase, rec>>

ApplyReread(t) ==
    /\ pc[t] = "apply"
    /\ Try("iptables", fw' = FwApply(fw, job[t].row), UNCHANGED fw)
    /\ Return(t)
    /\ UNCHANGED <<db, lastId, kernel, used, phase, rec>>

-----------------------------------------------------------------------------
(* RotateKeys: the new key replaces the old one in the firewall, the kernel *)
(* and the database, without a pause of the reconciler.                     *)

\* The row under its new key, with a new preshared key if it had one.
Rotated(r, k) == [r EXCEPT !.key = k,
                           !.psk = IF @ = None THEN None ELSE k]

RotateKeys(t) ==
    \E r \in db, k \in Keys \ used :
       /\ used' = used \cup {k}
       /\ Accept(t, Locals("rotate", r, <<Rotated(r, k)>>, None), "rfw")

RotateFirewall(t) ==
    /\ pc[t] = "rfw"
    /\ Try("iptables", fw' = FwRemove(fw, job[t].row), UNCHANGED fw)
    /\ Goto(t, "rremove")
    /\ UNCHANGED <<db, lastId, kernel, used, phase, rec>>

\* Mutant: the old key stays in the kernel.
RotateRemoveNot(t) ==
    /\ pc[t] = "rremove"
    /\ Goto(t, "radd")
    /\ UNCHANGED <<stores, used, phase, rec, budget>>

RotateRemove(t) ==
    /\ pc[t] = "rremove"
    /\ Try("fault", kernel' = RemovePeers(kernel, {job[t].row.key}),
           UNCHANGED kernel)
    /\ Goto(t, "radd")
    /\ UNCHANGED <<db, lastId, fw, used, phase, rec>>

RotateAdd(t) ==
    /\ pc[t] = "radd"
    /\ \/ /\ kernel' = ConfigureNew(kernel, job[t].new)
          /\ Goto(t, "rkey")
          /\ UNCHANGED budget
       \/ Fault /\ Unwind(t, <<"old">>) /\ UNCHANGED kernel
    /\ UNCHANGED <<db, lastId, fw, used, phase, rec>>

RotateKey(t) ==
    /\ pc[t] = "rkey"
    /\ LET old == job[t].row.key   new == job[t].new[1].key
           refused == ~ HasKey(db, old) \/ HasKey(db, new)
       IN  \/ /\ ~ refused
              /\ db' = UpdateRows(db, old,
                                  [r \in db |-> [r EXCEPT !.key = new]])
              /\ Goto(t, IF job[t].row.psk = None THEN "conf" ELSE "rpsk")
              /\ UNCHANGED budget
           \/ /\ \/ refused /\ UNCHANGED budget
                 \/ Fault
              /\ Unwind(t, <<"kernel", "old">>)
              /\ UNCHANGED db
    /\ UNCHANGED <<lastId, kernel, fw, used, phase, rec>>

RotatePsk(t) ==
    /\ pc[t] = "rpsk"
    /\ LET new == job[t].new[1]
       IN  \/ /\ HasKey(db, new.key)
              /\ db' = UpdateRows(db, new.key,
                                  [r \in db |-> [r EXCEPT !.psk = new.psk]])
              /\ Goto(t, "conf")
              /\ UNCHANGED budget
           \/ /\ \/ ~ HasKey(db, new.key) /\ UNCHANGED budget
                 \/ Fault
              /\ Unwind(t, <<"key", "kernel", "old">>)
              /\ UNCHANGED db
    /\ UNCHANGED <<lastId, kernel, fw, used, phase, rec>>

\* The row the handler read at the start, under the new key.
RotateApply(t) ==
    /\ pc[t] = "rapply"
    /\ Try("iptables", fw' = FwApply(fw, job[t].new[1]), UNCHANGED fw)
    /\ Return(t)
    /\ UNCHANGED <<db, lastId, kernel, used, phase, rec>>

-----------------------------------------------------------------------------
(* ApprovePeer: the database in two statements, then the kernel, firewall.  *)

ApprovePeer(t) ==
    \E r \in db, a \in Addrs, al \in Allows :
       /\ r.auto /\ ~ r.enabled
       /\ ~ ClientAddressTaken(db, a, r.key)
       /\ Accept(t, Locals("approve", r, <<>>,
                           [addr |-> a, allow |-> al, enable |-> "on",
                            tune |-> "none"]), "adb")
       /\ UNCHANGED used

ApproveDB(t) ==
    /\ pc[t] = "adb"
    /\ LET q == job[t].req   k == job[t].row.key
           refused == ~ HasKey(db, k) \/ ClientAddressTaken(db, q.addr, k)
           set == [r \in db |-> [r EXCEPT !.addr = q.addr,
                                           !.ips = HostOf[q.addr],
                                           !.allow = q.allow,
                                           !.enabled = TRUE]]
       IN  \/ /\ ~ refused
              /\ db' = UpdateRows(db, k, set)
              /\ Goto(t, "aflag")
              /\ UNCHANGED budget
           \/ /\ \/ refused /\ UNCHANGED budget
                 \/ Fault
              /\ Return(t)
              /\ UNCHANGED db
    /\ UNCHANGED <<lastId, kernel, fw, used, phase, rec>>

ApproveFlag(t) ==
    /\ pc[t] = "aflag"
    /\ LET k == job[t].row.key
       IN  \/ /\ HasKey(db, k)
              /\ db' = UpdateRows(db, k, [r \in db |->
                                         [r EXCEPT !.enabled = TRUE,
                                                   !.auto = FALSE]])
              /\ Goto(t, "akernel")
              /\ UNCHANGED budget
           \/ /\ \/ ~ HasKey(db, k) /\ UNCHANGED budget
                 \/ Fault
              /\ Return(t)
              /\ UNCHANGED db
    /\ UNCHANGED <<lastId, kernel, fw, used, phase, rec>>

ApproveKernel(t) ==
    /\ pc[t] = "akernel"
    /\ Try("fault",
           kernel' = ConfigurePeer(kernel, job[t].row.key,
                                   {HostOf[job[t].req.addr]}, None, TRUE),
           UNCHANGED kernel)
    /\ Goto(t, "reread")
    /\ UNCHANGED <<db, lastId, fw, used, phase, rec>>

-----------------------------------------------------------------------------
(* DeletePeer: reads the row, then pauses the reconciler for the rest.      *)

DeletePeer(t) ==
    \E r \in db :
       /\ Accept(t, Locals("delete", r, <<>>, None), "pause")
       /\ UNCHANGED used

DeleteKernel(t) ==
    /\ pc[t] = "dkernel"
    /\ Try("fault", kernel' = RemovePeers(kernel, {job[t].row.key}),
           UNCHANGED kernel)
    /\ Goto(t, "ddb")
    /\ UNCHANGED <<db, lastId, fw, used, phase, rec>>

DeleteDB(t) ==
    /\ pc[t] = "ddb"
    /\ LET k == job[t].row.key
       IN  \/ /\ HasKey(db, k)
              /\ db' = DeleteRows(db, {k})
              /\ Goto(t, "dfw")
              /\ UNCHANGED budget
           \/ /\ \/ ~ HasKey(db, k) /\ UNCHANGED budget
                 \/ Fault
              /\ Return(t)
              /\ UNCHANGED db
    /\ UNCHANGED <<lastId, kernel, fw, used, phase, rec>>

DeleteFirewall(t) ==
    /\ pc[t] = "dfw"
    /\ Try("iptables", fw' = FwRemove(fw, job[t].row), UNCHANGED fw)
    /\ Return(t)
    /\ UNCHANGED <<db, lastId, kernel, used, phase, rec>>

-----------------------------------------------------------------------------
(* ReconcileOnce, from RunLoop and once at start-up.                        *)

RecVars == <<used, mu, pc, job>>

\* Mutant: a pass does not take the lock.
RecDeviceNoLock ==
    /\ rec.pc = "idle"
    /\ \/ phase = "boot"
       \/ phase = "up" /\ "reconcile" \in Ops
    /\ rec' = [rec EXCEPT !.pc = "list", !.kset = KernelKeys(kernel)]
    /\ UNCHANGED <<stores, RecVars, phase, budget>>

\* RLock and GetDevice.  On an error the pass is over (at boot: go on to Sync).
RecDevice ==
    /\ rec.pc = "idle" /\ mu = None
    /\ \/ phase = "boot"
       \/ phase = "up" /\ "reconcile" \in Ops
    /\ \/ /\ rec' = [rec EXCEPT !.pc = "list", !.kset = KernelKeys(kernel)]
          /\ UNCHANGED <<phase, budget>>
       \/ /\ Fault
          /\ phase' = IF phase = "boot" THEN "sync" ELSE phase
          /\ UNCHANGED rec
    /\ UNCHANGED <<stores, RecVars>>

\* RUnlock at the end of a pass.
RecReturn == /\ rec' = IdleRec
             /\ phase' = IF phase = "boot" THEN "sync" ELSE phase

\* Mutant: a kernel peer with a disabled row is taken for a known one.
RecListZombies ==
    /\ rec.pc = "list"
    /\ rec' = [rec EXCEPT !.pc = "kernel", !.rows = db,
                          !.todo = {k \in rec.kset : ~ HasKey(db, k)}]
    /\ UNCHANGED <<stores, RecVars, phase, budget>>

\* ListPeers.  Step 1 visits the kernel peers without an enabled row.
RecList ==
    /\ rec.pc = "list"
    /\ \/ /\ rec' = [rec EXCEPT !.pc = "kernel", !.rows = db,
                                !.todo = rec.kset \ EnabledKeys(db)]
          /\ UNCHANGED <<phase, budget>>
       \/ Fault /\ RecReturn
    /\ UNCHANGED <<stores, RecVars>>

\* A zombie or an unknown peer leaves the kernel.
RecRemove ==
    /\ rec.pc = "kernel"
    /\ \E k \in rec.todo :
          /\ Try("fault", kernel' = RemovePeers(kernel, {k}),
                 UNCHANGED kernel)
          /\ rec' = [rec EXCEPT !.cur = k,
                       !.pc = IF HasKey(rec.rows, k) THEN "zombie"
                                                     ELSE "unknown"]
    /\ UNCHANGED <<db, lastId, fw, phase, RecVars>>

RecZombieFirewall ==
    /\ rec.pc = "zombie"
    /\ Try("iptables", fw' = FwRemove(fw, RowOf(rec.rows, rec.cur)),
           UNCHANGED fw)
    /\ rec' = [rec EXCEPT !.pc = "kernel", !.todo = @ \ {rec.cur}, !.cur = None]
    /\ UNCHANGED <<db, lastId, kernel, phase, RecVars>>

\* INSERT OR IGNORE of a disabled, auto-discovered row.
RecUpsert ==
    /\ rec.pc = "unknown"
    /\ \/ /\ ~ HasKey(db, rec.cur)
          /\ db' = db \cup {QuarantineRow(lastId, rec.cur)}
          /\ lastId' = lastId + 1
          /\ UNCHANGED budget
       \/ /\ \/ HasKey(db, rec.cur) /\ UNCHANGED budget
             \/ Fault
          /\ UNCHANGED <<db, lastId>>
    /\ rec' = [rec EXCEPT !.pc = "kernel", !.todo = @ \ {rec.cur}, !.cur = None]
    /\ UNCHANGED <<kernel, fw, phase, RecVars>>

\* Mutant: disabled rows are re-added too.
RecMissingAll ==
    /\ rec.pc = "kernel" /\ rec.todo = {}
    /\ rec' = [rec EXCEPT !.pc = "missing",
                          !.todo = {r.key : r \in rec.rows} \ rec.kset]
    /\ UNCHANGED <<stores, phase, budget, RecVars>>

\* Step 2 visits the enabled rows that the kernel snapshot lacks.
RecMissing ==
    /\ rec.pc = "kernel" /\ rec.todo = {}
    /\ rec' = [rec EXCEPT !.pc = "missing",
                          !.todo = EnabledKeys(rec.rows) \ rec.kset]
    /\ UNCHANGED <<stores, phase, budget, RecVars>>

RecReadd ==
    /\ rec.pc = "missing"
    /\ \E k \in rec.todo :
         LET r == RowOf(rec.rows, k)
         IN  \/ /\ kernel' = ConfigurePeer(kernel, k, IPsOf(r), r.psk, FALSE)
                /\ rec' = [rec EXCEPT !.pc = "readded", !.cur = k]
                /\ UNCHANGED budget
             \/ /\ Fault
                /\ rec' = [rec EXCEPT !.todo = @ \ {k}]
                /\ UNCHANGED kernel
    /\ UNCHANGED <<db, lastId, fw, phase, RecVars>>

RecReaddFirewall ==
    /\ rec.pc = "readded"
    /\ Try("iptables", fw' = FwApply(fw, RowOf(rec.rows, rec.cur)),
           UNCHANGED fw)
    /\ rec' = [rec EXCEPT !.pc = "missing", !.todo = @ \ {rec.cur},
                          !.cur = None]
    /\ UNCHANGED <<db, lastId, kernel, phase, RecVars>>

\* The conf file and last_seen_endpoint, outside this module; RUnlock.
RecDone ==
    /\ rec.pc = "missing" /\ rec.todo = {}
    /\ RecReturn
    /\ UNCHANGED <<stores, budget, RecVars>>

\* Start-up after the first pass: Sync(ListPeers()), then serve and loop.
FirewallSync ==
    /\ phase = "sync"
    /\ phase' = "up"
    /\ Try("iptables", fw' = FwSync(fw, db), UNCHANGED fw)
    /\ UNCHANGED <<db, lastId, kernel, rec, RecVars>>

-----------------------------------------------------------------------------
(* Outside the agent: wg(8) on the command line, and the end of the process.*)

ForeignAdd ==
    /\ Spend("foreign")
    /\ \E k \in Keys \ used, h \in Hosts :
          /\ kernel' = ConfigurePeer(kernel, k, {h}, None, FALSE)
          /\ used' = used \cup {k}
    /\ UNCHANGED <<db, lastId, fw, mu, phase, pc, job, rec>>

ForeignRemove ==
    /\ Spend("foreign")
    /\ \E k \in KernelKeys(kernel) : kernel' = RemovePeers(kernel, {k})
    /\ UNCHANGED <<db, lastId, fw, used, mu, phase, pc, job, rec>>

\* The stores survive; goroutines, locals and the lock do not.
Crash ==
    /\ Spend("crash")
    /\ phase' = "boot"
    /\ mu' = None
    /\ pc' = [t \in Threads |-> "idle"]
    /\ job' = [t \in Threads |-> NoJob]
    /\ rec' = IdleRec
    /\ UNCHANGED <<stores, used>>

-----------------------------------------------------------------------------

Request(t) == \/ CreatePeer(t) \/ BatchCreatePeers(t) \/ UpdatePeer(t)
              \/ RotateKeys(t) \/ ApprovePeer(t)      \/ DeletePeer(t)

Import(t) == \/ ImportFirewall(t) \/ ImportKernel(t) \/ ImportInsert(t)
             \/ ConfWrite(t)

Undo(t) == \/ UndoFirewall(t) \/ UndoDB(t)  \/ UndoKernel(t)
           \/ UndoKey(t)      \/ UndoPsk(t) \/ UndoOld(t)

Update(t) == \/ UpdateKernel(t) \/ UpdateTune(t) \/ UpdateDB(t)
             \/ UpdateFirewall(t) \/ Reread(t) \/ ApplyReread(t)

Rotate(t) == \/ RotateFirewall(t) \/ RotateRemove(t) \/ RotateAdd(t)
             \/ RotateKey(t) \/ RotatePsk(t) \/ RotateApply(t)

Approve(t) == ApproveDB(t) \/ ApproveFlag(t) \/ ApproveKernel(t)

Delete(t) == DeleteKernel(t) \/ DeleteDB(t) \/ DeleteFirewall(t)

Handler(t) == \/ Import(t) \/ Undo(t) \/ Update(t) \/ Rotate(t)
              \/ Approve(t) \/ Delete(t)

Reconcile == \/ RecDevice \/ RecList \/ RecRemove \/ RecZombieFirewall
             \/ RecUpsert \/ RecMissing \/ RecReadd \/ RecReaddFirewall
             \/ RecDone

Environment == ForeignAdd \/ ForeignRemove \/ Crash

Next == \/ \E t \in Threads : Request(t) \/ Pause(t) \/ Handler(t)
        \/ Reconcile
        \/ FirewallSync
        \/ Environment

Spec == Init /\ [][Next]_vars

\* A started handler goes on; the ticker keeps firing; a waiting writer of an
\* RWMutex is served although readers come again and again.
Fairness == /\ \A t \in Threads : WF_vars(Handler(t)) /\ SF_vars(Pause(t))
            /\ WF_vars(Reconcile)
            /\ WF_vars(FirewallSync)

FairSpec == Spec /\ Fairness

-----------------------------------------------------------------------------
(* Properties. *)

Steps == {"idle", "pause", "fw", "kernel", "insert", "conf", "undo",
          "ukernel", "utune", "udb", "ufw", "reread", "apply",
          "rfw", "rremove", "radd", "rkey", "rpsk", "rapply",
          "adb", "aflag", "akernel", "dkernel", "ddb", "dfw"}

Job == [op   : {"none", "create", "batch", "update", "rotate", "approve",
                "delete"},
        row  : Row \cup {None},
        new  : Seq(Row),
        req  : UpdateReq \cup {None},
        undo : Seq({"fw", "db", "kernel", "key", "psk", "old"})]

RecState == [pc   : {"idle", "list", "kernel", "zombie", "unknown", "missing",
                     "readded"},
             kset : SUBSET Keys,
             rows : SUBSET Row,
             todo : SUBSET Keys,
             cur  : Keys \cup {None}]

\* Every variable has its type: no handler or reconciler step writes a store
\* or a local of another shape.
TypeOK ==
    /\ db \subseteq Row /\ lastId \in Nat
    /\ kernel \in [Keys -> KernelPeer \cup {None}]
    /\ fw \in Firewall
    /\ used \subseteq Keys
    /\ mu \in Threads \cup {None}
    /\ phase \in {"boot", "sync", "up"}
    /\ pc \in [Threads -> Steps]
    /\ job \in [Threads -> Job]
    /\ rec \in RecState
    /\ budget \in [EnvKinds -> Nat]

\* No goroutine is inside a handler and no pass is running.
Quiet == /\ phase = "up" /\ rec.pc = "idle"
         /\ \A t \in Threads : pc[t] = "idle"

\* What ReconcileOnce decides from its two snapshots is still right about the
\* database when it acts on it: a peer it re-adds to the kernel has an enabled
\* row, a peer it drops as a zombie has a row and none that is enabled, a peer
\* it drops as unknown has no row.  This is what Pause is for.
PassMatchesDB ==
    /\ rec.pc = "readded" => rec.cur \in EnabledKeys(db)
    /\ rec.pc = "zombie"  => /\ HasKey(db, rec.cur)
                             /\ rec.cur \notin EnabledKeys(db)
    /\ rec.pc = "unknown" => ~ HasKey(db, rec.cur)

\* The kernel write and the database commit of an import are atomic for the
\* reconciler: no pass ever quarantines a peer that an import is creating
\* (handlers.go: "Without this, the reconciler could see peers in the kernel
\* that are not yet in DB and delete them").
ImportUnseen ==
    \A t \in Threads : \A r \in db : r.auto => r.key \notin NewKeys(t)

\* k is a peer with an address of the host h: in the table, or being created.
HasAddress(k, h) ==
    \E r \in db \cup UNION {NewRows(t) : t \in Threads} :
       r.key = k /\ r.addr # None /\ HostOf[r.addr] = h

\* docs/firewall.md, zero exposure window: whatever the kernel routes to a peer
\* that an import has put there, and that it is not rolling back, meets a chain
\* with its rules in place.  It is the peer's own chain, or one of a peer that
\* has an address of the same host too: IsClientAddressTaken compares addresses
\* as text and the batch does not ask, and of two jumps for a host the older
\* one decides.
NeverExposed ==
    \A k \in KernelKeys(kernel) :
       ~ (\E t \in Threads : pc[t] = "undo" /\ k \in NewKeys(t))
          => \A h \in kernel[k].ips :
                /\ k \in Deciders(fw, h)
                /\ \A d \in Deciders(fw, h) : Complete(fw, d) /\ HasAddress(d, h)

\* A failed request leaves nothing behind: between requests the kernel has
\* exactly the enabled peers, and no chain or jump belongs to another key.
NoResidue ==
    Quiet => /\ KernelKeys(kernel) = EnabledKeys(db)
             /\ \A k \in Keys : fw.chain[k] # None => k \in EnabledKeys(db)
             /\ \A j \in fw.jumps : j[2] \in EnabledKeys(db)

RowsInKernel == \A r \in Enabled(db) : /\ kernel[r.key] # None
                                       /\ kernel[r.key].psk = r.psk
                                       /\ kernel[r.key].ips = IPsOf(r)

\* Between requests, and no call has failed so far.
Calm == Quiet /\ budget["fault"] = Budget["fault"]

\* Between requests the traffic of an enabled peer of the kernel is decided by
\* its own chain and no other, as long as no call has failed and no two addresses
\* share a host: no handler's end or early return leaves it without rules, or
\* leaves a jump for its address to the chain of another.
Confined == Calm => \A k \in KernelKeys(kernel) \cap EnabledKeys(db) :
                       Filtered(kernel, fw, k)

\* Between requests, as long as no call has failed, a key that no row has is
\* not in the kernel: a rotation or a deletion that has been answered has
\* revoked the key.
RevokedIsOut == Calm => \A k \in KernelKeys(kernel) : HasKey(db, k)

\* A rotation that fails, at whichever call, has undone itself when it answers:
\* the row is the one the handler read, the new key is gone, and the kernel has
\* the old key of an enabled row with its routes and preshared key.  Of a
\* disabled row nothing is said: the rollback puts its key into the kernel too,
\* where it was not before (DisabledIsOut).
RotationUndone ==
    [][\A t \in Threads :
          pc[t] = "undo" /\ job[t].op = "rotate" /\ pc'[t] = "idle"
             => LET r == job[t].row
                IN  /\ r \in db'
                    /\ r.enabled => kernel'[r.key] = [ips |-> IPsOf(r),
                                                      psk |-> r.psk]
                    /\ kernel'[job[t].new[1].key] = None]_vars

\* reconciler.go, "peer is known but disabled -- must not be in kernel": between
\* requests no key of a disabled row is in the kernel.  RotateKeys does not look
\* at enabled, so that this does not hold of it.
DisabledIsOut == Calm => \A r \in db : ~ r.enabled => kernel[r.key] = None

\* The two address columns of a row agree: allowed_ips is the /32 of
\* client_address, whichever handlers wrote the row in whichever order.
AddressRoutes == \A r \in db : r.addr # None => r.ips = HostOf[r.addr]

\* A start-up pass repairs whatever a crash left: when it is over, and no call
\* has failed, the kernel has exactly the enabled peers.
BootRepairs ==
    phase = "sync" /\ budget["fault"] = Budget["fault"]
       => KernelKeys(kernel) = EnabledKeys(db)

\* Once the environment is quiet, the reconciler brings the kernel to the
\* enabled peers of the database and keeps it there.
Converges == <>[](KernelKeys(kernel) = EnabledKeys(db))

\* README.md, "kernel <-> database sync every 30s ensures consistency": and it
\* brings their preshared keys and routes to what the rows say.
RowsConverge == <>[]RowsInKernel
=============================================================================
