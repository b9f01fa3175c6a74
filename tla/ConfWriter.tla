----------------------------- MODULE ConfWriter -----------------------------
(***************************************************************************)
(* The writers of the WireGuard conf file (agent/internal/confwriter): the *)
(* handlers that change peers, the debounce timer, the reconciler and the  *)
(* shutdown, which must leave in the file the peers of the database.       *)
(*                                                                         *)
(* db and conf are the sets of enabled peers in the database and in the    *)
(* [Peer] sections of the file.  Every writer reads the database first and *)
(* writes what it read later.  WriteConf is one action: SharedWriter's     *)
(* mutex serialises it, and a rename makes it atomic on the disk.          *)
(*                                                                         *)
(* DebouncedWriter.mu guards pending, the timer and closed; each section   *)
(* it protects is one action.                                              *)
(***************************************************************************)
EXTENDS Naturals, FiniteSets

CONSTANTS Peers,
          InitPeers,    \* enabled peers at the start
          Threads,      \* HTTP goroutines
          Flushers,     \* goroutines that may run a timer's flush at a time
          Closer,       \* the shutdown goroutine, which runs flush too
          Ops,          \* "notify", "toggle", "direct": handlers; "reconcile"
          Budget        \* how often the environment may act

EnvKinds == {"request", "read", "write", "stop", "timeout", "crash"}

ASSUME ConfAssumption ==
    /\ InitPeers \subseteq Peers
    /\ Ops \subseteq {"notify", "toggle", "direct", "reconcile"}
    /\ Closer \notin Flushers
    /\ Budget \in [EnvKinds -> Nat]

VARIABLES db, conf,
          pending, armed, closed,   \* DebouncedWriter; armed: the timer runs
          phase,    \* "boot", "up", "closing", "draining", "stopped"
          hpc, job, \* handlers: next step; peers out and in, peers read
          flush,    \* the calls of flush: next step, peers read
          rec,      \* rewriteConf of a pass: next step, peers read
          budget

debouncer == <<pending, armed, closed>>
vars == <<db, conf, debouncer, phase, hpc, job, flush, rec, budget>>

Workers == Flushers \cup {Closer}
NoJob   == [out |-> {}, in |-> {}, snap |-> {}]
Idle    == [pc |-> "idle", snap |-> {}]

Init ==
    /\ db = InitPeers /\ conf = InitPeers
    /\ pending = FALSE /\ armed = FALSE /\ closed = FALSE
    /\ phase = "up"
    /\ hpc = [t \in Threads |-> "idle"]
    /\ job = [t \in Threads |-> NoJob]
    /\ flush = [w \in Workers |-> Idle]
    /\ rec = Idle
    /\ budget = Budget

Spend(what) == /\ budget[what] > 0
               /\ budget' = [budget EXCEPT ![what] = @ - 1]

-----------------------------------------------------------------------------
(* Handlers.  DeletePeer, ApprovePeer and an UpdatePeer with a new address,  *)
(* endpoint or keepalive call notifyConfChange; an UpdatePeer that only      *)
(* enables or disables a peer does not.  CreatePeer, BatchCreatePeers and    *)
(* RotateKeys call rewriteConf and undo their change if it fails.            *)

Goto(t, step) == hpc' = [hpc EXCEPT ![t] = step]

Change(t, out, in, step) ==
    /\ phase \in {"up", "closing"} /\ hpc[t] = "idle"
    /\ Spend("request")
    /\ db' = (db \ out) \cup in
    /\ job' = [job EXCEPT ![t] = [out |-> out, in |-> in, snap |-> {}]]
    /\ Goto(t, step)
    /\ UNCHANGED <<conf, debouncer, phase, flush, rec>>

AtMostOne(S) == {{}} \cup {{p} : p \in S}

\* one peer goes, one comes, or one takes the place of another
Mutate(t) ==
    /\ "notify" \in Ops
    /\ \E out \in AtMostOne(db), in \in AtMostOne(Peers \ db) :
          out \cup in # {} /\ Change(t, out, in, "notify")

\* enabled = true or false, and needsWgUpdate stays false
Toggle(t) ==
    /\ "toggle" \in Ops
    /\ \E p \in Peers : Change(t, {p} \cap db, {p} \ db, "idle")

\* a new peer, in the place of one that is rotated out or of none
Import(t) ==
    /\ "direct" \in Ops
    /\ \E out \in AtMostOne(db), p \in Peers \ db : Change(t, out, {p}, "list")

Notify(t) ==
    /\ hpc[t] = "notify"
    /\ IF closed THEN UNCHANGED <<pending, armed>>
                 ELSE pending' = TRUE /\ armed' = TRUE
    /\ Goto(t, "idle")
    /\ UNCHANGED <<db, conf, closed, phase, job, flush, rec, budget>>

\* buildPeerConfs
List(t) ==
    /\ hpc[t] = "list"
    /\ \/ /\ job' = [job EXCEPT ![t].snap = db]
          /\ Goto(t, "cancel")
          /\ UNCHANGED budget
       \/ Spend("read") /\ Goto(t, "rollback") /\ UNCHANGED job
    /\ UNCHANGED <<db, conf, debouncer, phase, flush, rec>>

\* DirectWrite: cancel any pending debounced write, ...
Cancel(t) ==
    /\ hpc[t] = "cancel"
    /\ pending' = FALSE /\ armed' = FALSE
    /\ Goto(t, "write")
    /\ UNCHANGED <<db, conf, closed, phase, job, flush, rec, budget>>

\* ... and write the peers that were read before.
DirectWrite(t) ==
    /\ hpc[t] = "write"
    /\ \/ conf' = job[t].snap /\ Goto(t, "idle") /\ UNCHANGED budget
       \/ Spend("write") /\ Goto(t, "rollback") /\ UNCHANGED conf
    /\ UNCHANGED <<db, debouncer, phase, job, flush, rec>>

\* No conf write follows; a peer that has gone meanwhile brings none back.
Rollback(t) ==
    /\ hpc[t] = "rollback"
    /\ db' = IF job[t].in \subseteq db THEN (db \ job[t].in) \cup job[t].out
                                       ELSE db
    /\ Goto(t, "idle")
    /\ UNCHANGED <<conf, debouncer, phase, job, flush, rec, budget>>

-----------------------------------------------------------------------------
(* The debounce timer and flush.                                            *)

\* The window has passed: the timer's function starts in a goroutine, which a
\* later Stop of the timer does not stop.
Fire(w) ==
    /\ armed /\ w \in Flushers /\ flush[w].pc = "idle"
    /\ armed' = FALSE
    /\ flush' = [flush EXCEPT ![w].pc = "take"]
    /\ UNCHANGED <<db, conf, pending, closed, phase, hpc, job, rec, budget>>

Take(w) ==
    /\ flush[w].pc = "take"
    /\ flush' = [flush EXCEPT ![w].pc = IF pending THEN "read" ELSE "idle"]
    /\ pending' = FALSE
    /\ UNCHANGED <<db, conf, armed, closed, phase, hpc, job, rec, budget>>

\* getPeers returns nil when ListPeers fails, and flush goes on with it.
Read(w) ==
    /\ flush[w].pc = "read"
    /\ \/ /\ flush' = [flush EXCEPT ![w] = [pc |-> "write", snap |-> db]]
          /\ UNCHANGED budget
       \/ /\ Spend("read")
          /\ flush' = [flush EXCEPT ![w] = [pc |-> "write", snap |-> {}]]
    /\ UNCHANGED <<db, conf, debouncer, phase, hpc, job, rec>>

\* Mutant: pending is reset when the write is over.
FlushWriteResets(w) ==
    /\ flush[w].pc = "write"
    /\ conf' = flush[w].snap
    /\ pending' = FALSE
    /\ flush' = [flush EXCEPT ![w] = Idle]
    /\ UNCHANGED <<db, armed, closed, phase, hpc, job, rec, budget>>

\* Mutant: the goroutine never ends.
FlushWriteLeaks(w) ==
    /\ flush[w].pc = "write"
    /\ conf' = flush[w].snap
    /\ flush' = [flush EXCEPT ![w].pc = "leaked"]
    /\ UNCHANGED <<db, debouncer, phase, hpc, job, rec, budget>>

\* A failing write is logged.
FlushWrite(w) ==
    /\ flush[w].pc = "write"
    /\ \/ conf' = flush[w].snap /\ UNCHANGED budget
       \/ Spend("write") /\ UNCHANGED conf
    /\ flush' = [flush EXCEPT ![w] = Idle]
    /\ UNCHANGED <<db, debouncer, phase, hpc, job, rec>>

-----------------------------------------------------------------------------
(* The reconciler's rewriteConf, at start-up and at every tick.             *)

\* Mutant: only the start-up pass rewrites the file.
RecReadBoot ==
    /\ rec.pc = "idle" /\ phase = "boot"
    /\ \/ /\ rec' = [pc |-> "write", snap |-> db]
          /\ UNCHANGED <<phase, budget>>
       \/ /\ Spend("read")
          /\ phase' = "up"
          /\ UNCHANGED rec
    /\ UNCHANGED <<db, conf, debouncer, hpc, job, flush>>

RecRead ==
    /\ rec.pc = "idle"
    /\ \/ phase = "boot"
       \/ phase = "up" /\ "reconcile" \in Ops
    /\ \/ /\ rec' = [pc |-> "write", snap |-> db]
          /\ UNCHANGED <<phase, budget>>
       \/ /\ Spend("read")
          /\ phase' = "up"
          /\ UNCHANGED rec
    /\ UNCHANGED <<db, conf, debouncer, hpc, job, flush>>

RecWrite ==
    /\ rec.pc = "write"
    /\ \/ conf' = rec.snap /\ UNCHANGED budget
       \/ Spend("write") /\ UNCHANGED conf
    /\ rec' = Idle
    /\ phase' = IF phase = "boot" THEN "up" ELSE phase
    /\ UNCHANGED <<db, debouncer, hpc, job, flush>>

-----------------------------------------------------------------------------
(* The end of the process: a signal closes the debouncer, then the servers  *)
(* wait for the handlers, at most five seconds; or a crash.                 *)

\* Close: its locked part, and the start of flush if a write is pending.
Close ==
    /\ phase = "up" /\ Spend("stop")
    /\ phase' = "closing"
    /\ closed' = TRUE /\ armed' = FALSE
    /\ flush' = IF pending THEN [flush EXCEPT ![Closer].pc = "take"] ELSE flush
    /\ UNCHANGED <<db, conf, pending, hpc, job, rec>>

Shutdown ==
    /\ phase = "closing" /\ flush[Closer].pc = "idle"
    /\ phase' = "draining"
    /\ UNCHANGED <<db, conf, debouncer, hpc, job, flush, rec, budget>>

EndProcess(next) ==
    /\ phase' = next
    /\ pending' = FALSE /\ armed' = FALSE /\ closed' = FALSE
    /\ hpc' = [t \in Threads |-> "idle"]
    /\ job' = [t \in Threads |-> NoJob]
    /\ flush' = [w \in Workers |-> Idle]
    /\ rec' = Idle
    /\ UNCHANGED <<db, conf>>

Exit ==
    /\ phase = "draining"
    /\ \/ (\A t \in Threads : hpc[t] = "idle") /\ UNCHANGED budget
       \/ Spend("timeout")
    /\ EndProcess("stopped")

Crash == phase # "stopped" /\ Spend("crash") /\ EndProcess("boot")

Start ==
    /\ phase = "stopped"
    /\ phase' = "boot"
    /\ UNCHANGED <<db, conf, debouncer, hpc, job, flush, rec, budget>>

-----------------------------------------------------------------------------

Handler(t) == \/ Notify(t) \/ List(t) \/ Cancel(t) \/ DirectWrite(t)
              \/ Rollback(t)

Flush(w) == Fire(w) \/ Take(w) \/ Read(w) \/ FlushWrite(w)

Reconcile == RecRead \/ RecWrite

Stop == Shutdown \/ Exit

Next == \/ \E t \in Threads : Mutate(t) \/ Toggle(t) \/ Import(t) \/ Handler(t)
        \/ \E w \in Workers : Flush(w)
        \/ Reconcile
        \/ Close \/ Stop \/ Crash \/ Start

Spec == Init /\ [][Next]_vars

\* Goroutines go on, a timer fires, the ticker keeps firing, and a shutdown
\* that has begun ends.  Nobody has to stop or to start the process.
Fairness == /\ \A t \in Threads : WF_vars(Handler(t))
            /\ \A w \in Workers : WF_vars(Flush(w))
            /\ WF_vars(Reconcile)
            /\ WF_vars(Stop)

FairSpec == Spec /\ Fairness

-----------------------------------------------------------------------------
(* Properties. *)

\* Every variable has its type: the flag and timer of the debouncer, the
\* process phase, and what each writer has read and will write.
TypeOK ==
    /\ db \subseteq Peers /\ conf \subseteq Peers
    /\ pending \in BOOLEAN /\ armed \in BOOLEAN /\ closed \in BOOLEAN
    /\ phase \in {"boot", "up", "closing", "draining", "stopped"}
    /\ hpc \in [Threads -> {"idle", "notify", "list", "cancel", "write",
                            "rollback"}]
    /\ job \in [Threads -> [out : SUBSET Peers, in : SUBSET Peers,
                            snap : SUBSET Peers]]
    /\ flush \in [Workers -> [pc : {"idle", "take", "read", "write"},
                              snap : SUBSET Peers]]
    /\ rec \in [pc : {"idle", "write"}, snap : SUBSET Peers]
    /\ budget \in [EnvKinds -> Nat]

\* A write that is still to come and has yet to read the database: announced,
\* waiting for its timer or for the start of flush, or at its read.
Owed == \/ \E t \in Threads : hpc[t] \in {"notify", "list"}
        \/ pending /\ (armed \/ \E w \in Workers : flush[w].pc = "take")
        \/ \E w \in Workers : flush[w].pc = "read"

\* A write in progress with the peers that the database has now.
Current == \/ \E w \in Workers : flush[w] = [pc |-> "write", snap |-> db]
           \/ \E t \in Threads : /\ hpc[t] \in {"cancel", "write"}
                                 /\ job[t].snap = db

\* The file has the peers of the database, or a write will put them there.
Kept == conf = db \/ Owed \/ Current

\* The four ways to fall behind with no write to come.
\* DirectWrite cancels a write announced after it has read the database.
CancelsOwed ==
    pending /\ \E t \in Threads : hpc[t] = "cancel" /\ hpc'[t] = "write"
\* A writer that read the database before the last change writes after it.
WritesOld == conf = db /\ ~ Owed /\ conf' # conf
\* An UpdatePeer of enabled alone, or a rollback: no conf write follows.
ChangesUnannounced ==
    \E t \in Threads : /\ hpc[t] \in {"idle", "rollback"} /\ hpc'[t] = "idle"
                       /\ db' # db
\* The read or the write of a flush fails, which is logged.
CallFails == \E kind \in {"read", "write"} : budget'[kind] # budget[kind]

\* A change of the peers is not forgotten while the agent runs: once the file has
\* the peers of the database, or a write is owed or in progress that will put
\* them there, this stays so, whichever handlers, flushes (overlapping ones too)
\* and passes of the reconciler interleave, except for a step of the four kinds
\* above.  Notify, Fire, Take, Read and Close never lose one.
ForgottenOnlyBy ==
    [][phase = "up" /\ phase' = "up" /\ Kept /\ ~ Kept'
          => CancelsOwed \/ WritesOld \/ ChangesUnannounced \/ CallFails]_vars

\* Whatever the order of the writers, and although some reads and writes fail,
\* the file has the peers of the database in the end, while the agent runs.
ConfConverges == <>[](phase # "stopped" => conf = db)
=============================================================================
