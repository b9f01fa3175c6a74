------------------------------ MODULE Firewall ------------------------------
(***************************************************************************)
(* agent/internal/firewall/iptables.go, command by command.  ApplyPeer,    *)
(* RemovePeer and Sync are sequences of iptables processes without a lock  *)
(* around them; each may fail, most failures are logged and passed over,   *)
(* and the agent may end between any two.  Rules survive the agent.        *)
(*                                                                         *)
(* A rule matches first: an ACCEPT behind a DROP is dead, and only a flush *)
(* removes rules from a peer's chain, so a chain is the set of its live    *)
(* ACCEPT rules and whether it ends in DROP.  The dispatch chain is a bag  *)
(* of jumps, because -A does not look for an equal rule and -D removes one.*)
(***************************************************************************)
EXTENDS PeerStores

CONSTANTS Threads,    \* HTTP goroutines and the reconciler
          Boot,       \* the main goroutine, which runs Sync at start-up
          Cidrs,      \* destinations of ACCEPT rules
          PeerRows,   \* the rows that requests write
          InitRow,    \* the table when the agent first starts
          Overlap,    \* whether calls for one peer may overlap
          Budget      \* how often the environment may act

PeerRow == [key : Keys, addr : Addrs \cup {None}, allow : SUBSET Cidrs,
            enabled : BOOLEAN]

Chain == [acc : SUBSET (Hosts \X Cidrs), drop : BOOLEAN]

ASSUME FirewallAssumption ==
    /\ Allows = SUBSET Cidrs
    /\ None \notin PeerRow \cup Chain
    /\ Boot \notin Threads
    /\ PeerRows \subseteq PeerRow
    /\ InitRow \in [Keys -> PeerRows \cup {None}]
    /\ \A k \in Keys : InitRow[k] # None => InitRow[k].key = k
    /\ Overlap \in BOOLEAN
    /\ Budget \in [{"request", "fault", "crash"} -> Nat]

VARIABLES row,        \* the table: the row of a key, or None
          phase,      \* "boot" while the main goroutine runs Sync, then "up"
          chain,      \* the chain of a key, or None
          dispatch,   \* how many jumps the dispatch chain has, by host and key
          forward,    \* FORWARD jumps to the dispatch chain
          work,       \* the call a goroutine is in: next command and locals
          left,       \* Sync: rows still to visit, then orphans to delete
          snap,       \* Sync: the dispatch chain as listed by -S
          budget,     \* what the environment may still do
          seen,       \* history: the rules of a peer when its call began
          bad, late   \* history: peers whose call failed or was cut short,
                      \* ever since a Sync repaired them; since Sync began

rules   == <<chain, dispatch, forward>>
history == <<seen, bad, late>>
vars    == <<row, phase, rules, work, left, snap, budget, history>>

EmptyChain == [acc |-> {}, drop |-> FALSE]
NoHits     == [h \in Hosts |-> 0]

\* sourceCIDR: the host of the client address.
Src(r) == HostOf[r.addr]

\* A goroutine between two calls, at pc.
Free(pc) == [pc |-> pc, op |-> "none", row |-> None, cidrs |-> {},
             hits |-> NoHits, next |-> None, ret |-> pc, fresh |-> FALSE]

\* The first command of RemovePeer(r), to be followed by ApplyPeer(next).
RemoveCall(r, next, ret) ==
    [Free(ret) EXCEPT !.pc = IF r.addr = None THEN "scan" ELSE "deljump",
                      !.op = "remove", !.row = r, !.next = next]

\* Mutant: a disabled peer keeps its rules.
ApplyCallAlways(r, ret, fresh) ==
    IF r.addr = None THEN Free(ret)
    ELSE [Free(ret) EXCEPT !.pc = "new", !.op = "apply", !.row = r,
                           !.cidrs = r.allow, !.fresh = fresh]

\* The first command of ApplyPeer(r): a disabled row is removed, a row without
\* an address skipped.
ApplyCall(r, ret, fresh) ==
    IF ~ r.enabled THEN RemoveCall(r, None, ret)
    ELSE IF r.addr = None THEN Free(ret)
    ELSE [Free(ret) EXCEPT !.pc = "new", !.op = "apply", !.row = r,
                           !.cidrs = r.allow, !.fresh = fresh]

-----------------------------------------------------------------------------
(* The rules of a peer as the operators of PeerStores have them.            *)

HostsOf(d, k) == {h \in Hosts : d[<<h, k>>] > 0}

\* A DROP-only chain does not say its source: the jump to it does.
SourceOf(c, hs) == IF c.acc # {} THEN (CHOOSE x \in c.acc : TRUE)[1]
                   ELSE IF hs # {} THEN CHOOSE h \in hs : TRUE
                   ELSE None

View(c, d, k) ==
    [chain |-> IF c[k] = None THEN None
               ELSE IF ~ c[k].drop THEN Flushed
               ELSE [src |-> SourceOf(c[k], HostsOf(d, k)),
                     allow |-> {x[2] : x \in c[k].acc}],
     hosts |-> HostsOf(d, k)]

Busy(k) == \/ phase = "boot"
           \/ \E t \in Threads : work[t].pc # "idle" /\ work[t].row.key = k

Shown(k) == IF Busy(k) THEN seen[k] ELSE View(chain, dispatch, k)

Init == /\ row = InitRow
        /\ phase = "boot"
        /\ chain = [k \in Keys |-> None]
        /\ dispatch = [x \in Hosts \X Keys |-> 0]
        /\ forward = FALSE
        /\ work = [[t \in Threads \cup {Boot} |-> Free("idle")]
                     EXCEPT ![Boot] = Free("checkfwd")]
        /\ left = {k \in Keys : InitRow[k] # None}
        /\ snap = dispatch
        /\ budget = Budget
        /\ seen = [k \in Keys |-> View(chain, dispatch, k)]
        /\ bad = {} /\ late = {}

-----------------------------------------------------------------------------
(* How a call goes on.                                                      *)

At(t, step) == work[t].pc = step
Key(t)      == work[t].row.key

Spend(what) == /\ budget[what] > 0
               /\ budget' = [budget EXCEPT ![what] = @ - 1]

\* A command of t fails; nothing more is known of the peers in ks.
Fails(ks) == /\ Spend("fault")
             /\ bad' = bad \cup ks
             /\ late' = late \cup ks

Succeeds == UNCHANGED <<budget, bad, late>>

Goto(t, step) == /\ work' = [work EXCEPT ![t].pc = step]
                 /\ UNCHANGED seen

\* The call of t is over.  UpdatePeer goes on with ApplyPeer, Sync with the
\* next row.
Return(t) ==
    /\ work' = [work EXCEPT ![t] =
                  IF @.next # None THEN ApplyCall(@.next, @.ret, FALSE)
                                   ELSE Free(@.ret)]
    /\ seen' = IF t = Boot THEN seen
               ELSE [seen EXCEPT ![Key(t)] = View(chain', dispatch', Key(t))]

\* What every command of a call leaves alone.
Outer == <<row, phase, left, snap>>

-----------------------------------------------------------------------------
(* ApplyPeer.                                                               *)

\* -N: "already exists" is ignored like every error.
NewChain(t) ==
    /\ At(t, "new")
    /\ LET k == Key(t)
       IN  \/ /\ chain' = [chain EXCEPT ![k] = IF @ = None THEN EmptyChain
                                                           ELSE @]
              /\ Succeeds
           \/ Fails({k}) /\ UNCHANGED chain
    /\ Goto(t, "flush")
    /\ UNCHANGED <<Outer, dispatch, forward>>

\* Mutant: no DROP in the chain of a peer without destinations.
AfterFlushOpen(t) == IF At(t, "emptyx") THEN "delete"
                     ELSE IF work[t].cidrs = {} THEN "checkfwd" ELSE "accept"

AfterFlush(t) == IF At(t, "emptyx") THEN "delete"
                 ELSE IF work[t].cidrs = {} THEN "drop" ELSE "accept"

\* -F, in ApplyPeer and before -X; an error is ignored.
FlushChain(t) ==
    /\ At(t, "flush") \/ At(t, "emptyx")
    /\ LET k == Key(t)
       IN  \/ /\ chain' = [chain EXCEPT ![k] = IF @ = None THEN None
                                                           ELSE EmptyChain]
              /\ Succeeds
           \/ Fails({k}) /\ UNCHANGED chain
    /\ Goto(t, AfterFlush(t))
    /\ UNCHANGED <<Outer, dispatch, forward>>

\* The chain c with an ACCEPT of r for d at its end.
Accepted(c, r, d) == IF c = None \/ c.drop THEN c
                     ELSE [c EXCEPT !.acc = @ \cup {<<Src(r), d>>}]

\* -A ... -s src -d cidr -j ACCEPT, one for each; an error is logged.
AddAccept(t) ==
    /\ At(t, "accept")
    /\ \E c \in work[t].cidrs :
         /\ LET k == Key(t)
            IN  \/ /\ chain' = [chain EXCEPT ![k] =
                                  Accepted(@, work[t].row, c)]
                   /\ Succeeds
                \/ Fails({k}) /\ UNCHANGED chain
         /\ work' = [work EXCEPT ![t].cidrs = @ \ {c},
                                 ![t].pc = IF work[t].cidrs = {c} THEN "drop"
                                                                  ELSE "accept"]
    /\ UNCHANGED <<Outer, dispatch, forward, seen>>

\* -A ... -j DROP; an error ends ApplyPeer.
AddDrop(t) ==
    /\ At(t, "drop")
    /\ UNCHANGED <<Outer, dispatch, forward>>
    /\ LET k == Key(t)
       IN  \/ /\ chain[k] # None
              /\ chain' = [chain EXCEPT ![k].drop = TRUE]
              /\ Goto(t, "checkfwd")
              /\ Succeeds
           \/ /\ \/ chain[k] = None /\ Succeeds
                 \/ Fails({k})
              /\ UNCHANGED chain
              /\ Return(t)

AfterEnsure(t) == IF t = Boot /\ work[t].op = "none" THEN "flushall"
                                                     ELSE "checkjump"

\* ensureDispatchChain, of ApplyPeer and Sync: -C, whose failure is taken for
\* the absence of the rule.  A second jump from FORWARD makes no difference.
CheckForward(t) ==
    /\ At(t, "checkfwd")
    /\ \/ Succeeds /\ Goto(t, IF forward THEN AfterEnsure(t) ELSE "addfwd")
       \/ Spend("fault") /\ Goto(t, "addfwd") /\ UNCHANGED <<bad, late>>
    /\ UNCHANGED <<Outer, rules>>

\* -I FORWARD; an error ends ApplyPeer (Sync: see SyncFails).
AddForward(t) ==
    /\ At(t, "addfwd")
    /\ UNCHANGED <<Outer, chain, dispatch>>
    /\ \/ forward' = TRUE /\ Goto(t, AfterEnsure(t)) /\ Succeeds
       \/ /\ work[t].op = "apply"
          /\ Fails({Key(t)}) /\ Return(t) /\ UNCHANGED forward

\* -C of the jump to the peer's chain, likewise.
CheckJump(t) ==
    /\ At(t, "checkjump")
    /\ UNCHANGED <<Outer, rules>>
    /\ \/ /\ Succeeds
          /\ IF dispatch[<<Src(work[t].row), Key(t)>>] > 0
               THEN Return(t) ELSE Goto(t, "addjump")
       \/ Fails({Key(t)}) /\ Goto(t, "addjump")

\* -A of the jump, refused without the chain; an error ends ApplyPeer.
AddJump(t) ==
    /\ At(t, "addjump")
    /\ UNCHANGED <<Outer, chain, forward>>
    /\ LET k == Key(t)
       IN  \/ /\ chain[k] # None
              /\ dispatch' = [dispatch EXCEPT ![<<Src(work[t].row), k>>] = @ + 1]
              /\ Succeeds
           \/ /\ \/ chain[k] = None /\ Succeeds
                 \/ Fails({k})
              /\ UNCHANGED dispatch
    /\ Return(t)

-----------------------------------------------------------------------------
(* RemovePeer, and the deletion of an orphan.  Every error is logged.       *)

\* Mutant: counted down without a look.
LessOne(n) == n - 1

\* One rule less, if there is one.
Less(n) == IF n > 0 THEN n - 1 ELSE 0

DelJump(t) ==
    /\ At(t, "deljump")
    /\ \/ /\ dispatch' = [dispatch EXCEPT
                            ![<<Src(work[t].row), Key(t)>>] = Less(@)]
          /\ Succeeds
       \/ Fails({Key(t)}) /\ UNCHANGED dispatch
    /\ Goto(t, "emptyx")
    /\ UNCHANGED <<Outer, chain, forward>>

\* removeAllDispatchJumpsTo: -S, and every jump to the chain it lists.
ScanJumps(t) ==
    /\ At(t, "scan")
    /\ \/ /\ Succeeds
          /\ work' = [work EXCEPT ![t].hits = [h \in Hosts |->
                                                 dispatch[<<h, Key(t)>>]],
                                  ![t].pc = "deljumps"]
          /\ UNCHANGED seen
       \/ Fails({Key(t)}) /\ Goto(t, "emptyx")
    /\ UNCHANGED <<Outer, rules>>

DelJumps(t) ==
    /\ At(t, "deljumps")
    /\ \/ /\ \E h \in Hosts :
               /\ work[t].hits[h] > 0
               /\ \/ /\ dispatch' = [dispatch EXCEPT ![<<h, Key(t)>>] = Less(@)]
                     /\ Succeeds
                  \/ Fails({Key(t)}) /\ UNCHANGED dispatch
               /\ work' = [work EXCEPT ![t].hits[h] = @ - 1]
          /\ UNCHANGED seen
       \/ /\ work[t].hits = NoHits
          /\ Goto(t, "emptyx")
          /\ Succeeds /\ UNCHANGED dispatch
    /\ UNCHANGED <<Outer, chain, forward>>

\* -X, refused while rules are in the chain or jumps lead to it.
DeleteChain(t) ==
    /\ At(t, "delete")
    /\ UNCHANGED <<Outer, dispatch, forward>>
    /\ LET k == Key(t)
           refused == chain[k] # EmptyChain \/ HostsOf(dispatch, k) # {}
       IN  \/ ~ refused /\ chain' = [chain EXCEPT ![k] = None] /\ Succeeds
           \/ /\ \/ refused /\ Succeeds
                 \/ Fails({k})
              /\ UNCHANGED chain
    /\ Return(t)

-----------------------------------------------------------------------------
(* Sync, by the main goroutine before the agent serves.                     *)

\* ensureDispatchChain fails: Sync returns, the agent goes on without.
SyncFails ==
    /\ At(Boot, "addfwd") /\ work[Boot].op = "none"
    /\ Fails(Keys)
    /\ phase' = "up"
    /\ work' = [work EXCEPT ![Boot] = Free("idle")]
    /\ UNCHANGED <<row, rules, left, snap, seen>>

FlushDispatch ==
    /\ At(Boot, "flushall")
    /\ \/ dispatch' = [x \in Hosts \X Keys |-> 0] /\ Succeeds
       \/ Fails(Keys) /\ UNCHANGED dispatch
    /\ Goto(Boot, "pick")
    /\ UNCHANGED <<Outer, chain, forward>>

\* Step 2: ApplyPeer or RemovePeer for every row.
SyncPeer ==
    /\ At(Boot, "pick")
    /\ \/ \E k \in left :
             /\ work' = [work EXCEPT ![Boot] = ApplyCall(row[k], "pick", FALSE)]
             /\ left' = left \ {k}
       \/ /\ left = {}
          /\ work' = [work EXCEPT ![Boot] = Free("list")]
          /\ UNCHANGED left
    /\ UNCHANGED <<row, phase, rules, snap, budget, history>>

\* Chains that no row owns.
Orphans == {k \in Keys : chain[k] # None /\ row[k] = None}

\* cleanupOrphanChains: -S; without it there is no cleanup.
ListChains ==
    /\ At(Boot, "list")
    /\ \/ left' = Orphans /\ Succeeds
       \/ Fails(Orphans) /\ UNCHANGED left
    /\ Goto(Boot, "listjumps")
    /\ UNCHANGED <<row, phase, rules, snap>>

\* -S of the dispatch chain; without it the jumps stay.
ListJumps ==
    /\ At(Boot, "listjumps")
    /\ \/ snap' = dispatch /\ Succeeds
       \/ Fails(left) /\ snap' = [x \in Hosts \X Keys |-> 0]
    /\ Goto(Boot, "sweep")
    /\ UNCHANGED <<row, phase, rules, left>>

SweepOrphan ==
    /\ At(Boot, "sweep")
    /\ \E k \in left :
         /\ work' = [work EXCEPT ![Boot] =
                       [Free("sweep") EXCEPT !.pc = "deljumps", !.op = "orphan",
                          !.row = [key |-> k, addr |-> None, allow |-> {},
                                   enabled |-> FALSE],
                          !.hits = [h \in Hosts |-> snap[<<h, k>>]]]]
         /\ left' = left \ {k}
    /\ UNCHANGED <<row, phase, rules, snap, budget, history>>

\* Enabled rows without an address: Sync leaves their chain as it is.
Skipped == {k \in Keys : row[k] # None /\ row[k].enabled /\ row[k].addr = None}

SyncDone ==
    /\ At(Boot, "sweep") /\ left = {}
    /\ phase' = "up"
    /\ work' = [work EXCEPT ![Boot] = Free("idle")]
    /\ seen' = [k \in Keys |-> View(chain, dispatch, k)]
    /\ bad' = (bad \cap Skipped) \cup late
    /\ UNCHANGED <<row, rules, left, snap, budget, late>>

-----------------------------------------------------------------------------
(* The callers.  The table changes before the firewall, except that the     *)
(* row of a new peer is only inserted after ApplyPeer: it is lost with the  *)
(* process.                                                                 *)

\* CreatePeer, UpdatePeer (which removes the rules of the old address first),
\* ApprovePeer, DeletePeer; a quarantined row comes without a call.
Request(t) ==
    \E k \in Keys, r \in PeerRows \cup {None} :
      LET old == row[k]
          new == row[k] = None
      IN  /\ phase = "up" /\ At(t, "idle")
          /\ Overlap \/ ~ Busy(k)
          /\ r # old
          /\ r # None => r.key = k
          /\ r # None /\ ~ new => (r.addr = None => old.addr = None)
          /\ Spend("request")
          /\ row' = [row EXCEPT ![k] = r]
          /\ work' = [work EXCEPT ![t] =
                        IF r = None THEN RemoveCall(old, None, "idle")
                        ELSE IF ~ new /\ r.addr # old.addr
                               THEN RemoveCall(old, r, "idle")
                        ELSE IF new /\ ~ r.enabled THEN Free("idle")
                        ELSE ApplyCall(r, "idle", new)]
          /\ seen' = [seen EXCEPT ![k] = Shown(k)]
          /\ UNCHANGED <<phase, rules, left, snap, bad, late>>

\* The process ends, and starts again with Sync.
Crash ==
    /\ Spend("crash")
    /\ \E lost \in SUBSET {work[t].row.key : t \in {u \in Threads : work[u].fresh}} :
          /\ row' = [k \in Keys |-> IF k \in lost THEN None ELSE row[k]]
          /\ left' = {k \in Keys : row[k] # None} \ lost
    /\ phase' = "boot"
    /\ work' = [[t \in Threads \cup {Boot} |-> Free("idle")]
                  EXCEPT ![Boot] = Free("checkfwd")]
    /\ seen' = [k \in Keys |-> Shown(k)]
    /\ bad' = bad \cup {k \in Keys : Busy(k)}
    /\ late' = {}
    /\ UNCHANGED <<rules, snap>>

Command(t) ==
    \/ NewChain(t) \/ FlushChain(t) \/ AddAccept(t) \/ AddDrop(t)
    \/ CheckForward(t) \/ AddForward(t) \/ CheckJump(t) \/ AddJump(t)
    \/ DelJump(t) \/ ScanJumps(t) \/ DelJumps(t) \/ DeleteChain(t)

SyncStep == \/ SyncFails \/ FlushDispatch \/ SyncPeer \/ ListChains
            \/ ListJumps \/ SweepOrphan \/ SyncDone

Next == \/ \E t \in Threads \cup {Boot} : Command(t)
        \/ SyncStep
        \/ \E t \in Threads : Request(t)
        \/ Crash

Spec == Init /\ [][Next]_vars

-----------------------------------------------------------------------------
(* Properties. *)

Work == [pc    : {"idle", "pick", "list", "listjumps", "sweep", "flushall",
                  "new", "flush", "accept", "drop", "checkfwd", "addfwd",
                  "checkjump", "addjump", "deljump", "scan", "deljumps",
                  "emptyx", "delete"},
         op    : {"none", "apply", "remove", "orphan"},
         row   : PeerRow \cup {None},
         cidrs : SUBSET Cidrs,
         hits  : [Hosts -> Nat],
         next  : PeerRow \cup {None},
         ret   : {"idle", "pick", "sweep", "checkfwd", "list"},
         fresh : BOOLEAN]

\* Every variable has its type.
TypeOK ==
    /\ row \in [Keys -> PeerRow \cup {None}]
    /\ phase \in {"boot", "up"}
    /\ chain \in [Keys -> Chain \cup {None}]
    /\ dispatch \in [Hosts \X Keys -> Nat]
    /\ forward \in BOOLEAN
    /\ work \in [Threads \cup {Boot} -> Work]
    /\ left \subseteq Keys
    /\ snap \in [Hosts \X Keys -> Nat]
    /\ budget \in [{"request", "fault", "crash"} -> Nat]
    /\ bad \subseteq Keys /\ late \subseteq bad

RulesOf(r) == {Src(r)} \X r.allow

\* ApplyPeer, "packets are never routed to an empty/partial chain (atomic
\* activation)": whenever a peer without a jump gets one, be it by a handler, by
\* Sync or by a call after a crash, its chain is already complete: exactly the
\* rules of the row of that call, and the DROP.
AtomicActivation ==
    [][\A k \in Keys \ bad' :
         HostsOf(dispatch, k) = {} /\ HostsOf(dispatch', k) # {} =>
           \E t \in Threads \cup {Boot} :
             /\ At(t, "addjump") /\ Key(t) = k
             /\ chain[k] = [acc |-> RulesOf(work[t].row), drop |-> TRUE]]_vars

\* The rules as FirewallSpec has them: those before a call until it is over.
Settled ==
    [chain |-> [k \in Keys |-> IF k \in bad THEN None ELSE Shown(k).chain],
     jumps |-> {j \in Hosts \X Keys :
                  j[2] \notin bad /\ j[1] \in Shown(j[2]).hosts}]

Calls == INSTANCE FirewallSpec WITH fw <- Settled, on <- forward

\* Every call, command by command, between failures, crashes and the calls for
\* other peers, is one step of FirewallSpec: the operators FwApply, FwRemove
\* and FwSync that Agent uses, a failure confined to its own peer, and a Sync
\* that repairs what failures and crashes left.
CallsAreAtomic == Calls!Spec
=============================================================================
