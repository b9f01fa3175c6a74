---------------------------- MODULE FirewallProofs ----------------------------
(***************************************************************************)
(* Theorems about Firewall.                                                *)
(*                                                                         *)
(* TypeOK needs to know which commands a call can be at and which locals it*)
(* has there (CallOK, FwInv), and that Sync visits rows that are there     *)
(* (LeftInv); this holds however calls overlap.                            *)
(*                                                                         *)
(* The iptables sequences implement the calls of FirewallSpec, provided    *)
(* that calls for one peer do not overlap.  The refinement mapping shows a *)
(* peer as it was when its call began until the call is over, so that every*)
(* command in the middle of a call is a stutter and the last one takes the *)
(* step of the whole call.  For that step the commands before it must have *)
(* built what the call promises: the inductive invariant StepInv says, for *)
(* each command that a call may be at, what of the chain and of the jumps  *)
(* is already there (LocalOK), what the table and the rules were when the  *)
(* call began (LinkInv, SeenInv), what idle peers look like (IdleInv), and *)
(* how far Sync has come (BootInv).  Peers whose call failed are exempt,   *)
(* Sync's own calls only from the failures since it began.                 *)
(***************************************************************************)
EXTENDS Firewall, TLAPS

Procs == Threads \cup {Boot}

ApplySteps  == {"new", "flush", "accept", "drop", "checkfwd", "addfwd",
                "checkjump", "addjump"}
RemoveSteps == {"deljump", "scan", "deljumps", "emptyx", "delete"}
BootSteps   == {"idle", "pick", "list", "listjumps", "sweep", "flushall",
                "checkfwd", "addfwd"}

\* The record of a call fits its next command.
CallOK(t, w) ==
    /\ w \in Work
    /\ w.op = "none" => /\ w.next = None
                        /\ w.pc = "idle" \/ (t = Boot /\ w.pc \in BootSteps)
    /\ w.op # "none" => /\ w.row \in PeerRow
                        /\ IF t = Boot THEN w.ret \in {"pick", "sweep"}
                                       ELSE w.ret = "idle"
    /\ w.op = "apply" => /\ w.pc \in ApplySteps
                         /\ w.row.addr # None /\ w.next = None
                         /\ w.cidrs \subseteq w.row.allow
                         /\ w.pc \in {"new", "flush"} => w.cidrs = w.row.allow
                         /\ w.pc = "accept" => w.cidrs # {}
    /\ w.op \in {"remove", "orphan"} => w.pc \in RemoveSteps
    /\ w.pc = "deljump" => w.row.addr # None
    /\ w.next # None => t # Boot /\ w.next.key = w.row.key

WorkInv == /\ work \in [Procs -> Work]
           /\ \A t \in Procs : CallOK(t, work[t])

\* Sync runs alone.
PhaseInv == IF phase = "boot" THEN \A t \in Threads : work[t].pc = "idle"
                              ELSE work[Boot].pc = "idle"

RowInv == \A k \in Keys : row[k] # None => row[k].key = k

\* At most one call for a peer.
Exclusive ==
    \A t, u \in Threads :
       t # u /\ work[t].pc # "idle" /\ work[u].pc # "idle" => Key(t) # Key(u)

\* Everything but the rules.
CtlInv == /\ WorkInv /\ PhaseInv /\ RowInv
          /\ Overlap \/ Exclusive

\* Sync has not listed the chains yet: left are rows.
Peering(w) == IF w.op = "none" THEN w.pc \in {"checkfwd", "addfwd", "flushall", "pick"}
                               ELSE w.ret = "pick"

LeftInv == Peering(work[Boot]) => \A k \in left : row[k] # None

FwInv == TypeOK /\ CtlInv

-----------------------------------------------------------------------------
(* Records of calls. *)

LEMMA Marks ==
    /\ None \notin PeerRow /\ None \notin Chain /\ None \notin Addrs
    /\ Boot \notin Threads /\ PeerRows \subseteq PeerRow
PROOF BY FirewallAssumption, StoresAssumption

LEMMA SrcType ==
    ASSUME NEW r \in PeerRow, r.addr # None PROVE Src(r) \in Hosts
PROOF BY StoresAssumption DEF PeerRow, Src

Rets == {"idle", "pick", "sweep", "checkfwd", "list"}

LEMMA FreeFields ==
    ASSUME NEW p \in Rets
    PROVE  /\ Free(p) \in Work
           /\ Free(p).pc = p /\ Free(p).op = "none" /\ Free(p).row = None
           /\ Free(p).next = None /\ Free(p).ret = p /\ Free(p).fresh = FALSE
           /\ Free(p).cidrs = {} /\ Free(p).hits = NoHits
PROOF
  <1>1. NoHits \in [Hosts -> Nat] BY DEF NoHits
  <1>2. QED BY <1>1 DEF Free, Work, Rets

LEMMA FreeOK ==
    ASSUME NEW t \in Procs, NEW p \in Rets, t \in Threads => p = "idle"
    PROVE  CallOK(t, Free(p))
PROOF
  <1>1. p = "idle" \/ (t = Boot /\ p \in BootSteps)
    BY DEF Procs, Rets, BootSteps
  <1>2. QED BY <1>1, FreeFields DEF CallOK, Rets

\* Where a call of t returns to.
Returns(t, ret) == IF t = Boot THEN ret \in {"pick", "sweep"} ELSE ret = "idle"

LEMMA RemoveCallOK ==
    ASSUME NEW t \in Procs, NEW r \in PeerRow, NEW n \in PeerRow \cup {None},
           n # None => t # Boot /\ n.key = r.key, NEW ret, Returns(t, ret)
    PROVE  /\ CallOK(t, RemoveCall(r, n, ret))
           /\ RemoveCall(r, n, ret).row = r /\ RemoveCall(r, n, ret).next = n
           /\ RemoveCall(r, n, ret).op = "remove"
           /\ RemoveCall(r, n, ret).pc =
                IF r.addr = None THEN "scan" ELSE "deljump"
PROOF
  <1> DEFINE w == RemoveCall(r, n, ret)
  <1>1. ret \in Rets BY DEF Returns, Rets
  <1>2. /\ Free(ret) \in Work
        /\ Free(ret).ret = ret /\ Free(ret).next = None
    BY <1>1, FreeFields
  <1>3. /\ w.pc = IF r.addr = None THEN "scan" ELSE "deljump"
        /\ w.op = "remove" /\ w.row = r /\ w.next = n /\ w.ret = ret
    BY <1>2 DEF RemoveCall, Work
  <1>4. w \in Work BY <1>2 DEF RemoveCall, Work
  <1> HIDE DEF w
  <1>5. CallOK(t, w) BY <1>3, <1>4 DEF CallOK, Returns, RemoveSteps
  <1>6. QED BY <1>3, <1>5 DEF w

LEMMA ApplyCallOK ==
    ASSUME NEW t \in Procs, NEW r \in PeerRow, NEW f \in BOOLEAN,
           NEW ret, Returns(t, ret)
    PROVE  /\ CallOK(t, ApplyCall(r, ret, f))
           /\ ApplyCall(r, ret, f).next = None
           /\ \/ /\ r.enabled /\ r.addr = None
                 /\ ApplyCall(r, ret, f) = Free(ret)
              \/ /\ ~ r.enabled
                 /\ ApplyCall(r, ret, f) = RemoveCall(r, None, ret)
              \/ /\ r.enabled /\ r.addr # None
                 /\ ApplyCall(r, ret, f).row = r
                 /\ ApplyCall(r, ret, f).op = "apply"
                 /\ ApplyCall(r, ret, f).pc = "new"
PROOF
  <1> DEFINE w == [Free(ret) EXCEPT !.pc = "new", !.op = "apply", !.row = r,
                                    !.cidrs = r.allow, !.fresh = f]
  <1>1. ret \in Rets /\ (t \in Threads => ret = "idle")
    BY Marks DEF Returns, Rets, Procs
  <1>2. /\ Free(ret) \in Work
        /\ Free(ret).ret = ret /\ Free(ret).next = None
    BY <1>1, FreeFields
  <1>3. CASE ~ r.enabled
    BY <1>3, RemoveCallOK DEF ApplyCall
  <1>4. CASE r.enabled /\ r.addr = None
    BY <1>1, <1>2, <1>4, FreeOK DEF ApplyCall
  <1>5. CASE r.enabled /\ r.addr # None
    <2>1. ApplyCall(r, ret, f) = w BY <1>5 DEF ApplyCall
    <2>2. /\ w.pc = "new" /\ w.op = "apply" /\ w.row = r /\ w.next = None
          /\ w.ret = ret /\ w.cidrs = r.allow
      BY <1>2 DEF Work
    <2>3. r.allow \in SUBSET Cidrs BY DEF PeerRow
    <2>4. w \in Work BY <1>2, <2>3 DEF Work
    <2> HIDE DEF w
    <2>5. CallOK(t, w) BY <1>5, <2>2, <2>4 DEF CallOK, Returns, ApplySteps
    <2>6. QED BY <1>5, <2>1, <2>2, <2>5
  <1>6. r.enabled \in BOOLEAN BY DEF PeerRow
  <1>7. QED BY <1>3, <1>4, <1>5, <1>6

-----------------------------------------------------------------------------
(* What a step does to the calls. *)

\* A call goes on, or is over.
LEMMA WorkStep ==
    ASSUME CtlInv, NEW t \in Procs, NEW w, CallOK(t, w),
           work[t].pc # "idle",
           t \in Threads /\ w.pc # "idle" => w.row.key = Key(t),
           work' = [work EXCEPT ![t] = w],
           t = Boot => phase = "boot",
           UNCHANGED <<row, phase>>
    PROVE  /\ CtlInv'
           /\ work'[t] = w /\ \A u \in Procs : u # t => work'[u] = work[u]
PROOF
  <1>1. /\ work' \in [Procs -> Work] /\ work'[t] = w
        /\ \A u \in Procs : u # t => work'[u] = work[u]
    BY DEF CtlInv, WorkInv, CallOK
  <1>2. WorkInv' BY <1>1 DEF CtlInv, WorkInv
  <1>3. RowInv' BY DEF CtlInv, RowInv
  <1>4. PhaseInv'
    <2>1. CASE phase = "boot"
      <3>1. t = Boot BY <2>1 DEF CtlInv, PhaseInv, Procs
      <3>2. QED BY <1>1, <2>1, <3>1, Marks DEF CtlInv, PhaseInv, Procs
    <2>2. CASE phase # "boot"
      <3>1. t # Boot BY <2>2
      <3>2. QED BY <1>1, <2>2, <3>1 DEF CtlInv, PhaseInv, Procs
    <2>3. QED BY <2>1, <2>2
  <1>5. ASSUME Exclusive PROVE Exclusive'
    <2>1. \A u \in Threads : u # t => work'[u] = work[u] BY <1>1 DEF Procs
    <2>2. \A u \in Threads : work'[u].pc # "idle" =>
             work[u].pc # "idle" /\ Key(u)' = Key(u)
      BY <1>1, <2>1 DEF Key
    <2>3. QED BY <1>5, <2>2 DEF Exclusive
  <1>6. CtlInv' BY <1>2, <1>3, <1>4, <1>5 DEF CtlInv
  <1>7. QED BY <1>1, <1>6

LEMMA BootCalls ==
    ASSUME CtlInv, phase \in {"boot", "up"}, NEW t \in Procs,
           work[t].pc # "idle"
    PROVE  t = Boot => phase = "boot"
PROOF BY DEF CtlInv, PhaseInv

\* What a command of a call says of its record.
LEMMA CallFacts ==
    ASSUME CtlInv, NEW t \in Procs, work[t].pc # "idle"
    PROVE  CallOK(t, work[t]) /\ work[t] \in Work
PROOF BY DEF CtlInv, WorkInv, CallOK

\* Goto within a call.
LEMMA GotoStep ==
    ASSUME CtlInv, phase \in {"boot", "up"}, NEW t \in Procs, NEW p,
           work[t].pc # "idle", Goto(t, p), p # "idle",
           CallOK(t, [work[t] EXCEPT !.pc = p]),
           UNCHANGED <<row, phase>>
    PROVE  /\ CtlInv'
           /\ work'[t] = [work[t] EXCEPT !.pc = p]
           /\ \A u \in Procs : u # t => work'[u] = work[u]
PROOF
  <1> DEFINE w == [work[t] EXCEPT !.pc = p]
  <1>1. work[t] \in Work BY CallFacts
  <1>2. work' = [work EXCEPT ![t] = w] BY <1>1 DEF Goto, CtlInv, WorkInv
  <1>3. w.row = work[t].row BY <1>1 DEF Work
  <1>4. w.row.key = Key(t) BY <1>3 DEF Key
  <1>5. t = Boot => phase = "boot" BY BootCalls
  <1> HIDE DEF w
  <1>6. CallOK(t, w) BY DEF w
  <1>7. /\ CtlInv' /\ work'[t] = w
        /\ \A u \in Procs : u # t => work'[u] = work[u]
    BY <1>2, <1>4, <1>5, <1>6, WorkStep
  <1>8. QED BY <1>7 DEF w

\* The record of t after its call.
After(w) == IF w.next # None THEN ApplyCall(w.next, w.ret, FALSE)
                             ELSE Free(w.ret)

LEMMA AfterOK ==
    ASSUME NEW t \in Procs, NEW w, CallOK(t, w), w.op # "none"
    PROVE  /\ CallOK(t, After(w))
           /\ After(w).pc # "idle" /\ After(w).op # "none" =>
                After(w).row.key = w.row.key
           /\ t \in Threads /\ After(w).op = "none" => After(w).pc = "idle"
PROOF
  <1>1. Returns(t, w.ret) BY DEF CallOK, Returns
  <1>2. w.ret \in Rets /\ (t \in Threads => w.ret = "idle")
    BY <1>1, Marks DEF Returns, Rets
  <1>3. CASE w.next # None
    <2>1. w.next \in PeerRow /\ w.next.key = w.row.key
      BY <1>3 DEF CallOK, Work
    <2> DEFINE c == ApplyCall(w.next, w.ret, FALSE)
    <2>2. After(w) = c BY <1>3 DEF After
    <2>3. /\ CallOK(t, c)
          /\ c.next = None
          /\ \/ /\ w.next.enabled /\ w.next.addr = None
                /\ c = Free(w.ret)
             \/ /\ ~ w.next.enabled
                /\ c = RemoveCall(w.next, None, w.ret)
             \/ /\ w.next.enabled /\ w.next.addr # None
                /\ c.row = w.next
                /\ c.op = "apply"
                /\ c.pc = "new"
      BY <1>1, <2>1, ApplyCallOK, Zenon
    <2> HIDE DEF c
    <2>4. c.op # "none" => c.row.key = w.row.key
      <3>1. RemoveCall(w.next, None, w.ret).row = w.next
        BY <1>1, <2>1, RemoveCallOK
      <3>2. Free(w.ret).op = "none" BY <1>2, FreeFields
      <3>3. QED BY <2>1, <2>3, <3>1, <3>2
    <2>5. t \in Threads /\ c.op = "none" => c.pc = "idle"
      BY <2>3, Marks DEF CallOK
    <2>6. QED BY <2>2, <2>3, <2>4, <2>5
  <1>4. CASE w.next = None
    <2>1. After(w) = Free(w.ret) BY <1>4 DEF After
    <2>2. QED BY <1>2, <2>1, FreeOK, FreeFields
  <1>5. QED BY <1>3, <1>4

LEMMA ReturnStep ==
    ASSUME CtlInv, phase \in {"boot", "up"}, NEW t \in Procs,
           work[t].pc # "idle", work[t].op # "none", Return(t),
           UNCHANGED <<row, phase>>
    PROVE  /\ CtlInv' /\ work'[t] = After(work[t])
           /\ \A u \in Procs : u # t => work'[u] = work[u]
PROOF
  <1> DEFINE w == After(work[t])
  <1>1. CallOK(t, work[t]) BY CallFacts
  <1>2. work' = [work EXCEPT ![t] = w] BY DEF Return, After, CtlInv, WorkInv
  <1>3. /\ CallOK(t, w)
        /\ w.pc # "idle" /\ w.op # "none" => w.row.key = Key(t)
        /\ t \in Threads /\ w.op = "none" => w.pc = "idle"
    BY <1>1, AfterOK DEF Key
  <1>4. t = Boot => phase = "boot" BY BootCalls
  <1> HIDE DEF w
  <1>5. /\ CtlInv' /\ work'[t] = w
        /\ \A u \in Procs : u # t => work'[u] = work[u]
    BY <1>2, <1>3, <1>4, WorkStep
  <1>6. QED BY <1>5 DEF w

\* The counters after a command.
LEMMA OutcomeType ==
    ASSUME TypeOK, NEW ks \in SUBSET Keys, Succeeds \/ Fails(ks)
    PROVE  /\ budget' \in [{"request", "fault", "crash"} -> Nat]
           /\ bad' \subseteq Keys /\ late' \subseteq bad'
           /\ bad \subseteq bad' /\ late \subseteq late'
PROOF
  <1>1. CASE Succeeds BY <1>1 DEF Succeeds, TypeOK
  <1>2. CASE Fails(ks)
    <2>1. budget[("fault")] - 1 \in Nat BY <1>2 DEF Fails, Spend, TypeOK
    <2>2. QED BY <1>2, <2>1 DEF Fails, Spend, TypeOK
  <1>3. QED BY <1>1, <1>2

LEMMA KeyType ==
    ASSUME CtlInv, NEW t \in Procs, work[t].op # "none"
    PROVE  Key(t) \in Keys /\ work[t].row \in PeerRow
PROOF BY DEF CtlInv, WorkInv, CallOK, Key, PeerRow

\* The calls at a command.
LEMMA AtApply ==
    ASSUME CtlInv, NEW t \in Procs,
           work[t].pc \in {"new", "flush", "accept", "drop", "checkjump",
                           "addjump"}
    PROVE  work[t].op = "apply" /\ work[t].pc # "idle"
PROOF
  <1>1. CallOK(t, work[t]) /\ work[t].op \in {"none", "apply", "remove", "orphan"}
    BY DEF CtlInv, WorkInv, CallOK, Work
  <1>2. QED BY <1>1 DEF CallOK, BootSteps, RemoveSteps

LEMMA AtRemove ==
    ASSUME CtlInv, NEW t \in Procs, work[t].pc \in RemoveSteps
    PROVE  work[t].op \in {"remove", "orphan"} /\ work[t].pc # "idle"
PROOF
  <1>1. CallOK(t, work[t]) /\ work[t].op \in {"none", "apply", "remove", "orphan"}
    BY DEF CtlInv, WorkInv, CallOK, Work
  <1>2. QED BY <1>1 DEF CallOK, BootSteps, RemoveSteps, ApplySteps

\* The next command of the same call.
LEMMA NextPc ==
    ASSUME NEW t \in Procs, NEW w, CallOK(t, w), w.op # "none", NEW p,
           \/ /\ w.op = "apply" /\ p \in ApplySteps
              /\ p \in {"new", "flush"} => w.cidrs = w.row.allow
              /\ p = "accept" => w.cidrs # {}
           \/ w.op \in {"remove", "orphan"} /\ p \in RemoveSteps \ {"deljump"}
    PROVE  CallOK(t, [w EXCEPT !.pc = p])
PROOF
  <1> DEFINE v == [w EXCEPT !.pc = p]
  <1>1. w \in Work BY DEF CallOK
  <1>2. /\ v.pc = p /\ v.op = w.op /\ v.row = w.row /\ v.next = w.next
        /\ v.ret = w.ret /\ v.cidrs = w.cidrs
    BY <1>1 DEF Work
  <1>3. v \in Work BY <1>1 DEF Work, ApplySteps, RemoveSteps
  <1> HIDE DEF v
  <1>4. CallOK(t, v) BY <1>2, <1>3 DEF CallOK, ApplySteps, RemoveSteps
  <1>5. QED BY <1>4 DEF v

-----------------------------------------------------------------------------
(* The commands. *)

LEMMA TypeStep ==
    ASSUME TypeOK, CtlInv', UNCHANGED Outer,
           NEW ks \in SUBSET Keys, Succeeds \/ Fails(ks),
           chain' \in [Keys -> Chain \cup {None}],
           dispatch' \in [Hosts \X Keys -> Nat], forward' \in BOOLEAN
    PROVE  FwInv'
PROOF
  <1>1. row' = row /\ phase' = phase /\ left' = left /\ snap' = snap
    BY DEF Outer
  <1>2. /\ budget' \in [{"request", "fault", "crash"} -> Nat]
        /\ bad' \subseteq Keys /\ late' \subseteq bad'
    BY OutcomeType
  <1>3. work' \in [Threads \cup {Boot} -> Work] BY DEF CtlInv, WorkInv, Procs
  <1>4. TypeOK' BY <1>1, <1>2, <1>3 DEF TypeOK
  <1>5. QED BY <1>4 DEF FwInv

LEMMA EmptyChainType == EmptyChain \in Chain
PROOF BY DEF EmptyChain, Chain

LEMMA NewChainInv ==
    ASSUME FwInv, NEW t \in Procs, NewChain(t) PROVE FwInv'
PROOF
  <1>1. /\ work[t].pc = "new" /\ Goto(t, "flush") /\ UNCHANGED Outer
        /\ dispatch' = dispatch /\ forward' = forward
        /\ Succeeds \/ Fails({Key(t)})
        /\ chain' = chain \/ chain' = [chain EXCEPT ![Key(t)] =
                                IF @ = None THEN EmptyChain ELSE @]
    BY DEF NewChain, At
  <1>2. work[t].op = "apply" /\ work[t].pc # "idle"
    BY <1>1, AtApply DEF FwInv
  <1>3. CallOK(t, work[t]) /\ Key(t) \in Keys
    BY <1>2, CallFacts, KeyType DEF FwInv
  <1>4. CallOK(t, [work[t] EXCEPT !.pc = "flush"])
    BY <1>1, <1>2, <1>3, NextPc DEF ApplySteps, CallOK
  <1>5. CtlInv' BY <1>1, <1>2, <1>4, GotoStep DEF FwInv, TypeOK, Outer
  <1>6. chain' \in [Keys -> Chain \cup {None}]
    BY <1>1, EmptyChainType DEF FwInv, TypeOK
  <1>7. QED BY <1>1, <1>3, <1>5, <1>6, TypeStep DEF FwInv, TypeOK

LEMMA FlushChainInv ==
    ASSUME FwInv, NEW t \in Procs, FlushChain(t) PROVE FwInv'
PROOF
  <1>1. /\ work[t].pc \in {"flush", "emptyx"} /\ Goto(t, AfterFlush(t))
        /\ UNCHANGED Outer
        /\ dispatch' = dispatch /\ forward' = forward
        /\ Succeeds \/ Fails({Key(t)})
        /\ chain' = chain \/ chain' = [chain EXCEPT ![Key(t)] =
                                IF @ = None THEN None ELSE EmptyChain]
    BY DEF FlushChain, At
  <1>2. /\ work[t].op # "none" /\ work[t].pc # "idle"
        /\ work[t].pc = "flush" => work[t].op = "apply"
        /\ work[t].pc = "emptyx" => work[t].op \in {"remove", "orphan"}
    BY <1>1, AtApply, AtRemove DEF FwInv, RemoveSteps
  <1>3. CallOK(t, work[t]) /\ Key(t) \in Keys
    BY <1>2, CallFacts, KeyType DEF FwInv
  <1> DEFINE p == AfterFlush(t)
  <1>4. /\ p # "idle"
        /\ work[t].pc = "flush" => p \in ApplySteps \ {"new", "flush"}
        /\ work[t].pc = "emptyx" => p \in RemoveSteps \ {"deljump"}
        /\ p = "accept" => work[t].cidrs # {}
    BY <1>1 DEF AfterFlush, At, ApplySteps, RemoveSteps
  <1> HIDE DEF p
  <1>5. CallOK(t, [work[t] EXCEPT !.pc = p])
    BY <1>1, <1>2, <1>3, <1>4, NextPc
  <1>6. Goto(t, p) BY <1>1 DEF p
  <1>7. CtlInv'
    BY <1>1, <1>2, <1>4, <1>5, <1>6, GotoStep DEF FwInv, TypeOK, Outer
  <1>8. chain' \in [Keys -> Chain \cup {None}]
    BY <1>1, EmptyChainType DEF FwInv, TypeOK
  <1>9. QED BY <1>1, <1>3, <1>7, <1>8, TypeStep DEF FwInv, TypeOK

LEMMA AcceptedType ==
    ASSUME NEW c \in Chain \cup {None}, NEW r \in PeerRow, r.addr # None,
           NEW d \in Cidrs
    PROVE  Accepted(c, r, d) \in Chain \cup {None}
PROOF BY SrcType DEF Accepted, Chain

\* What AddAccept does to the record of its call.
AcceptRest(w, c) == [w EXCEPT !.cidrs = @ \ {c},
                              !.pc = IF w.cidrs = {c} THEN "drop" ELSE "accept"]

LEMMA AddAcceptFacts ==
    ASSUME FwInv, NEW t \in Procs, AddAccept(t)
    PROVE  \E c \in work[t].cidrs :
             /\ \/ /\ chain' = [chain EXCEPT ![Key(t)] =
                                  Accepted(chain[Key(t)], work[t].row, c)]
                   /\ Succeeds
                \/ Fails({Key(t)}) /\ chain' = chain
             /\ work' = [work EXCEPT ![t] = AcceptRest(work[t], c)]
PROOF
  <1>1. PICK c \in work[t].cidrs :
         /\ LET k == Key(t)
            IN  \/ /\ chain' = [chain EXCEPT ![k] =
                                  Accepted(@, work[t].row, c)]
                   /\ Succeeds
                \/ Fails({k}) /\ UNCHANGED chain
         /\ work' = [work EXCEPT ![t].cidrs = @ \ {c},
                                 ![t].pc = IF work[t].cidrs = {c} THEN "drop"
                                                                  ELSE "accept"]
    BY DEF AddAccept
  <1>2. \/ /\ chain' = [chain EXCEPT ![Key(t)] =
                          Accepted(chain[Key(t)], work[t].row, c)]
           /\ Succeeds
        \/ Fails({Key(t)}) /\ chain' = chain
    BY <1>1
  <1>3. work \in [Procs -> Work] BY DEF FwInv, CtlInv, WorkInv
  <1>4. work' = [work EXCEPT ![t] = AcceptRest(work[t], c)]
    BY <1>1, <1>3 DEF AcceptRest, Work
  <1>5. QED BY <1>2, <1>4

LEMMA AddAcceptInv ==
    ASSUME FwInv, NEW t \in Procs, AddAccept(t) PROVE FwInv'
PROOF
  <1>1. /\ work[t].pc = "accept" /\ UNCHANGED Outer
        /\ dispatch' = dispatch /\ forward' = forward
    BY DEF AddAccept, At
  <1>2. PICK c \in work[t].cidrs :
             /\ \/ /\ chain' = [chain EXCEPT ![Key(t)] =
                                  Accepted(chain[Key(t)], work[t].row, c)]
                   /\ Succeeds
                \/ Fails({Key(t)}) /\ chain' = chain
             /\ work' = [work EXCEPT ![t] = AcceptRest(work[t], c)]
    BY AddAcceptFacts
  <1>3. work[t].op = "apply" /\ work[t].pc # "idle"
    BY <1>1, AtApply DEF FwInv
  <1>4. /\ CallOK(t, work[t]) /\ Key(t) \in Keys /\ work[t].row \in PeerRow
        /\ work[t].row.addr # None /\ work[t] \in Work
    BY <1>3, CallFacts, KeyType DEF FwInv, CallOK
  <1> DEFINE w == AcceptRest(work[t], c)
  <1>5. /\ w \in Work
        /\ w.pc = IF work[t].cidrs = {c} THEN "drop" ELSE "accept"
        /\ w.op = "apply" /\ w.row = work[t].row /\ w.next = work[t].next
        /\ w.ret = work[t].ret /\ w.cidrs = work[t].cidrs \ {c}
    BY <1>3, <1>4 DEF AcceptRest, Work
  <1> HIDE DEF w
  <1>6. w.pc = "accept" => w.cidrs # {} BY <1>2, <1>5
  <1>7. CallOK(t, w) BY <1>3, <1>4, <1>5, <1>6 DEF CallOK, ApplySteps
  <1>8. t = Boot => phase = "boot"
    BY <1>3, BootCalls DEF FwInv, TypeOK
  <1>9. work' = [work EXCEPT ![t] = w] /\ w.row.key = Key(t)
    BY <1>2, <1>5 DEF w, Key
  <1>10. CtlInv' BY <1>1, <1>3, <1>7, <1>8, <1>9, WorkStep DEF FwInv, Outer
  <1>11. c \in Cidrs BY <1>2, <1>4 DEF Work
  <1>12. chain' \in [Keys -> Chain \cup {None}]
    <2>1. chain \in [Keys -> Chain \cup {None}] BY DEF FwInv, TypeOK
    <2>2. Accepted(chain[Key(t)], work[t].row, c) \in Chain \cup {None}
      BY <1>4, <1>11, <2>1, AcceptedType
    <2>3. QED BY <1>2, <2>1, <2>2
  <1>13. QED BY <1>1, <1>2, <1>4, <1>10, <1>12, TypeStep DEF FwInv, TypeOK

LEMMA AddDropInv ==
    ASSUME FwInv, NEW t \in Procs, AddDrop(t) PROVE FwInv'
PROOF
  <1>1. /\ work[t].pc = "drop" /\ UNCHANGED Outer
        /\ dispatch' = dispatch /\ forward' = forward
        /\ Succeeds \/ Fails({Key(t)})
    BY DEF AddDrop, At
  <1>2. work[t].op = "apply" /\ work[t].pc # "idle"
    BY <1>1, AtApply DEF FwInv
  <1>3. CallOK(t, work[t]) /\ Key(t) \in Keys
    BY <1>2, CallFacts, KeyType DEF FwInv
  <1>4. CASE /\ chain[Key(t)] # None
             /\ chain' = [chain EXCEPT ![Key(t)].drop = TRUE]
             /\ Goto(t, "checkfwd")
    <2>1. CallOK(t, [work[t] EXCEPT !.pc = "checkfwd"])
      BY <1>2, <1>3, NextPc DEF ApplySteps
    <2>2. CtlInv' BY <1>1, <1>2, <1>4, <2>1, GotoStep DEF FwInv, TypeOK, Outer
    <2>3. chain[Key(t)] \in Chain BY <1>3, <1>4 DEF FwInv, TypeOK
    <2>4. [chain[Key(t)] EXCEPT !.drop = TRUE] \in Chain BY <2>3 DEF Chain
    <2>5. chain' \in [Keys -> Chain \cup {None}]
      BY <1>3, <1>4, <2>4 DEF FwInv, TypeOK
    <2>6. QED BY <1>1, <1>3, <2>2, <2>5, TypeStep DEF FwInv, TypeOK
  <1>5. CASE chain' = chain /\ Return(t)
    <2>1. CtlInv' BY <1>1, <1>2, <1>5, ReturnStep DEF FwInv, TypeOK, Outer
    <2>2. QED BY <1>1, <1>3, <1>5, <2>1, TypeStep DEF FwInv, TypeOK
  <1>6. QED BY <1>4, <1>5 DEF AddDrop

LEMMA AtForward ==
    ASSUME CtlInv, NEW t \in Procs, work[t].pc \in {"checkfwd", "addfwd"}
    PROVE  /\ work[t].pc # "idle"
           /\ work[t].op = "apply" \/ (work[t].op = "none" /\ t = Boot)
PROOF
  <1>1. CallOK(t, work[t]) /\ work[t].op \in {"none", "apply", "remove", "orphan"}
    BY DEF CtlInv, WorkInv, CallOK, Work
  <1>2. QED BY <1>1 DEF CallOK, BootSteps, RemoveSteps, ApplySteps

\* ensureDispatchChain, in a call or at the head of Sync.
LEMMA ForwardPc ==
    ASSUME CtlInv, NEW t \in Procs, work[t].pc \in {"checkfwd", "addfwd"},
           NEW p \in {"addfwd", AfterEnsure(t)}
    PROVE  p # "idle" /\ CallOK(t, [work[t] EXCEPT !.pc = p])
PROOF
  <1>1. CallOK(t, work[t]) /\ work[t] \in Work
    BY CallFacts, AtForward
  <1>2. CASE work[t].op = "apply"
    <2>1. p \in {"addfwd", "checkjump"} BY <1>2 DEF AfterEnsure
    <2>2. QED BY <1>1, <1>2, <2>1, NextPc DEF ApplySteps
  <1>3. CASE work[t].op = "none" /\ t = Boot
    <2>1. p \in {"addfwd", "flushall"} BY <1>3 DEF AfterEnsure
    <2> DEFINE v == [work[t] EXCEPT !.pc = p]
    <2>2. /\ v \in Work /\ v.op = "none" /\ v.pc = p
          /\ v.next = work[t].next /\ v.row = work[t].row
      BY <1>1, <1>3, <2>1 DEF Work
    <2> HIDE DEF v
    <2>3. CallOK(t, v) BY <1>1, <1>3, <2>1, <2>2 DEF CallOK, BootSteps
    <2>4. QED BY <2>1, <2>3 DEF v
  <1>4. QED BY <1>2, <1>3, AtForward

LEMMA CheckForwardInv ==
    ASSUME FwInv, NEW t \in Procs, CheckForward(t) PROVE FwInv'
PROOF
  <1>1. /\ work[t].pc = "checkfwd" /\ UNCHANGED Outer
        /\ chain' = chain /\ dispatch' = dispatch /\ forward' = forward
        /\ Succeeds \/ (Spend("fault") /\ UNCHANGED <<bad, late>>)
    BY DEF CheckForward, At, rules
  <1>2. Succeeds \/ Fails({}) BY <1>1 DEF Fails
  <1>3. PICK p \in {"addfwd", AfterEnsure(t)} : Goto(t, p)
    BY DEF CheckForward
  <1>4. p # "idle" /\ CallOK(t, [work[t] EXCEPT !.pc = p])
    BY <1>1, <1>3, ForwardPc DEF FwInv
  <1>5. CtlInv' BY <1>1, <1>3, <1>4, GotoStep DEF FwInv, TypeOK, Outer
  <1>6. QED BY <1>1, <1>2, <1>5, TypeStep DEF FwInv, TypeOK

LEMMA AddForwardInv ==
    ASSUME FwInv, NEW t \in Procs, AddForward(t) PROVE FwInv'
PROOF
  <1>1. /\ work[t].pc = "addfwd" /\ UNCHANGED Outer
        /\ chain' = chain /\ dispatch' = dispatch
    BY DEF AddForward, At
  <1>2. CASE forward' = TRUE /\ Goto(t, AfterEnsure(t)) /\ Succeeds
    <2> DEFINE p == AfterEnsure(t)
    <2>1. p # "idle" /\ CallOK(t, [work[t] EXCEPT !.pc = p])
      BY <1>1, ForwardPc DEF FwInv
    <2>2. Goto(t, p) BY <1>2
    <2> HIDE DEF p
    <2>3. CtlInv' BY <1>1, <2>1, <2>2, GotoStep DEF FwInv, TypeOK, Outer
    <2>4. QED BY <1>1, <1>2, <2>3, TypeStep DEF FwInv, TypeOK
  <1>3. CASE /\ work[t].op = "apply"
             /\ Fails({Key(t)}) /\ Return(t) /\ UNCHANGED forward
    <2>1. Key(t) \in Keys BY <1>3, KeyType DEF FwInv
    <2>2. CtlInv' BY <1>1, <1>3, ReturnStep DEF FwInv, TypeOK, Outer
    <2>3. QED BY <1>1, <1>3, <2>1, <2>2, TypeStep DEF FwInv, TypeOK
  <1>4. QED BY <1>2, <1>3 DEF AddForward

LEMMA CheckJumpInv ==
    ASSUME FwInv, NEW t \in Procs, CheckJump(t) PROVE FwInv'
PROOF
  <1>1. /\ work[t].pc = "checkjump" /\ UNCHANGED Outer
        /\ chain' = chain /\ dispatch' = dispatch /\ forward' = forward
        /\ Succeeds \/ Fails({Key(t)})
        /\ Return(t) \/ Goto(t, "addjump")
    BY DEF CheckJump, At, rules
  <1>2. work[t].op = "apply" /\ work[t].pc # "idle"
    BY <1>1, AtApply DEF FwInv
  <1>3. CallOK(t, work[t]) /\ Key(t) \in Keys
    BY <1>2, CallFacts, KeyType DEF FwInv
  <1>4. CASE Return(t)
    <2>1. CtlInv' BY <1>1, <1>2, <1>4, ReturnStep DEF FwInv, TypeOK, Outer
    <2>2. QED BY <1>1, <1>3, <2>1, TypeStep DEF FwInv, TypeOK
  <1>5. CASE Goto(t, "addjump")
    <2>1. CallOK(t, [work[t] EXCEPT !.pc = "addjump"])
      BY <1>2, <1>3, NextPc DEF ApplySteps
    <2>2. CtlInv' BY <1>1, <1>2, <1>5, <2>1, GotoStep DEF FwInv, TypeOK, Outer
    <2>3. QED BY <1>1, <1>3, <2>2, TypeStep DEF FwInv, TypeOK
  <1>6. QED BY <1>1, <1>4, <1>5

LEMMA AddJumpInv ==
    ASSUME FwInv, NEW t \in Procs, AddJump(t) PROVE FwInv'
PROOF
  <1> DEFINE x == <<Src(work[t].row), Key(t)>>
  <1>1. /\ work[t].pc = "addjump" /\ UNCHANGED Outer /\ Return(t)
        /\ chain' = chain /\ forward' = forward
        /\ Succeeds \/ Fails({Key(t)})
        /\ dispatch' = dispatch \/ dispatch' = [dispatch EXCEPT ![x] = @ + 1]
    BY DEF AddJump, At
  <1>2. work[t].op = "apply" /\ work[t].pc # "idle"
    BY <1>1, AtApply DEF FwInv
  <1>3. /\ CallOK(t, work[t]) /\ Key(t) \in Keys /\ work[t].row \in PeerRow
        /\ work[t].row.addr # None
    BY <1>2, CallFacts, KeyType DEF FwInv, CallOK
  <1>4. x \in Hosts \X Keys BY <1>3, SrcType
  <1> HIDE DEF x
  <1>5. dispatch' \in [Hosts \X Keys -> Nat]
    BY <1>1, <1>4 DEF FwInv, TypeOK
  <1>6. CtlInv' BY <1>1, <1>2, ReturnStep DEF FwInv, TypeOK, Outer
  <1>7. QED BY <1>1, <1>3, <1>5, <1>6, TypeStep DEF FwInv, TypeOK

LEMMA LessType ==
    ASSUME NEW n \in Nat PROVE Less(n) \in Nat /\ Less(n) <= n
PROOF BY DEF Less

LEMMA DelJumpInv ==
    ASSUME FwInv, NEW t \in Procs, DelJump(t) PROVE FwInv'
PROOF
  <1> DEFINE x == <<Src(work[t].row), Key(t)>>
  <1>1. /\ work[t].pc = "deljump" /\ UNCHANGED Outer /\ Goto(t, "emptyx")
        /\ chain' = chain /\ forward' = forward
        /\ Succeeds \/ Fails({Key(t)})
        /\ \/ dispatch' = dispatch
           \/ dispatch' = [dispatch EXCEPT ![x] = Less(dispatch[x])]
    BY DEF DelJump, At
  <1>2. work[t].op \in {"remove", "orphan"} /\ work[t].pc # "idle"
    BY <1>1, AtRemove DEF FwInv, RemoveSteps
  <1>3. CallOK(t, work[t]) /\ Key(t) \in Keys
    BY <1>2, CallFacts, KeyType DEF FwInv
  <1>4. CallOK(t, [work[t] EXCEPT !.pc = "emptyx"])
    BY <1>2, <1>3, NextPc DEF RemoveSteps
  <1> HIDE DEF x
  <1>5. dispatch' \in [Hosts \X Keys -> Nat]
    <2>1. dispatch \in [Hosts \X Keys -> Nat] BY DEF FwInv, TypeOK
    <2>2. x \in Hosts \X Keys => Less(dispatch[x]) \in Nat BY <2>1, LessType
    <2>3. QED BY <1>1, <2>1, <2>2
  <1>6. CtlInv' BY <1>1, <1>2, <1>4, GotoStep DEF FwInv, TypeOK, Outer
  <1>7. QED BY <1>1, <1>3, <1>5, <1>6, TypeStep DEF FwInv, TypeOK

\* A step of a call that changes hits.
HitsStep(w, hs, p) == [w EXCEPT !.hits = hs, !.pc = p]

LEMMA HitsCall ==
    ASSUME CtlInv, phase \in {"boot", "up"}, NEW t \in Procs,
           work[t].op \in {"remove", "orphan"}, work[t].pc # "idle",
           NEW hs \in [Hosts -> Nat],
           work' = [work EXCEPT ![t] = HitsStep(work[t], hs, "deljumps")],
           UNCHANGED <<row, phase>>
    PROVE  /\ CtlInv' /\ work'[t] = HitsStep(work[t], hs, "deljumps")
           /\ \A u \in Procs : u # t => work'[u] = work[u]
PROOF
  <1> DEFINE w == HitsStep(work[t], hs, "deljumps")
  <1>1. CallOK(t, work[t]) /\ work[t] \in Work BY CallFacts
  <1>2. /\ w \in Work /\ w.pc = "deljumps"
        /\ w.op = work[t].op /\ w.row = work[t].row
        /\ w.next = work[t].next /\ w.ret = work[t].ret
    BY <1>1 DEF HitsStep, Work
  <1>3. work' = [work EXCEPT ![t] = w] OBVIOUS
  <1> HIDE DEF w
  <1>4. CallOK(t, w) BY <1>1, <1>2 DEF CallOK, RemoveSteps
  <1>5. w.row.key = Key(t) BY <1>2 DEF Key
  <1>6. t = Boot => phase = "boot" BY BootCalls
  <1>7. /\ CtlInv' /\ work'[t] = w
        /\ \A u \in Procs : u # t => work'[u] = work[u]
    BY <1>3, <1>4, <1>5, <1>6, WorkStep
  <1>8. QED BY <1>7 DEF w

LEMMA ScanJumpsInv ==
    ASSUME FwInv, NEW t \in Procs, ScanJumps(t) PROVE FwInv'
PROOF
  <1> DEFINE hs == [h \in Hosts |-> dispatch[<<h, Key(t)>>]]
  <1>1. /\ work[t].pc = "scan" /\ UNCHANGED Outer
        /\ chain' = chain /\ dispatch' = dispatch /\ forward' = forward
        /\ Succeeds \/ Fails({Key(t)})
    BY DEF ScanJumps, At, rules
  <1>2. work[t].op \in {"remove", "orphan"} /\ work[t].pc # "idle"
    BY <1>1, AtRemove DEF FwInv, RemoveSteps
  <1>3. CallOK(t, work[t]) /\ Key(t) \in Keys /\ work[t] \in Work
    BY <1>2, CallFacts, KeyType DEF FwInv
  <1>4. CtlInv'
    <2>1. CASE work' = [work EXCEPT ![t].hits = hs, ![t].pc = "deljumps"]
      <3>1. dispatch \in [Hosts \X Keys -> Nat] BY DEF FwInv, TypeOK
      <3>2. hs \in [Hosts -> Nat] BY <1>3, <3>1
      <3> HIDE DEF hs
      <3>3. work' = [work EXCEPT ![t] = HitsStep(work[t], hs, "deljumps")]
        BY <1>3, <2>1 DEF HitsStep, Work, FwInv, CtlInv, WorkInv
      <3>4. QED BY <1>1, <1>2, <3>2, <3>3, HitsCall DEF FwInv, TypeOK, Outer
    <2>2. CASE Goto(t, "emptyx")
      <3>1. CallOK(t, [work[t] EXCEPT !.pc = "emptyx"])
        BY <1>2, <1>3, NextPc DEF RemoveSteps
      <3>2. QED BY <1>1, <1>2, <2>2, <3>1, GotoStep DEF FwInv, TypeOK, Outer
    <2>3. QED BY <2>1, <2>2 DEF ScanJumps
  <1>5. QED BY <1>1, <1>3, <1>4, TypeStep DEF FwInv, TypeOK

LEMMA DelJumpsInv ==
    ASSUME FwInv, NEW t \in Procs, DelJumps(t) PROVE FwInv'
PROOF
  <1>1. /\ work[t].pc = "deljumps" /\ UNCHANGED Outer
        /\ chain' = chain /\ forward' = forward
    BY DEF DelJumps, At
  <1>2. work[t].op \in {"remove", "orphan"} /\ work[t].pc # "idle"
    BY <1>1, AtRemove DEF FwInv, RemoveSteps
  <1>3. CallOK(t, work[t]) /\ Key(t) \in Keys /\ work[t] \in Work
    BY <1>2, CallFacts, KeyType DEF FwInv
  <1>4. CASE \E h \in Hosts :
               /\ work[t].hits[h] > 0
               /\ \/ /\ dispatch' = [dispatch EXCEPT ![<<h, Key(t)>>] = Less(@)]
                     /\ Succeeds
                  \/ Fails({Key(t)}) /\ UNCHANGED dispatch
               /\ work' = [work EXCEPT ![t].hits[h] = @ - 1]
    <2>1. PICK h \in Hosts :
               /\ work[t].hits[h] > 0
               /\ \/ /\ dispatch' = [dispatch EXCEPT ![<<h, Key(t)>>] =
                                       Less(dispatch[<<h, Key(t)>>])]
                     /\ Succeeds
                  \/ Fails({Key(t)}) /\ UNCHANGED dispatch
               /\ work' = [work EXCEPT ![t].hits[h] = @ - 1]
      BY <1>4
    <2> DEFINE hs == [work[t].hits EXCEPT ![h] = @ - 1]
    <2>2. work[t].hits \in [Hosts -> Nat] BY <1>3 DEF Work
    <2>3. hs \in [Hosts -> Nat] BY <2>1, <2>2
    <2>4. work' = [work EXCEPT ![t] = [work[t] EXCEPT !.hits = hs]]
      BY <1>3, <2>1 DEF FwInv, CtlInv, WorkInv, Work
    <2> HIDE DEF hs
    <2>5. [work[t] EXCEPT !.hits = hs] = HitsStep(work[t], hs, "deljumps")
      BY <1>1, <1>3 DEF HitsStep, Work
    <2>6. CtlInv'
      BY <1>1, <1>2, <2>3, <2>4, <2>5, HitsCall DEF FwInv, TypeOK, Outer
    <2>7. dispatch' \in [Hosts \X Keys -> Nat]
      <3>1. dispatch \in [Hosts \X Keys -> Nat] BY DEF FwInv, TypeOK
      <3>2. Less(dispatch[<<h, Key(t)>>]) \in Nat BY <1>3, <3>1, LessType
      <3>3. QED BY <2>1, <3>1, <3>2
    <2>8. QED BY <1>1, <1>3, <2>1, <2>6, <2>7, TypeStep DEF FwInv, TypeOK
  <1>5. CASE Goto(t, "emptyx") /\ Succeeds /\ dispatch' = dispatch
    <2>1. CallOK(t, [work[t] EXCEPT !.pc = "emptyx"])
      BY <1>2, <1>3, NextPc DEF RemoveSteps
    <2>2. CtlInv' BY <1>1, <1>2, <1>5, <2>1, GotoStep DEF FwInv, TypeOK, Outer
    <2>3. QED BY <1>1, <1>3, <1>5, <2>2, TypeStep DEF FwInv, TypeOK
  <1>6. QED BY <1>4, <1>5 DEF DelJumps

LEMMA DeleteChainInv ==
    ASSUME FwInv, NEW t \in Procs, DeleteChain(t) PROVE FwInv'
PROOF
  <1>1. /\ work[t].pc = "delete" /\ UNCHANGED Outer /\ Return(t)
        /\ dispatch' = dispatch /\ forward' = forward
        /\ Succeeds \/ Fails({Key(t)})
        /\ chain' = chain \/ chain' = [chain EXCEPT ![Key(t)] = None]
    BY DEF DeleteChain, At
  <1>2. work[t].op \in {"remove", "orphan"} /\ work[t].pc # "idle"
    BY <1>1, AtRemove DEF FwInv, RemoveSteps
  <1>3. Key(t) \in Keys BY <1>2, KeyType DEF FwInv
  <1>4. CtlInv' BY <1>1, <1>2, ReturnStep DEF FwInv, TypeOK, Outer
  <1>5. chain' \in [Keys -> Chain \cup {None}] BY <1>1 DEF FwInv, TypeOK
  <1>6. QED BY <1>1, <1>3, <1>4, <1>5, TypeStep DEF FwInv, TypeOK

LEMMA CommandInv ==
    ASSUME FwInv, NEW t \in Procs, Command(t) PROVE FwInv'
PROOF
  BY NewChainInv, FlushChainInv, AddAcceptInv, AddDropInv, CheckForwardInv,
     AddForwardInv, CheckJumpInv, AddJumpInv, DelJumpInv, ScanJumpsInv,
     DelJumpsInv, DeleteChainInv
     DEF Command

-----------------------------------------------------------------------------
(* Sync. *)

\* A step of Sync itself: the record of Boot is replaced.
LEMMA BootStep ==
    ASSUME CtlInv, phase = "boot", NEW w, CallOK(Boot, w),
           work' = [work EXCEPT ![Boot] = w], row' = row,
           IF phase' = "boot" THEN TRUE ELSE w.pc = "idle"
    PROVE  /\ CtlInv' /\ work'[Boot] = w
           /\ \A u \in Threads : work'[u] = work[u]
PROOF
  <1>1. Boot \in Procs /\ Boot \notin Threads /\ Threads \subseteq Procs
    BY Marks DEF Procs
  <1>2. /\ work' \in [Procs -> Work] /\ work'[Boot] = w
        /\ \A u \in Procs : u # Boot => work'[u] = work[u]
    BY <1>1 DEF CtlInv, WorkInv, CallOK
  <1>3. \A u \in Threads : work'[u] = work[u] BY <1>1, <1>2
  <1>4. WorkInv' BY <1>2 DEF CtlInv, WorkInv
  <1>5. PhaseInv' BY <1>2, <1>3 DEF CtlInv, PhaseInv
  <1>6. RowInv' BY DEF CtlInv, RowInv
  <1>7. Exclusive => Exclusive' BY <1>3 DEF Exclusive, Key
  <1>8. CtlInv' BY <1>4, <1>5, <1>6, <1>7 DEF CtlInv
  <1>9. QED BY <1>2, <1>3, <1>8

LEMMA BootGoto ==
    ASSUME FwInv, Goto(Boot, "pick") \/ Goto(Boot, "listjumps")
                    \/ Goto(Boot, "sweep"),
           work[Boot].op = "none", phase = "boot", UNCHANGED <<row, phase>>
    PROVE  CtlInv' /\ \A u \in Threads : work'[u] = work[u]
PROOF
  <1>1. PICK p \in {"pick", "listjumps", "sweep"} : Goto(Boot, p) OBVIOUS
  <1> DEFINE w == [work[Boot] EXCEPT !.pc = p]
  <1>2. Boot \in Procs BY DEF Procs
  <1>3. CallOK(Boot, work[Boot]) /\ work[Boot] \in Work
    BY <1>2 DEF FwInv, CtlInv, WorkInv, CallOK
  <1>4. work' = [work EXCEPT ![Boot] = w]
    BY <1>1, <1>2 DEF Goto, FwInv, CtlInv, WorkInv
  <1>5. /\ w \in Work /\ w.op = "none" /\ w.pc = p /\ w.next = work[Boot].next
        /\ w.row = work[Boot].row
    BY <1>1, <1>3 DEF Work
  <1> HIDE DEF w
  <1>6. CallOK(Boot, w) BY <1>3, <1>5 DEF CallOK, BootSteps
  <1>7. QED BY <1>4, <1>6, BootStep DEF FwInv

LEMMA AtBoot ==
    ASSUME FwInv, work[Boot].pc \in {"pick", "list", "listjumps", "sweep",
                                     "flushall"} \/
                  (work[Boot].pc = "addfwd" /\ work[Boot].op = "none")
    PROVE  work[Boot].op = "none" /\ phase = "boot"
PROOF
  <1>1. Boot \in Procs BY DEF Procs
  <1>2. CallOK(Boot, work[Boot])
        /\ work[Boot].op \in {"none", "apply", "remove", "orphan"}
    BY <1>1 DEF FwInv, CtlInv, WorkInv, CallOK, Work
  <1>3. work[Boot].op = "none"
    BY <1>2 DEF CallOK, RemoveSteps, ApplySteps
  <1>4. work[Boot].pc # "idle" OBVIOUS
  <1>5. phase = "boot" BY <1>4 DEF FwInv, CtlInv, PhaseInv, TypeOK
  <1>6. QED BY <1>3, <1>5

LEMMA SyncTypes ==
    ASSUME TypeOK, CtlInv', row' = row, phase' \in {"boot", "up"},
           left' \subseteq Keys, snap' \in [Hosts \X Keys -> Nat],
           UNCHANGED <<chain, forward>>,
           dispatch' \in [Hosts \X Keys -> Nat],
           budget' \in [{"request", "fault", "crash"} -> Nat],
           bad' \subseteq Keys, late' \subseteq bad'
    PROVE  FwInv'
PROOF
  <1>1. work' \in [Threads \cup {Boot} -> Work] BY DEF CtlInv, WorkInv, Procs
  <1>2. TypeOK' BY <1>1 DEF TypeOK
  <1>3. QED BY <1>2 DEF FwInv

LEMMA SyncFailsInv ==
    ASSUME FwInv, SyncFails PROVE FwInv'
PROOF
  <1>1. /\ work[Boot].pc = "addfwd" /\ work[Boot].op = "none"
        /\ Fails(Keys) /\ phase' = "up"
        /\ work' = [work EXCEPT ![Boot] = Free("idle")]
        /\ row' = row /\ chain' = chain /\ dispatch' = dispatch
        /\ forward' = forward /\ left' = left /\ snap' = snap
    BY DEF SyncFails, At, rules
  <1>2. phase = "boot" BY <1>1, AtBoot
  <1>3. "idle" \in Rets BY DEF Rets
  <1>4. CallOK(Boot, Free("idle")) /\ Free("idle").pc = "idle"
    BY <1>3, FreeOK, FreeFields DEF Procs
  <1>5. CtlInv' BY <1>1, <1>2, <1>4, BootStep DEF FwInv
  <1>6. /\ budget' \in [{"request", "fault", "crash"} -> Nat]
        /\ bad' \subseteq Keys /\ late' \subseteq bad'
    BY <1>1, OutcomeType DEF FwInv
  <1>7. QED BY <1>1, <1>5, <1>6, SyncTypes DEF FwInv, TypeOK

NoJumps == [x \in Hosts \X Keys |-> 0]

LEMMA FlushDispatchInv ==
    ASSUME FwInv, FlushDispatch PROVE FwInv'
PROOF
  <1>1. /\ work[Boot].pc = "flushall" /\ Goto(Boot, "pick")
        /\ row' = row /\ phase' = phase /\ chain' = chain
        /\ forward' = forward /\ left' = left /\ snap' = snap
        /\ dispatch' = dispatch \/ dispatch' = NoJumps
        /\ Succeeds \/ Fails(Keys)
    BY DEF FlushDispatch, At, Outer, NoJumps
  <1>2. work[Boot].op = "none" /\ phase = "boot" BY <1>1, AtBoot
  <1>3. CtlInv' BY <1>1, <1>2, BootGoto
  <1>4. /\ budget' \in [{"request", "fault", "crash"} -> Nat]
        /\ bad' \subseteq Keys /\ late' \subseteq bad'
    BY <1>1, OutcomeType DEF FwInv
  <1>5. NoJumps \in [Hosts \X Keys -> Nat] BY DEF NoJumps
  <1>6. QED BY <1>1, <1>3, <1>4, <1>5, SyncTypes DEF FwInv, TypeOK

LEMMA SyncPeerInv ==
    ASSUME FwInv, SyncPeer, \A k \in left : row[k] # None PROVE FwInv'
PROOF
  <1>1. /\ work[Boot].pc = "pick" /\ row' = row /\ phase' = phase
        /\ chain' = chain /\ dispatch' = dispatch
        /\ forward' = forward /\ snap' = snap
        /\ budget' = budget /\ bad' = bad /\ late' = late
    BY DEF SyncPeer, At, rules, history
  <1>2. work[Boot].op = "none" /\ phase = "boot" BY <1>1, AtBoot
  <1>3. Boot \in Procs /\ Returns(Boot, "pick") BY DEF Procs, Returns
  <1>4. PICK w : /\ work' = [work EXCEPT ![Boot] = w]
                 /\ CallOK(Boot, w) /\ left' \subseteq left
    <2>1. CASE \E k \in left :
             /\ work' = [work EXCEPT ![Boot] = ApplyCall(row[k], "pick", FALSE)]
             /\ left' = left \ {k}
      <3>1. PICK k \in left :
             /\ work' = [work EXCEPT ![Boot] = ApplyCall(row[k], "pick", FALSE)]
             /\ left' = left \ {k}
        BY <2>1
      <3>2. row[k] \in PeerRow BY DEF FwInv, TypeOK
      <3>3. CallOK(Boot, ApplyCall(row[k], "pick", FALSE))
        BY <1>3, <3>2, ApplyCallOK, Zenon
      <3>4. QED BY <3>1, <3>3
    <2>2. CASE /\ left = {}
               /\ work' = [work EXCEPT ![Boot] = Free("list")]
               /\ UNCHANGED left
      <3>1. CallOK(Boot, Free("list")) BY <1>3, FreeOK, Marks DEF Rets
      <3>2. QED BY <2>2, <3>1
    <2>3. QED BY <2>1, <2>2 DEF SyncPeer
  <1>5. CtlInv' BY <1>1, <1>2, <1>4, BootStep DEF FwInv
  <1>6. QED BY <1>1, <1>4, <1>5, SyncTypes DEF FwInv, TypeOK

LEMMA ListChainsInv ==
    ASSUME FwInv, ListChains PROVE FwInv'
PROOF
  <1>1. /\ work[Boot].pc = "list" /\ Goto(Boot, "listjumps")
        /\ row' = row /\ phase' = phase /\ chain' = chain
        /\ dispatch' = dispatch /\ forward' = forward /\ snap' = snap
        /\ left' = left \/ left' = Orphans
        /\ Succeeds \/ Fails(Orphans)
    BY DEF ListChains, At, rules
  <1>2. work[Boot].op = "none" /\ phase = "boot" BY <1>1, AtBoot
  <1>3. CtlInv' BY <1>1, <1>2, BootGoto
  <1>4. Orphans \subseteq Keys BY DEF Orphans
  <1>5. /\ budget' \in [{"request", "fault", "crash"} -> Nat]
        /\ bad' \subseteq Keys /\ late' \subseteq bad'
    BY <1>1, <1>4, OutcomeType DEF FwInv
  <1>6. QED BY <1>1, <1>3, <1>4, <1>5, SyncTypes DEF FwInv, TypeOK

LEMMA ListJumpsInv ==
    ASSUME FwInv, ListJumps PROVE FwInv'
PROOF
  <1>1. /\ work[Boot].pc = "listjumps" /\ Goto(Boot, "sweep")
        /\ row' = row /\ phase' = phase /\ chain' = chain
        /\ dispatch' = dispatch /\ forward' = forward /\ left' = left
        /\ snap' = dispatch \/ snap' = NoJumps
        /\ Succeeds \/ Fails(left)
    BY DEF ListJumps, At, rules, NoJumps
  <1>2. work[Boot].op = "none" /\ phase = "boot" BY <1>1, AtBoot
  <1>3. CtlInv' BY <1>1, <1>2, BootGoto
  <1>4. left \subseteq Keys BY DEF FwInv, TypeOK
  <1>5. /\ budget' \in [{"request", "fault", "crash"} -> Nat]
        /\ bad' \subseteq Keys /\ late' \subseteq bad'
    BY <1>1, <1>4, OutcomeType DEF FwInv
  <1>6. NoJumps \in [Hosts \X Keys -> Nat] BY DEF NoJumps
  <1>7. QED BY <1>1, <1>3, <1>5, <1>6, SyncTypes DEF FwInv, TypeOK

\* The record of Boot while it deletes the orphan k.
OrphanCall(k) == [Free("sweep") EXCEPT !.pc = "deljumps", !.op = "orphan",
                    !.row = [key |-> k, addr |-> None, allow |-> {},
                             enabled |-> FALSE],
                    !.hits = [h \in Hosts |-> snap[<<h, k>>]]]

LEMMA OrphanCallOK ==
    ASSUME FwInv, NEW k \in Keys
    PROVE  /\ CallOK(Boot, OrphanCall(k))
           /\ OrphanCall(k).row = [key |-> k, addr |-> None, allow |-> {},
                                   enabled |-> FALSE]
           /\ OrphanCall(k).op = "orphan" /\ OrphanCall(k).pc = "deljumps"
           /\ OrphanCall(k).hits = [h \in Hosts |-> snap[<<h, k>>]]
           /\ OrphanCall(k).next = None /\ OrphanCall(k).ret = "sweep"
PROOF
  <1> DEFINE w == OrphanCall(k)
             r == [key |-> k, addr |-> None, allow |-> {}, enabled |-> FALSE]
             hs == [h \in Hosts |-> snap[<<h, k>>]]
  <1>1. "sweep" \in Rets BY DEF Rets
  <1>2. /\ Free("sweep") \in Work /\ Free("sweep").ret = "sweep"
        /\ Free("sweep").next = None
    BY <1>1, FreeFields
  <1>3. r \in PeerRow BY DEF PeerRow
  <1>4. hs \in [Hosts -> Nat] BY DEF FwInv, TypeOK
  <1>5. w = [Free("sweep") EXCEPT !.pc = "deljumps", !.op = "orphan",
                                  !.row = r, !.hits = hs]
    BY DEF OrphanCall
  <1> HIDE DEF r, hs, w
  <1>6. /\ w \in Work /\ w.pc = "deljumps" /\ w.op = "orphan" /\ w.row = r
        /\ w.hits = hs /\ w.next = None /\ w.ret = "sweep"
    BY <1>2, <1>3, <1>4, <1>5 DEF Work
  <1>7. CallOK(Boot, w) BY <1>3, <1>6 DEF CallOK, RemoveSteps
  <1>8. QED BY <1>6, <1>7 DEF w, r, hs

LEMMA SweepOrphanInv ==
    ASSUME FwInv, SweepOrphan PROVE FwInv'
PROOF
  <1>1. /\ work[Boot].pc = "sweep" /\ row' = row /\ phase' = phase
        /\ chain' = chain /\ dispatch' = dispatch
        /\ forward' = forward /\ snap' = snap
        /\ budget' = budget /\ bad' = bad /\ late' = late
    BY DEF SweepOrphan, At, rules, history
  <1>2. work[Boot].op = "none" /\ phase = "boot" BY <1>1, AtBoot
  <1>3. PICK k \in left : /\ work' = [work EXCEPT ![Boot] = OrphanCall(k)]
                          /\ left' = left \ {k}
    BY DEF SweepOrphan, OrphanCall
  <1>4. k \in Keys /\ left' \subseteq Keys BY <1>3 DEF FwInv, TypeOK
  <1>5. CallOK(Boot, OrphanCall(k)) BY <1>4, OrphanCallOK
  <1>6. CtlInv' BY <1>1, <1>2, <1>3, <1>5, BootStep DEF FwInv
  <1>7. QED BY <1>1, <1>4, <1>6, SyncTypes DEF FwInv, TypeOK

LEMMA SyncDoneInv ==
    ASSUME FwInv, SyncDone PROVE FwInv'
PROOF
  <1>1. /\ work[Boot].pc = "sweep" /\ phase' = "up"
        /\ work' = [work EXCEPT ![Boot] = Free("idle")]
        /\ bad' = (bad \cap Skipped) \cup late
        /\ row' = row /\ chain' = chain /\ dispatch' = dispatch
        /\ forward' = forward /\ left' = left /\ snap' = snap
        /\ budget' = budget /\ late' = late
    BY DEF SyncDone, At, rules
  <1>2. phase = "boot" BY <1>1, AtBoot
  <1>3. CallOK(Boot, Free("idle")) /\ Free("idle").pc = "idle"
    BY FreeOK, FreeFields DEF Procs, Rets
  <1>4. CtlInv' BY <1>1, <1>2, <1>3, BootStep DEF FwInv
  <1>5. bad' \subseteq Keys /\ late' \subseteq bad'
    BY <1>1 DEF FwInv, TypeOK
  <1>6. QED BY <1>1, <1>4, <1>5, SyncTypes DEF FwInv, TypeOK

\* A command goes on with its call, or returns from it.
SameCall(w, v) == /\ v.op = w.op /\ v.row = w.row /\ v.next = w.next
                  /\ v.ret = w.ret /\ v.fresh = w.fresh

LEMMA CommandWork ==
    ASSUME FwInv, NEW t \in Procs, Command(t)
    PROVE  /\ \A u \in Procs : u # t => work'[u] = work[u]
           /\ \/ SameCall(work[t], work'[t])
              \/ work[t].op # "none" /\ work'[t] = After(work[t])
           /\ UNCHANGED Outer
PROOF
  <1>0. work \in [Procs -> Work] /\ work[t] \in Work
    BY DEF FwInv, CtlInv, WorkInv
  <1>1. ASSUME NEW p, Goto(t, p)
        PROVE  /\ \A u \in Procs : u # t => work'[u] = work[u]
               /\ SameCall(work[t], work'[t])
    <2>1. work' = [work EXCEPT ![t] = [work[t] EXCEPT !.pc = p]]
      BY <1>0, <1>1 DEF Goto
    <2>2. work'[t] = [work[t] EXCEPT !.pc = p] BY <1>0, <2>1
    <2>3. SameCall(work[t], work'[t]) BY <1>0, <2>2 DEF SameCall, Work
    <2>4. QED BY <1>0, <2>1, <2>3
  <1>2. ASSUME Return(t)
        PROVE  /\ \A u \in Procs : u # t => work'[u] = work[u]
               /\ work'[t] = After(work[t])
    BY <1>0, <1>2 DEF Return, After
  <1>3. CASE NewChain(t) BY <1>1, <1>3 DEF NewChain
  <1>4. CASE FlushChain(t) BY <1>1, <1>4 DEF FlushChain
  <1>5. CASE AddAccept(t)
    <2>1. UNCHANGED Outer BY <1>5 DEF AddAccept
    <2>2. PICK c : work' = [work EXCEPT ![t] = AcceptRest(work[t], c)]
      BY <1>5, AddAcceptFacts
    <2>3. work'[t] = AcceptRest(work[t], c) BY <1>0, <2>2
    <2>4. SameCall(work[t], work'[t])
      BY <1>0, <2>3 DEF SameCall, Work, AcceptRest
    <2>5. QED BY <1>0, <2>1, <2>2, <2>4
  <1>6. CASE AddDrop(t)
    <2>1. work[t].op # "none" BY <1>6, AtApply DEF AddDrop, At, FwInv
    <2>2. QED BY <1>1, <1>2, <1>6, <2>1 DEF AddDrop
  <1>7. CASE CheckForward(t) BY <1>1, <1>7 DEF CheckForward
  <1>8. CASE AddForward(t) BY <1>1, <1>2, <1>8 DEF AddForward
  <1>9. CASE CheckJump(t)
    <2>1. work[t].op # "none" BY <1>9, AtApply DEF CheckJump, At, FwInv
    <2>2. QED BY <1>1, <1>2, <1>9, <2>1 DEF CheckJump
  <1>10. CASE AddJump(t)
    <2>1. work[t].op # "none" BY <1>10, AtApply DEF AddJump, At, FwInv
    <2>2. QED BY <1>2, <1>10, <2>1 DEF AddJump
  <1>11. CASE DelJump(t) BY <1>1, <1>11 DEF DelJump
  <1>12. CASE ScanJumps(t)
    <2>1. UNCHANGED Outer BY <1>12 DEF ScanJumps
    <2>2. CASE Goto(t, "emptyx") BY <1>1, <2>1, <2>2
    <2>3. ASSUME NEW hs,
                 work' = [work EXCEPT ![t].hits = hs, ![t].pc = "deljumps"]
          PROVE  /\ \A u \in Procs : u # t => work'[u] = work[u]
                 /\ SameCall(work[t], work'[t])
      <3>1. work'[t] = [work[t] EXCEPT !.hits = hs, !.pc = "deljumps"]
        BY <1>0, <2>3
      <3>2. SameCall(work[t], work'[t]) BY <1>0, <3>1 DEF SameCall, Work
      <3>3. QED BY <1>0, <2>3, <3>2
    <2>4. QED BY <1>12, <2>1, <2>2, <2>3 DEF ScanJumps
  <1>13. CASE DelJumps(t)
    <2>1. UNCHANGED Outer BY <1>13 DEF DelJumps
    <2>2. CASE Goto(t, "emptyx") BY <1>1, <2>1, <2>2
    <2>3. ASSUME NEW h \in Hosts, work' = [work EXCEPT ![t].hits[h] = @ - 1]
          PROVE  /\ \A u \in Procs : u # t => work'[u] = work[u]
                 /\ SameCall(work[t], work'[t])
      <3> DEFINE hs == [work[t].hits EXCEPT ![h] = @ - 1]
      <3>1. work'[t] = [work[t] EXCEPT !.hits = hs] BY <1>0, <2>3
      <3> HIDE DEF hs
      <3>2. SameCall(work[t], work'[t]) BY <1>0, <3>1 DEF SameCall, Work
      <3>3. QED BY <1>0, <2>3, <3>2
    <2>4. QED BY <1>13, <2>1, <2>2, <2>3 DEF DelJumps
  <1>14. CASE DeleteChain(t)
    <2>1. work[t].op # "none"
      BY <1>14, AtRemove DEF DeleteChain, At, FwInv, RemoveSteps
    <2>2. QED BY <1>2, <1>14, <2>1 DEF DeleteChain
  <1>15. QED
    BY <1>3, <1>4, <1>5, <1>6, <1>7, <1>8, <1>9, <1>10, <1>11, <1>12,
       <1>13, <1>14 DEF Command

\* A command of Sync itself, outside of a call.
LEMMA BootCommand ==
    ASSUME FwInv, NEW t \in Procs, Command(t), work[t].op = "none"
    PROVE  work[t].pc \in {"checkfwd", "addfwd"}
PROOF
  <1>1. work[t].pc \notin RemoveSteps BY AtRemove DEF FwInv
  <1>2. work[t].pc \notin {"new", "flush", "accept", "drop", "checkjump",
                           "addjump"}
    BY AtApply DEF FwInv
  <1>3. QED
    BY <1>1, <1>2 DEF Command, NewChain, FlushChain, AddAccept, AddDrop,
       CheckForward, AddForward, CheckJump, AddJump, DelJump, ScanJumps,
       DelJumps, DeleteChain, At, RemoveSteps

LEMMA CommandLeft ==
    ASSUME FwInv, LeftInv, NEW t \in Procs, Command(t) PROVE LeftInv'
PROOF
  <1>1. /\ \A u \in Procs : u # t => work'[u] = work[u]
        /\ \/ SameCall(work[t], work'[t])
           \/ work[t].op # "none" /\ work'[t] = After(work[t])
        /\ left' = left /\ row' = row
    BY CommandWork DEF Outer
  <1>2. Boot \in Procs BY DEF Procs
  <1>3. ASSUME Peering(work'[Boot]) PROVE Peering(work[Boot])
    <2>1. CASE t # Boot BY <1>1, <1>2, <1>3, <2>1
    <2>2. CASE t = Boot /\ work[t].op = "none"
      BY <2>2, BootCommand DEF Peering
    <2>3. CASE t = Boot /\ work[t].op # "none" /\ SameCall(work[t], work'[t])
      BY <1>3, <2>3 DEF Peering, SameCall
    <2>4. CASE t = Boot /\ work[t].op # "none" /\ work'[t] = After(work[t])
      <3>1. CallOK(Boot, work[Boot]) BY <1>2 DEF FwInv, CtlInv, WorkInv
      <3>2. work[Boot].next = None /\ work[Boot].ret \in {"pick", "sweep"}
        BY <2>4, <3>1 DEF CallOK
      <3>3. work'[Boot] = Free(work[Boot].ret) BY <2>4, <3>2 DEF After
      <3>4. /\ Free(work[Boot].ret).op = "none"
            /\ Free(work[Boot].ret).pc = work[Boot].ret
        BY <3>2, FreeFields DEF Rets
      <3>5. QED BY <1>3, <2>4, <3>2, <3>3, <3>4 DEF Peering
    <2>5. QED BY <1>1, <2>1, <2>2, <2>3, <2>4
  <1>4. QED BY <1>1, <1>3 DEF LeftInv

LEMMA SyncStepInv ==
    ASSUME FwInv, LeftInv, SyncStep PROVE FwInv' /\ LeftInv'
PROOF
  <1>0. Boot \in Procs /\ work \in [Procs -> Work]
    BY DEF Procs, FwInv, CtlInv, WorkInv
  <1>1. CASE SyncFails
    <2>1. work'[Boot] = Free("idle") BY <1>0, <1>1 DEF SyncFails
    <2>2. Free("idle").op = "none" /\ Free("idle").pc = "idle"
      BY FreeFields DEF Rets
    <2>3. QED BY <1>1, <2>1, <2>2, SyncFailsInv DEF LeftInv, Peering
  <1>2. CASE FlushDispatch
    <2>1. Peering(work[Boot])
      BY <1>2, AtBoot DEF FlushDispatch, At, Peering
    <2>2. left' = left /\ row' = row BY <1>2 DEF FlushDispatch, Outer
    <2>3. QED BY <1>2, <2>1, <2>2, FlushDispatchInv DEF LeftInv
  <1>3. CASE SyncPeer
    <2>1. Peering(work[Boot]) BY <1>3, AtBoot DEF SyncPeer, At, Peering
    <2>2. left' \subseteq left /\ row' = row BY <1>3 DEF SyncPeer
    <2>3. \A k \in left : row[k] # None BY <2>1 DEF LeftInv
    <2>4. FwInv' BY <1>3, <2>3, SyncPeerInv
    <2>5. QED BY <2>2, <2>3, <2>4 DEF LeftInv
  <1>4. CASE ListChains
    <2>1. work[Boot].op = "none" BY <1>4, AtBoot DEF ListChains, At
    <2>2. work'[Boot] = [work[Boot] EXCEPT !.pc = "listjumps"]
      BY <1>0, <1>4 DEF ListChains, Goto
    <2>3. ~ Peering(work'[Boot]) BY <1>0, <2>1, <2>2 DEF Peering, Work
    <2>4. QED BY <1>4, <2>3, ListChainsInv DEF LeftInv
  <1>5. CASE ListJumps
    <2>1. work[Boot].op = "none" BY <1>5, AtBoot DEF ListJumps, At
    <2>2. work'[Boot] = [work[Boot] EXCEPT !.pc = "sweep"]
      BY <1>0, <1>5 DEF ListJumps, Goto
    <2>3. ~ Peering(work'[Boot]) BY <1>0, <2>1, <2>2 DEF Peering, Work
    <2>4. QED BY <1>5, <2>3, ListJumpsInv DEF LeftInv
  <1>6. CASE SweepOrphan
    <2>1. PICK k \in left : work' = [work EXCEPT ![Boot] = OrphanCall(k)]
      BY <1>6 DEF SweepOrphan, OrphanCall
    <2>2. k \in Keys BY <2>1 DEF FwInv, TypeOK
    <2>3. OrphanCall(k).op = "orphan" /\ OrphanCall(k).ret = "sweep"
      BY <2>2, OrphanCallOK
    <2>4. work'[Boot] = OrphanCall(k) BY <1>0, <2>1
    <2>5. ~ Peering(work'[Boot]) BY <2>3, <2>4 DEF Peering
    <2>6. QED BY <1>6, <2>5, SweepOrphanInv DEF LeftInv
  <1>7. CASE SyncDone
    <2>1. work'[Boot] = Free("idle") BY <1>0, <1>7 DEF SyncDone
    <2>2. Free("idle").op = "none" /\ Free("idle").pc = "idle"
      BY FreeFields DEF Rets
    <2>3. QED BY <1>7, <2>1, <2>2, SyncDoneInv DEF LeftInv, Peering
  <1>8. QED BY <1>1, <1>2, <1>3, <1>4, <1>5, <1>6, <1>7 DEF SyncStep

-----------------------------------------------------------------------------
(* Requests and crashes. *)

\* The call that a request for k makes.
RequestCall(k, r) ==
    LET old == row[k]
        new == row[k] = None
    IN  IF r = None THEN RemoveCall(old, None, "idle")
        ELSE IF ~ new /\ r.addr # old.addr THEN RemoveCall(old, r, "idle")
        ELSE IF new /\ ~ r.enabled THEN Free("idle")
        ELSE ApplyCall(r, "idle", new)

LEMMA RequestFacts ==
    ASSUME FwInv, NEW t \in Threads, Request(t)
    PROVE  \E k \in Keys, r \in PeerRows \cup {None} :
             /\ phase = "up" /\ work[t].pc = "idle"
             /\ Overlap \/ ~ Busy(k)
             /\ r # row[k] /\ (r # None => r.key = k)
             /\ r # None /\ row[k] # None => (r.addr = None => row[k].addr = None)
             /\ Spend("request")
             /\ row' = [row EXCEPT ![k] = r]
             /\ work' = [work EXCEPT ![t] = RequestCall(k, r)]
             /\ seen' = [seen EXCEPT ![k] = Shown(k)]
             /\ UNCHANGED <<phase, rules, left, snap, bad, late>>
PROOF BY DEF Request, At, RequestCall

LEMMA RequestCallOK ==
    ASSUME FwInv, NEW t \in Threads, NEW k \in Keys,
           NEW r \in PeerRows \cup {None}, r # row[k], r # None => r.key = k
    PROVE  /\ CallOK(t, RequestCall(k, r))
           /\ RequestCall(k, r).pc # "idle" => RequestCall(k, r).row.key = k
PROOF
  <1> DEFINE old == row[k]
             c == RequestCall(k, r)
  <1>1. t \in Procs /\ t # Boot /\ Returns(t, "idle")
    BY Marks DEF Procs, Returns
  <1>2. old # None => old \in PeerRow /\ old.key = k
    BY DEF FwInv, TypeOK, CtlInv, RowInv
  <1>3. r # None => r \in PeerRow BY Marks
  <1>4. CallOK(t, Free("idle")) /\ Free("idle").pc = "idle"
    BY <1>1, FreeOK, FreeFields DEF Rets
  <1>5. CASE r = None
    <2>1. c = RemoveCall(old, None, "idle") BY <1>5 DEF RequestCall
    <2>2. QED BY <1>1, <1>2, <1>5, <2>1, RemoveCallOK
  <1>6. CASE r # None /\ old # None /\ r.addr # old.addr
    <2>1. c = RemoveCall(old, r, "idle") BY <1>6 DEF RequestCall
    <2>2. QED BY <1>1, <1>2, <1>3, <1>6, <2>1, RemoveCallOK
  <1>7. CASE r # None /\ old = None /\ ~ r.enabled
    <2>1. c = Free("idle") BY <1>7 DEF RequestCall
    <2>2. QED BY <1>4, <2>1
  <1>8. CASE /\ r # None
             /\ ~ (old # None /\ r.addr # old.addr)
             /\ ~ (old = None /\ ~ r.enabled)
    <2>1. PICK f \in BOOLEAN : f = (row[k] = None) BY Zenon
    <2>2. c = ApplyCall(r, "idle", f)
      BY <1>8, <2>1 DEF RequestCall
    <2>3. /\ CallOK(t, c)
          /\ \/ c = Free("idle") \/ c = RemoveCall(r, None, "idle")
             \/ c.row = r
      BY <1>1, <1>3, <1>8, <2>2, ApplyCallOK
    <2>4. RemoveCall(r, None, "idle").row = r
      BY <1>1, <1>3, <1>8, RemoveCallOK
    <2>5. QED BY <1>4, <1>8, <2>3, <2>4
  <1>9. QED BY <1>5, <1>6, <1>7, <1>8

LEMMA RequestInv ==
    ASSUME FwInv, LeftInv, NEW t \in Threads, Request(t)
    PROVE  FwInv' /\ LeftInv'
PROOF
  <1>1. PICK k \in Keys, r \in PeerRows \cup {None} :
             /\ phase = "up" /\ work[t].pc = "idle"
             /\ Overlap \/ ~ Busy(k)
             /\ r # row[k] /\ (r # None => r.key = k)
             /\ Spend("request")
             /\ row' = [row EXCEPT ![k] = r]
             /\ work' = [work EXCEPT ![t] = RequestCall(k, r)]
             /\ UNCHANGED <<phase, rules, left, snap, bad, late>>
    BY RequestFacts
  <1> DEFINE w == RequestCall(k, r)
  <1>2. CallOK(t, w) /\ (w.pc # "idle" => w.row.key = k)
    BY <1>1, RequestCallOK
  <1>3. work' = [work EXCEPT ![t] = w] BY <1>1
  <1> HIDE DEF w
  <1>4. t \in Procs /\ t # Boot /\ Boot \in Procs BY Marks DEF Procs
  <1>5. /\ work' \in [Procs -> Work] /\ work'[t] = w
        /\ \A u \in Procs : u # t => work'[u] = work[u]
    BY <1>2, <1>3, <1>4 DEF FwInv, CtlInv, WorkInv, CallOK
  <1>6. WorkInv' BY <1>2, <1>5 DEF FwInv, CtlInv, WorkInv
  <1>7. PhaseInv' BY <1>1, <1>4, <1>5 DEF FwInv, CtlInv, PhaseInv
  <1>8. row \in [Keys -> PeerRow \cup {None}] BY DEF FwInv, TypeOK
  <1>9. RowInv' BY <1>1, <1>8 DEF FwInv, CtlInv, RowInv
  <1>10. ASSUME ~ Overlap PROVE Exclusive'
    <2>1. \A u \in Threads : work[u].pc # "idle" => Key(u) # k
      BY <1>1, <1>10 DEF Busy, Key
    <2>2. Exclusive BY <1>10 DEF FwInv, CtlInv
    <2>3. \A u \in Threads : u # t => work'[u] = work[u]
      BY <1>5 DEF Procs
    <2>4. QED BY <1>2, <1>5, <2>1, <2>2, <2>3 DEF Exclusive, Key
  <1>11. CtlInv' BY <1>6, <1>7, <1>9, <1>10 DEF CtlInv
  <1>12. row' \in [Keys -> PeerRow \cup {None}] BY <1>1, <1>8, Marks
  <1>13. budget' \in [{"request", "fault", "crash"} -> Nat]
    <2>1. budget[("request")] - 1 \in Nat BY <1>1 DEF Spend, FwInv, TypeOK
    <2>2. QED BY <1>1, <2>1 DEF Spend, FwInv, TypeOK
  <1>14. work' \in [Threads \cup {Boot} -> Work] BY <1>5 DEF Procs
  <1>15. TypeOK' BY <1>1, <1>12, <1>13, <1>14 DEF FwInv, TypeOK, rules
  <1>16. LeftInv'
    <2>1. work'[Boot] = work[Boot] BY <1>4, <1>5
    <2>2. work[Boot].pc = "idle" BY <1>1 DEF FwInv, CtlInv, PhaseInv
    <2>3. CallOK(Boot, work[Boot]) /\ work[Boot] \in Work
      BY <1>4 DEF FwInv, CtlInv, WorkInv, CallOK
    <2>4. work[Boot].op = "none"
      BY <2>2, <2>3 DEF CallOK, Work, ApplySteps, RemoveSteps
    <2>5. QED BY <2>1, <2>2, <2>4 DEF LeftInv, Peering
  <1>17. QED BY <1>11, <1>15, <1>16 DEF FwInv

\* The goroutines of a process that has just started.
Started == [[t \in Threads \cup {Boot} |-> Free("idle")]
              EXCEPT ![Boot] = Free("checkfwd")]

LEMMA StartedOK ==
    /\ Started \in [Procs -> Work]
    /\ Started[Boot] = Free("checkfwd")
    /\ \A t \in Threads : Started[t] = Free("idle")
    /\ \A t \in Procs : CallOK(t, Started[t])
PROOF
  <1>1. Free("idle") \in Work /\ Free("checkfwd") \in Work
    BY FreeFields DEF Rets
  <1>2. /\ Started \in [Procs -> Work] /\ Started[Boot] = Free("checkfwd")
        /\ \A t \in Threads : Started[t] = Free("idle")
    BY <1>1, Marks DEF Started, Procs
  <1>3. ASSUME NEW t \in Procs PROVE CallOK(t, Started[t])
    <2>1. CASE t = Boot
      <3>1. t \notin Threads /\ "checkfwd" \in Rets BY <2>1, Marks DEF Rets
      <3>2. CallOK(t, Free("checkfwd")) BY <3>1, FreeOK
      <3>3. QED BY <1>2, <2>1, <3>2
    <2>2. CASE t \in Threads BY <1>2, <2>2, FreeOK DEF Rets
    <2>3. QED BY <2>1, <2>2 DEF Procs
  <1>4. QED BY <1>2, <1>3

LEMMA StartedCtl ==
    ASSUME work = Started, phase = "boot", RowInv,
           \A k \in left : row[k] # None
    PROVE  CtlInv /\ LeftInv
PROOF
  <1>1. WorkInv BY StartedOK DEF WorkInv
  <1>2. \A t \in Threads : work[t].pc = "idle"
    BY StartedOK, FreeFields DEF Rets
  <1>3. PhaseInv /\ Exclusive BY <1>2 DEF PhaseInv, Exclusive
  <1>4. QED BY <1>1, <1>3 DEF CtlInv, LeftInv

LEMMA CrashInv ==
    ASSUME FwInv, LeftInv, Crash PROVE FwInv' /\ LeftInv'
PROOF
  <1>1. /\ Spend("crash") /\ phase' = "boot" /\ work' = Started
        /\ bad' = bad \cup {k \in Keys : Busy(k)} /\ late' = {}
        /\ chain' = chain /\ dispatch' = dispatch /\ forward' = forward
        /\ snap' = snap
    BY DEF Crash, Started, rules
  <1>2. PICK lost : /\ row' = [k \in Keys |-> IF k \in lost THEN None ELSE row[k]]
                    /\ left' = {k \in Keys : row[k] # None} \ lost
    BY DEF Crash
  <1>3. row' \in [Keys -> PeerRow \cup {None}] BY <1>2 DEF FwInv, TypeOK
  <1>4. RowInv' BY <1>2 DEF RowInv, FwInv, CtlInv
  <1>5. \A k \in left' : row'[k] # None BY <1>2
  <1>6. CtlInv' /\ LeftInv'
    <2>1. WorkInv' BY <1>1, StartedOK DEF WorkInv
    <2>2. \A t \in Threads : work'[t].pc = "idle"
      BY <1>1, StartedOK, FreeFields DEF Rets
    <2>3. PhaseInv' /\ Exclusive' BY <1>1, <2>2 DEF PhaseInv, Exclusive
    <2>4. QED BY <1>4, <1>5, <2>1, <2>3 DEF CtlInv, LeftInv
  <1>7. budget' \in [{"request", "fault", "crash"} -> Nat]
    <2>1. budget[("crash")] - 1 \in Nat BY <1>1 DEF Spend, FwInv, TypeOK
    <2>2. QED BY <1>1, <2>1 DEF Spend, FwInv, TypeOK
  <1>8. work' \in [Threads \cup {Boot} -> Work]
    BY <1>1, StartedOK DEF Procs
  <1>9. left' \subseteq Keys /\ bad' \subseteq Keys /\ late' \subseteq bad'
    BY <1>1, <1>2 DEF FwInv, TypeOK
  <1>10. TypeOK' BY <1>1, <1>3, <1>7, <1>8, <1>9 DEF FwInv, TypeOK
  <1>11. QED BY <1>6, <1>10 DEF FwInv

LEMMA InitInv ==
    ASSUME Init PROVE FwInv /\ LeftInv
PROOF
  <1>1. /\ row = InitRow /\ phase = "boot" /\ work = Started
        /\ left = {k \in Keys : InitRow[k] # None}
    BY DEF Init, Started
  <1>2. RowInv /\ \A k \in left : row[k] # None
    BY <1>1, FirewallAssumption DEF RowInv
  <1>3. CtlInv /\ LeftInv BY <1>1, <1>2, StartedCtl
  <1>4. row \in [Keys -> PeerRow \cup {None}]
    BY <1>1, FirewallAssumption
  <1>5. dispatch \in [Hosts \X Keys -> Nat] /\ snap = dispatch BY DEF Init
  <1>6. work \in [Threads \cup {Boot} -> Work]
    BY <1>1, StartedOK DEF Procs
  <1>7. TypeOK
    BY <1>1, <1>4, <1>5, <1>6, FirewallAssumption DEF Init, TypeOK
  <1>8. QED BY <1>3, <1>7 DEF FwInv

LEMMA NextInv ==
    ASSUME FwInv, LeftInv, [Next]_vars PROVE FwInv' /\ LeftInv'
PROOF
  <1>1. ASSUME NEW t \in Procs, Command(t) PROVE FwInv' /\ LeftInv'
    BY <1>1, CommandInv, CommandLeft
  <1>2. CASE SyncStep BY <1>2, SyncStepInv
  <1>3. ASSUME NEW t \in Threads, Request(t) PROVE FwInv' /\ LeftInv'
    BY <1>3, RequestInv
  <1>4. CASE Crash BY <1>4, CrashInv
  <1>5. CASE UNCHANGED vars
    <2>1. /\ row' = row /\ phase' = phase /\ chain' = chain
          /\ dispatch' = dispatch /\ forward' = forward /\ work' = work
          /\ left' = left /\ snap' = snap /\ budget' = budget
          /\ bad' = bad /\ late' = late
      BY <1>5 DEF vars, rules, history
    <2>2. TypeOK' BY <2>1 DEF FwInv, TypeOK
    <2>3. WorkInv' /\ PhaseInv' /\ RowInv' /\ LeftInv'
      BY <2>1 DEF FwInv, CtlInv, WorkInv, PhaseInv, RowInv, LeftInv
    <2>4. Exclusive => Exclusive' BY <2>1 DEF Exclusive, Key
    <2>5. QED BY <2>2, <2>3, <2>4 DEF FwInv, CtlInv
  <1>6. QED BY <1>1, <1>2, <1>3, <1>4, <1>5 DEF Next, Procs

\* Every iptables sequence of ApplyPeer, RemovePeer and Sync finds the record
\* it needs: whatever commands fail, however calls overlap and wherever the
\* process ends, each goroutine is at a command of a call for a peer, with the
\* locals of that call.
THEOREM FirewallTypes == Spec => []TypeOK
PROOF
  <1>1. Init => FwInv /\ LeftInv BY InitInv
  <1>2. (FwInv /\ LeftInv) /\ [Next]_vars => (FwInv /\ LeftInv)' BY NextInv
  <1>3. FwInv => TypeOK BY DEF FwInv
  <1>4. QED BY <1>1, <1>2, <1>3, PTL DEF Spec

-----------------------------------------------------------------------------
(* The inductive invariant. *)

\* The hosts that may jump to the chain of a peer with the row r.
Home(r) == IF r = None THEN {} ELSE IF r.addr = None THEN {} ELSE {Src(r)}

\* The peers of which the calls of t know nothing: those that failed, for Sync
\* only those that failed since it began.
Failed(t) == IF t = Boot THEN late ELSE bad

\* Built so far: the chain of an ApplyPeer at its next command.
ChainOK(w, c) ==
    /\ w.pc = "flush" => c # None
    /\ w.pc = "drop" => w.cidrs = {}
    /\ w.pc \in {"accept", "drop"} =>
         c = [acc |-> {Src(w.row)} \X (w.row.allow \ w.cidrs), drop |-> FALSE]
    /\ w.pc \in {"checkfwd", "addfwd", "checkjump", "addjump"} =>
         c = [acc |-> RulesOf(w.row), drop |-> TRUE]

\* At most one jump to the chain of k, from the host of r.
Single(k, r) == /\ HostsOf(dispatch, k) \subseteq Home(r)
                /\ \A h \in Hosts : dispatch[<<h, k>>] <= 1

\* The jumps to the chain of k and what a call leaves of it.
JumpOK(w, k) ==
    /\ Single(k, w.row)
    /\ w.pc \in {"scan", "deljumps", "emptyx", "delete", "addjump"} =>
         HostsOf(dispatch, k) = {}
    /\ w.pc = "deljumps" => w.hits = NoHits
    /\ w.pc = "delete" => chain[k] \in {None, EmptyChain}
    /\ w.pc \in {"checkjump", "addjump"} => forward

LocalOK(w, k) == /\ w.op = "apply" => ChainOK(w, chain[k])
                 /\ JumpOK(w, k)

\* Every call that has not failed.
LocalInv == \A t \in Procs :
    work[t].op # "none" /\ Key(t) \notin Failed(t) => LocalOK(work[t], Key(t))

\* A call and the table: ApplyPeer works with the row as it is, and the row of
\* a new peer is only uncommitted while its call runs.
LinkInv == \A t \in Procs :
    /\ work[t].op = "none" => ~ work[t].fresh
    /\ work[t].op = "apply" =>
         row[Key(t)] = work[t].row /\ work[t].row.enabled
    /\ work[t].next # None => row[Key(t)] = work[t].next
    /\ work[t].op = "remove" /\ t = Boot =>
         row[Key(t)] = work[t].row /\ ~ work[t].row.enabled
    /\ work[t].op = "orphan" => t = Boot /\ row[Key(t)] = None

RowsKnown ==
    /\ \A k \in Keys : row[k] \in PeerRows \cup {None}
    /\ \A t \in Procs :
         /\ work[t].op \in {"apply", "remove"} => work[t].row \in PeerRows
         /\ work[t].next \in PeerRows \cup {None}

\* The jumps of a peer when its call began.
SeenOK(w, k) == /\ seen[k].hosts \subseteq Home(w.row)
                /\ w.op = "apply" => seen[k].hosts = HostsOf(dispatch, k)

SeenInv ==
    /\ seen = [k \in Keys |-> seen[k]]
    /\ \A t \in Threads :
         work[t].op # "none" /\ Key(t) \notin bad => SeenOK(work[t], Key(t))

\* The jumps of a peer between two calls.
IdleInv == \A k \in Keys \ bad : ~ Busy(k) => Single(k, row[k])

\* What holds of the calls.
CallsInv == LocalInv /\ LinkInv /\ RowsKnown /\ SeenInv /\ IdleInv

-----------------------------------------------------------------------------
(* The progress of Sync. *)

\* Sync has not yet flushed the dispatch chain; deletes orphans; knows them.
Flushing(w) == w.op = "none" /\ w.pc \in {"checkfwd", "addfwd", "flushall"}
Sweeping(w) == w.op = "orphan" \/ (w.op = "none" /\ w.pc = "sweep")
Listed(w)   == Sweeping(w) \/ (w.op = "none" /\ w.pc = "listjumps")

\* The peer k between two calls of Sync: not visited, its jumps are flushed; or
\* as its row says.
DoneOK(k, w) ==
    /\ Single(k, row[k])
    /\ row[k] = None /\ Listed(w) => chain[k] = None \/ k \in left
    /\ row[k] # None /\ k \in left /\ Peering(w) => HostsOf(dispatch, k) = {}
    /\ row[k] # None /\ ~ (k \in left /\ Peering(w)) =>
         /\ ~ row[k].enabled => chain[k] = None /\ HostsOf(dispatch, k) = {}
         /\ row[k].enabled /\ row[k].addr # None =>
              /\ chain[k] = [acc |-> RulesOf(row[k]), drop |-> TRUE]
              /\ HostsOf(dispatch, k) = {Src(row[k])}

DoneInv == ~ Flushing(work[Boot]) =>
    \A k \in Keys \ late :
       DoneOK(k, work[Boot]) \/ (work[Boot].op # "none" /\ Key(Boot) = k)

\* Sync returns to where it was called, and visits a peer once.
RetInv == /\ work[Boot].op \in {"apply", "remove"} =>
               work[Boot].ret = "pick" /\ Key(Boot) \notin left
          /\ work[Boot].op = "orphan" => work[Boot].ret = "sweep"

\* FORWARD jumps to the dispatch chain once ensureDispatchChain is over.
EnsuredInv ==
    forward \/ (work[Boot].op = "none" /\ work[Boot].pc \in {"checkfwd", "addfwd"})

TodoInv == /\ Flushing(work[Boot]) => \A k \in Keys : row[k] # None => k \in left
           /\ ~ Peering(work[Boot]) => \A k \in left : row[k] = None

\* The listing of the dispatch chain has no jumps to orphans.
SnapInv == Sweeping(work[Boot]) =>
    \A k \in Keys \ late : row[k] = None => \A h \in Hosts : snap[<<h, k>>] = 0

\* Enabled rows without an address are left as they are.
SkipInv == \A k \in Skipped \ bad : /\ seen[k] = View(chain, dispatch, k)
                                    /\ HostsOf(dispatch, k) = {}

BootInv == phase = "boot" =>
    DoneInv /\ RetInv /\ EnsuredInv /\ TodoInv /\ SnapInv /\ SkipInv

-----------------------------------------------------------------------------
(* Calls do not meet. *)

LEMMA IdleCall ==
    ASSUME FwInv, NEW t \in Procs
    PROVE  /\ work[t].pc = "idle" => work[t].op = "none"
           /\ t \in Threads /\ work[t].op = "none" => work[t].pc = "idle"
PROOF
  <1>1. CallOK(t, work[t]) /\ work[t].op \in {"none", "apply", "remove", "orphan"}
    BY DEF FwInv, CtlInv, WorkInv, CallOK, Work
  <1>2. QED BY <1>1, Marks DEF CallOK, ApplySteps, RemoveSteps

LEMMA Apart ==
    ASSUME FwInv, Overlap = FALSE, NEW t \in Procs, NEW u \in Procs, t # u,
           work[t].op # "none", work[u].op # "none"
    PROVE  Key(t) # Key(u) /\ t \in Threads /\ u \in Threads
PROOF
  <1>1. work[t].pc # "idle" /\ work[u].pc # "idle" BY IdleCall
  <1>2. t \in Threads \/ u \in Threads BY DEF Procs
  <1>3. phase = "up" BY <1>1, <1>2 DEF FwInv, TypeOK, CtlInv, PhaseInv
  <1>4. work[Boot].pc = "idle" BY <1>3 DEF FwInv, CtlInv, PhaseInv
  <1>5. t \in Threads /\ u \in Threads BY <1>1, <1>4 DEF Procs
  <1>6. QED BY <1>1, <1>5 DEF FwInv, CtlInv, Exclusive

\* A key that some thread has a call for.
LEMMA BusyKey ==
    ASSUME FwInv, NEW k \in Keys
    PROVE  Busy(k) <=> \/ phase = "boot"
                       \/ \E t \in Threads : work[t].op # "none" /\ Key(t) = k
PROOF BY IdleCall DEF Busy, Key, Procs

LEMMA BusyNext ==
    ASSUME FwInv', NEW k \in Keys
    PROVE  Busy(k)' <=> \/ phase' = "boot"
                        \/ \E t \in Threads : work'[t].op # "none" /\ Key(t)' = k
PROOF
  <1>1. ASSUME NEW t \in Threads
        PROVE  work'[t].pc = "idle" <=> work'[t].op = "none"
    <2>1. t \in Procs /\ t # Boot BY Marks DEF Procs
    <2>2. /\ CallOK(t, work'[t])
          /\ work'[t].op \in {"none", "apply", "remove", "orphan"}
      BY <2>1 DEF FwInv, CtlInv, WorkInv, CallOK, Work
    <2>3. QED BY <2>1, <2>2 DEF CallOK, ApplySteps, RemoveSteps
  <1>2. QED BY <1>1 DEF Busy, Key

-----------------------------------------------------------------------------
(* What a command leaves alone. *)

LEMMA CommandShape ==
    ASSUME FwInv, NEW t \in Procs, Command(t)
    PROVE  /\ \/ chain' = chain
              \/ /\ work[t].op # "none"
                 /\ \E c : chain' = [chain EXCEPT ![Key(t)] = c]
           /\ \/ dispatch' = dispatch
              \/ /\ work[t].op # "none"
                 /\ \E h, n : dispatch' = [dispatch EXCEPT ![<<h, Key(t)>>] = n]
           /\ \/ seen' = seen
              \/ /\ work[t].op # "none"
                 /\ \E v : seen' = [seen EXCEPT ![Key(t)] = v]
           /\ forward' = forward \/ forward' = TRUE
           /\ \/ bad' = bad /\ late' = late
              \/ /\ work[t].op # "none"
                 /\ bad' = bad \cup {Key(t)} /\ late' = late \cup {Key(t)}
PROOF
  <1>2. ASSUME Return(t)
        PROVE  seen' = seen \/ \E v : seen' = [seen EXCEPT ![Key(t)] = v]
    BY <1>2 DEF Return
  <1>3. ASSUME NEW p, Goto(t, p) PROVE seen' = seen BY <1>3 DEF Goto
  <1>4. CASE NewChain(t)
    <2>1. work[t].op # "none" BY <1>4, AtApply DEF NewChain, At, FwInv
    <2>2. QED BY <1>3, <1>4, <2>1 DEF NewChain, Succeeds, Fails
  <1>5. CASE FlushChain(t)
    <2>1. work[t].op # "none"
      BY <1>5, AtApply, AtRemove DEF FlushChain, At, FwInv, RemoveSteps
    <2>2. QED BY <1>3, <1>5, <2>1 DEF FlushChain, Succeeds, Fails
  <1>6. CASE AddAccept(t)
    <2>1. work[t].op # "none" BY <1>6, AtApply DEF AddAccept, At, FwInv
    <2>2. seen' = seen /\ dispatch' = dispatch /\ forward' = forward
      BY <1>6 DEF AddAccept
    <2>3. QED BY <1>6, <2>1, <2>2, AddAcceptFacts DEF Succeeds, Fails
  <1>7. CASE AddDrop(t)
    <2>1. work[t].op # "none" BY <1>7, AtApply DEF AddDrop, At, FwInv
    <2>2. dispatch' = dispatch /\ forward' = forward BY <1>7 DEF AddDrop
    <2>3. seen' = seen \/ \E v : seen' = [seen EXCEPT ![Key(t)] = v]
      BY <1>2, <1>3, <1>7 DEF AddDrop
    <2>4. chain' = chain \/ \E c : chain' = [chain EXCEPT ![Key(t)] = c]
      BY <1>7 DEF AddDrop
    <2>5. Succeeds \/ Fails({Key(t)}) BY <1>7 DEF AddDrop
    <2>6. QED BY <2>1, <2>2, <2>3, <2>4, <2>5 DEF Succeeds, Fails
  <1>8. CASE CheckForward(t)
    BY <1>3, <1>8 DEF CheckForward, Succeeds, rules
  <1>9. CASE AddForward(t)
    BY <1>2, <1>3, <1>9 DEF AddForward, Succeeds, Fails
  <1>10. CASE CheckJump(t)
    <2>1. work[t].op # "none" BY <1>10, AtApply DEF CheckJump, At, FwInv
    <2>2. QED BY <1>2, <1>3, <1>10, <2>1 DEF CheckJump, Succeeds, Fails, rules
  <1>11. CASE AddJump(t)
    <2>1. work[t].op # "none" BY <1>11, AtApply DEF AddJump, At, FwInv
    <2>2. chain' = chain /\ forward' = forward BY <1>11 DEF AddJump
    <2>3. \/ dispatch' = dispatch
          \/ \E h, n : dispatch' = [dispatch EXCEPT ![<<h, Key(t)>>] = n]
      BY <1>11 DEF AddJump
    <2>4. Succeeds \/ Fails({Key(t)}) BY <1>11 DEF AddJump
    <2>5. Return(t) BY <1>11 DEF AddJump
    <2>6. QED BY <1>2, <2>1, <2>2, <2>3, <2>4, <2>5 DEF Succeeds, Fails
  <1>12. CASE DelJump(t)
    <2>1. work[t].op # "none"
      BY <1>12, AtRemove DEF DelJump, At, FwInv, RemoveSteps
    <2>2. chain' = chain /\ forward' = forward /\ seen' = seen
      BY <1>3, <1>12 DEF DelJump
    <2>3. \/ dispatch' = dispatch
          \/ \E h, n : dispatch' = [dispatch EXCEPT ![<<h, Key(t)>>] = n]
      BY <1>12 DEF DelJump
    <2>4. QED BY <1>12, <2>1, <2>2, <2>3 DEF DelJump, Succeeds, Fails
  <1>13. CASE ScanJumps(t)
    <2>1. work[t].op # "none"
      BY <1>13, AtRemove DEF ScanJumps, At, FwInv, RemoveSteps
    <2>2. Succeeds \/ Fails({Key(t)}) BY <1>13 DEF ScanJumps
    <2>3. seen' = seen BY <1>3, <1>13 DEF ScanJumps
    <2>4. QED BY <1>13, <2>1, <2>2, <2>3 DEF ScanJumps, Succeeds, Fails, rules
  <1>14. CASE DelJumps(t)
    <2>1. work[t].op # "none"
      BY <1>14, AtRemove DEF DelJumps, At, FwInv, RemoveSteps
    <2>2. Succeeds \/ Fails({Key(t)}) BY <1>14 DEF DelJumps
    <2>3. seen' = seen /\ chain' = chain /\ forward' = forward
      BY <1>3, <1>14 DEF DelJumps
    <2>4. \/ dispatch' = dispatch
          \/ \E h, n : dispatch' = [dispatch EXCEPT ![<<h, Key(t)>>] = n]
      BY <1>14 DEF DelJumps
    <2>5. QED BY <2>1, <2>2, <2>3, <2>4 DEF Succeeds, Fails
  <1>15. CASE DeleteChain(t)
    <2>1. work[t].op # "none"
      BY <1>15, AtRemove DEF DeleteChain, At, FwInv, RemoveSteps
    <2>2. QED BY <1>2, <1>15, <2>1 DEF DeleteChain, Succeeds, Fails
  <1>16. QED
    BY <1>4, <1>5, <1>6, <1>7, <1>8, <1>9, <1>10, <1>11, <1>12, <1>13,
       <1>14, <1>15 DEF Command

LEMMA Frame ==
    ASSUME FwInv, seen = [j \in Keys |-> seen[j]], NEW t \in Procs, Command(t),
           NEW k \in Keys, work[t].op = "none" \/ k # Key(t)
    PROVE  /\ chain'[k] = chain[k] /\ seen'[k] = seen[k]
           /\ \A h \in Hosts : dispatch'[<<h, k>>] = dispatch[<<h, k>>]
           /\ HostsOf(dispatch', k) = HostsOf(dispatch, k)
           /\ (k \in bad' <=> k \in bad) /\ (k \in late' <=> k \in late)
PROOF
  <1>1. chain \in [Keys -> Chain \cup {None}]
        /\ dispatch \in [Hosts \X Keys -> Nat]
    BY DEF FwInv, TypeOK
  <1>2. chain'[k] = chain[k]
    <2>1. CASE chain' = chain BY <2>1
    <2>2. CASE /\ work[t].op # "none"
               /\ \E c : chain' = [chain EXCEPT ![Key(t)] = c]
      BY <1>1, <2>2
    <2>3. QED BY <2>1, <2>2, CommandShape
  <1>3. \A h \in Hosts : dispatch'[<<h, k>>] = dispatch[<<h, k>>]
    <2>1. CASE dispatch' = dispatch BY <2>1
    <2>2. CASE /\ work[t].op # "none"
               /\ \E h, n : dispatch' = [dispatch EXCEPT ![<<h, Key(t)>>] = n]
      <3>1. PICK g, n : dispatch' = [dispatch EXCEPT ![<<g, Key(t)>>] = n]
        BY <2>2
      <3>2. ASSUME NEW h \in Hosts
            PROVE  dispatch'[<<h, k>>] = dispatch[<<h, k>>]
        <4>1. <<h, k>> \in Hosts \X Keys /\ <<h, k>> # <<g, Key(t)>>
          BY <2>2
        <4>2. QED BY <1>1, <3>1, <4>1
      <3>3. QED BY <3>2
    <2>3. QED BY <2>1, <2>2, CommandShape
  <1>4. seen'[k] = seen[k]
    <2>1. CASE seen' = seen BY <2>1
    <2>2. CASE /\ work[t].op # "none"
               /\ \E v : seen' = [seen EXCEPT ![Key(t)] = v]
      BY <2>2
    <2>3. QED BY <2>1, <2>2, CommandShape
  <1>5. (k \in bad' <=> k \in bad) /\ (k \in late' <=> k \in late)
    <2>1. CASE bad' = bad /\ late' = late BY <2>1
    <2>2. CASE /\ work[t].op # "none"
               /\ bad' = bad \cup {Key(t)} /\ late' = late \cup {Key(t)}
      BY <2>2
    <2>3. QED BY <2>1, <2>2, CommandShape
  <1>6. HostsOf(dispatch', k) = HostsOf(dispatch, k) BY <1>3 DEF HostsOf
  <1>7. QED BY <1>2, <1>3, <1>4, <1>5, <1>6

LEMMA Growing ==
    ASSUME FwInv, NEW t \in Procs, Command(t)
    PROVE  bad \subseteq bad' /\ late \subseteq late' /\ (forward => forward')
PROOF BY CommandShape DEF FwInv, TypeOK

LEMMA GotoFields ==
    ASSUME FwInv, NEW t \in Procs, NEW p, Goto(t, p)
    PROVE  /\ work'[t].pc = p /\ work'[t].op = work[t].op
           /\ work'[t].row = work[t].row /\ work'[t].cidrs = work[t].cidrs
           /\ work'[t].hits = work[t].hits /\ work'[t].next = work[t].next
           /\ SameCall(work[t], work'[t])
           /\ seen' = seen
PROOF
  <1>1. work \in [Procs -> Work] /\ work[t] \in Work
    BY DEF FwInv, CtlInv, WorkInv
  <1>2. work'[t] = [work[t] EXCEPT !.pc = p] BY <1>1 DEF Goto
  <1>3. QED BY <1>1, <1>2 DEF Work, Goto, SameCall

-----------------------------------------------------------------------------
(* A command of a call that has not failed keeps what the call has built.   *)

LEMMA HostsNone ==
    ASSUME NEW d \in [Hosts \X Keys -> Nat], NEW k \in Keys
    PROVE  HostsOf(d, k) = {} <=> \A h \in Hosts : d[<<h, k>>] = 0
PROOF
  <1>1. \A h \in Hosts : d[<<h, k>>] \in Nat BY DEF HostsOf
  <1>2. QED BY <1>1 DEF HostsOf

\* The jumps do not change.
LEMMA SameJumps ==
    ASSUME dispatch' = dispatch, NEW k, NEW r, Single(k, r)
    PROVE  Single(k, r)'
PROOF BY DEF Single

LEMMA NewChainLocal ==
    ASSUME FwInv, NEW t \in Procs, NEW k, k = Key(t), NewChain(t),
           LocalOK(work[t], k), ~ Fails({k})
    PROVE  LocalOK(work[t], k)' /\ seen' = seen /\ SameCall(work[t], work'[t])
PROOF
  <1>1. /\ work[t].pc = "new" /\ Goto(t, "flush") /\ dispatch' = dispatch
        /\ chain' = [chain EXCEPT ![k] = IF @ = None THEN EmptyChain ELSE @]
    BY DEF NewChain, At
  <1>2. work[t].op = "apply" BY <1>1, AtApply DEF FwInv
  <1>3. k \in Keys BY <1>2, KeyType DEF FwInv
  <1>4. chain'[k] # None
    BY <1>1, <1>3, EmptyChainType, Marks DEF FwInv, TypeOK
  <1>5. /\ work'[t].pc = "flush" /\ work'[t].row = work[t].row
        /\ seen' = seen /\ SameCall(work[t], work'[t])
    BY <1>1, GotoFields
  <1>6. Single(k, work[t].row) BY DEF LocalOK, JumpOK
  <1>7. QED
    BY <1>1, <1>4, <1>5, <1>6 DEF LocalOK, ChainOK, JumpOK, Single

LEMMA FlushLocal ==
    ASSUME FwInv, NEW t \in Procs, NEW k, k = Key(t), FlushChain(t),
           LocalOK(work[t], k), ~ Fails({k})
    PROVE  LocalOK(work[t], k)' /\ seen' = seen /\ SameCall(work[t], work'[t])
PROOF
  <1>1. /\ work[t].pc \in {"flush", "emptyx"} /\ Goto(t, AfterFlush(t))
        /\ dispatch' = dispatch
        /\ chain' = [chain EXCEPT ![k] = IF @ = None THEN None ELSE EmptyChain]
    BY DEF FlushChain, At
  <1>2. /\ work[t].op # "none"
        /\ work[t].pc = "flush" => work[t].op = "apply"
        /\ work[t].pc = "emptyx" => work[t].op # "apply"
    BY <1>1, AtApply, AtRemove DEF FwInv, RemoveSteps
  <1>3. k \in Keys /\ work[t].row \in PeerRow BY <1>2, KeyType DEF FwInv
  <1>4. /\ work'[t].pc = AfterFlush(t) /\ work'[t].row = work[t].row
        /\ work'[t].op = work[t].op /\ work'[t].cidrs = work[t].cidrs
        /\ seen' = seen /\ SameCall(work[t], work'[t])
    BY <1>1, GotoFields
  <1>5. chain'[k] = IF chain[k] = None THEN None ELSE EmptyChain
    BY <1>1, <1>3 DEF FwInv, TypeOK
  <1>6. Single(k, work[t].row)' BY <1>1, SameJumps, <1>4 DEF LocalOK, JumpOK, Single
  <1>7. CASE work[t].pc = "emptyx"
    <2>1. AfterFlush(t) = "delete" BY <1>7 DEF AfterFlush, At
    <2>2. HostsOf(dispatch, k) = {} BY <1>7 DEF LocalOK, JumpOK
    <2>3. QED BY <1>1, <1>2, <1>4, <1>5, <1>6, <1>7, <2>1, <2>2 DEF LocalOK, JumpOK
  <1>8. CASE work[t].pc = "flush"
    <2>1. AfterFlush(t) = IF work[t].cidrs = {} THEN "drop" ELSE "accept"
      BY <1>8 DEF AfterFlush, At
    <2>2. work[t].cidrs = work[t].row.allow
      BY <1>2, <1>8, CallFacts DEF CallOK, FwInv
    <2>3. chain[k] # None BY <1>2, <1>8 DEF LocalOK, ChainOK
    <2>4. {Src(work[t].row)} \X (work[t].row.allow \ work[t].cidrs) = {}
      BY <2>2
    <2>5. ChainOK(work[t], chain[k])'
      BY <1>4, <1>5, <2>1, <2>2, <2>3, <2>4 DEF ChainOK, EmptyChain
    <2>6. JumpOK(work[t], k)' BY <1>4, <1>6, <2>1 DEF JumpOK
    <2>7. QED BY <1>4, <2>5, <2>6 DEF LocalOK
  <1>9. QED BY <1>1, <1>7, <1>8

\* A chain on its way to the rules of r.
LEMMA BuiltChain ==
    ASSUME NEW r \in PeerRow, r.addr # None, NEW cs, NEW b \in BOOLEAN
    PROVE  /\ [acc |-> {Src(r)} \X (r.allow \ cs), drop |-> b] \in Chain
           /\ [acc |-> {Src(r)} \X (r.allow \ cs), drop |-> b] # None
PROOF
  <1>1. Src(r) \in Hosts /\ r.allow \subseteq Cidrs BY SrcType DEF PeerRow
  <1>2. {Src(r)} \X (r.allow \ cs) \subseteq Hosts \X Cidrs BY <1>1
  <1>3. [acc |-> {Src(r)} \X (r.allow \ cs), drop |-> b] \in Chain
    BY <1>2 DEF Chain
  <1>4. QED BY <1>3, Marks

LEMMA MoreRules ==
    ASSUME NEW X \in SUBSET (Hosts \X Cidrs), NEW c \in Chain
    PROVE  [c EXCEPT !.acc = @ \cup X] = [acc |-> c.acc \cup X, drop |-> c.drop]
PROOF
  <1> DEFINE B == c.acc \cup X
  <1>1. [c EXCEPT !.acc = @ \cup X] = [c EXCEPT !.acc = B] OBVIOUS
  <1>2. B \in SUBSET (Hosts \X Cidrs) BY DEF Chain
  <1> HIDE DEF B
  <1>3. [c EXCEPT !.acc = B] \in Chain BY <1>2 DEF Chain
  <1>4. [acc |-> B, drop |-> c.drop] \in Chain BY <1>2 DEF Chain
  <1>5. [c EXCEPT !.acc = B] = [acc |-> B, drop |-> c.drop]
    BY <1>3, <1>4 DEF Chain
  <1>6. QED BY <1>1, <1>5 DEF B

LEMMA AcceptLocal ==
    ASSUME FwInv, NEW t \in Procs, NEW k, k = Key(t), AddAccept(t),
           LocalOK(work[t], k), ~ Fails({k})
    PROVE  LocalOK(work[t], k)' /\ seen' = seen /\ SameCall(work[t], work'[t])
PROOF
  <1>1. work[t].pc = "accept" /\ dispatch' = dispatch /\ seen' = seen
    BY DEF AddAccept, At
  <1>2. PICK c \in work[t].cidrs :
             /\ chain' = [chain EXCEPT ![k] = Accepted(chain[k], work[t].row, c)]
             /\ work' = [work EXCEPT ![t] = AcceptRest(work[t], c)]
    BY AddAcceptFacts
  <1>3. work[t].op = "apply" BY <1>1, AtApply DEF FwInv
  <1>4. /\ k \in Keys /\ work[t].row \in PeerRow /\ work[t] \in Work
        /\ work \in [Procs -> Work] /\ work[t].cidrs \subseteq work[t].row.allow
    BY <1>3, KeyType DEF FwInv, CtlInv, WorkInv, CallOK
  <1>5. work'[t] = AcceptRest(work[t], c) BY <1>2, <1>4
  <1>6. /\ work'[t].pc = IF work[t].cidrs = {c} THEN "drop" ELSE "accept"
        /\ work'[t].row = work[t].row /\ work'[t].cidrs = work[t].cidrs \ {c}
        /\ SameCall(work[t], work'[t])
    BY <1>4, <1>5 DEF AcceptRest, Work, SameCall
  <1> DEFINE s == Src(work[t].row)
             al == work[t].row.allow
             cs == work[t].cidrs
  <1>7. chain[k] = [acc |-> {s} \X (al \ cs), drop |-> FALSE]
    BY <1>1, <1>3 DEF LocalOK, ChainOK
  <1>8. work[t].row.addr # None BY <1>3 DEF FwInv, CtlInv, WorkInv, CallOK
  <1>9. chain'[k] = [acc |-> ({s} \X (al \ cs)) \cup {<<s, c>>}, drop |-> FALSE]
    <2>0. [acc |-> {Src(work[t].row)} \X (work[t].row.allow \ work[t].cidrs),
           drop |-> FALSE] # None
      BY <1>4, <1>8, BuiltChain, Zenon
    <2>1. chain[k] # None BY <1>7, <2>0, Zenon
    <2>2. chain'[k] = Accepted(chain[k], work[t].row, c)
      BY <1>2, <1>4 DEF FwInv, TypeOK
    <2>3. Accepted(chain[k], work[t].row, c) =
            [chain[k] EXCEPT !.acc = @ \cup {<<s, c>>}]
      BY <1>7, <2>1 DEF Accepted
    <2>4. s \in Hosts /\ c \in Cidrs BY <1>2, <1>4, <1>8, SrcType DEF PeerRow
    <2>5. {<<s, c>>} \in SUBSET (Hosts \X Cidrs) BY <2>4
    <2>6. chain[k] \in Chain BY <1>4, <2>1 DEF FwInv, TypeOK
    <2>7. [chain[k] EXCEPT !.acc = @ \cup {<<s, c>>}] =
            [acc |-> chain[k].acc \cup {<<s, c>>}, drop |-> chain[k].drop]
      BY <2>5, <2>6, MoreRules, Zenon
    <2>8. chain[k].acc = {s} \X (al \ cs) /\ chain[k].drop = FALSE BY <1>7
    <2>9. QED BY <2>2, <2>3, <2>7, <2>8, Zenon
  <1>10. ({s} \X (al \ cs)) \cup {<<s, c>>} = {s} \X (al \ (cs \ {c}))
    BY <1>2, <1>4
  <1>11. Single(k, work[t].row)' BY <1>1, <1>6 DEF LocalOK, JumpOK, Single
  <1>12. ChainOK(work[t], chain[k])'
    <2>1. work'[t].pc = "drop" => work'[t].cidrs = {} BY <1>2, <1>6
    <2>2. chain'[k] = [acc |-> {Src(work'[t].row)} \X
                                 (work'[t].row.allow \ work'[t].cidrs),
                       drop |-> FALSE]
      BY <1>6, <1>9, <1>10
    <2>3. QED BY <1>6, <2>1, <2>2 DEF ChainOK
  <1>13. QED BY <1>1, <1>6, <1>11, <1>12 DEF LocalOK, JumpOK

\* The rules of the peer k after a call with the record w.
Finished(w, k) ==
    IF w.op = "apply"
      THEN /\ chain[k] = [acc |-> RulesOf(w.row), drop |-> TRUE]
           /\ HostsOf(dispatch, k) = {Src(w.row)}
           /\ \A h \in Hosts : dispatch[<<h, k>>] <= 1
           /\ forward
      ELSE chain[k] = None /\ HostsOf(dispatch, k) = {}

LEMMA DropLocal ==
    ASSUME FwInv, NEW t \in Procs, NEW k, k = Key(t), AddDrop(t),
           LocalOK(work[t], k), ~ Fails({k})
    PROVE  LocalOK(work[t], k)' /\ seen' = seen /\ SameCall(work[t], work'[t])
PROOF
  <1>1. work[t].pc = "drop" /\ dispatch' = dispatch BY DEF AddDrop, At
  <1>2. work[t].op = "apply" BY <1>1, AtApply DEF FwInv
  <1>3. /\ k \in Keys /\ work[t].row \in PeerRow /\ work[t].row.addr # None
    BY <1>2, KeyType DEF FwInv, CtlInv, WorkInv, CallOK
  <1> DEFINE A == {Src(work[t].row)} \X (work[t].row.allow \ work[t].cidrs)
  <1>4. chain[k] = [acc |-> A, drop |-> FALSE] /\ work[t].cidrs = {}
    BY <1>1, <1>2 DEF LocalOK, ChainOK
  <1>5. [acc |-> A, drop |-> FALSE] # None BY <1>3, BuiltChain, Zenon
  <1>6. chain[k] # None BY <1>4, <1>5, Zenon
  <1>7. chain' = [chain EXCEPT ![k].drop = TRUE] /\ Goto(t, "checkfwd")
    BY <1>6 DEF AddDrop
  <1>8. A = RulesOf(work[t].row) BY <1>4 DEF RulesOf
  <1>9. chain[k] \in Chain BY <1>3, <1>6 DEF FwInv, TypeOK
  <1>10. chain'[k] = [acc |-> chain[k].acc, drop |-> TRUE]
    <2>1. chain'[k] = [chain[k] EXCEPT !.drop = TRUE]
      BY <1>3, <1>7 DEF FwInv, TypeOK
    <2>2. ASSUME NEW b \in BOOLEAN
          PROVE  [chain[k] EXCEPT !.drop = b] = [acc |-> chain[k].acc, drop |-> b]
      <3>1. /\ [chain[k] EXCEPT !.drop = b] \in Chain
            /\ [acc |-> chain[k].acc, drop |-> b] \in Chain
        BY <1>9 DEF Chain
      <3>2. QED BY <1>9, <3>1 DEF Chain
    <2>3. QED BY <2>1, <2>2, Zenon
  <1>11. chain[k].acc = A BY <1>4
  <1>12. /\ work'[t].pc = "checkfwd" /\ work'[t].row = work[t].row
         /\ seen' = seen /\ SameCall(work[t], work'[t])
    BY <1>7, GotoFields
  <1> HIDE DEF A
  <1>13. chain'[k] = [acc |-> RulesOf(work'[t].row), drop |-> TRUE]
    BY <1>8, <1>10, <1>11, <1>12, Zenon
  <1>14. Single(k, work[t].row)' BY <1>1, <1>12 DEF LocalOK, JumpOK, Single
  <1>15. QED BY <1>12, <1>13, <1>14 DEF LocalOK, ChainOK, JumpOK

LEMMA ForwardLocal ==
    ASSUME FwInv, NEW t \in Procs, NEW k, k = Key(t),
           CheckForward(t) \/ AddForward(t), work[t].op # "none",
           LocalOK(work[t], k), ~ Fails({k})
    PROVE  LocalOK(work[t], k)' /\ seen' = seen /\ SameCall(work[t], work'[t])
PROOF
  <1>1. work[t].pc \in {"checkfwd", "addfwd"} /\ dispatch' = dispatch
        /\ chain' = chain
    BY DEF CheckForward, AddForward, At, rules
  <1>2. work[t].op = "apply" BY <1>1, AtForward DEF FwInv
  <1>3. AfterEnsure(t) = "checkjump" BY <1>2 DEF AfterEnsure
  <1>4. PICK p \in {"addfwd", "checkjump"} :
           Goto(t, p) /\ (p = "checkjump" => forward')
    BY <1>3 DEF CheckForward, AddForward, rules
  <1>5. /\ work'[t].pc = p /\ work'[t].row = work[t].row
        /\ work'[t].op = "apply" /\ seen' = seen
        /\ SameCall(work[t], work'[t])
    BY <1>2, <1>4, GotoFields
  <1>6. chain'[k] = [acc |-> RulesOf(work'[t].row), drop |-> TRUE]
    BY <1>1, <1>2, <1>5 DEF LocalOK, ChainOK
  <1>7. Single(k, work[t].row)' BY <1>1, <1>5 DEF LocalOK, JumpOK, Single
  <1>8. QED BY <1>4, <1>5, <1>6, <1>7 DEF LocalOK, ChainOK, JumpOK

LEMMA CheckJumpLocal ==
    ASSUME FwInv, NEW t \in Procs, NEW w, w = work[t], NEW k, k = Key(t),
           CheckJump(t), LocalOK(w, k), ~ Fails({k})
    PROVE  \/ LocalOK(work[t], k)' /\ seen' = seen /\ SameCall(w, work'[t])
           \/ Return(t) /\ Finished(w, k)'
PROOF
  <1> DEFINE s == Src(w.row)
  <1>1. /\ w.pc = "checkjump" /\ dispatch' = dispatch /\ chain' = chain
        /\ forward' = forward
        /\ IF dispatch[<<s, k>>] > 0 THEN Return(t) ELSE Goto(t, "addjump")
    BY DEF CheckJump, At, rules
  <1>2. w.op = "apply" BY <1>1, AtApply DEF FwInv
  <1>3. k \in Keys /\ w.row \in PeerRow /\ w.row.addr # None
    BY <1>2, KeyType DEF FwInv, CtlInv, WorkInv, CallOK
  <1>4. s \in Hosts /\ Home(w.row) = {s} BY <1>3, SrcType, Marks DEF Home
  <1>5. /\ chain[k] = [acc |-> RulesOf(w.row), drop |-> TRUE] /\ forward
        /\ HostsOf(dispatch, k) \subseteq {s}
        /\ \A h \in Hosts : dispatch[<<h, k>>] <= 1
    BY <1>1, <1>2, <1>4 DEF LocalOK, ChainOK, JumpOK, Single
  <1>6. CASE dispatch[<<s, k>>] > 0
    <2>1. HostsOf(dispatch, k) = {s} BY <1>4, <1>5, <1>6 DEF HostsOf
    <2>2. QED BY <1>1, <1>2, <1>5, <1>6, <2>1 DEF Finished
  <1>7. CASE ~ (dispatch[<<s, k>>] > 0)
    <2>1. HostsOf(dispatch, k) = {} BY <1>4, <1>5, <1>7 DEF HostsOf
    <2>2. /\ work'[t].pc = "addjump" /\ work'[t].row = w.row /\ seen' = seen
          /\ SameCall(w, work'[t])
      BY <1>1, <1>7, GotoFields
    <2>3. QED
      BY <1>1, <1>5, <2>1, <2>2 DEF LocalOK, ChainOK, JumpOK, Single
  <1>8. QED BY <1>6, <1>7

LEMMA AddJumpLocal ==
    ASSUME FwInv, NEW t \in Procs, NEW w, w = work[t], NEW k, k = Key(t),
           AddJump(t), LocalOK(w, k), ~ Fails({k})
    PROVE  Return(t) /\ Finished(w, k)'
PROOF
  <1> DEFINE s == Src(w.row)
  <1>1. w.pc = "addjump" /\ chain' = chain /\ forward' = forward /\ Return(t)
    BY DEF AddJump, At
  <1>2. w.op = "apply" BY <1>1, AtApply DEF FwInv
  <1>3. k \in Keys /\ w.row \in PeerRow /\ w.row.addr # None
    BY <1>2, KeyType DEF FwInv, CtlInv, WorkInv, CallOK
  <1>4. s \in Hosts BY <1>3, SrcType
  <1>5. /\ chain[k] = [acc |-> RulesOf(w.row), drop |-> TRUE] /\ forward
        /\ HostsOf(dispatch, k) = {}
    BY <1>1, <1>2 DEF LocalOK, ChainOK, JumpOK
  <1>6. chain[k] # None
    <2>1. [acc |-> {Src(w.row)} \X (w.row.allow \ {}), drop |-> TRUE] # None
      BY <1>3, BuiltChain, Zenon
    <2>2. {Src(w.row)} \X (w.row.allow \ {}) = RulesOf(w.row) BY DEF RulesOf
    <2>3. QED BY <1>5, <2>1, <2>2, Zenon
  <1>7. dispatch' = [dispatch EXCEPT ![<<s, k>>] = @ + 1]
    BY <1>6 DEF AddJump
  <1>8. \A h \in Hosts : dispatch[<<h, k>>] = 0
    BY <1>3, <1>5, HostsNone DEF FwInv, TypeOK
  <1>9. \A h \in Hosts : dispatch'[<<h, k>>] = IF h = s THEN 1 ELSE 0
    <2>1. dispatch \in [Hosts \X Keys -> Nat] BY DEF FwInv, TypeOK
    <2>2. ASSUME NEW h \in Hosts
          PROVE  dispatch'[<<h, k>>] = IF h = s THEN 1 ELSE 0
      <3>1. <<h, k>> \in Hosts \X Keys BY <1>3
      <3>2. dispatch'[<<h, k>>] = IF <<h, k>> = <<s, k>>
                                    THEN dispatch[<<s, k>>] + 1
                                    ELSE dispatch[<<h, k>>]
        BY <1>7, <2>1, <3>1
      <3>3. QED BY <1>4, <1>8, <3>2
    <2>3. QED BY <2>2
  <1>10. HostsOf(dispatch', k) = {s} BY <1>4, <1>9 DEF HostsOf
  <1>11. \A h \in Hosts : dispatch'[<<h, k>>] <= 1 BY <1>9
  <1>12. QED BY <1>1, <1>2, <1>5, <1>10, <1>11 DEF Finished

LEMMA DelJumpLocal ==
    ASSUME FwInv, NEW t \in Procs, NEW k, k = Key(t), DelJump(t),
           LocalOK(work[t], k), ~ Fails({k})
    PROVE  LocalOK(work[t], k)' /\ seen' = seen /\ SameCall(work[t], work'[t])
PROOF
  <1> DEFINE s == Src(work[t].row)
  <1>1. /\ work[t].pc = "deljump" /\ Goto(t, "emptyx")
        /\ dispatch' = [dispatch EXCEPT ![<<s, k>>] = Less(dispatch[<<s, k>>])]
    BY DEF DelJump, At
  <1>2. work[t].op \in {"remove", "orphan"}
    BY <1>1, AtRemove DEF FwInv, RemoveSteps
  <1>3. k \in Keys /\ work[t].row \in PeerRow /\ work[t].row.addr # None
    BY <1>1, <1>2, KeyType DEF FwInv, CtlInv, WorkInv, CallOK
  <1>4. s \in Hosts /\ Home(work[t].row) = {s} BY <1>3, SrcType, Marks DEF Home
  <1>5. dispatch \in [Hosts \X Keys -> Nat] BY DEF FwInv, TypeOK
  <1>6. /\ HostsOf(dispatch, k) \subseteq {s}
        /\ \A h \in Hosts : dispatch[<<h, k>>] <= 1
    BY <1>4 DEF LocalOK, JumpOK, Single
  <1>7. ASSUME NEW h \in Hosts PROVE dispatch'[<<h, k>>] = 0
    <2>1. <<h, k>> \in Hosts \X Keys BY <1>3
    <2>2. dispatch'[<<h, k>>] = IF <<h, k>> = <<s, k>>
                                  THEN Less(dispatch[<<s, k>>])
                                  ELSE dispatch[<<h, k>>]
      BY <1>1, <1>5, <2>1
    <2>3. dispatch[<<h, k>>] \in Nat /\ dispatch[<<h, k>>] <= 1
      BY <1>5, <1>6, <2>1
    <2>4. h # s => dispatch[<<h, k>>] = 0 BY <1>6, <2>3 DEF HostsOf
    <2>5. QED BY <2>2, <2>3, <2>4 DEF Less
  <1>8. HostsOf(dispatch', k) = {} BY <1>7 DEF HostsOf
  <1>9. /\ work'[t].pc = "emptyx" /\ work'[t].row = work[t].row
        /\ work'[t].op = work[t].op /\ seen' = seen
        /\ SameCall(work[t], work'[t])
    BY <1>1, GotoFields
  <1>10. Single(k, work[t].row)'
    BY <1>7, <1>8 DEF Single
  <1>11. QED BY <1>2, <1>8, <1>9, <1>10 DEF LocalOK, JumpOK

LEMMA ScanLocal ==
    ASSUME FwInv, NEW t \in Procs, NEW k, k = Key(t), ScanJumps(t),
           LocalOK(work[t], k), ~ Fails({k})
    PROVE  LocalOK(work[t], k)' /\ seen' = seen /\ SameCall(work[t], work'[t])
PROOF
  <1> DEFINE hs == [h \in Hosts |-> dispatch[<<h, k>>]]
  <1>1. /\ work[t].pc = "scan" /\ dispatch' = dispatch /\ seen' = seen
        /\ work' = [work EXCEPT ![t].hits = hs, ![t].pc = "deljumps"]
    BY DEF ScanJumps, At, rules
  <1>2. work[t].op \in {"remove", "orphan"}
    BY <1>1, AtRemove DEF FwInv, RemoveSteps
  <1>3. k \in Keys /\ work[t] \in Work /\ work \in [Procs -> Work]
    BY <1>2, KeyType DEF FwInv, CtlInv, WorkInv
  <1>4. HostsOf(dispatch, k) = {} BY <1>1 DEF LocalOK, JumpOK
  <1>5. \A h \in Hosts : dispatch[<<h, k>>] = 0
    BY <1>3, <1>4, HostsNone DEF FwInv, TypeOK
  <1>6. hs = NoHits BY <1>5 DEF NoHits
  <1> HIDE DEF hs
  <1>7. work'[t] = [work[t] EXCEPT !.hits = hs, !.pc = "deljumps"]
    BY <1>1, <1>3
  <1>8. /\ work'[t].pc = "deljumps" /\ work'[t].row = work[t].row
        /\ work'[t].op = work[t].op /\ work'[t].hits = NoHits
        /\ SameCall(work[t], work'[t])
    BY <1>3, <1>6, <1>7 DEF Work, SameCall
  <1>9. Single(k, work[t].row)' BY <1>1, <1>8 DEF LocalOK, JumpOK, Single
  <1>10. QED BY <1>1, <1>2, <1>4, <1>8, <1>9 DEF LocalOK, JumpOK

LEMMA DelJumpsLocal ==
    ASSUME FwInv, NEW t \in Procs, NEW k, k = Key(t), DelJumps(t),
           LocalOK(work[t], k), ~ Fails({k})
    PROVE  LocalOK(work[t], k)' /\ seen' = seen /\ SameCall(work[t], work'[t])
PROOF
  <1>1. work[t].pc = "deljumps" BY DEF DelJumps, At
  <1>2. work[t].op \in {"remove", "orphan"}
    BY <1>1, AtRemove DEF FwInv, RemoveSteps
  <1>3. work[t].hits = NoHits /\ HostsOf(dispatch, k) = {}
    BY <1>1 DEF LocalOK, JumpOK
  <1>4. \A h \in Hosts : ~ (work[t].hits[h] > 0) BY <1>3 DEF NoHits
  <1>5. Goto(t, "emptyx") /\ dispatch' = dispatch BY <1>4 DEF DelJumps
  <1>6. /\ work'[t].pc = "emptyx" /\ work'[t].row = work[t].row
        /\ work'[t].op = work[t].op /\ seen' = seen
        /\ SameCall(work[t], work'[t])
    BY <1>5, GotoFields
  <1>7. Single(k, work[t].row)' BY <1>5, <1>6 DEF LocalOK, JumpOK, Single
  <1>8. QED BY <1>2, <1>3, <1>5, <1>6, <1>7 DEF LocalOK, JumpOK

LEMMA DeleteLocal ==
    ASSUME FwInv, NEW t \in Procs, NEW w, w = work[t], NEW k, k = Key(t),
           DeleteChain(t), LocalOK(w, k), ~ Fails({k})
    PROVE  Return(t) /\ Finished(w, k)'
PROOF
  <1>1. w.pc = "delete" /\ dispatch' = dispatch /\ Return(t)
    BY DEF DeleteChain, At
  <1>2. w.op \in {"remove", "orphan"}
    BY <1>1, AtRemove DEF FwInv, RemoveSteps
  <1>3. k \in Keys BY <1>2, KeyType DEF FwInv
  <1>4. HostsOf(dispatch, k) = {} /\ chain[k] \in {None, EmptyChain}
    BY <1>1 DEF LocalOK, JumpOK
  <1>5. chain'[k] = None
    BY <1>3, <1>4 DEF DeleteChain, FwInv, TypeOK
  <1>6. QED BY <1>1, <1>2, <1>4, <1>5 DEF Finished

LEMMA CommandLocal ==
    ASSUME FwInv, NEW t \in Procs, NEW w, w = work[t], w.op # "none",
           NEW k, k = Key(t), Command(t), LocalOK(w, k), ~ Fails({k})
    PROVE  \/ LocalOK(work[t], k)' /\ seen' = seen /\ SameCall(w, work'[t])
           \/ Return(t) /\ Finished(w, k)'
PROOF
  BY NewChainLocal, FlushLocal, AcceptLocal, DropLocal, ForwardLocal,
     CheckJumpLocal, AddJumpLocal, DelJumpLocal, ScanLocal, DelJumpsLocal,
     DeleteLocal DEF Command

-----------------------------------------------------------------------------
(* A command preserves the invariant of the calls. *)

LEMMA AfterRow ==
    ASSUME NEW t \in Procs, NEW w, CallOK(t, w), w.op # "none"
    PROVE  /\ After(w).next = None
           /\ After(w).op \in {"none", "apply", "remove"}
           /\ After(w).op = "none" => After(w).fresh = FALSE
           /\ After(w).op # "none" => w.next # None /\ After(w).row = w.next
           /\ After(w).op = "apply" =>
                After(w).pc = "new" /\ After(w).row.enabled
           /\ After(w).op = "remove" => After(w).pc \in {"scan", "deljump"}
PROOF
  <1>1. Returns(t, w.ret) BY DEF CallOK, Returns
  <1>2. w.ret \in Rets BY <1>1 DEF Returns, Rets
  <1>3. /\ Free(w.ret).op = "none" /\ Free(w.ret).next = None
        /\ Free(w.ret).fresh = FALSE
    BY <1>2, FreeFields
  <1>4. CASE w.next # None
    <2>1. w.next \in PeerRow BY <1>4 DEF CallOK, Work
    <2> DEFINE c == ApplyCall(w.next, w.ret, FALSE)
    <2>2. After(w) = c BY <1>4 DEF After
    <2>3. /\ CallOK(t, c)
          /\ c.next = None
          /\ \/ /\ w.next.enabled /\ w.next.addr = None
                /\ c = Free(w.ret)
             \/ /\ ~ w.next.enabled
                /\ c = RemoveCall(w.next, None, w.ret)
             \/ /\ w.next.enabled /\ w.next.addr # None
                /\ c.row = w.next
                /\ c.op = "apply"
                /\ c.pc = "new"
      BY <1>1, <2>1, ApplyCallOK, Zenon
    <2> HIDE DEF c
    <2>4. /\ RemoveCall(w.next, None, w.ret).row = w.next
          /\ RemoveCall(w.next, None, w.ret).op = "remove"
          /\ RemoveCall(w.next, None, w.ret).pc \in {"scan", "deljump"}
      BY <1>1, <2>1, RemoveCallOK
    <2>5. CASE c = Free(w.ret) BY <1>3, <1>4, <2>2, <2>5
    <2>6. CASE c = RemoveCall(w.next, None, w.ret)
      BY <1>4, <2>2, <2>3, <2>4, <2>6
    <2>7. CASE /\ c.row = w.next /\ c.op = "apply" /\ c.pc = "new"
               /\ w.next.enabled
      BY <1>4, <2>2, <2>3, <2>7
    <2>8. QED BY <2>3, <2>5, <2>6, <2>7
  <1>5. CASE w.next = None
    <2>1. After(w) = Free(w.ret) BY <1>5 DEF After
    <2>2. QED BY <1>3, <2>1
  <1>6. QED BY <1>4, <1>5

\* A command of t goes on with its call, or returns from it.
LEMMA GoesOn ==
    ASSUME FwInv, NEW t \in Procs, Command(t)
    PROVE  /\ \A u \in Procs : u # t => work'[u] = work[u]
           /\ \/ SameCall(work[t], work'[t])
              \/ /\ work[t].op # "none" /\ work'[t] = After(work[t])
                 /\ CallOK(t, work[t])
           /\ row' = row /\ phase' = phase /\ left' = left /\ snap' = snap
PROOF
  <1>1. CallOK(t, work[t]) BY DEF FwInv, CtlInv, WorkInv
  <1>2. QED BY <1>1, CommandWork DEF Outer

LEMMA CommandRows ==
    ASSUME FwInv, RowsKnown, NEW t \in Procs, Command(t) PROVE RowsKnown'
PROOF
  <1>1. row' = row /\ \A u \in Procs : u # t => work'[u] = work[u] BY GoesOn
  <1>2. /\ work'[t].op \in {"apply", "remove"} => work'[t].row \in PeerRows
        /\ work'[t].next \in PeerRows \cup {None}
    <2>1. CASE SameCall(work[t], work'[t]) BY <2>1 DEF SameCall, RowsKnown
    <2>2. CASE /\ work[t].op # "none" /\ work'[t] = After(work[t])
               /\ CallOK(t, work[t])
      BY <2>2, AfterRow DEF RowsKnown
    <2>3. QED BY <2>1, <2>2, GoesOn
  <1>3. QED BY <1>1, <1>2 DEF RowsKnown

LEMMA CommandLink ==
    ASSUME FwInv, LinkInv, NEW t \in Procs, Command(t) PROVE LinkInv'
PROOF
  <1>1. row' = row /\ \A u \in Procs : u # t => work'[u] = work[u] BY GoesOn
  <1> DEFINE P(w, u) ==
        /\ w.op = "none" => ~ w.fresh
        /\ w.op = "apply" => row[w.row.key] = w.row /\ w.row.enabled
        /\ w.next # None => row[w.row.key] = w.next
        /\ w.op = "remove" /\ u = Boot => row[w.row.key] = w.row /\ ~ w.row.enabled
        /\ w.op = "orphan" => u = Boot /\ row[w.row.key] = None
  <1>2. \A u \in Procs : P(work[u], u) BY DEF LinkInv, Key
  <1>3. P(work'[t], t)
    <2>1. CASE SameCall(work[t], work'[t]) BY <1>2, <2>1 DEF SameCall
    <2>2. CASE /\ work[t].op # "none" /\ work'[t] = After(work[t])
               /\ CallOK(t, work[t])
      <3> DEFINE a == After(work[t])
      <3>1. /\ a.next = None /\ a.op \in {"none", "apply", "remove"}
            /\ a.op = "none" => a.fresh = FALSE
            /\ a.op # "none" => work[t].next # None /\ a.row = work[t].next
            /\ a.op = "apply" => a.row.enabled
        BY <2>2, AfterRow
      <3>2. work[t].next # None =>
              /\ t # Boot /\ work[t].next.key = work[t].row.key
              /\ row[work[t].row.key] = work[t].next
        BY <1>2, <2>2 DEF CallOK
      <3> HIDE DEF a
      <3>3. P(a, t) BY <3>1, <3>2
      <3>4. QED BY <2>2, <3>3 DEF a
    <2>3. QED BY <2>1, <2>2, GoesOn
  <1>4. \A u \in Procs : P(work'[u], u) BY <1>1, <1>2, <1>3
  <1>5. QED BY <1>1, <1>4 DEF LinkInv, Key

\* The calls of others.
LEMMA FrameLocal ==
    ASSUME FwInv, seen = [j \in Keys |-> seen[j]], NEW t \in Procs, Command(t),
           NEW k \in Keys, work[t].op = "none" \/ k # Key(t), NEW w
    PROVE  /\ LocalOK(w, k) => LocalOK(w, k)'
           /\ SeenOK(w, k) => SeenOK(w, k)'
           /\ \A r : Single(k, r) => Single(k, r)'
PROOF
  <1>1. /\ chain'[k] = chain[k] /\ seen'[k] = seen[k]
        /\ \A h \in Hosts : dispatch'[<<h, k>>] = dispatch[<<h, k>>]
        /\ HostsOf(dispatch', k) = HostsOf(dispatch, k)
    BY Frame
  <1>2. forward => forward' BY Growing
  <1>3. \A r : Single(k, r) => Single(k, r)' BY <1>1 DEF Single
  <1>4. QED BY <1>1, <1>2, <1>3 DEF LocalOK, JumpOK, SeenOK

LEMMA StillGood ==
    ASSUME FwInv, NEW t \in Procs, Command(t), NEW u \in Procs, NEW k
    PROVE  /\ k \notin Failed(u)' => k \notin Failed(u)
           /\ k \notin Failed(u)' => ~ Fails({k})
PROOF
  <1>1. k \notin Failed(u)' => k \notin Failed(u) BY Growing DEF Failed
  <1>2. Fails({k}) => k \in Failed(u)' BY DEF Fails, Failed
  <1>3. QED BY <1>1, <1>2

\* What t may do next, once its call is over.
LEMMA NextLocal ==
    ASSUME FwInv, FwInv', NEW t \in Procs, NEW w, w = work[t], CallOK(t, w),
           w.op # "none", NEW k \in Keys, Finished(w, k)',
           work'[t] = After(w), work'[t].op # "none"
    PROVE  /\ w.op # "apply" /\ HostsOf(dispatch', k) = {}
           /\ LocalOK(work[t], k)'
PROOF
  <1>1. /\ w.next # None
        /\ work'[t].op = "apply" => work'[t].pc = "new"
        /\ work'[t].op = "remove" => work'[t].pc \in {"scan", "deljump"}
        /\ work'[t].op \in {"none", "apply", "remove"}
    BY AfterRow
  <1>2. w.op # "apply" BY <1>1 DEF CallOK
  <1>3. chain'[k] = None /\ HostsOf(dispatch', k) = {} BY <1>2 DEF Finished
  <1>4. \A h \in Hosts : dispatch'[<<h, k>>] = 0
    BY <1>3, HostsNone DEF FwInv, TypeOK
  <1>5. Single(k, work[t].row)' BY <1>3, <1>4 DEF Single
  <1>6. QED BY <1>1, <1>2, <1>3, <1>5 DEF LocalOK, ChainOK, JumpOK

LEMMA CommandLocalInv ==
    ASSUME FwInv, Overlap = FALSE, CallsInv, NEW t \in Procs, Command(t)
    PROVE  LocalInv'
PROOF
  <1>0. FwInv' BY CommandInv
  <1>1. \A u \in Procs : u # t => work'[u] = work[u] BY GoesOn
  <1>2. ASSUME NEW u \in Procs, u # t, work'[u].op # "none",
               Key(u)' \notin Failed(u)'
        PROVE  LocalOK(work[u], Key(u))'
    <2>1. work'[u] = work[u] /\ Key(u)' = Key(u) BY <1>1, <1>2 DEF Key
    <2>2. work[u].op # "none" BY <1>2, <2>1
    <2>3. PICK k \in Keys : k = Key(u) BY <2>2, KeyType DEF FwInv
    <2>4. work[t].op = "none" \/ k # Key(t) BY <1>2, <2>2, <2>3, Apart
    <2>5. k \notin Failed(u) BY <1>2, <2>1, <2>3, StillGood
    <2>6. PICK w : w = work[u] OBVIOUS
    <2>7. LocalOK(w, k) BY <2>2, <2>3, <2>5, <2>6 DEF CallsInv, LocalInv
    <2>8. LocalOK(w, k)' BY <2>4, <2>7, FrameLocal DEF CallsInv, SeenInv
    <2>9. w = work'[u] /\ k = Key(u)' BY <2>1, <2>3, <2>6
    <2>10. QED BY <2>8, <2>9 DEF LocalOK, JumpOK, Single
  <1>3. ASSUME work'[t].op # "none", Key(t)' \notin Failed(t)'
        PROVE  LocalOK(work[t], Key(t))'
    <2>1. work[t].op # "none"
      <3>1. SameCall(work[t], work'[t]) => work[t].op # "none"
        BY <1>3 DEF SameCall
      <3>2. QED BY <3>1, GoesOn
    <2>2. PICK k \in Keys : k = Key(t) BY <2>1, KeyType DEF FwInv
    <2>3. CallOK(t, work[t]) BY DEF FwInv, CtlInv, WorkInv
    <2>4. Key(t)' = k
      <3>1. CASE SameCall(work[t], work'[t]) BY <2>2, <3>1 DEF SameCall, Key
      <3>2. CASE work'[t] = After(work[t])
        BY <1>3, <2>1, <2>2, <2>3, <3>2, AfterRow DEF CallOK, Key
      <3>3. QED BY <3>1, <3>2, GoesOn
    <2>5. k \notin Failed(t) /\ ~ Fails({k}) BY <1>3, <2>4, StillGood
    <2>6. LocalOK(work[t], k) BY <2>1, <2>2, <2>5 DEF CallsInv, LocalInv
    <2>7. PICK w : w = work[t] OBVIOUS
    <2>8. CASE LocalOK(work[t], k)'
      BY <2>4, <2>8 DEF LocalOK, JumpOK, Single
    <2>9. CASE Return(t) /\ Finished(w, k)'
      <3>1. work'[t] = After(w)
        BY <2>7, <2>9 DEF Return, After, FwInv, CtlInv, WorkInv
      <3>2. LocalOK(work[t], k)'
        BY <1>0, <1>3, <2>1, <2>3, <2>7, <2>9, <3>1, NextLocal
      <3>3. QED BY <2>4, <3>2 DEF LocalOK, JumpOK, Single
    <2>10. QED BY <2>1, <2>2, <2>5, <2>6, <2>7, <2>8, <2>9, CommandLocal
  <1>4. QED BY <1>2, <1>3 DEF LocalInv

\* Of the commands of ApplyPeer only the last changes the jumps.
LEMMA ApplyJumps ==
    ASSUME FwInv, NEW t \in Procs, Command(t), work[t].op = "apply",
           ~ AddJump(t)
    PROVE  dispatch' = dispatch
PROOF
  <1>1. work[t].pc \notin RemoveSteps BY AtRemove DEF FwInv
  <1>2. QED
    BY <1>1 DEF Command, NewChain, FlushChain, AddAccept, AddDrop,
       CheckForward, AddForward, CheckJump, DelJump, ScanJumps,
       DelJumps, DeleteChain, At, RemoveSteps, rules

LEMMA CommandSeen ==
    ASSUME FwInv, Overlap = FALSE, CallsInv, NEW t \in Procs, Command(t)
    PROVE  SeenInv'
PROOF
  <1>0. FwInv' BY CommandInv
  <1>1. \A u \in Procs : u # t => work'[u] = work[u] BY GoesOn
  <1>2. seen = [j \in Keys |-> seen[j]] BY DEF CallsInv, SeenInv
  <1>3. seen' = [j \in Keys |-> seen'[j]]
    <2>1. CASE seen' = seen BY <1>2, <2>1
    <2>2. CASE \E v : seen' = [seen EXCEPT ![Key(t)] = v]
      <3>1. PICK v : seen' = [seen EXCEPT ![Key(t)] = v] BY <2>2
      <3>2. DOMAIN seen = Keys BY <1>2
      <3>3. seen' = [j \in Keys |-> IF j = Key(t) THEN v ELSE seen[j]]
        BY <3>1, <3>2
      <3>4. QED BY <3>3
    <2>3. QED BY <2>1, <2>2, CommandShape
  <1>4. ASSUME NEW u \in Threads, u # t, work'[u].op # "none",
               Key(u)' \notin bad'
        PROVE  SeenOK(work[u], Key(u))'
    <2>0. u \in Procs BY DEF Procs
    <2>1. work'[u] = work[u] /\ Key(u)' = Key(u) BY <1>1, <1>4, <2>0 DEF Key
    <2>2. work[u].op # "none" BY <1>4, <2>1
    <2>3. PICK k \in Keys : k = Key(u) BY <2>0, <2>2, KeyType DEF FwInv
    <2>4. work[t].op = "none" \/ k # Key(t) BY <1>4, <2>0, <2>2, <2>3, Apart
    <2>5. k \notin bad BY <1>4, <2>1, <2>3, Growing
    <2>6. PICK w : w = work[u] OBVIOUS
    <2>7. SeenOK(w, k) BY <2>2, <2>3, <2>5, <2>6 DEF CallsInv, SeenInv
    <2>8. SeenOK(w, k)' BY <1>2, <2>4, <2>7, FrameLocal
    <2>9. w = work'[u] /\ k = Key(u)' BY <2>1, <2>3, <2>6
    <2>10. QED BY <2>8, <2>9 DEF SeenOK
  <1>5. ASSUME t \in Threads, work'[t].op # "none", Key(t)' \notin bad'
        PROVE  SeenOK(work[t], Key(t))'
    <2>0. t # Boot BY <1>5, Marks
    <2>1. work[t].op # "none"
      <3>1. SameCall(work[t], work'[t]) => work[t].op # "none"
        BY <1>5 DEF SameCall
      <3>2. QED BY <3>1, GoesOn
    <2>2. PICK k \in Keys : k = Key(t) BY <2>1, KeyType DEF FwInv
    <2>3. CallOK(t, work[t]) BY DEF FwInv, CtlInv, WorkInv
    <2>4. Key(t)' = k
      <3>1. CASE SameCall(work[t], work'[t]) BY <2>2, <3>1 DEF SameCall, Key
      <3>2. CASE work'[t] = After(work[t])
        BY <1>5, <2>1, <2>2, <2>3, <3>2, AfterRow DEF CallOK, Key
      <3>3. QED BY <3>1, <3>2, GoesOn
    <2>5. k \notin Failed(t) /\ k \notin bad /\ ~ Fails({k})
      BY <1>5, <2>0, <2>4, StillGood DEF Failed
    <2>6. LocalOK(work[t], k) BY <2>1, <2>2, <2>5 DEF CallsInv, LocalInv
    <2>7. PICK w : w = work[t] OBVIOUS
    <2>8. SeenOK(w, k) BY <1>5, <2>1, <2>2, <2>5, <2>7 DEF CallsInv, SeenInv
    <2>9. ASSUME Return(t), Finished(w, k)' PROVE SeenOK(work[t], Key(t))'
      <3>1. work'[t] = After(w)
        BY <2>7, <2>9 DEF Return, After, FwInv, CtlInv, WorkInv
      <3>2. HostsOf(dispatch', k) = {}
        BY <1>0, <1>5, <2>1, <2>3, <2>7, <2>9, <3>1, NextLocal
      <3>3. seen' = [seen EXCEPT ![k] = View(chain', dispatch', k)]
        BY <2>0, <2>2, <2>9 DEF Return
      <3>4. seen'[k] = View(chain', dispatch', k) BY <1>2, <3>3
      <3>5. seen'[k].hosts = {} BY <3>2, <3>4 DEF View
      <3>6. QED BY <2>4, <3>2, <3>5 DEF SeenOK
    <2>10. ASSUME ~ AddJump(t), seen' = seen, SameCall(w, work'[t])
           PROVE  SeenOK(work[t], Key(t))'
      <3>1. w.op = "apply" => dispatch' = dispatch
        BY <2>7, <2>10, ApplyJumps
      <3>2. QED BY <2>4, <2>8, <2>10, <3>1 DEF SameCall, SeenOK
    <2>11. CASE AddJump(t)
      <3>1. Return(t) /\ Finished(w, k)'
        BY <2>2, <2>5, <2>6, <2>7, <2>11, AddJumpLocal
      <3>2. QED BY <2>9, <3>1
    <2>12. QED
      BY <2>1, <2>2, <2>5, <2>6, <2>7, <2>9, <2>10, <2>11, CommandLocal
  <1>6. ASSUME NEW u \in Threads, work'[u].op # "none", Key(u)' \notin bad'
        PROVE  SeenOK(work[u], Key(u))'
    BY <1>4, <1>5, <1>6
  <1>7. QED BY <1>3, <1>6 DEF SeenInv

LEMMA CommandIdle ==
    ASSUME FwInv, Overlap = FALSE, CallsInv, NEW t \in Procs, Command(t)
    PROVE  IdleInv'
PROOF
  <1>0. FwInv' BY CommandInv
  <1>1. /\ \A u \in Procs : u # t => work'[u] = work[u]
        /\ row' = row /\ phase' = phase
    BY GoesOn
  <1>2. SUFFICES ASSUME NEW k \in Keys, k \notin bad', ~ Busy(k)'
                 PROVE  Single(k, row[k])'
    BY DEF IdleInv
  <1>3. /\ phase = "up"
        /\ \A u \in Threads : work'[u].op # "none" => Key(u)' # k
    <2>1. Busy(k)' <=> \/ phase' = "boot"
                       \/ \E u \in Threads : work'[u].op # "none" /\ Key(u)' = k
      BY <1>0, BusyNext
    <2>2. QED BY <1>1, <1>2, <2>1 DEF FwInv, TypeOK
  <1>4. k \notin bad BY <1>2, Growing
  <1>5. CASE work[t].op # "none" /\ Key(t) = k
    <2>1. t \in Threads
      BY <1>3, <1>5, IdleCall DEF FwInv, CtlInv, PhaseInv, Procs
    <2>2. t # Boot BY <2>1, Marks
    <2>3. k \notin Failed(t) /\ ~ Fails({k})
      BY <1>2, <2>2, StillGood DEF Failed
    <2>4. LocalOK(work[t], k) BY <1>5, <2>3 DEF CallsInv, LocalInv
    <2>5. PICK w : w = work[t] OBVIOUS
    <2>6. ~ SameCall(w, work'[t])
      BY <1>3, <1>5, <2>1, <2>5 DEF SameCall, Key
    <2>7. Finished(w, k)'
      BY <1>5, <2>3, <2>4, <2>5, <2>6, CommandLocal
    <2>8. CASE w.op = "apply"
      <3>1. row[k] = w.row /\ w.row \in PeerRow /\ w.row.addr # None
        BY <1>5, <2>5, <2>8, KeyType
           DEF CallsInv, LinkInv, FwInv, CtlInv, WorkInv, CallOK
      <3>2. Home(row[k]) = {Src(w.row)} BY <3>1, Marks DEF Home
      <3>3. QED BY <1>1, <2>7, <2>8, <3>2 DEF Finished, Single
    <2>9. CASE w.op # "apply"
      <3>1. HostsOf(dispatch', k) = {} BY <2>7, <2>9 DEF Finished
      <3>2. \A h \in Hosts : dispatch'[<<h, k>>] = 0
        BY <1>0, <3>1, HostsNone DEF FwInv, TypeOK
      <3>3. QED BY <3>1, <3>2 DEF Single
    <2>10. QED BY <2>8, <2>9
  <1>6. CASE work[t].op = "none" \/ Key(t) # k
    <2>1. ~ Busy(k)
      <3>1. ASSUME NEW u \in Threads, work[u].op # "none" PROVE Key(u) # k
        <4>1. CASE u # t BY <1>1, <1>3, <3>1, <4>1 DEF Key, Procs
        <4>2. CASE u = t BY <1>6, <3>1, <4>2
        <4>3. QED BY <4>1, <4>2
      <3>2. QED BY <1>3, <3>1, BusyKey
    <2>2. Single(k, row[k]) BY <1>4, <2>1 DEF CallsInv, IdleInv
    <2>3. PICK r : r = row[k] OBVIOUS
    <2>4. Single(k, r)'
      BY <1>6, <2>2, <2>3, FrameLocal DEF CallsInv, SeenInv
    <2>5. QED BY <1>1, <2>3, <2>4 DEF Single
  <1>7. QED BY <1>5, <1>6

LEMMA CommandCalls ==
    ASSUME FwInv, Overlap = FALSE, CallsInv, NEW t \in Procs, Command(t)
    PROVE  CallsInv'
PROOF
  BY CommandRows, CommandLink, CommandLocalInv, CommandSeen, CommandIdle
     DEF CallsInv

-----------------------------------------------------------------------------
(* A command preserves the progress of Sync. *)

LEMMA SameView ==
    ASSUME NEW k, chain'[k] = chain[k],
           HostsOf(dispatch', k) = HostsOf(dispatch, k)
    PROVE  View(chain', dispatch', k) = View(chain, dispatch, k)
PROOF BY DEF View

\* The call of Sync is not for a row that it skips.
LEMMA NotSkipped ==
    ASSUME FwInv, LinkInv, work[Boot].op # "none"
    PROVE  Key(Boot) \notin Skipped
PROOF
  <1>1. Boot \in Procs BY DEF Procs
  <1>2. CallOK(Boot, work[Boot])
        /\ work[Boot].op \in {"none", "apply", "remove", "orphan"}
    BY <1>1 DEF FwInv, CtlInv, WorkInv, CallOK, Work
  <1>3. /\ work[Boot].op = "apply" => row[Key(Boot)].addr # None
        /\ work[Boot].op = "remove" => ~ row[Key(Boot)].enabled
        /\ work[Boot].op = "orphan" => row[Key(Boot)] = None
    BY <1>1, <1>2 DEF LinkInv, CallOK
  <1>4. QED BY <1>2, <1>3 DEF Skipped

\* A peer that the command is not for.
LEMMA FrameDone ==
    ASSUME FwInv, CallsInv, NEW t \in Procs, Command(t),
           NEW k \in Keys, work[t].op = "none" \/ k # Key(t), NEW w, NEW v,
           DoneOK(k, w), Listed(v) => Listed(w), Peering(v) <=> Peering(w)
    PROVE  DoneOK(k, v)'
PROOF
  <1>1. /\ chain'[k] = chain[k]
        /\ HostsOf(dispatch', k) = HostsOf(dispatch, k)
    BY Frame DEF CallsInv, SeenInv
  <1>2. row' = row /\ left' = left BY GoesOn
  <1>3. PICK r : r = row[k] OBVIOUS
  <1>4. Single(k, r) BY <1>3 DEF DoneOK
  <1>5. Single(k, r)' BY <1>4, FrameLocal DEF CallsInv, SeenInv
  <1>6. Single(k, row[k])' BY <1>2, <1>3, <1>5 DEF Single
  <1>7. QED BY <1>1, <1>2, <1>6 DEF DoneOK

\* ensureDispatchChain at the head of Sync.
LEMMA EnsureBoot ==
    ASSUME FwInv, CallsInv, BootInv, phase = "boot", Command(Boot),
           work[Boot].op = "none"
    PROVE  BootInv'
PROOF
  <1>1. Boot \in Procs BY DEF Procs
  <1>2. work[Boot].pc \in {"checkfwd", "addfwd"} BY <1>1, BootCommand
  <1>3. /\ row' = row /\ phase' = phase /\ left' = left /\ snap' = snap
        /\ work'[Boot].op = "none"
    BY <1>1, GoesOn DEF SameCall
  <1>4. CheckForward(Boot) \/ AddForward(Boot)
    BY <1>2 DEF Command, NewChain, FlushChain, AddAccept, AddDrop,
       CheckJump, AddJump, DelJump, ScanJumps, DelJumps, DeleteChain, At
  <1>5. AfterEnsure(Boot) = "flushall" BY DEF AfterEnsure
  <1>6. PICK p \in {"addfwd", "flushall"} :
           Goto(Boot, p) /\ (p = "flushall" => forward')
    BY <1>4, <1>5 DEF CheckForward, AddForward, rules
  <1>7. work'[Boot].pc = p BY <1>1, <1>6, GotoFields
  <1>8. Flushing(work'[Boot]) /\ Peering(work'[Boot]) /\ ~ Sweeping(work'[Boot])
    BY <1>3, <1>7 DEF Flushing, Peering, Sweeping
  <1>9. Flushing(work[Boot]) BY <1>2 DEF Flushing
  <1>10. DoneInv' /\ SnapInv' BY <1>8 DEF DoneInv, SnapInv
  <1>11. RetInv' BY <1>3 DEF RetInv
  <1>12. EnsuredInv' BY <1>3, <1>6, <1>7 DEF EnsuredInv
  <1>13. TodoInv' BY <1>3, <1>8, <1>9 DEF BootInv, TodoInv
  <1>14. SkipInv'
    <2>1. SUFFICES ASSUME NEW k \in Keys, k \in Skipped', k \notin bad'
                   PROVE  /\ seen'[k] = View(chain', dispatch', k)
                          /\ HostsOf(dispatch', k) = {}
      BY DEF SkipInv, Skipped
    <2>2. k \in Skipped /\ k \notin bad
      BY <1>1, <1>3, <2>1, Growing DEF Skipped
    <2>3. seen[k] = View(chain, dispatch, k) /\ HostsOf(dispatch, k) = {}
      BY <2>2 DEF BootInv, SkipInv
    <2>4. /\ chain'[k] = chain[k] /\ seen'[k] = seen[k]
          /\ HostsOf(dispatch', k) = HostsOf(dispatch, k)
      BY <1>1, Frame DEF CallsInv, SeenInv
    <2>5. QED BY <2>3, <2>4, SameView
  <1>15. QED
    BY <1>10, <1>11, <1>12, <1>13, <1>14 DEF BootInv

\* The peer of a call that is over.
LEMMA FinishedDone ==
    ASSUME FwInv, FwInv', LinkInv, NEW w, w = work[Boot], w.op # "none",
           NEW k \in Keys, k = Key(Boot), Finished(w, k)', NEW v,
           k \notin left' \/ ~ Peering(v), row' = row
    PROVE  DoneOK(k, v)'
PROOF
  <1>1. Boot \in Procs BY DEF Procs
  <1>2. CallOK(Boot, w) /\ w.op \in {"none", "apply", "remove", "orphan"}
    BY <1>1 DEF FwInv, CtlInv, WorkInv, CallOK, Work
  <1>3. CASE w.op = "apply"
    <2>1. row[k] = w.row /\ w.row \in PeerRow /\ w.row.addr # None
      BY <1>1, <1>2, <1>3 DEF LinkInv, CallOK
    <2>2. Home(row[k]) = {Src(w.row)} /\ row[k] # None
      BY <2>1, Marks DEF Home
    <2>3. /\ chain'[k] = [acc |-> RulesOf(w.row), drop |-> TRUE]
          /\ HostsOf(dispatch', k) = {Src(w.row)}
          /\ \A h \in Hosts : dispatch'[<<h, k>>] <= 1
      BY <1>3 DEF Finished
    <2>4. Single(k, row[k])' BY <2>2, <2>3 DEF Single
    <2>5. row[k].enabled BY <1>1, <1>3 DEF LinkInv
    <2>6. QED BY <2>1, <2>2, <2>3, <2>4, <2>5 DEF DoneOK
  <1>4. CASE w.op \in {"remove", "orphan"}
    <2>1. chain'[k] = None /\ HostsOf(dispatch', k) = {}
      BY <1>4 DEF Finished
    <2>2. \A h \in Hosts : dispatch'[<<h, k>>] = 0
      BY <2>1, HostsNone DEF FwInv, TypeOK
    <2>3. Single(k, row[k])' BY <2>1, <2>2 DEF Single
    <2>4. row[k] = None \/ ~ row[k].enabled
      BY <1>1, <1>4 DEF LinkInv
    <2>5. QED BY <2>1, <2>3, <2>4 DEF DoneOK
  <1>5. QED BY <1>2, <1>3, <1>4

LEMMA AtCommand ==
    ASSUME NEW t, Command(t) PROVE work[t].pc # "idle"
PROOF BY DEF Command, NewChain, FlushChain, AddAccept, AddDrop, CheckForward,
     AddForward, CheckJump, AddJump, DelJump, ScanJumps, DelJumps, DeleteChain, At

\* The record of Sync after a call.
LEMMA BootAfter ==
    ASSUME NEW w, CallOK(Boot, w), w.op # "none"
    PROVE  /\ After(w) = Free(w.ret) /\ w.ret \in {"pick", "sweep"}
           /\ After(w).op = "none" /\ After(w).pc = w.ret
PROOF
  <1>1. w.next = None /\ w.ret \in {"pick", "sweep"} BY DEF CallOK
  <1>2. After(w) = Free(w.ret) BY <1>1 DEF After
  <1>3. QED BY <1>1, <1>2, FreeFields DEF Rets

LEMMA CallBoot ==
    ASSUME FwInv, Overlap = FALSE, CallsInv, BootInv, phase = "boot",
           Command(Boot), work[Boot].op # "none"
    PROVE  BootInv'
PROOF
  <1>0. FwInv' /\ Boot \in Procs BY CommandInv DEF Procs
  <1>1. /\ row' = row /\ phase' = phase /\ left' = left /\ snap' = snap
        /\ SameCall(work[Boot], work'[Boot]) \/ work'[Boot] = After(work[Boot])
    BY <1>0, GoesOn
  <1>2. PICK w : w = work[Boot] OBVIOUS
  <1>3. PICK v : v = work'[Boot] OBVIOUS
  <1>4. PICK k \in Keys : k = Key(Boot) BY <1>0, KeyType DEF FwInv
  <1>5. CallOK(Boot, w) /\ w.op \in {"none", "apply", "remove", "orphan"}
    BY <1>0, <1>2 DEF FwInv, CtlInv, WorkInv, CallOK, Work
  <1>6. /\ w.op \in {"apply", "remove"} => w.ret = "pick" /\ k \notin left
        /\ w.op = "orphan" => w.ret = "sweep"
    BY <1>2, <1>4 DEF BootInv, RetInv
  <1>7. /\ Listed(v) => Listed(w)
        /\ Sweeping(v) => Sweeping(w)
        /\ Peering(v) <=> Peering(w)
        /\ ~ Flushing(v)
        /\ v.op # "none" => SameCall(w, v)
    <2>1. CASE SameCall(w, v)
      BY <1>2, <2>1 DEF SameCall, Listed, Sweeping, Peering, Flushing
    <2>2. CASE v = After(w)
      <3>1. v.op = "none" /\ v.pc = w.ret /\ w.ret \in {"pick", "sweep"}
        BY <1>2, <1>5, <2>2, BootAfter
      <3>2. QED
        BY <1>2, <1>5, <1>6, <3>1 DEF Listed, Sweeping, Peering, Flushing
    <2>3. QED BY <1>1, <1>2, <1>3, <2>1, <2>2
  <1>8. late \subseteq late' /\ bad \subseteq bad' /\ (forward => forward')
    BY <1>0, Growing
  <1>9. DoneInv'
    <2>1. SUFFICES ASSUME NEW j \in Keys, j \notin late'
                   PROVE  DoneOK(j, work[Boot])'
                          \/ (work'[Boot].op # "none" /\ Key(Boot)' = j)
      BY DEF DoneInv
    <2>2. CASE j # k
      <3>1. DoneOK(j, w)
        BY <1>2, <1>4, <1>8, <2>1, <2>2 DEF BootInv, DoneInv, Flushing
      <3>2. DoneOK(j, v)'
        BY <1>0, <1>4, <1>7, <2>2, <3>1, FrameDone
      <3>3. QED BY <1>3, <3>2 DEF DoneOK, Single
    <2>3. CASE j = k
      <3>1. k \notin Failed(Boot) /\ ~ Fails({k})
        BY <1>0, <2>1, <2>3, StillGood DEF Failed
      <3>2. LocalOK(w, k) BY <1>0, <1>2, <1>4, <3>1 DEF CallsInv, LocalInv
      <3>3. CASE SameCall(w, v)
        BY <1>2, <1>3, <1>4, <2>3, <3>3 DEF SameCall, Key
      <3>4. CASE Return(Boot) /\ Finished(w, k)'
        <4>1. v = After(w)
          BY <1>0, <1>2, <1>3, <3>4 DEF Return, After, FwInv, CtlInv, WorkInv
        <4>2. v.op = "none" /\ v.pc = w.ret
          BY <1>2, <1>5, <4>1, BootAfter
        <4>3. k \notin left' \/ ~ Peering(v)
          BY <1>1, <1>2, <1>5, <1>6, <4>2 DEF Peering
        <4>4. DoneOK(k, v)'
          BY <1>0, <1>1, <1>2, <1>4, <3>4, <4>3, FinishedDone DEF CallsInv
        <4>5. QED BY <1>3, <2>3, <4>4 DEF DoneOK, Single
      <3>5. QED
        BY <1>0, <1>2, <1>3, <1>4, <3>1, <3>2, <3>3, <3>4, CommandLocal
    <2>4. QED BY <2>2, <2>3
  <1>10. RetInv'
    BY <1>1, <1>2, <1>3, <1>4, <1>6, <1>7 DEF RetInv, SameCall, Key
  <1>11. EnsuredInv' BY <1>8 DEF BootInv, EnsuredInv
  <1>12. TodoInv' BY <1>1, <1>2, <1>3, <1>7 DEF BootInv, TodoInv
  <1>13. SnapInv'
    BY <1>1, <1>2, <1>3, <1>7, <1>8 DEF BootInv, SnapInv
  <1>14. SkipInv'
    <2>1. SUFFICES ASSUME NEW j \in Keys, j \in Skipped', j \notin bad'
                   PROVE  /\ seen'[j] = View(chain', dispatch', j)
                          /\ HostsOf(dispatch', j) = {}
      BY DEF SkipInv, Skipped
    <2>2. j \in Skipped /\ j \notin bad BY <1>1, <1>8, <2>1 DEF Skipped
    <2>3. seen[j] = View(chain, dispatch, j) /\ HostsOf(dispatch, j) = {}
      BY <2>2 DEF BootInv, SkipInv
    <2>4. j # Key(Boot) BY <2>2, NotSkipped DEF CallsInv
    <2>5. /\ chain'[j] = chain[j] /\ seen'[j] = seen[j]
          /\ HostsOf(dispatch', j) = HostsOf(dispatch, j)
      BY <1>0, <2>4, Frame DEF CallsInv, SeenInv
    <2>6. QED BY <2>3, <2>5, SameView
  <1>15. QED
    BY <1>9, <1>10, <1>11, <1>12, <1>13, <1>14 DEF BootInv

LEMMA CommandBoot ==
    ASSUME FwInv, Overlap = FALSE, CallsInv, BootInv, NEW t \in Procs,
           Command(t)
    PROVE  BootInv'
PROOF
  <1>1. CASE phase = "boot"
    <2>1. t = Boot
      BY <1>1, AtCommand DEF FwInv, CtlInv, PhaseInv, Procs
    <2>2. QED BY <1>1, <2>1, EnsureBoot, CallBoot
  <1>2. CASE phase # "boot" BY <1>2, GoesOn DEF BootInv
  <1>3. QED BY <1>1, <1>2

-----------------------------------------------------------------------------
(* Sync preserves the invariants. *)

\* A record of Sync and the table.
LinkOf(w) ==
    /\ w.next = None
    /\ w.op = "none" => w.fresh = FALSE
    /\ w.op = "apply" =>
         row[w.row.key] = w.row /\ w.row.enabled /\ w.row \in PeerRows
    /\ w.op = "remove" =>
         row[w.row.key] = w.row /\ ~ w.row.enabled /\ w.row \in PeerRows
    /\ w.op = "orphan" => row[w.row.key] = None

LEMMA SyncCalls ==
    ASSUME FwInv, CallsInv, phase = "boot", row' = row,
           \A u \in Threads : work'[u] = work[u],
           seen' = [j \in Keys |-> seen'[j]], LinkOf(work'[Boot]),
           work'[Boot].op # "none" /\ Key(Boot)' \notin late' =>
             LocalOK(work[Boot], Key(Boot))',
           IdleInv'
    PROVE  CallsInv'
PROOF
  <1>1. \A u \in Threads : work'[u].op = "none"
    BY IdleCall DEF FwInv, CtlInv, PhaseInv, Procs
  <1>2. LocalInv' BY <1>1 DEF LocalInv, Failed, Procs
  <1>3. LinkInv'
    <2>1. ASSUME NEW u \in Threads
          PROVE  work'[u].op = "none" /\ work'[u].next = None /\ ~ work'[u].fresh
      <3>1. u \in Procs /\ work[u] = work'[u] BY DEF Procs
      <3>2. CallOK(u, work[u]) BY <3>1 DEF FwInv, CtlInv, WorkInv
      <3>3. QED BY <1>1, <3>1, <3>2 DEF CallOK, CallsInv, LinkInv
    <2>2. QED BY <2>1 DEF LinkInv, LinkOf, Key, Procs
  <1>4. RowsKnown'
    <2>1. \A u \in Threads : work'[u].next \in PeerRows \cup {None}
      BY DEF CallsInv, RowsKnown, Procs
    <2>2. QED BY <1>1, <2>1 DEF CallsInv, RowsKnown, LinkOf, Procs
  <1>5. SeenInv' BY <1>1 DEF SeenInv
  <1>6. QED BY <1>2, <1>3, <1>4, <1>5 DEF CallsInv

LEMMA BusyBoot ==
    ASSUME phase' = "boot" PROVE IdleInv'
PROOF BY DEF IdleInv, Busy

\* Sync goes on outside of a call.
LEMMA SyncGoto ==
    ASSUME FwInv, CallsInv, phase = "boot", work[Boot].op = "none",
           NEW p, Goto(Boot, p)
    PROVE  /\ \A u \in Threads : work'[u] = work[u]
           /\ work'[Boot].op = "none" /\ work'[Boot].pc = p
           /\ LinkOf(work'[Boot]) /\ seen' = seen
           /\ seen' = [j \in Keys |-> seen'[j]]
PROOF
  <1>1. Boot \in Procs /\ Boot \notin Threads /\ Threads \subseteq Procs
    BY Marks DEF Procs
  <1>2. /\ work'[Boot].pc = p /\ SameCall(work[Boot], work'[Boot])
        /\ seen' = seen
    BY <1>1, GotoFields
  <1>3. \A u \in Threads : work'[u] = work[u]
    BY <1>1 DEF Goto, FwInv, CtlInv, WorkInv
  <1>4. CallOK(Boot, work[Boot]) /\ work[Boot].fresh \in BOOLEAN
    BY <1>1 DEF FwInv, CtlInv, WorkInv, CallOK, Work
  <1>5. work[Boot].next = None /\ work[Boot].fresh = FALSE
    BY <1>1, <1>4 DEF CallOK, CallsInv, LinkInv
  <1>6. LinkOf(work'[Boot]) BY <1>2, <1>5 DEF LinkOf, SameCall
  <1>7. QED BY <1>2, <1>3, <1>6 DEF SameCall, CallsInv, SeenInv

LEMMA FlushDispatchCalls ==
    ASSUME FwInv, CallsInv, BootInv, FlushDispatch PROVE CallsInv' /\ BootInv'
PROOF
  <1>1. /\ work[Boot].pc = "flushall" /\ Goto(Boot, "pick")
        /\ row' = row /\ phase' = phase /\ chain' = chain
        /\ forward' = forward /\ left' = left /\ snap' = snap
        /\ \/ dispatch' = NoJumps /\ Succeeds
           \/ Fails(Keys) /\ dispatch' = dispatch
    BY DEF FlushDispatch, At, Outer, NoJumps
  <1>2. work[Boot].op = "none" /\ phase = "boot" BY <1>1, AtBoot
  <1>3. /\ \A u \in Threads : work'[u] = work[u]
        /\ work'[Boot].op = "none" /\ work'[Boot].pc = "pick"
        /\ LinkOf(work'[Boot]) /\ seen' = seen
        /\ seen' = [j \in Keys |-> seen'[j]]
    BY <1>1, <1>2, SyncGoto
  <1>4. CallsInv' BY <1>1, <1>2, <1>3, SyncCalls, BusyBoot
  <1>5. Flushing(work[Boot]) /\ Peering(work[Boot])
    BY <1>1, <1>2 DEF Flushing, Peering
  <1>6. /\ ~ Flushing(work'[Boot]) /\ Peering(work'[Boot])
        /\ ~ Sweeping(work'[Boot]) /\ ~ Listed(work'[Boot])
    BY <1>3 DEF Flushing, Peering, Sweeping, Listed
  <1>7. ASSUME NEW k \in Keys, dispatch' = NoJumps
        PROVE  /\ HostsOf(dispatch', k) = {}
               /\ \A h \in Hosts : dispatch'[<<h, k>>] <= 1
    <2>1. \A h \in Hosts : dispatch'[<<h, k>>] = 0 BY <1>7 DEF NoJumps
    <2>2. QED BY <2>1 DEF HostsOf
  <1>8. DoneInv'
    <2>1. SUFFICES ASSUME NEW k \in Keys, k \notin late'
                   PROVE  DoneOK(k, work[Boot])'
      BY DEF DoneInv
    <2>2. dispatch' = NoJumps BY <1>1, <2>1 DEF Fails
    <2>3. Single(k, row[k])' BY <1>7, <2>2 DEF Single
    <2>4. row[k] # None => k \in left
      BY <1>2, <1>5 DEF BootInv, TodoInv
    <2>5. QED BY <1>1, <1>6, <1>7, <2>2, <2>3, <2>4 DEF DoneOK
  <1>9. RetInv' /\ SnapInv' /\ TodoInv'
    BY <1>3, <1>6 DEF RetInv, SnapInv, TodoInv
  <1>10. EnsuredInv' BY <1>1, <1>2 DEF BootInv, EnsuredInv
  <1>11. SkipInv'
    <2>1. SUFFICES ASSUME NEW k \in Keys, k \in Skipped', k \notin bad'
                   PROVE  /\ seen'[k] = View(chain', dispatch', k)
                          /\ HostsOf(dispatch', k) = {}
      BY DEF SkipInv, Skipped
    <2>2. k \in Skipped /\ k \notin bad
      BY <1>1, <2>1 DEF Skipped, Succeeds, Fails
    <2>3. seen[k] = View(chain, dispatch, k) /\ HostsOf(dispatch, k) = {}
      BY <1>2, <2>2 DEF BootInv, SkipInv
    <2>4. HostsOf(dispatch', k) = {} BY <1>1, <1>7, <2>3
    <2>5. QED BY <1>1, <1>3, <2>3, <2>4, SameView
  <1>12. QED
    BY <1>4, <1>8, <1>9, <1>10, <1>11 DEF BootInv

LEMMA SyncFailsCalls ==
    ASSUME FwInv, CallsInv, BootInv, SyncFails PROVE CallsInv' /\ BootInv'
PROOF
  <1>1. /\ work[Boot].pc = "addfwd" /\ work[Boot].op = "none"
        /\ Fails(Keys) /\ phase' = "up"
        /\ work' = [work EXCEPT ![Boot] = Free("idle")]
        /\ row' = row /\ seen' = seen
    BY DEF SyncFails, At
  <1>2. phase = "boot" BY <1>1, AtBoot
  <1>3. Boot \in Procs /\ Boot \notin Threads /\ Threads \subseteq Procs
        /\ work \in [Procs -> Work]
    BY Marks DEF Procs, FwInv, CtlInv, WorkInv
  <1>4. /\ work'[Boot] = Free("idle")
        /\ \A u \in Threads : work'[u] = work[u]
    BY <1>1, <1>3
  <1>5. /\ Free("idle").op = "none" /\ Free("idle").next = None
        /\ Free("idle").fresh = FALSE
    BY FreeFields DEF Rets
  <1>6. LinkOf(work'[Boot]) BY <1>4, <1>5 DEF LinkOf
  <1>7. IdleInv' BY <1>1 DEF IdleInv, Fails
  <1>8. seen' = [j \in Keys |-> seen'[j]] BY <1>1 DEF CallsInv, SeenInv
  <1>9. CallsInv' BY <1>1, <1>2, <1>4, <1>5, <1>6, <1>7, <1>8, SyncCalls
  <1>10. QED BY <1>1, <1>9 DEF BootInv

\* The call of Sync for the row r.
LEMMA VisitCall ==
    ASSUME NEW r \in PeerRow, NEW a, a = ApplyCall(r, "pick", FALSE)
    PROVE  /\ a.next = None /\ a.op \in {"none", "apply", "remove"}
           /\ a.ret = "pick"
           /\ a.op = "none" => /\ r.enabled /\ r.addr = None
                               /\ a.pc = "pick" /\ a.fresh = FALSE
           /\ a.op # "none" => a.row = r
           /\ a.op = "apply" => r.enabled /\ a.pc = "new"
           /\ a.op = "remove" => ~ r.enabled /\ a.pc \in {"scan", "deljump"}
PROOF
  <1>1. Boot \in Procs /\ Returns(Boot, "pick") /\ "pick" \in Rets
    BY DEF Procs, Returns, Rets
  <1>2. /\ Free("pick") \in Work /\ Free("pick").op = "none"
        /\ Free("pick").pc = "pick" /\ Free("pick").ret = "pick"
        /\ Free("pick").fresh = FALSE
    BY <1>1, FreeFields
  <1> DEFINE c == ApplyCall(r, "pick", FALSE)
  <1>0. /\ CallOK(Boot, c)
        /\ c.next = None
        /\ \/ /\ r.enabled /\ r.addr = None
              /\ c = Free("pick")
           \/ /\ ~ r.enabled
              /\ c = RemoveCall(r, None, "pick")
           \/ /\ r.enabled /\ r.addr # None
              /\ c.row = r
              /\ c.op = "apply"
              /\ c.pc = "new"
    BY <1>1, ApplyCallOK, Zenon
  <1>3. /\ a.next = None
        /\ \/ /\ r.enabled /\ r.addr = None
              /\ a = Free("pick")
           \/ /\ ~ r.enabled
              /\ a = RemoveCall(r, None, "pick")
           \/ /\ r.enabled /\ r.addr # None
              /\ a.row = r
              /\ a.op = "apply"
              /\ a.pc = "new"
    <2>1. a = c OBVIOUS
    <2> HIDE DEF c
    <2>2. QED BY <1>0, <2>1
  <1>4. a.ret = "pick"
    <2>1. CASE ~ r.enabled
      BY <1>2, <2>1 DEF ApplyCall, RemoveCall, Work
    <2>2. CASE r.enabled /\ r.addr = None BY <1>2, <2>2 DEF ApplyCall
    <2>3. CASE r.enabled /\ r.addr # None
      BY <1>2, <2>3 DEF ApplyCall, Work
    <2>4. QED BY <2>1, <2>2, <2>3
  <1>5. CASE r.enabled /\ r.addr = None /\ a = Free("pick")
    BY <1>2, <1>3, <1>5
  <1>6. CASE ~ r.enabled /\ a = RemoveCall(r, None, "pick")
    <2>1. /\ RemoveCall(r, None, "pick").row = r
          /\ RemoveCall(r, None, "pick").op = "remove"
          /\ RemoveCall(r, None, "pick").pc \in {"scan", "deljump"}
      BY <1>1, RemoveCallOK
    <2>2. QED BY <1>3, <1>4, <1>6, <2>1
  <1>7. CASE r.enabled /\ a.row = r /\ a.op = "apply" /\ a.pc = "new"
    BY <1>3, <1>4, <1>7
  <1>8. QED BY <1>3, <1>5, <1>6, <1>7

\* A step of Sync that leaves the rules alone.
LEMMA QuietSkip ==
    ASSUME BootInv, phase = "boot", chain' = chain, dispatch' = dispatch,
           seen' = seen, row' = row, bad \subseteq bad'
    PROVE  SkipInv'
PROOF BY DEF BootInv, SkipInv, Skipped

\* The record of Sync is replaced.
LEMMA SyncSets ==
    ASSUME FwInv, NEW w, work' = [work EXCEPT ![Boot] = w]
    PROVE  work'[Boot] = w /\ \A u \in Threads : work'[u] = work[u]
PROOF
  <1>1. Boot \in Procs /\ Boot \notin Threads /\ Threads \subseteq Procs
        /\ work \in [Procs -> Work]
    BY Marks DEF Procs, FwInv, CtlInv, WorkInv
  <1>2. QED BY <1>1

LEMMA SyncVisitCalls ==
    ASSUME FwInv, LeftInv, CallsInv, BootInv, FwInv', work[Boot].pc = "pick",
           NEW k \in left,
           work' = [work EXCEPT ![Boot] = ApplyCall(row[k], "pick", FALSE)],
           left' = left \ {k},
           UNCHANGED <<row, phase, rules, snap, budget, history>>
    PROVE  CallsInv' /\ BootInv'
PROOF
  <1>1. /\ row' = row /\ phase' = phase /\ chain' = chain /\ snap' = snap
        /\ dispatch' = dispatch /\ forward' = forward
        /\ seen' = seen /\ bad' = bad /\ late' = late
    BY DEF rules, history
  <1>2. work[Boot].op = "none" /\ phase = "boot" BY AtBoot
  <1>3. /\ Peering(work[Boot]) /\ ~ Flushing(work[Boot])
    BY <1>2 DEF Peering, Flushing
  <1>4. k \in Keys /\ row[k] # None
    BY <1>3 DEF LeftInv, FwInv, TypeOK
  <1>5. row[k] \in PeerRow /\ row[k].key = k /\ row[k] \in PeerRows
    BY <1>4 DEF FwInv, TypeOK, CtlInv, RowInv, CallsInv, RowsKnown
  <1>6. PICK a : a = ApplyCall(row[k], "pick", FALSE) OBVIOUS
  <1>7. work'[Boot] = a /\ \A u \in Threads : work'[u] = work[u]
    BY <1>6, SyncSets
  <1>8. /\ a.next = None /\ a.op \in {"none", "apply", "remove"}
        /\ a.ret = "pick"
        /\ a.op = "none" => /\ row[k].enabled /\ row[k].addr = None
                            /\ a.pc = "pick" /\ a.fresh = FALSE
        /\ a.op # "none" => a.row = row[k]
        /\ a.op = "apply" => row[k].enabled /\ a.pc = "new"
        /\ a.op = "remove" => ~ row[k].enabled /\ a.pc \in {"scan", "deljump"}
    <2>1. PICK r \in PeerRow : r = row[k] BY <1>5
    <2>2. a = ApplyCall(r, "pick", FALSE) BY <1>6, <2>1, Zenon
    <2>3. /\ a.next = None /\ a.op \in {"none", "apply", "remove"}
          /\ a.ret = "pick"
          /\ a.op = "none" => /\ r.enabled /\ r.addr = None
                              /\ a.pc = "pick" /\ a.fresh = FALSE
          /\ a.op # "none" => a.row = r
          /\ a.op = "apply" => r.enabled /\ a.pc = "new"
          /\ a.op = "remove" => ~ r.enabled /\ a.pc \in {"scan", "deljump"}
      BY <2>2, VisitCall
    <2>4. QED BY <2>1, <2>3
  <1>9. LinkOf(a) BY <1>5, <1>8 DEF LinkOf
  <1>10. k \notin late =>
           /\ HostsOf(dispatch, k) = {} /\ Single(k, row[k])
    BY <1>2, <1>3, <1>4 DEF BootInv, DoneInv, DoneOK
  <1>11. a.op # "none" => Key(Boot)' = k BY <1>5, <1>7, <1>8 DEF Key
  <1>12. a.op # "none" /\ k \notin late => LocalOK(work[Boot], k)'
    BY <1>1, <1>7, <1>8, <1>10 DEF LocalOK, ChainOK, JumpOK, Single
  <1>13. CallsInv'
    <2>1. work'[Boot].op # "none" /\ Key(Boot)' \notin late' =>
             LocalOK(work[Boot], Key(Boot))'
      BY <1>1, <1>7, <1>11, <1>12 DEF LocalOK, JumpOK, Single
    <2>2. seen' = [j \in Keys |-> seen'[j]] BY <1>1 DEF CallsInv, SeenInv
    <2>3. LinkOf(work'[Boot]) BY <1>7, <1>9
    <2>4. IdleInv' BY <1>1, <1>2, BusyBoot
    <2>5. QED BY <1>1, <1>2, <1>7, <2>1, <2>2, <2>3, <2>4, SyncCalls
  <1>14. Peering(a) /\ ~ Flushing(a) /\ ~ Listed(a) /\ ~ Sweeping(a)
    BY <1>8 DEF Peering, Flushing, Listed, Sweeping
  <1>15. DoneInv'
    <2>1. SUFFICES ASSUME NEW j \in Keys, j \notin late'
                   PROVE  DoneOK(j, work[Boot])'
                          \/ (work'[Boot].op # "none" /\ Key(Boot)' = j)
      BY DEF DoneInv
    <2>2. DoneOK(j, work[Boot])
      BY <1>1, <1>2, <1>3, <2>1 DEF BootInv, DoneInv
    <2>3. CASE j # k
      BY <1>1, <1>3, <1>7, <1>14, <2>2, <2>3 DEF DoneOK, Single
    <2>4. CASE j = k /\ a.op # "none" BY <1>7, <1>11, <2>4
    <2>5. CASE j = k /\ a.op = "none"
      BY <1>1, <1>4, <1>7, <1>8, <2>2, <2>5 DEF DoneOK, Single
    <2>6. QED BY <2>3, <2>4, <2>5
  <1>16. RetInv' BY <1>7, <1>8, <1>11 DEF RetInv
  <1>17. EnsuredInv' BY <1>1, <1>2 DEF BootInv, EnsuredInv
  <1>18. TodoInv' /\ SnapInv' BY <1>7, <1>14 DEF TodoInv, SnapInv
  <1>19. SkipInv' BY <1>1, <1>2, QuietSkip
  <1>20. QED
    BY <1>13, <1>15, <1>16, <1>17, <1>18, <1>19 DEF BootInv

\* Sync takes a step of its own, and the peers stay as they are.
LEMMA QuietCalls ==
    ASSUME FwInv, CallsInv, BootInv, phase = "boot", phase' = "boot",
           work[Boot].op = "none", ~ Flushing(work[Boot]),
           work'[Boot].op = "none", LinkOf(work'[Boot]),
           ~ Flushing(work'[Boot]), ~ Peering(work'[Boot]),
           \A u \in Threads : work'[u] = work[u],
           chain' = chain, dispatch' = dispatch, forward' = forward,
           seen' = seen, row' = row, bad \subseteq bad', late \subseteq late',
           Peering(work[Boot]) => left = {}, \A k \in left' : row[k] = None,
           \A k \in Keys \ late' :
              row[k] = None /\ Listed(work'[Boot]) => chain[k] = None \/ k \in left',
           SnapInv'
    PROVE  CallsInv' /\ BootInv'
PROOF
  <1>1. seen' = [j \in Keys |-> seen'[j]] BY DEF CallsInv, SeenInv
  <1>2. IdleInv' BY BusyBoot
  <1>3. CallsInv' BY <1>1, <1>2, SyncCalls
  <1>4. DoneInv'
    <2>1. SUFFICES ASSUME NEW j \in Keys, j \notin late'
                   PROVE  DoneOK(j, work[Boot])'
      BY DEF DoneInv
    <2>2. DoneOK(j, work[Boot]) BY <2>1 DEF BootInv, DoneInv
    <2>3. Single(j, row[j])' BY <2>2 DEF DoneOK, Single
    <2>4. QED BY <2>1, <2>2, <2>3 DEF DoneOK
  <1>5. RetInv' BY DEF RetInv
  <1>6. EnsuredInv' BY DEF BootInv, EnsuredInv, Flushing
  <1>7. TodoInv' BY DEF TodoInv
  <1>8. SkipInv' BY QuietSkip
  <1>9. QED BY <1>3, <1>4, <1>5, <1>6, <1>7, <1>8 DEF BootInv

LEMMA SyncPeerCalls ==
    ASSUME FwInv, LeftInv, CallsInv, BootInv, FwInv', SyncPeer
    PROVE  CallsInv' /\ BootInv'
PROOF
  <1>1. work[Boot].pc = "pick" BY DEF SyncPeer, At
  <1>2. UNCHANGED <<row, phase, rules, snap, budget, history>>
    BY DEF SyncPeer
  <1>3. CASE \E k \in left :
             /\ work' = [work EXCEPT ![Boot] = ApplyCall(row[k], "pick", FALSE)]
             /\ left' = left \ {k}
    BY <1>1, <1>2, <1>3, SyncVisitCalls
  <1>4. CASE /\ left = {}
             /\ work' = [work EXCEPT ![Boot] = Free("list")]
             /\ UNCHANGED left
    <2>1. work'[Boot] = Free("list") /\ \A u \in Threads : work'[u] = work[u]
      BY <1>4, SyncSets
    <2>2. /\ Free("list").op = "none" /\ Free("list").pc = "list"
          /\ Free("list").next = None /\ Free("list").fresh = FALSE
      BY FreeFields DEF Rets
    <2>3. work[Boot].op = "none" /\ phase = "boot" BY <1>1, AtBoot
    <2>4. LinkOf(work'[Boot]) BY <2>1, <2>2 DEF LinkOf
    <2>5. /\ ~ Flushing(work'[Boot]) /\ ~ Peering(work'[Boot])
          /\ ~ Listed(work'[Boot]) /\ ~ Sweeping(work'[Boot])
          /\ ~ Flushing(work[Boot])
      BY <1>1, <2>1, <2>2 DEF Flushing, Peering, Listed, Sweeping
    <2>6. SnapInv' BY <2>5 DEF SnapInv
    <2>7. QED
      BY <1>2, <1>4, <2>1, <2>2, <2>3, <2>4, <2>5, <2>6, QuietCalls
         DEF rules, history
  <1>5. QED BY <1>3, <1>4 DEF SyncPeer

LEMMA ListChainsCalls ==
    ASSUME FwInv, CallsInv, BootInv, ListChains PROVE CallsInv' /\ BootInv'
PROOF
  <1>1. /\ work[Boot].pc = "list" /\ Goto(Boot, "listjumps")
        /\ row' = row /\ phase' = phase /\ chain' = chain
        /\ dispatch' = dispatch /\ forward' = forward /\ snap' = snap
        /\ \/ left' = Orphans /\ Succeeds
           \/ Fails(Orphans) /\ left' = left
    BY DEF ListChains, At, rules
  <1>2. work[Boot].op = "none" /\ phase = "boot" BY <1>1, AtBoot
  <1>3. /\ \A u \in Threads : work'[u] = work[u]
        /\ work'[Boot].op = "none" /\ work'[Boot].pc = "listjumps"
        /\ LinkOf(work'[Boot]) /\ seen' = seen
    BY <1>1, <1>2, SyncGoto
  <1>4. /\ ~ Flushing(work'[Boot]) /\ ~ Peering(work'[Boot])
        /\ ~ Sweeping(work'[Boot])
        /\ ~ Flushing(work[Boot]) /\ ~ Peering(work[Boot])
    BY <1>1, <1>2, <1>3 DEF Flushing, Peering, Sweeping
  <1>5. bad \subseteq bad' /\ late \subseteq late'
    BY <1>1 DEF Succeeds, Fails
  <1>6. \A k \in left' : row[k] = None
    BY <1>1, <1>2, <1>4 DEF BootInv, TodoInv, Orphans
  <1>7. \A k \in Keys \ late' :
           row[k] = None => chain[k] = None \/ k \in left'
    BY <1>1 DEF Orphans, Fails
  <1>8. SnapInv' BY <1>4 DEF SnapInv
  <1>9. QED
    BY <1>1, <1>2, <1>3, <1>4, <1>5, <1>6, <1>7, <1>8, QuietCalls

LEMMA ListJumpsCalls ==
    ASSUME FwInv, CallsInv, BootInv, ListJumps PROVE CallsInv' /\ BootInv'
PROOF
  <1>1. /\ work[Boot].pc = "listjumps" /\ Goto(Boot, "sweep")
        /\ row' = row /\ phase' = phase /\ chain' = chain
        /\ dispatch' = dispatch /\ forward' = forward /\ left' = left
        /\ snap' = dispatch \/ snap' = NoJumps
        /\ Succeeds \/ Fails(left)
    BY DEF ListJumps, At, rules, NoJumps
  <1>2. work[Boot].op = "none" /\ phase = "boot" BY <1>1, AtBoot
  <1>3. /\ \A u \in Threads : work'[u] = work[u]
        /\ work'[Boot].op = "none" /\ work'[Boot].pc = "sweep"
        /\ LinkOf(work'[Boot]) /\ seen' = seen
    BY <1>1, <1>2, SyncGoto
  <1>4. /\ ~ Flushing(work'[Boot]) /\ ~ Peering(work'[Boot])
        /\ Listed(work[Boot])
        /\ ~ Flushing(work[Boot]) /\ ~ Peering(work[Boot])
    BY <1>1, <1>2, <1>3 DEF Flushing, Peering, Sweeping, Listed
  <1>5. bad \subseteq bad' /\ late \subseteq late'
    BY <1>1 DEF Succeeds, Fails
  <1>6. \A k \in left' : row[k] = None
    BY <1>1, <1>2, <1>4 DEF BootInv, TodoInv
  <1>7. \A k \in Keys \ late' : DoneOK(k, work[Boot])
    BY <1>2, <1>4, <1>5 DEF BootInv, DoneInv
  <1>8. \A k \in Keys \ late' :
           row[k] = None => chain[k] = None \/ k \in left'
    BY <1>1, <1>4, <1>7 DEF DoneOK
  <1>9. SnapInv'
    <2>1. SUFFICES ASSUME NEW k \in Keys, k \notin late', row[k] = None,
                          NEW h \in Hosts
                   PROVE  snap'[<<h, k>>] = 0
      BY <1>1 DEF SnapInv
    <2>2. HostsOf(dispatch, k) = {}
      BY <1>7, <2>1 DEF DoneOK, Single, Home
    <2>3. dispatch[<<h, k>>] = 0 BY <2>2, HostsNone DEF FwInv, TypeOK
    <2>4. NoJumps[<<h, k>>] = 0 BY DEF NoJumps
    <2>5. QED BY <1>1, <2>3, <2>4
  <1>10. QED
    BY <1>1, <1>2, <1>3, <1>4, <1>5, <1>6, <1>8, <1>9, QuietCalls

LEMMA SweepCalls ==
    ASSUME FwInv, CallsInv, BootInv, SweepOrphan PROVE CallsInv' /\ BootInv'
PROOF
  <1>1. /\ work[Boot].pc = "sweep" /\ row' = row /\ phase' = phase
        /\ chain' = chain /\ dispatch' = dispatch
        /\ forward' = forward /\ snap' = snap
        /\ seen' = seen /\ bad' = bad /\ late' = late
    BY DEF SweepOrphan, At, rules, history
  <1>2. work[Boot].op = "none" /\ phase = "boot" BY <1>1, AtBoot
  <1>3. PICK k \in left : /\ work' = [work EXCEPT ![Boot] = OrphanCall(k)]
                          /\ left' = left \ {k}
    BY DEF SweepOrphan, OrphanCall
  <1>4. k \in Keys BY <1>3 DEF FwInv, TypeOK
  <1>5. PICK o : o = OrphanCall(k) OBVIOUS
  <1>6. work'[Boot] = o /\ \A u \in Threads : work'[u] = work[u]
    BY <1>3, <1>5, SyncSets
  <1>7. /\ o.row = [key |-> k, addr |-> None, allow |-> {}, enabled |-> FALSE]
        /\ o.op = "orphan" /\ o.pc = "deljumps"
        /\ o.hits = [h \in Hosts |-> snap[<<h, k>>]]
        /\ o.next = None /\ o.ret = "sweep"
    BY <1>4, <1>5, OrphanCallOK
  <1>8. o.row.key = k /\ Key(Boot)' = k BY <1>6, <1>7 DEF Key
  <1>9. /\ ~ Flushing(work[Boot]) /\ ~ Peering(work[Boot])
        /\ Sweeping(work[Boot]) /\ Listed(work[Boot])
        /\ ~ Flushing(o) /\ ~ Peering(o)
    BY <1>1, <1>2, <1>7 DEF Flushing, Peering, Sweeping, Listed
  <1>10. row[k] = None BY <1>2, <1>3, <1>9 DEF BootInv, TodoInv
  <1>11. LinkOf(o) BY <1>7, <1>8, <1>10 DEF LinkOf
  <1>12. \A j \in Keys \ late : DoneOK(j, work[Boot])
    BY <1>2, <1>9 DEF BootInv, DoneInv
  <1>13. k \notin late => LocalOK(work[Boot], k)'
    <2>1. SUFFICES ASSUME k \notin late PROVE LocalOK(work[Boot], k)'
      OBVIOUS
    <2>2. HostsOf(dispatch, k) = {} /\ \A h \in Hosts : dispatch[<<h, k>>] <= 1
      BY <1>4, <1>10, <1>12, <2>1 DEF DoneOK, Single, Home
    <2>3. \A h \in Hosts : snap[<<h, k>>] = 0
      BY <1>2, <1>4, <1>9, <1>10, <2>1 DEF BootInv, SnapInv
    <2>4. o.hits = NoHits BY <1>7, <2>3 DEF NoHits
    <2>5. QED
      BY <1>1, <1>6, <1>7, <2>2, <2>4 DEF LocalOK, JumpOK, Single
  <1>14. CallsInv'
    <2>1. work'[Boot].op # "none" /\ Key(Boot)' \notin late' =>
             LocalOK(work[Boot], Key(Boot))'
      BY <1>1, <1>8, <1>13 DEF LocalOK, JumpOK, Single
    <2>2. seen' = [j \in Keys |-> seen'[j]] BY <1>1 DEF CallsInv, SeenInv
    <2>3. LinkOf(work'[Boot]) BY <1>6, <1>11
    <2>4. IdleInv' BY <1>1, <1>2, BusyBoot
    <2>5. QED BY <1>1, <1>2, <1>6, <2>1, <2>2, <2>3, <2>4, SyncCalls
  <1>15. DoneInv'
    <2>1. SUFFICES ASSUME NEW j \in Keys, j \notin late'
                   PROVE  DoneOK(j, work[Boot])'
                          \/ (work'[Boot].op # "none" /\ Key(Boot)' = j)
      BY DEF DoneInv
    <2>2. DoneOK(j, work[Boot]) BY <1>1, <1>12, <2>1
    <2>3. CASE j # k
      BY <1>1, <1>3, <1>6, <1>9, <2>2, <2>3 DEF DoneOK, Single
    <2>4. CASE j = k BY <1>6, <1>7, <1>8, <2>4
    <2>5. QED BY <2>3, <2>4
  <1>16. RetInv' BY <1>6, <1>7 DEF RetInv
  <1>17. EnsuredInv' BY <1>1, <1>2 DEF BootInv, EnsuredInv
  <1>18. TodoInv' BY <1>1, <1>2, <1>3, <1>6, <1>9 DEF BootInv, TodoInv
  <1>19. SnapInv' BY <1>1, <1>2, <1>9 DEF BootInv, SnapInv
  <1>20. SkipInv' BY <1>1, <1>2, QuietSkip
  <1>21. QED
    BY <1>14, <1>15, <1>16, <1>17, <1>18, <1>19, <1>20 DEF BootInv

LEMMA SyncDoneCalls ==
    ASSUME FwInv, CallsInv, BootInv, SyncDone PROVE CallsInv' /\ BootInv'
PROOF
  <1>1. /\ work[Boot].pc = "sweep" /\ phase' = "up"
        /\ work' = [work EXCEPT ![Boot] = Free("idle")]
        /\ seen' = [k \in Keys |-> View(chain, dispatch, k)]
        /\ bad' = (bad \cap Skipped) \cup late
        /\ row' = row /\ dispatch' = dispatch /\ late' = late
    BY DEF SyncDone, At, rules
  <1>2. work[Boot].op = "none" /\ phase = "boot" BY <1>1, AtBoot
  <1>3. work'[Boot] = Free("idle") /\ \A u \in Threads : work'[u] = work[u]
    BY <1>1, SyncSets
  <1>4. /\ Free("idle").op = "none" /\ Free("idle").next = None
        /\ Free("idle").fresh = FALSE
    BY FreeFields DEF Rets
  <1>5. LinkOf(work'[Boot]) BY <1>3, <1>4 DEF LinkOf
  <1>6. IdleInv'
    <2>1. SUFFICES ASSUME NEW k \in Keys, k \notin bad' PROVE Single(k, row[k])'
      BY DEF IdleInv
    <2>2. k \notin late BY <1>1, <2>1
    <2>3. DoneOK(k, work[Boot])
      BY <1>1, <1>2, <2>2 DEF BootInv, DoneInv, Flushing
    <2>4. QED BY <1>1, <2>3 DEF DoneOK, Single
  <1>7. seen' = [j \in Keys |-> seen'[j]] BY <1>1
  <1>8. CallsInv' BY <1>1, <1>2, <1>3, <1>4, <1>5, <1>6, <1>7, SyncCalls
  <1>9. QED BY <1>1, <1>8 DEF BootInv

LEMMA SyncStepCalls ==
    ASSUME FwInv, LeftInv, CallsInv, BootInv, SyncStep
    PROVE  CallsInv' /\ BootInv'
PROOF
  <1>1. FwInv' BY SyncStepInv
  <1>2. QED
    BY <1>1, SyncFailsCalls, FlushDispatchCalls, SyncPeerCalls,
       ListChainsCalls, ListJumpsCalls, SweepCalls, SyncDoneCalls
       DEF SyncStep

-----------------------------------------------------------------------------
(* Requests and crashes preserve the invariants. *)

\* The call c of a request for k, which writes the row r.
NewCallOK(c, k, r) ==
    /\ c.op \in {"none", "apply", "remove"}
    /\ c.next \in {None, r}
    /\ c.op = "none" => /\ c.fresh = FALSE /\ c.next = None
                        /\ r # None /\ (row[k] = None \/ row[k].addr = None)
    /\ c.op # "none" => c.row \in PeerRows /\ c.row.key = k
    /\ c.op = "apply" => /\ c.row = r /\ r.enabled /\ c.pc = "new"
                         /\ c.next = None
                         /\ row[k] = None \/ row[k].addr = r.addr
    /\ c.op = "remove" =>
         /\ c.pc = IF c.row.addr = None THEN "scan" ELSE "deljump"
         /\ row[k] # None /\ row[k].addr = c.row.addr

LEMMA NewCall ==
    ASSUME FwInv, NEW k \in Keys, NEW r \in PeerRows \cup {None},
           r # row[k], r # None => r.key = k,
           r # None /\ row[k] # None => (r.addr = None => row[k].addr = None),
           RowsKnown, NEW c, c = RequestCall(k, r)
    PROVE  NewCallOK(c, k, r)
PROOF
  <1> DEFINE old == row[k]
  <1>2. /\ Free("idle").op = "none" /\ Free("idle").fresh = FALSE
        /\ Free("idle").next = None /\ Free("idle") \in Work
    BY FreeFields DEF Rets
  <1>3. old # None => old \in PeerRows /\ old \in PeerRow /\ old.key = k
    BY DEF RowsKnown, FwInv, TypeOK, CtlInv, RowInv
  <1>4. r # None => r \in PeerRow /\ r \in PeerRows BY Marks
  <1>5. ASSUME NEW x \in PeerRow, NEW n
        PROVE  /\ RemoveCall(x, n, "idle").op = "remove"
               /\ RemoveCall(x, n, "idle").row = x
               /\ RemoveCall(x, n, "idle").next = n
               /\ RemoveCall(x, n, "idle").pc =
                    IF x.addr = None THEN "scan" ELSE "deljump"
    BY <1>2 DEF RemoveCall, Work
  <1>6. CASE r = None
    <2>1. c = RemoveCall(old, None, "idle") BY <1>6 DEF RequestCall
    <2>2. QED BY <1>3, <1>5, <1>6, <2>1 DEF NewCallOK
  <1>7. CASE r # None /\ old # None /\ r.addr # old.addr
    <2>1. c = RemoveCall(old, r, "idle") BY <1>7 DEF RequestCall
    <2>2. QED BY <1>3, <1>5, <1>7, <2>1 DEF NewCallOK
  <1>8. CASE r # None /\ old = None /\ ~ r.enabled
    <2>1. c = Free("idle") BY <1>8 DEF RequestCall
    <2>2. QED BY <1>2, <1>8, <2>1 DEF NewCallOK
  <1>9. CASE /\ r # None
             /\ ~ (old # None /\ r.addr # old.addr)
             /\ ~ (old = None /\ ~ r.enabled)
    <2>1. PICK f \in BOOLEAN : f = (row[k] = None) BY Zenon
    <2>2. c = ApplyCall(r, "idle", f) BY <1>9, <2>1 DEF RequestCall
    <2>3. CASE ~ r.enabled
      <3>1. c = RemoveCall(r, None, "idle") BY <2>2, <2>3 DEF ApplyCall
      <3>2. old # None /\ r.addr = old.addr BY <1>9, <2>3
      <3>3. QED BY <1>4, <1>5, <1>9, <3>1, <3>2 DEF NewCallOK
    <2>4. CASE r.enabled /\ r.addr = None
      <3>1. c = Free("idle") BY <2>2, <2>4 DEF ApplyCall
      <3>2. QED BY <1>2, <1>9, <2>4, <3>1 DEF NewCallOK
    <2>5. CASE r.enabled /\ r.addr # None
      <3>1. c = [Free("idle") EXCEPT !.pc = "new", !.op = "apply", !.row = r,
                                     !.cidrs = r.allow, !.fresh = f]
        BY <2>2, <2>5 DEF ApplyCall
      <3>2. c.op = "apply" /\ c.row = r /\ c.pc = "new" /\ c.next = None
        BY <1>2, <3>1 DEF Work
      <3>3. QED BY <1>4, <1>9, <2>5, <3>2 DEF NewCallOK
    <2>6. QED BY <2>3, <2>4, <2>5
  <1>10. QED BY <1>6, <1>7, <1>8, <1>9

\* A request for k finds no call for k.
LEMMA RequestCalls ==
    ASSUME FwInv, LeftInv, Overlap = FALSE, CallsInv, NEW t \in Threads, Request(t)
    PROVE  CallsInv' /\ BootInv'
PROOF
  <1>0. FwInv' BY RequestInv
  <1>1. PICK k \in Keys, r \in PeerRows \cup {None} :
             /\ phase = "up" /\ work[t].pc = "idle"
             /\ ~ Busy(k)
             /\ r # row[k] /\ (r # None => r.key = k)
             /\ r # None /\ row[k] # None => (r.addr = None => row[k].addr = None)
             /\ row' = [row EXCEPT ![k] = r]
             /\ work' = [work EXCEPT ![t] = RequestCall(k, r)]
             /\ seen' = [seen EXCEPT ![k] = Shown(k)]
             /\ UNCHANGED <<phase, rules, left, snap, bad, late>>
    BY RequestFacts
  <1>2. /\ phase' = "up" /\ bad' = bad
        /\ chain' = chain /\ dispatch' = dispatch /\ forward' = forward
    BY <1>1 DEF rules
  <1>3. PICK c : c = RequestCall(k, r) OBVIOUS
  <1>4. NewCallOK(c, k, r) BY <1>1, <1>3, NewCall DEF CallsInv
  <1>5. t \in Procs /\ t # Boot /\ Boot \in Procs /\ work \in [Procs -> Work]
    BY Marks DEF Procs, FwInv, CtlInv, WorkInv
  <1>6. work'[t] = c /\ \A u \in Procs : u # t => work'[u] = work[u]
    BY <1>1, <1>3, <1>5
  <1>7. row \in [Keys -> PeerRow \cup {None}] BY DEF FwInv, TypeOK
  <1>8. row'[k] = r /\ \A j \in Keys : j # k => row'[j] = row[j] BY <1>1, <1>7
  <1>9. seen = [j \in Keys |-> seen[j]] BY DEF CallsInv, SeenInv
  <1>10. /\ seen'[k] = View(chain, dispatch, k)
         /\ \A j \in Keys : j # k => seen'[j] = seen[j]
    <2>1. Shown(k) = View(chain, dispatch, k) BY <1>1 DEF Shown
    <2>2. QED BY <1>1, <1>9, <2>1
  <1>11. seen' = [j \in Keys |-> seen'[j]]
    <2>1. seen' = [j \in Keys |-> IF j = k THEN Shown(k) ELSE seen[j]]
      BY <1>1, <1>9
    <2>2. QED BY <2>1
  <1>12. work[t].op = "none" BY <1>1, <1>5, IdleCall
  <1>13. ASSUME NEW u \in Procs, u # t
         PROVE  /\ work'[u] = work[u]
                /\ work[u].op = "none" => work[u].next = None
                /\ work[u].op # "none" => u \in Threads /\ Key(u) \in Keys \ {k}
    <2>1. work'[u] = work[u] BY <1>6, <1>13
    <2>2. work[u].op = "none" => work[u].next = None
      BY DEF FwInv, CtlInv, WorkInv, CallOK
    <2>3. work[u].op # "none" => u # Boot
      BY <1>1, <1>5, IdleCall DEF FwInv, CtlInv, PhaseInv
    <2>4. work[u].op # "none" => Key(u) # k
      BY <1>1, <2>3, BusyKey DEF Procs
    <2>5. QED BY <2>1, <2>2, <2>3, <2>4, KeyType DEF FwInv, Procs
  <1>14. RowsKnown'
    <2>1. \A j \in Keys : row'[j] \in PeerRows \cup {None}
      BY <1>8 DEF CallsInv, RowsKnown
    <2>2. ASSUME NEW u \in Procs
          PROVE  /\ work'[u].op \in {"apply", "remove"} => work'[u].row \in PeerRows
                 /\ work'[u].next \in PeerRows \cup {None}
      BY <1>4, <1>6 DEF NewCallOK, CallsInv, RowsKnown
    <2>3. QED BY <2>1, <2>2 DEF RowsKnown
  <1>15. LinkInv'
    <2>1. ASSUME NEW u \in Procs
          PROVE  /\ work'[u].op = "none" => ~ work'[u].fresh
                 /\ work'[u].op = "apply" =>
                      row'[Key(u)'] = work'[u].row /\ work'[u].row.enabled
                 /\ work'[u].next # None => row'[Key(u)'] = work'[u].next
                 /\ work'[u].op = "remove" /\ u = Boot =>
                      row'[Key(u)'] = work'[u].row /\ ~ work'[u].row.enabled
                 /\ work'[u].op = "orphan" => u = Boot /\ row'[Key(u)'] = None
      <3>1. CASE u = t
        BY <1>4, <1>5, <1>6, <1>8, <3>1 DEF NewCallOK, Key
      <3>2. CASE u # t
        <4>1. work'[u] = work[u] /\ Key(u)' = Key(u) BY <1>13, <3>2 DEF Key
        <4>2. work[u].op # "none" => row'[Key(u)] = row[Key(u)]
          BY <1>8, <1>13, <3>2
        <4>3. QED BY <1>13, <3>2, <4>1, <4>2 DEF CallsInv, LinkInv
      <3>3. QED BY <3>1, <3>2
    <2>2. QED BY <2>1 DEF LinkInv
  <1>16. k \notin bad => Single(k, row[k])
    BY <1>1 DEF CallsInv, IdleInv
  <1>17. k \notin bad /\ c.op # "none" =>
           /\ Home(row[k]) \subseteq Home(c.row)
           /\ c.pc = "scan" => Home(c.row) = {}
    <2>1. c.op # "none" => c.row # None BY <1>4, Marks DEF NewCallOK
    <2>2. QED BY <1>4, <2>1 DEF NewCallOK, Home, Src
  <1>18. ASSUME k \notin bad, c.op # "none"
         PROVE  LocalOK(c, k) /\ HostsOf(dispatch, k) \subseteq Home(c.row)
    <2>1. Single(k, c.row) BY <1>16, <1>17, <1>18 DEF Single
    <2>2. c.pc \in {"new", "scan", "deljump"} BY <1>4, <1>18 DEF NewCallOK
    <2>3. c.pc = "scan" => HostsOf(dispatch, k) = {}
      BY <1>17, <1>18, <2>1 DEF Single
    <2>4. QED BY <2>1, <2>2, <2>3 DEF LocalOK, ChainOK, JumpOK, Single
  <1>19. LocalInv'
    <2>1. ASSUME NEW u \in Procs, work'[u].op # "none",
                 Key(u)' \notin Failed(u)'
          PROVE  LocalOK(work[u], Key(u))'
      <3>1. CASE u = t
        <4>1. Key(u)' = k BY <1>4, <1>6, <2>1, <3>1 DEF NewCallOK, Key
        <4>2. k \notin bad BY <1>2, <1>5, <2>1, <3>1, <4>1 DEF Failed
        <4>3. LocalOK(c, k) BY <1>6, <1>18, <2>1, <3>1, <4>2
        <4>4. QED
          BY <1>2, <1>6, <3>1, <4>1, <4>3
             DEF LocalOK, JumpOK, Single
      <3>2. CASE u # t
        <4>1. work'[u] = work[u] /\ Key(u)' = Key(u) /\ u \in Threads
          BY <1>13, <2>1, <3>2 DEF Key
        <4>2. Key(u) \notin Failed(u)
          BY <1>2, <2>1, <4>1, Marks DEF Failed
        <4>3. LocalOK(work[u], Key(u))
          BY <2>1, <4>1, <4>2 DEF CallsInv, LocalInv
        <4>4. QED
          BY <1>2, <4>1, <4>3 DEF LocalOK, JumpOK, Single
      <3>3. QED BY <3>1, <3>2
    <2>2. QED BY <2>1 DEF LocalInv
  <1>20. SeenInv'
    <2>1. ASSUME NEW u \in Threads, work'[u].op # "none", Key(u)' \notin bad'
          PROVE  SeenOK(work[u], Key(u))'
      <3>1. CASE u = t
        <4>1. Key(u)' = k BY <1>4, <1>6, <2>1, <3>1 DEF NewCallOK, Key
        <4>2. HostsOf(dispatch, k) \subseteq Home(c.row)
          BY <1>2, <1>6, <1>18, <2>1, <3>1, <4>1
        <4>3. seen'[k].hosts = HostsOf(dispatch, k) BY <1>10 DEF View
        <4>4. QED BY <1>2, <1>6, <3>1, <4>1, <4>2, <4>3 DEF SeenOK
      <3>2. CASE u # t
        <4>0. u \in Procs BY DEF Procs
        <4>1. work'[u] = work[u] /\ Key(u)' = Key(u)
          BY <1>13, <3>2, <4>0 DEF Key
        <4>2. SeenOK(work[u], Key(u))
          BY <1>2, <2>1, <4>1 DEF CallsInv, SeenInv
        <4>3. seen'[Key(u)] = seen[Key(u)]
          BY <1>10, <1>13, <2>1, <3>2, <4>0, <4>1
        <4>4. QED BY <1>2, <4>1, <4>2, <4>3 DEF SeenOK
      <3>3. QED BY <3>1, <3>2
    <2>2. QED BY <1>11, <2>1 DEF SeenInv
  <1>21. IdleInv'
    <2>1. SUFFICES ASSUME NEW j \in Keys, j \notin bad', ~ Busy(j)'
                   PROVE  Single(j, row[j])'
      BY DEF IdleInv
    <2>2. \A u \in Threads : work'[u].op # "none" => Key(u)' # j
      <3>1. Busy(j)' <=> \/ phase' = "boot"
                         \/ \E u \in Threads : work'[u].op # "none" /\ Key(u)' = j
        BY <1>0, BusyNext
      <3>2. QED BY <2>1, <3>1
    <2>3. CASE j = k
      <3>1. c.op = "none" BY <1>4, <1>6, <2>2, <2>3 DEF NewCallOK, Key
      <3>2. HostsOf(dispatch, k) = {}
        BY <1>2, <1>4, <1>16, <2>1, <2>3, <3>1 DEF NewCallOK, Single, Home
      <3>3. QED BY <1>2, <1>16, <2>1, <2>3, <3>2 DEF Single
    <2>4. CASE j # k
      <3>1. ~ Busy(j)
        <4>1. ASSUME NEW u \in Threads, work[u].op # "none" PROVE Key(u) # j
          BY <1>12, <1>13, <2>2, <4>1 DEF Key, Procs
        <4>2. QED BY <1>1, <4>1, BusyKey
      <3>2. Single(j, row[j]) BY <1>2, <2>1, <3>1 DEF CallsInv, IdleInv
      <3>3. QED BY <1>2, <1>8, <2>4, <3>2 DEF Single
    <2>5. QED BY <2>3, <2>4
  <1>22. BootInv' BY <1>2 DEF BootInv
  <1>23. QED BY <1>14, <1>15, <1>19, <1>20, <1>21, <1>22 DEF CallsInv

LEMMA StartedFields ==
    /\ \A t \in Procs : /\ Started[t].op = "none" /\ Started[t].next = None
                        /\ ~ Started[t].fresh
    /\ Flushing(Started[Boot]) /\ Peering(Started[Boot])
    /\ ~ Sweeping(Started[Boot])
    /\ Started[Boot].op = "none" /\ Started[Boot].pc = "checkfwd"
PROOF
  <1>1. /\ Free("idle").op = "none" /\ Free("idle").next = None
        /\ Free("idle").fresh = FALSE
        /\ Free("checkfwd").op = "none" /\ Free("checkfwd").next = None
        /\ Free("checkfwd").fresh = FALSE /\ Free("checkfwd").pc = "checkfwd"
    BY FreeFields DEF Rets
  <1>2. /\ Started[Boot] = Free("checkfwd")
        /\ \A t \in Threads : Started[t] = Free("idle")
    BY StartedOK
  <1>3. QED BY <1>1, <1>2 DEF Procs, Flushing, Peering, Sweeping

LEMMA CrashCalls ==
    ASSUME FwInv, CallsInv, Crash PROVE CallsInv' /\ BootInv'
PROOF
  <1>1. /\ phase' = "boot" /\ work' = Started /\ late' = {}
        /\ bad' = bad \cup {k \in Keys : Busy(k)}
        /\ seen' = [k \in Keys |-> Shown(k)]
        /\ chain' = chain /\ dispatch' = dispatch
    BY DEF Crash, Started, rules
  <1>2. PICK lost : /\ row' = [k \in Keys |-> IF k \in lost THEN None ELSE row[k]]
                    /\ left' = {k \in Keys : row[k] # None} \ lost
    BY DEF Crash
  <1>3. LocalInv' BY <1>1, StartedFields DEF LocalInv
  <1>4. LinkInv' BY <1>1, StartedFields DEF LinkInv
  <1>5. RowsKnown'
    <2>1. \A k \in Keys : row'[k] \in PeerRows \cup {None}
      BY <1>2 DEF CallsInv, RowsKnown
    <2>2. QED BY <1>1, <2>1, StartedFields DEF RowsKnown
  <1>6. SeenInv'
    <2>1. seen' = [k \in Keys |-> seen'[k]] BY <1>1
    <2>2. QED BY <1>1, <2>1, StartedFields DEF SeenInv, Procs
  <1>7. IdleInv' BY <1>1, BusyBoot
  <1>8. DoneInv' /\ RetInv' /\ EnsuredInv' /\ SnapInv'
    BY <1>1, StartedFields DEF DoneInv, RetInv, EnsuredInv, SnapInv
  <1>9. TodoInv' BY <1>1, <1>2, StartedFields DEF TodoInv
  <1>10. SkipInv'
    <2>1. SUFFICES ASSUME NEW k \in Skipped', k \notin bad'
                   PROVE  /\ seen'[k] = View(chain', dispatch', k)
                          /\ HostsOf(dispatch', k) = {}
      BY DEF SkipInv
    <2>2. k \in Keys /\ row'[k] # None /\ row'[k].addr = None
      BY <2>1 DEF Skipped
    <2>3. row'[k] = row[k] BY <1>2, <2>2
    <2>4. ~ Busy(k) /\ k \notin bad BY <1>1, <2>1, <2>2
    <2>5. seen'[k] = View(chain, dispatch, k) BY <1>1, <2>2, <2>4 DEF Shown
    <2>6. Single(k, row[k]) BY <2>2, <2>4 DEF CallsInv, IdleInv
    <2>7. QED BY <1>1, <2>2, <2>3, <2>5, <2>6 DEF Single, Home
  <1>11. QED
    BY <1>3, <1>4, <1>5, <1>6, <1>7, <1>8, <1>9, <1>10 DEF CallsInv, BootInv

LEMMA InitCalls ==
    ASSUME Init PROVE CallsInv /\ BootInv
PROOF
  <1>1. /\ phase = "boot" /\ work = Started /\ row = InitRow
        /\ left = {k \in Keys : InitRow[k] # None}
        /\ dispatch = [x \in Hosts \X Keys |-> 0]
        /\ seen = [k \in Keys |-> View(chain, dispatch, k)]
    BY DEF Init, Started
  <1>2. LocalInv BY <1>1, StartedFields DEF LocalInv
  <1>3. LinkInv BY <1>1, StartedFields DEF LinkInv
  <1>4. RowsKnown
    BY <1>1, StartedFields, FirewallAssumption DEF RowsKnown
  <1>5. SeenInv
    <2>1. seen = [k \in Keys |-> seen[k]] BY <1>1
    <2>2. QED BY <1>1, <2>1, StartedFields DEF SeenInv, Procs
  <1>6. IdleInv BY <1>1 DEF IdleInv, Busy
  <1>7. DoneInv /\ RetInv /\ EnsuredInv /\ SnapInv
    BY <1>1, StartedFields DEF DoneInv, RetInv, EnsuredInv, SnapInv
  <1>8. TodoInv BY <1>1, StartedFields DEF TodoInv
  <1>9. SkipInv
    <2>1. \A k \in Keys : HostsOf(dispatch, k) = {} BY <1>1 DEF HostsOf
    <2>2. QED BY <1>1, <2>1 DEF SkipInv, Skipped
  <1>10. QED
    BY <1>2, <1>3, <1>4, <1>5, <1>6, <1>7, <1>8, <1>9 DEF CallsInv, BootInv

\* The inductive invariant of the refinement.
StepInv == FwInv /\ LeftInv /\ CallsInv /\ BootInv

LEMMA NextCalls ==
    ASSUME Overlap = FALSE, StepInv, [Next]_vars PROVE StepInv'
PROOF
  <1>0. FwInv /\ LeftInv /\ CallsInv /\ BootInv BY DEF StepInv
  <1>1. SUFFICES CallsInv' /\ BootInv' BY <1>0, NextInv DEF StepInv
  <1>2. ASSUME NEW t \in Procs, Command(t) PROVE CallsInv' /\ BootInv'
    BY <1>0, <1>2, CommandCalls, CommandBoot
  <1>3. CASE SyncStep BY <1>0, <1>3, SyncStepCalls
  <1>4. ASSUME NEW t \in Threads, Request(t) PROVE CallsInv' /\ BootInv'
    BY <1>0, <1>4, RequestCalls
  <1>5. CASE Crash BY <1>0, <1>5, CrashCalls
  <1>6. CASE UNCHANGED vars
    <2>1. /\ row' = row /\ phase' = phase /\ chain' = chain
          /\ dispatch' = dispatch /\ forward' = forward /\ work' = work
          /\ left' = left /\ snap' = snap /\ seen' = seen
          /\ bad' = bad /\ late' = late
      BY <1>6 DEF vars, rules, history
    <2>2. LocalInv' /\ LinkInv' /\ RowsKnown' /\ SeenInv' /\ IdleInv'
      BY <1>0, <2>1 DEF CallsInv, LocalInv, LinkInv, RowsKnown, SeenInv,
         IdleInv, LocalOK, JumpOK, SeenOK, Single, Failed, Key, Busy
    <2>3. BootInv'
      BY <1>0, <2>1 DEF BootInv, DoneInv, RetInv, EnsuredInv, TodoInv,
         SnapInv, SkipInv, DoneOK, Single, Key, Skipped
    <2>4. QED BY <2>2, <2>3 DEF CallsInv
  <1>7. QED BY <1>2, <1>3, <1>4, <1>5, <1>6 DEF Next, Procs

-----------------------------------------------------------------------------
(* Activation. *)

LEMMA FewerJumps ==
    ASSUME FwInv, NEW t \in Procs, Command(t), ~ AddJump(t), NEW k \in Keys
    PROVE  HostsOf(dispatch', k) \subseteq HostsOf(dispatch, k)
PROOF
  <1>1. dispatch \in [Hosts \X Keys -> Nat] BY DEF FwInv, TypeOK
  <1>2. ASSUME NEW x, dispatch' = [dispatch EXCEPT ![x] = Less(dispatch[x])]
        PROVE  HostsOf(dispatch', k) \subseteq HostsOf(dispatch, k)
    <2>1. SUFFICES ASSUME NEW h \in Hosts, dispatch'[<<h, k>>] > 0
                   PROVE  dispatch[<<h, k>>] > 0
      BY DEF HostsOf
    <2>2. <<h, k>> \in Hosts \X Keys /\ dispatch[<<h, k>>] \in Nat BY <1>1
    <2>3. CASE x = <<h, k>>
      <3>1. dispatch'[<<h, k>>] = Less(dispatch[<<h, k>>])
        BY <1>1, <1>2, <2>2, <2>3
      <3>2. QED BY <2>1, <2>2, <3>1 DEF Less
    <2>4. CASE x # <<h, k>> BY <1>1, <1>2, <2>1, <2>2, <2>4
    <2>5. QED BY <2>3, <2>4
  <1>3. \/ dispatch' = dispatch
        \/ \E x : dispatch' = [dispatch EXCEPT ![x] = Less(dispatch[x])]
    <2>1. CASE DelJump(t) BY <2>1 DEF DelJump
    <2>2. CASE DelJumps(t) BY <2>2 DEF DelJumps
    <2>3. CASE ~ DelJump(t) /\ ~ DelJumps(t)
      BY <2>3 DEF Command, NewChain, FlushChain, AddAccept, AddDrop,
         CheckForward, AddForward, CheckJump, ScanJumps, DeleteChain, rules
    <2>4. QED BY <2>1, <2>2, <2>3
  <1>4. CASE dispatch' = dispatch BY <1>4
  <1>5. QED BY <1>2, <1>3, <1>4

LEMMA JumpAppears ==
    ASSUME StepInv, [Next]_vars, NEW k \in Keys \ bad',
           HostsOf(dispatch, k) = {}, HostsOf(dispatch', k) # {}
    PROVE  \E t \in Procs :
             /\ At(t, "addjump") /\ Key(t) = k
             /\ chain[k] = [acc |-> RulesOf(work[t].row), drop |-> TRUE]
PROOF
  <1>0. FwInv /\ CallsInv BY DEF StepInv
  <1>1. PICK t \in Procs : AddJump(t)
    <2>1. ASSUME NEW t \in Procs, Command(t) PROVE AddJump(t)
      BY <1>0, <2>1, FewerJumps
    <2>2. dispatch' # dispatch OBVIOUS
    <2>3. HostsOf([x \in Hosts \X Keys |-> 0], k) = {} BY DEF HostsOf
    <2>4. ~ SyncStep
      BY <2>2, <2>3 DEF SyncStep, SyncFails, FlushDispatch, SyncPeer,
         ListChains, ListJumps, SweepOrphan, SyncDone, rules
    <2>5. ~ Crash /\ ~ UNCHANGED vars /\ \A t \in Threads : ~ Request(t)
      BY <2>2 DEF Crash, Request, vars, rules
    <2>6. QED BY <2>1, <2>4, <2>5 DEF Next, Procs
  <1>2. Command(t) BY <1>1 DEF Command
  <1>3. work[t].pc = "addjump" BY <1>1 DEF AddJump, At
  <1>4. work[t].op = "apply" BY <1>0, <1>3, AtApply DEF FwInv
  <1>5. Key(t) = k
    BY <1>0, <1>2, <1>4, Frame DEF CallsInv, SeenInv
  <1>6. k \notin Failed(t)
    <2>1. k \notin bad BY <1>0, <1>2, Growing
    <2>2. QED BY <1>0, <2>1 DEF Failed, FwInv, TypeOK
  <1>7. LocalOK(work[t], k) BY <1>0, <1>4, <1>5, <1>6 DEF CallsInv, LocalInv
  <1>8. chain[k] = [acc |-> RulesOf(work[t].row), drop |-> TRUE]
    BY <1>3, <1>4, <1>7 DEF LocalOK, ChainOK
  <1>9. QED BY <1>3, <1>5, <1>8 DEF At

LEMMA InitStep == Init => StepInv
PROOF BY InitInv, InitCalls DEF StepInv

\* "Packets are never routed to an empty/partial chain" (ApplyPeer), for any
\* number of peers, threads, failures and crashes, as long as calls for one peer
\* do not overlap: a peer without a jump gets one only when its chain holds
\* exactly the rules of the row and the DROP.
THEOREM ActivatedAtomically ==
    ASSUME Overlap = FALSE PROVE Spec => AtomicActivation
PROOF
  <1> DEFINE A(k) ==
        HostsOf(dispatch, k) = {} /\ HostsOf(dispatch', k) # {} =>
          \E t \in Threads \cup {Boot} :
            /\ At(t, "addjump") /\ Key(t) = k
            /\ chain[k] = [acc |-> RulesOf(work[t].row), drop |-> TRUE]
  <1>1. Init => StepInv BY InitStep
  <1>2. StepInv /\ [Next]_vars => StepInv' BY NextCalls
  <1>3. StepInv /\ [Next]_vars => [\A k \in Keys \ bad' : A(k)]_vars
    BY JumpAppears DEF Procs
  <1>4. QED BY <1>1, <1>2, <1>3, PTL DEF Spec, AtomicActivation

-----------------------------------------------------------------------------
(* The refinement mapping. *)

\* The rules C and J are those of the next state, but for the peers in bad.
LEMMA SettledNext ==
    ASSUME NEW C, C = [k \in Keys |-> C[k]], NEW J, J \subseteq Hosts \X Keys,
           \A k \in Keys \ bad' :
             /\ Shown(k)'.chain = C[k]
             /\ \A h \in Hosts : h \in Shown(k)'.hosts <=> <<h, k>> \in J
    PROVE  Settled' = Calls!Without([chain |-> C, jumps |-> J], bad')
PROOF
  <1> DEFINE A == [k \in Keys |-> IF k \in bad' THEN None ELSE Shown(k)'.chain]
             B == {j \in Hosts \X Keys :
                     j[2] \notin bad' /\ j[1] \in Shown(j[2])'.hosts}
             D == [k \in Keys |-> IF k \in bad' THEN None ELSE C[k]]
             E == {j \in J : j[2] \notin bad'}
  <1>1. Settled' = [chain |-> A, jumps |-> B] BY DEF Settled
  <1>2. Calls!Without([chain |-> C, jumps |-> J], bad') =
          [chain |-> D, jumps |-> E]
    BY DEF Calls!Without
  <1>3. A = D OBVIOUS
  <1>4. B = E
    <2>1. ASSUME NEW j \in Hosts \X Keys PROVE j \in B <=> j \in E
      <3>1. PICK h \in Hosts, k \in Keys : j = <<h, k>> OBVIOUS
      <3>2. j[1] = h /\ j[2] = k BY <3>1
      <3>3. QED BY <3>1, <3>2
    <2>2. B \subseteq Hosts \X Keys /\ E \subseteq Hosts \X Keys OBVIOUS
    <2> HIDE DEF B, E
    <2>3. QED BY <2>1, <2>2
  <1>5. QED BY <1>1, <1>2, <1>3, <1>4

LEMMA SettledParts ==
    /\ Settled = [chain |-> Settled.chain, jumps |-> Settled.jumps]
    /\ Settled.chain = [k \in Keys |-> Settled.chain[k]]
    /\ Settled.jumps \subseteq Hosts \X Keys
    /\ \A k \in Keys \ bad :
         /\ Settled.chain[k] = Shown(k).chain
         /\ \A h \in Hosts : <<h, k>> \in Settled.jumps <=> h \in Shown(k).hosts
    /\ \A k \in Keys \cap bad :
         /\ Settled.chain[k] = None
         /\ \A h \in Hosts : <<h, k>> \notin Settled.jumps
PROOF
  <1> DEFINE A == [k \in Keys |-> IF k \in bad THEN None ELSE Shown(k).chain]
             B == {j \in Hosts \X Keys :
                     j[2] \notin bad /\ j[1] \in Shown(j[2]).hosts}
  <1>1. Settled = [chain |-> A, jumps |-> B] BY DEF Settled
  <1>2. Settled.chain = A /\ Settled.jumps = B BY <1>1
  <1>3. ASSUME NEW h \in Hosts, NEW k \in Keys
        PROVE  <<h, k>> \in B <=> k \notin bad /\ h \in Shown(k).hosts
    <2>1. <<h, k>>[1] = h /\ <<h, k>>[2] = k /\ <<h, k>> \in Hosts \X Keys
      OBVIOUS
    <2>2. QED BY <2>1
  <1>4. A = [k \in Keys |-> A[k]] /\ B \subseteq Hosts \X Keys OBVIOUS
  <1>5. \A k \in Keys : A[k] = IF k \in bad THEN None ELSE Shown(k).chain
    OBVIOUS
  <1> HIDE DEF A, B
  <1>6. QED BY <1>1, <1>2, <1>3, <1>4, <1>5

\* The rules of the peers that are not in bad stay the same.
LEMMA SimBreak ==
    ASSUME NEW ks \in SUBSET Keys, bad' = bad \cup ks, late' = late \cup ks,
           row' = row, forward' = forward,
           \A k \in Keys \ bad' : Shown(k)' = Shown(k)
    PROVE  Calls!Break
PROOF
  <1>1. /\ Settled.chain = [k \in Keys |-> Settled.chain[k]]
        /\ Settled.jumps \subseteq Hosts \X Keys
        /\ Settled = [chain |-> Settled.chain, jumps |-> Settled.jumps]
    BY SettledParts
  <1>2. \A k \in Keys \ bad' :
          /\ Shown(k)'.chain = Settled.chain[k]
          /\ \A h \in Hosts : h \in Shown(k)'.hosts <=> <<h, k>> \in Settled.jumps
    BY SettledParts
  <1>3. Settled' = Calls!Without([chain |-> Settled.chain,
                                  jumps |-> Settled.jumps], bad')
    BY <1>1, <1>2, SettledNext
  <1>4. Settled' = Calls!Without(Settled, bad') BY <1>1, <1>3
  <1>5. QED BY <1>4 DEF Calls!Break

LEMMA WithoutNone == Calls!Without(Settled, bad) = Settled
PROOF
  <1> DEFINE C == Settled.chain
             J == Settled.jumps
             D == [k \in Keys |-> IF k \in bad THEN None ELSE C[k]]
             E == {j \in J : j[2] \notin bad}
  <1>1. /\ Settled = [chain |-> C, jumps |-> J]
        /\ C = [k \in Keys |-> C[k]] /\ J \subseteq Hosts \X Keys
        /\ \A k \in Keys \cap bad : C[k] = None /\ \A h \in Hosts : <<h, k>> \notin J
    BY SettledParts
  <1>2. Calls!Without(Settled, bad) = [chain |-> D, jumps |-> E]
    BY DEF Calls!Without
  <1> HIDE DEF C, J
  <1>3. D = C BY <1>1
  <1>4. \A j \in J : j[2] \notin bad
    <2>1. ASSUME NEW j \in J PROVE j[2] \notin bad
      <3>1. PICK h \in Hosts, k \in Keys : j = <<h, k>> BY <1>1
      <3>2. QED BY <1>1, <3>1
    <2>2. QED BY <2>1
  <1>5. E = J BY <1>4
  <1>6. QED BY <1>1, <1>2, <1>3, <1>5

LEMMA SettledSame ==
    ASSUME bad' = bad, \A k \in Keys \ bad : Shown(k)' = Shown(k)
    PROVE  Settled' = Settled
PROOF
  <1>1. /\ Settled.chain = [k \in Keys |-> Settled.chain[k]]
        /\ Settled.jumps \subseteq Hosts \X Keys
        /\ Settled = [chain |-> Settled.chain, jumps |-> Settled.jumps]
    BY SettledParts
  <1>2. \A k \in Keys \ bad' :
          /\ Shown(k)'.chain = Settled.chain[k]
          /\ \A h \in Hosts : h \in Shown(k)'.hosts <=> <<h, k>> \in Settled.jumps
    BY SettledParts
  <1>3. Settled' = Calls!Without([chain |-> Settled.chain,
                                  jumps |-> Settled.jumps], bad')
    BY <1>1, <1>2, SettledNext
  <1>4. QED BY <1>1, <1>3, WithoutNone

LEMMA ShownBoot ==
    ASSUME phase = "boot", phase' = "boot", seen' = seen, NEW k
    PROVE  Shown(k)' = Shown(k)
PROOF BY DEF Shown, Busy

\* A command does not touch the rules of another peer.
LEMMA ShownFrame ==
    ASSUME FwInv, CallsInv, NEW t \in Procs, Command(t),
           NEW k \in Keys, work[t].op = "none" \/ k # Key(t)
    PROVE  Shown(k)' = Shown(k)
PROOF
  <1>0. FwInv' BY CommandInv
  <1>1. /\ chain'[k] = chain[k] /\ seen'[k] = seen[k]
        /\ HostsOf(dispatch', k) = HostsOf(dispatch, k)
    BY Frame DEF CallsInv, SeenInv
  <1>2. View(chain', dispatch', k) = View(chain, dispatch, k)
    BY <1>1, SameView
  <1>3. phase' = phase /\ \A u \in Procs : u # t => work'[u] = work[u] BY GoesOn
  <1>4. t \in Threads /\ work'[t].op # "none" => Key(t)' # k
    <2>1. CASE SameCall(work[t], work'[t]) BY <2>1 DEF SameCall, Key
    <2>2. CASE /\ work[t].op # "none" /\ work'[t] = After(work[t])
               /\ CallOK(t, work[t])
      BY <2>2, AfterRow DEF CallOK, Key
    <2>3. QED BY <2>1, <2>2, GoesOn
  <1>5. Busy(k)' <=> \/ phase' = "boot"
                     \/ \E u \in Threads : work'[u].op # "none" /\ Key(u)' = k
    BY <1>0, BusyNext
  <1>6. Busy(k) <=> \/ phase = "boot"
                    \/ \E u \in Threads : work[u].op # "none" /\ Key(u) = k
    BY BusyKey
  <1>7. \A u \in Threads :
          (work'[u].op # "none" /\ Key(u)' = k) <=> (work[u].op # "none" /\ Key(u) = k)
    <2>1. ASSUME NEW u \in Threads
          PROVE  (work'[u].op # "none" /\ Key(u)' = k)
                   <=> (work[u].op # "none" /\ Key(u) = k)
      <3>1. CASE u = t BY <1>4, <3>1
      <3>2. CASE u # t BY <1>3, <3>2 DEF Key, Procs
      <3>3. QED BY <3>1, <3>2
    <2>2. QED BY <2>1
  <1>8. Busy(k)' <=> Busy(k) BY <1>3, <1>5, <1>6, <1>7
  <1>9. QED BY <1>1, <1>2, <1>8 DEF Shown

\* The rules that a finished ApplyPeer leaves, as FwApply has them.
LEMMA ApplyView ==
    ASSUME NEW c, NEW d, NEW k, NEW r \in PeerRow, r.addr # None,
           c[k] = [acc |-> RulesOf(r), drop |-> TRUE],
           HostsOf(d, k) = {Src(r)}
    PROVE  /\ View(c, d, k).chain = [src |-> HostOf[r.addr], allow |-> r.allow]
           /\ View(c, d, k).hosts = {HostOf[r.addr]}
PROOF
  <1>1. [acc |-> RulesOf(r), drop |-> TRUE] \in Chain
    BY SrcType DEF Chain, RulesOf, PeerRow
  <1>2. c[k] # None BY <1>1, Marks, Zenon
  <1>3. c[k].acc = RulesOf(r) /\ c[k].drop = TRUE OBVIOUS
  <1>4. {x[2] : x \in c[k].acc} = r.allow
    <2>1. ASSUME NEW x \in RulesOf(r) PROVE x[2] \in r.allow
      BY <2>1 DEF RulesOf
    <2>2. ASSUME NEW a \in r.allow PROVE \E x \in RulesOf(r) : x[2] = a
      <3>1. <<Src(r), a>> \in RulesOf(r) /\ <<Src(r), a>>[2] = a
        BY <2>2 DEF RulesOf
      <3>2. QED BY <3>1
    <2>3. QED BY <1>3, <2>1, <2>2
  <1>5. SourceOf(c[k], HostsOf(d, k)) = Src(r)
    <2>1. CASE c[k].acc # {}
      <3>1. (CHOOSE x \in c[k].acc : TRUE) \in c[k].acc BY <2>1
      <3>2. (CHOOSE x \in c[k].acc : TRUE)[1] = Src(r)
        BY <1>3, <3>1 DEF RulesOf
      <3>3. QED BY <2>1, <3>2 DEF SourceOf
    <2>2. CASE c[k].acc = {}
      <3>1. (CHOOSE h \in HostsOf(d, k) : TRUE) \in HostsOf(d, k) OBVIOUS
      <3>2. QED BY <2>2, <3>1 DEF SourceOf
    <2>3. QED BY <2>1, <2>2
  <1>6. View(c, d, k).chain = [src |-> Src(r), allow |-> r.allow]
    BY <1>2, <1>3, <1>4, <1>5 DEF View
  <1>7. View(c, d, k).hosts = {Src(r)} BY DEF View
  <1>8. QED BY <1>6, <1>7 DEF Src

\* The call of t is over, the rules of its peer are as the call promises.
LEMMA ReturnShown ==
    ASSUME FwInv, CallsInv, NEW t \in Threads, Command(t), Return(t),
           NEW k \in Keys, k = Key(t)
    PROVE  Shown(k)' = View(chain', dispatch', k)
PROOF
  <1>1. t # Boot BY Marks
  <1>2. seen' = [seen EXCEPT ![k] = View(chain', dispatch', k)]
    BY <1>1 DEF Return
  <1>3. seen = [j \in Keys |-> seen[j]] BY DEF CallsInv, SeenInv
  <1>4. seen'[k] = View(chain', dispatch', k) BY <1>2, <1>3
  <1>5. QED BY <1>4 DEF Shown

LEMMA SimApply ==
    ASSUME NEW r \in PeerRow, r.enabled, r.addr # None,
           NEW k \in Keys, k = r.key, k \notin bad, bad' = bad, late' = late,
           row' = row, forward' = TRUE,
           \A j \in Keys \ bad : j # k => Shown(j)' = Shown(j),
           Shown(k).hosts \subseteq {HostOf[r.addr]},
           Shown(k)'.chain = [src |-> HostOf[r.addr], allow |-> r.allow],
           Shown(k)'.hosts = {HostOf[r.addr]}
    PROVE  Calls!Apply(r)
PROOF
  <1> DEFINE g == HostOf[r.addr]
             v == [src |-> g, allow |-> r.allow]
             C == [Settled.chain EXCEPT ![k] = v]
             J == Settled.jumps \cup {<<g, k>>}
  <1>1. /\ Settled.chain = [j \in Keys |-> Settled.chain[j]]
        /\ Settled.jumps \subseteq Hosts \X Keys
    BY SettledParts
  <1>2. g \in Hosts BY SrcType DEF Src
  <1> HIDE DEF g, v
  <1>3. C = [j \in Keys |-> IF j = k THEN v ELSE Settled.chain[j]] BY <1>1
  <1>4. C = [j \in Keys |-> C[j]] BY <1>3
  <1>5. J \subseteq Hosts \X Keys BY <1>1, <1>2
  <1>6. ASSUME NEW j \in Keys \ bad'
        PROVE  /\ Shown(j)'.chain = C[j]
               /\ \A h \in Hosts : h \in Shown(j)'.hosts <=> <<h, j>> \in J
    <2>1. CASE j = k
      <3>1. C[j] = v BY <1>3, <2>1
      <3>2. \A h \in Hosts : h \in Shown(k)'.hosts <=> h = g BY DEF g
      <3>3. \A h \in Hosts : <<h, k>> \in Settled.jumps => h = g
        BY SettledParts DEF g
      <3>4. \A h \in Hosts : <<h, k>> = <<g, k>> <=> h = g OBVIOUS
      <3>5. QED BY <2>1, <3>1, <3>2, <3>3, <3>4 DEF v, g
    <2>2. CASE j # k
      <3>1. C[j] = Settled.chain[j] BY <1>3, <2>2
      <3>2. \A h \in Hosts : <<h, j>> # <<g, k>> BY <2>2
      <3>3. QED BY <2>2, <3>1, <3>2, SettledParts
    <2>3. QED BY <2>1, <2>2
  <1>7. Settled' = Calls!Without([chain |-> C, jumps |-> J], bad')
    <2> HIDE DEF C, J
    <2>1. QED BY <1>4, <1>5, <1>6, SettledNext
  <1>8. Calls!FwApply(Settled, r) = [chain |-> C, jumps |-> J]
    BY DEF Calls!FwApply, g, v
  <1>9. Settled' = Calls!Without(Calls!FwApply(Settled, r), bad)
    BY <1>7, <1>8
  <1>10. forward' = (forward \/ (r.enabled /\ r.addr # None)) BY Zenon
  <1>11. QED BY <1>9, <1>10, Zenon DEF Calls!Apply

LEMMA SimRemove ==
    ASSUME NEW r \in PeerRow, NEW k \in Keys, k = r.key, k \notin bad,
           bad' = bad, late' = late, row' = row, forward' = forward,
           \A j \in Keys \ bad : j # k => Shown(j)' = Shown(j),
           Shown(k).hosts \subseteq Home(r),
           Shown(k)'.chain = None, Shown(k)'.hosts = {}
    PROVE  Calls!Remove(r)
PROOF
  <1> DEFINE gone(j) == j[2] = r.key /\ (r.addr = None \/ j[1] = HostOf[r.addr])
             J == {j \in Settled.jumps : ~ gone(j)}
             rest == IF Settled.chain[k] = None \/ \A j \in J : j[2] # k
                       THEN None ELSE Calls!Flushed
             C == [Settled.chain EXCEPT ![k] = rest]
  <1>1. /\ Settled.chain = [j \in Keys |-> Settled.chain[j]]
        /\ Settled.jumps \subseteq Hosts \X Keys
    BY SettledParts
  <1>2. r # None BY Marks
  <1>3. \A h \in Hosts : <<h, k>> \notin J
    <2>1. ASSUME NEW h \in Hosts, <<h, k>> \in Settled.jumps
          PROVE  gone(<<h, k>>)
      <3>1. h \in Home(r) BY <2>1, SettledParts
      <3>2. r.addr = None \/ h = HostOf[r.addr]
        BY <1>2, <3>1 DEF Home, Src
      <3>3. QED BY <3>2
    <2>2. QED BY <2>1
  <1>4. ASSUME NEW h \in Hosts, NEW i \in Keys, i # k
        PROVE  <<h, i>> \in J <=> <<h, i>> \in Settled.jumps
    BY <1>4
  <1>5. J \subseteq Hosts \X Keys BY <1>1
  <1>6. rest = None
    <2>1. ASSUME NEW j \in J PROVE j[2] # k
      <3>1. PICK h \in Hosts, i \in Keys : j = <<h, i>> BY <1>5
      <3>2. QED BY <1>3, <2>1, <3>1
    <2>2. QED BY <2>1
  <1>7. Calls!FwRemove(Settled, r) = [chain |-> C, jumps |-> J]
    BY DEF Calls!FwRemove
  <1> HIDE DEF rest, J
  <1>8. C = [j \in Keys |-> IF j = k THEN None ELSE Settled.chain[j]]
    BY <1>1, <1>6
  <1>9. C = [j \in Keys |-> C[j]] BY <1>8
  <1>10. ASSUME NEW j \in Keys \ bad'
         PROVE  /\ Shown(j)'.chain = C[j]
                /\ \A h \in Hosts : h \in Shown(j)'.hosts <=> <<h, j>> \in J
    <2>1. CASE j = k BY <1>3, <1>8, <2>1
    <2>2. CASE j # k BY <1>4, <1>8, <2>2, SettledParts
    <2>3. QED BY <2>1, <2>2
  <1>11. Settled' = Calls!Without([chain |-> C, jumps |-> J], bad')
    <2> HIDE DEF C
    <2>1. QED BY <1>5, <1>9, <1>10, SettledNext
  <1>12. Settled' = Calls!Without(Calls!FwRemove(Settled, r), bad)
    BY <1>7, <1>11
  <1>13. QED BY <1>12 DEF Calls!Remove

-----------------------------------------------------------------------------
(* Every step is a step of FirewallSpec. *)

LEMMA SeenBoot == ASSUME Command(Boot) PROVE seen' = seen
PROOF
  <1>1. ASSUME Return(Boot) PROVE seen' = seen BY <1>1 DEF Return
  <1>2. ASSUME NEW p, Goto(Boot, p) PROVE seen' = seen BY <1>2 DEF Goto
  <1>3. QED
    BY <1>1, <1>2 DEF Command, NewChain, FlushChain, AddAccept, AddDrop,
       CheckForward, AddForward, CheckJump, AddJump, DelJump, ScanJumps,
       DelJumps, DeleteChain

\* Only -I FORWARD turns the rules on.
LEMMA TurnsOn ==
    ASSUME NEW t, Command(t), forward' # forward
    PROVE  /\ forward' = TRUE /\ bad' = bad /\ late' = late
           /\ work[t].pc = "addfwd"
PROOF
  <1>1. AddForward(t)
    BY DEF Command, NewChain, FlushChain, AddAccept, AddDrop, CheckForward,
       CheckJump, AddJump, DelJump, ScanJumps, DelJumps, DeleteChain, rules
  <1>2. QED BY <1>1 DEF AddForward, Succeeds, At

\* A command in the middle of a call, or of one that has failed.
LEMMA SimQuiet ==
    ASSUME FwInv, NEW t \in Procs, Command(t),
           \A k \in Keys \ bad' : Shown(k)' = Shown(k)
    PROVE  Calls!Next
PROOF
  <1>1. row' = row BY GoesOn
  <1>2. CASE forward' = forward
    <2>1. CASE bad' = bad /\ late' = late
      <3>1. {} \in SUBSET Keys /\ bad' = bad \cup {} /\ late' = late \cup {}
        BY <2>1
      <3>2. Calls!Break BY <1>1, <1>2, <3>1, SimBreak
      <3>3. QED BY <3>2 DEF Calls!Next
    <2>2. CASE /\ work[t].op # "none"
               /\ bad' = bad \cup {Key(t)} /\ late' = late \cup {Key(t)}
      <3>1. {Key(t)} \in SUBSET Keys BY <2>2, KeyType DEF FwInv
      <3>2. Calls!Break BY <1>1, <1>2, <2>2, <3>1, SimBreak
      <3>3. QED BY <3>2 DEF Calls!Next
    <2>3. QED BY <2>1, <2>2, CommandShape
  <1>3. CASE forward' # forward
    <2>1. forward' = TRUE /\ bad' = bad /\ late' = late BY <1>3, TurnsOn
    <2>2. Settled' = Settled BY <2>1, SettledSame
    <2>3. Calls!TurnOn BY <1>1, <2>1, <2>2 DEF Calls!TurnOn
    <2>4. QED BY <2>3 DEF Calls!Next
  <1>4. QED BY <1>2, <1>3

\* The last command of a call that has not failed.
LEMMA SimReturn ==
    ASSUME FwInv, CallsInv, NEW t \in Threads, Command(t),
           NEW w, w = work[t], w.op # "none", NEW k \in Keys, k = Key(t),
           k \notin bad', Return(t), Finished(w, k)'
    PROVE  Calls!Next
PROOF
  <1>1. t \in Procs /\ t # Boot /\ row' = row BY GoesOn, Marks DEF Procs
  <1>2. bad' = bad /\ late' = late BY <1>1, CommandShape
  <1>3. \A j \in Keys \ bad : j # k => Shown(j)' = Shown(j)
    BY <1>1, ShownFrame
  <1>4. Shown(k)' = View(chain', dispatch', k) BY ReturnShown
  <1>5. Shown(k) = seen[k]
    <2>1. Busy(k) BY BusyKey
    <2>2. QED BY <2>1 DEF Shown
  <1>6. seen[k].hosts \subseteq Home(w.row)
    BY <1>2 DEF CallsInv, SeenInv, SeenOK
  <1>7. /\ CallOK(t, w) /\ w.row \in PeerRow /\ w.row.key = k
        /\ w.op \in {"none", "apply", "remove", "orphan"}
    BY <1>1 DEF FwInv, CtlInv, WorkInv, CallOK, Work, Key
  <1>8. CASE w.op = "apply"
    <2>1. w.row \in PeerRows /\ w.row.enabled /\ w.row.addr # None
      BY <1>1, <1>7, <1>8 DEF CallsInv, LinkInv, RowsKnown, CallOK
    <2>2. w.row # None BY <1>7, Marks
    <2>3. Home(w.row) = {HostOf[w.row.addr]} BY <2>1, <2>2 DEF Home, Src
    <2>4. /\ chain'[k] = [acc |-> RulesOf(w.row), drop |-> TRUE]
          /\ HostsOf(dispatch', k) = {Src(w.row)} /\ forward'
      BY <1>8 DEF Finished
    <2>5. /\ View(chain', dispatch', k).chain =
               [src |-> HostOf[w.row.addr], allow |-> w.row.allow]
          /\ View(chain', dispatch', k).hosts = {HostOf[w.row.addr]}
      BY <1>7, <2>1, <2>4, ApplyView
    <2>6. forward' = TRUE
      <3>1. forward' \in BOOLEAN BY <1>1, CommandInv DEF FwInv, TypeOK
      <3>2. QED BY <2>4, <3>1
    <2>7. Shown(k).hosts \subseteq {HostOf[w.row.addr]} BY <1>5, <1>6, <2>3
    <2>8. Calls!Apply(w.row)
      BY <1>1, <1>2, <1>3, <1>4, <1>7, <2>1, <2>5, <2>6, <2>7, SimApply
    <2>9. QED BY <2>1, <2>8 DEF Calls!Next
  <1>9. CASE w.op = "remove"
    <2>1. w.row \in PeerRows BY <1>1, <1>9 DEF CallsInv, RowsKnown
    <2>2. chain'[k] = None /\ HostsOf(dispatch', k) = {}
      BY <1>9 DEF Finished
    <2>3. Shown(k)'.chain = None /\ Shown(k)'.hosts = {}
      BY <1>4, <2>2 DEF View
    <2>4. forward' = forward
      <3>1. w.pc # "addfwd" BY <1>7, <1>9 DEF CallOK, RemoveSteps
      <3>2. QED BY <3>1, TurnsOn
    <2>5. Calls!Remove(w.row)
      BY <1>1, <1>2, <1>3, <1>5, <1>6, <1>7, <2>3, <2>4, SimRemove
    <2>6. QED BY <2>1, <2>5 DEF Calls!Next
  <1>10. w.op # "orphan" BY <1>1 DEF CallsInv, LinkInv
  <1>11. QED BY <1>7, <1>8, <1>9, <1>10

LEMMA SimCommand ==
    ASSUME FwInv, CallsInv, NEW t \in Procs, Command(t) PROVE Calls!Next
PROOF
  <1>0. FwInv' BY CommandInv
  <1>1. phase' = phase BY GoesOn
  <1>2. CASE t = Boot
    <2>1. phase = "boot"
      BY <1>2, AtCommand, BootCalls DEF FwInv, TypeOK
    <2>2. seen' = seen BY <1>2, SeenBoot
    <2>3. \A k \in Keys \ bad' : Shown(k)' = Shown(k)
      BY <1>1, <2>1, <2>2, ShownBoot
    <2>4. QED BY <2>3, SimQuiet
  <1>3. CASE t # Boot
    <2>1. t \in Threads BY <1>3 DEF Procs
    <2>2. work[t].op # "none" BY <2>1, AtCommand, IdleCall
    <2>3. PICK k \in Keys : k = Key(t) BY <2>2, KeyType DEF FwInv
    <2>4. \A j \in Keys : j # k => Shown(j)' = Shown(j)
      BY <2>3, ShownFrame
    <2>5. CASE k \in bad' BY <2>4, <2>5, SimQuiet
    <2>6. CASE k \notin bad'
      <3>1. k \notin Failed(t) /\ ~ Fails({k})
        BY <1>3, <2>6, StillGood, Growing DEF Failed
      <3>2. PICK w : w = work[t] OBVIOUS
      <3>3. LocalOK(w, k) BY <2>2, <2>3, <3>1, <3>2 DEF CallsInv, LocalInv
      <3>4. CASE seen' = seen /\ SameCall(w, work'[t])
        <4>1. Busy(k) BY <2>1, <2>2, <2>3, BusyKey
        <4>2. Busy(k)'
          <5>1. work'[t].op # "none" /\ Key(t)' = k
            BY <2>2, <2>3, <3>2, <3>4 DEF SameCall, Key
          <5>2. Busy(k)' <=> \/ phase' = "boot"
                             \/ \E u \in Threads : work'[u].op # "none" /\ Key(u)' = k
            BY <1>0, BusyNext
          <5>3. QED BY <2>1, <5>1, <5>2
        <4>3. Shown(k)' = Shown(k) BY <3>4, <4>1, <4>2 DEF Shown
        <4>4. QED BY <2>4, <4>3, SimQuiet
      <3>5. CASE Return(t) /\ Finished(w, k)'
        BY <2>1, <2>2, <2>3, <2>6, <3>2, <3>5, SimReturn
      <3>6. QED BY <2>2, <2>3, <3>1, <3>2, <3>3, <3>4, <3>5, CommandLocal
    <2>7. QED BY <2>5, <2>6
  <1>4. QED BY <1>2, <1>3

\* The rows that Sync is called with.
TableRows == {row[k] : k \in Keys} \ {None}

LEMMA RowOf ==
    ASSUME FwInv, NEW k \in Keys
    PROVE  /\ Calls!HasKey(TableRows, k) <=> row[k] # None
           /\ row[k] # None => (CHOOSE r \in TableRows : r.key = k) = row[k]
PROOF
  <1>1. \A r \in TableRows : r.key = k => r = row[k]
    BY DEF TableRows, FwInv, CtlInv, RowInv
  <1>2. row[k] # None => row[k] \in TableRows /\ row[k].key = k
    BY DEF TableRows, FwInv, CtlInv, RowInv
  <1>3. Calls!HasKey(TableRows, k) <=> row[k] # None
    <2>1. Calls!HasKey(TableRows, k) <=> \E r \in TableRows : r.key = k
      BY DEF Calls!HasKey
    <2>2. \A r \in TableRows : r # None BY DEF TableRows
    <2>3. QED BY <1>1, <1>2, <2>1, <2>2
  <1>4. ASSUME row[k] # None
        PROVE  (CHOOSE r \in TableRows : r.key = k) = row[k]
    <2>1. \E r \in TableRows : r.key = k BY <1>2, <1>4
    <2> DEFINE c == CHOOSE r \in TableRows : r.key = k
    <2>2. c \in TableRows /\ c.key = k BY <2>1
    <2>3. QED BY <1>1, <2>2
  <1>5. QED BY <1>3, <1>4

LEMMA SimSyncDone ==
    ASSUME FwInv, CallsInv, BootInv, SyncDone PROVE Calls!Sync
PROOF
  <1>1. /\ work[Boot].pc = "sweep" /\ left = {} /\ phase' = "up"
        /\ work' = [work EXCEPT ![Boot] = Free("idle")]
        /\ seen' = [k \in Keys |-> View(chain, dispatch, k)]
        /\ bad' = (bad \cap Skipped) \cup late
        /\ row' = row /\ dispatch' = dispatch /\ chain' = chain
        /\ forward' = forward /\ late' = late
    BY DEF SyncDone, At, rules
  <1>2. work[Boot].op = "none" /\ phase = "boot" BY <1>1, AtBoot
  <1>3. ~ Flushing(work[Boot]) /\ Listed(work[Boot]) /\ ~ Peering(work[Boot])
    BY <1>1, <1>2 DEF Flushing, Listed, Sweeping, Peering
  <1>4. \A k \in Keys : /\ Shown(k)' = View(chain, dispatch, k)
                        /\ Shown(k) = seen[k]
    BY <1>1, <1>2 DEF Shown, Busy
  <1> DEFINE rows == TableRows
             of(k) == CHOOSE r \in rows : r.key = k
             live == {r \in rows : r.enabled /\ r.addr # None}
             C == [k \in Keys |->
                     IF ~ Calls!HasKey(rows, k) \/ ~ of(k).enabled THEN None
                     ELSE IF of(k).addr = None THEN Settled.chain[k]
                     ELSE [src |-> HostOf[of(k).addr], allow |-> of(k).allow]]
             J == {<<HostOf[r.addr], r.key>> : r \in live}
  <1>5. Calls!FwSync(Settled, rows) = [chain |-> C, jumps |-> J]
    BY DEF Calls!FwSync
  <1>6. \A r \in rows : r \in PeerRow /\ r.key \in Keys /\ r = row[r.key]
    BY DEF TableRows, FwInv, TypeOK, CtlInv, RowInv, PeerRow
  <1>7. J \subseteq Hosts \X Keys
    <2>1. ASSUME NEW r \in live PROVE <<HostOf[r.addr], r.key>> \in Hosts \X Keys
      BY <1>6, SrcType DEF Src
    <2>2. QED BY <2>1
  <1>8. ASSUME NEW h \in Hosts, NEW k \in Keys
        PROVE  <<h, k>> \in J <=> /\ row[k] # None /\ row[k].enabled
                                  /\ row[k].addr # None /\ h = HostOf[row[k].addr]
    <2>1. ASSUME <<h, k>> \in J
          PROVE  /\ row[k] # None /\ row[k].enabled
                 /\ row[k].addr # None /\ h = HostOf[row[k].addr]
      <3>1. PICK r \in live : <<h, k>> = <<HostOf[r.addr], r.key>> BY <2>1
      <3>2. h = HostOf[r.addr] /\ k = r.key BY <3>1
      <3>3. r = row[k] /\ r # None BY <1>6, <3>2 DEF TableRows
      <3>4. QED BY <3>2, <3>3
    <2>2. ASSUME /\ row[k] # None /\ row[k].enabled
                 /\ row[k].addr # None /\ h = HostOf[row[k].addr]
          PROVE  <<h, k>> \in J
      <3>1. row[k] \in live /\ row[k].key = k
        BY <2>2 DEF TableRows, FwInv, CtlInv, RowInv
      <3>2. QED BY <2>2, <3>1
    <2>3. QED BY <2>1, <2>2
  <1>9. ASSUME NEW k \in Keys
        PROVE  C[k] = IF row[k] = None \/ ~ row[k].enabled THEN None
                      ELSE IF row[k].addr = None THEN Settled.chain[k]
                      ELSE [src |-> HostOf[row[k].addr], allow |-> row[k].allow]
    <2>1. Calls!HasKey(rows, k) <=> row[k] # None BY RowOf
    <2>2. row[k] # None => of(k) = row[k] BY RowOf
    <2>3. QED BY <2>1, <2>2
  <1>10. C = [k \in Keys |-> C[k]] OBVIOUS
  <1> HIDE DEF C, J, live, rows, of
  <1>11. ASSUME NEW k \in Keys \ bad'
         PROVE  /\ Shown(k)'.chain = C[k]
                /\ \A h \in Hosts : h \in Shown(k)'.hosts <=> <<h, k>> \in J
    <2>0. k \in Keys /\ k \notin late BY <1>1
    <2>1. DoneOK(k, work[Boot])
      BY <1>2, <1>3, <2>0 DEF BootInv, DoneInv
    <2>2. Shown(k)' = View(chain, dispatch, k) BY <1>4, <2>0
    <2>3. HostsOf(dispatch, k) \subseteq Hosts BY DEF HostsOf
    <2>4. ASSUME chain[k] = None, HostsOf(dispatch, k) = {}
          PROVE  Shown(k)'.chain = None /\ Shown(k)'.hosts = {}
      BY <2>2, <2>4 DEF View
    <2>5. CASE row[k] = None
      <3>1. chain[k] = None BY <1>1, <1>3, <2>1, <2>5 DEF DoneOK
      <3>2. HostsOf(dispatch, k) = {} BY <2>1, <2>5 DEF DoneOK, Single, Home
      <3>3. QED BY <1>8, <1>9, <2>0, <2>4, <2>5, <3>1, <3>2
    <2>6. CASE row[k] # None /\ ~ row[k].enabled
      <3>1. chain[k] = None /\ HostsOf(dispatch, k) = {}
        BY <1>3, <2>1, <2>6 DEF DoneOK
      <3>2. QED BY <1>8, <1>9, <2>0, <2>4, <2>6, <3>1
    <2>7. CASE row[k] # None /\ row[k].enabled /\ row[k].addr = None
      <3>1. k \in Skipped /\ k \notin bad BY <1>1, <2>0, <2>7 DEF Skipped
      <3>2. seen[k] = View(chain, dispatch, k) /\ HostsOf(dispatch, k) = {}
        BY <1>2, <3>1 DEF BootInv, SkipInv
      <3>3. Settled.chain[k] = seen[k].chain
        BY <1>4, <2>0, <3>1, SettledParts
      <3>4. C[k] = Settled.chain[k] BY <1>9, <2>0, <2>7
      <3>5. Shown(k)'.hosts = {} BY <2>2, <3>2 DEF View
      <3>6. QED BY <1>8, <2>0, <2>2, <2>7, <3>2, <3>3, <3>4, <3>5
    <2>8. CASE row[k] # None /\ row[k].enabled /\ row[k].addr # None
      <3>1. /\ chain[k] = [acc |-> RulesOf(row[k]), drop |-> TRUE]
            /\ HostsOf(dispatch, k) = {Src(row[k])}
        BY <1>3, <2>1, <2>8 DEF DoneOK
      <3>2. row[k] \in PeerRow BY <2>0, <2>8 DEF FwInv, TypeOK
      <3>3. PICK r \in PeerRow : r = row[k] BY <3>2
      <3>4. /\ View(chain, dispatch, k).chain =
                 [src |-> HostOf[r.addr], allow |-> r.allow]
            /\ View(chain, dispatch, k).hosts = {HostOf[r.addr]}
        BY <2>8, <3>1, <3>3, ApplyView
      <3>5. C[k] = [src |-> HostOf[r.addr], allow |-> r.allow]
        BY <1>9, <2>0, <2>8, <3>3
      <3>6. \A h \in Hosts : h \in Shown(k)'.hosts <=> h = HostOf[r.addr]
        BY <2>2, <3>4
      <3>7. QED BY <1>8, <2>0, <2>2, <2>8, <3>3, <3>4, <3>5, <3>6
    <2>9. QED BY <2>5, <2>6, <2>7, <2>8
  <1>12. Settled' = Calls!Without([chain |-> C, jumps |-> J], bad')
    BY <1>7, <1>10, <1>11, SettledNext
  <1>13. Settled' = Calls!Without(Calls!FwSync(Settled, TableRows), bad')
    BY <1>5, <1>12 DEF rows
  <1>14. forward' = TRUE
    BY <1>1, <1>2 DEF BootInv, EnsuredInv, FwInv, TypeOK
  <1>15. Calls!Skipped = Skipped BY DEF Calls!Skipped, Skipped
  <1>16. QED BY <1>1, <1>13, <1>14, <1>15 DEF Calls!Sync, TableRows

LEMMA SimSync ==
    ASSUME FwInv, CallsInv, BootInv, SyncStep PROVE Calls!Next
PROOF
  <1>1. ASSUME phase' = "boot", phase = "boot", seen' = seen
        PROVE  \A k \in Keys \ bad' : Shown(k)' = Shown(k)
    BY <1>1, ShownBoot
  <1>2. ASSUME NEW ks \in SUBSET Keys, Succeeds \/ Fails(ks), row' = row,
               forward' = forward, \A k \in Keys \ bad' : Shown(k)' = Shown(k)
        PROVE  Calls!Next
    <2>1. CASE Succeeds
      <3>1. {} \in SUBSET Keys /\ bad' = bad \cup {} /\ late' = late \cup {}
        BY <2>1 DEF Succeeds
      <3>2. QED BY <1>2, <3>1, SimBreak DEF Calls!Next
    <2>2. CASE Fails(ks)
      BY <1>2, <2>2, SimBreak DEF Calls!Next, Fails
    <2>3. QED BY <1>2, <2>1, <2>2
  <1>3. CASE SyncFails
    <2>1. Fails(Keys) /\ row' = row /\ forward' = forward
      BY <1>3 DEF SyncFails, rules
    <2>2. Keys \ bad' = {} BY <2>1 DEF Fails
    <2>3. QED BY <1>2, <2>1, <2>2
  <1>4. CASE FlushDispatch
    <2>1. phase = "boot" BY <1>4, AtBoot DEF FlushDispatch, At
    <2>2. /\ Succeeds \/ Fails(Keys)
          /\ seen' = seen /\ phase' = phase /\ row' = row /\ forward' = forward
      BY <1>4 DEF FlushDispatch, Goto, Outer
    <2>3. QED BY <1>1, <1>2, <2>1, <2>2
  <1>5. CASE SyncPeer \/ SweepOrphan
    <2>1. phase = "boot" BY <1>5, AtBoot DEF SyncPeer, SweepOrphan, At
    <2>2. /\ Succeeds /\ {} \in SUBSET Keys
          /\ seen' = seen /\ phase' = phase /\ row' = row /\ forward' = forward
      BY <1>5 DEF SyncPeer, SweepOrphan, Succeeds, history, rules
    <2>3. QED BY <1>1, <1>2, <2>1, <2>2
  <1>6. CASE ListChains
    <2>1. phase = "boot" BY <1>6, AtBoot DEF ListChains, At
    <2>2. /\ Succeeds \/ Fails(Orphans)
          /\ Orphans \in SUBSET Keys
          /\ seen' = seen /\ phase' = phase /\ row' = row /\ forward' = forward
      BY <1>6 DEF ListChains, Goto, Orphans, rules
    <2>3. QED BY <1>1, <1>2, <2>1, <2>2
  <1>7. CASE ListJumps
    <2>1. phase = "boot" BY <1>7, AtBoot DEF ListJumps, At
    <2>2. /\ Succeeds \/ Fails(left)
          /\ left \in SUBSET Keys
          /\ seen' = seen /\ phase' = phase /\ row' = row /\ forward' = forward
      BY <1>7 DEF ListJumps, Goto, rules, FwInv, TypeOK
    <2>3. QED BY <1>1, <1>2, <2>1, <2>2
  <1>8. CASE SyncDone BY <1>8, SimSyncDone DEF Calls!Next
  <1>9. QED BY <1>3, <1>4, <1>5, <1>6, <1>7, <1>8 DEF SyncStep

\* A request writes the table before its call touches the rules.
LEMMA SimRequest ==
    ASSUME FwInv, LeftInv, Overlap = FALSE, CallsInv, NEW t \in Threads, Request(t)
    PROVE  Calls!Change
PROOF
  <1>0. FwInv' BY RequestInv
  <1>1. PICK k \in Keys, r \in PeerRows \cup {None} :
             /\ phase = "up" /\ work[t].pc = "idle" /\ ~ Busy(k)
             /\ r # row[k] /\ (r # None => r.key = k)
             /\ row' = [row EXCEPT ![k] = r]
             /\ work' = [work EXCEPT ![t] = RequestCall(k, r)]
             /\ seen' = [seen EXCEPT ![k] = Shown(k)]
             /\ UNCHANGED <<phase, rules, left, snap, bad, late>>
    BY RequestFacts
  <1>2. /\ phase' = phase /\ bad' = bad /\ late' = late
        /\ chain' = chain /\ dispatch' = dispatch /\ forward' = forward
    BY <1>1 DEF rules
  <1>3. seen = [j \in Keys |-> seen[j]] BY DEF CallsInv, SeenInv
  <1>4. seen'[k] = Shown(k) /\ \A j \in Keys : j # k => seen'[j] = seen[j]
    BY <1>1, <1>3
  <1>5. PICK c : c = RequestCall(k, r) OBVIOUS
  <1>6. c.pc # "idle" => c.row.key = k BY <1>1, <1>5, RequestCallOK
  <1>7. work'[t] = c /\ \A u \in Threads : u # t => work'[u] = work[u]
    BY <1>1, <1>5 DEF FwInv, CtlInv, WorkInv, Procs
  <1>8. ASSUME NEW j \in Keys PROVE Shown(j)' = Shown(j)
    <2>1. CASE j = k
      <3>1. Shown(k) = View(chain, dispatch, k) BY <1>1 DEF Shown
      <3>2. QED BY <1>2, <1>4, <2>1, <3>1 DEF Shown
    <2>2. CASE j # k
      <3>1. Busy(j)' <=> Busy(j)
        BY <1>1, <1>2, <1>6, <1>7, <2>2 DEF Busy
      <3>2. QED BY <1>2, <1>4, <2>2, <3>1 DEF Shown
    <2>3. QED BY <2>1, <2>2
  <1>9. Settled' = Settled BY <1>2, <1>8, SettledSame
  <1>10. QED BY <1>1, <1>2, <1>9 DEF Calls!Change

LEMMA SimCrash ==
    ASSUME FwInv, Crash PROVE Calls!Restart
PROOF
  <1>1. /\ phase' = "boot" /\ late' = {} /\ forward' = forward
        /\ bad' = bad \cup {k \in Keys : Busy(k)}
        /\ seen' = [k \in Keys |-> Shown(k)]
    BY DEF Crash, rules
  <1>2. PICK lost : row' = [k \in Keys |-> IF k \in lost THEN None ELSE row[k]]
    BY DEF Crash
  <1>3. \A k \in Keys : Shown(k)' = Shown(k) BY <1>1 DEF Shown, Busy
  <1>4. /\ Settled.chain = [k \in Keys |-> Settled.chain[k]]
        /\ Settled.jumps \subseteq Hosts \X Keys
        /\ Settled = [chain |-> Settled.chain, jumps |-> Settled.jumps]
    BY SettledParts
  <1>5. \A k \in Keys \ bad' :
          /\ Shown(k)'.chain = Settled.chain[k]
          /\ \A h \in Hosts : h \in Shown(k)'.hosts <=> <<h, k>> \in Settled.jumps
    BY <1>1, <1>3, SettledParts
  <1>6. Settled' = Calls!Without([chain |-> Settled.chain,
                                  jumps |-> Settled.jumps], bad')
    BY <1>4, <1>5, SettledNext
  <1>7. Settled' = Calls!Without(Settled, bad') BY <1>4, <1>6
  <1> DEFINE ks == {k \in Keys : Busy(k)}
             gone == lost \cap Keys
  <1>8. row' = [k \in Keys |-> IF k \in gone THEN None ELSE row[k]] BY <1>2
  <1>9. ks \in SUBSET Keys /\ gone \in SUBSET Keys /\ bad' = bad \cup ks
    BY <1>1
  <1> HIDE DEF ks, gone
  <1>10. QED BY <1>1, <1>7, <1>8, <1>9 DEF Calls!Restart

LEMMA SimInit == ASSUME Init PROVE Calls!Init
PROOF
  <1>1. row \in [Keys -> PeerRows \cup {None}]
    BY FirewallAssumption DEF Init
  <1>2. /\ chain = [k \in Keys |-> None] /\ dispatch = [x \in Hosts \X Keys |-> 0]
        /\ seen = [k \in Keys |-> View(chain, dispatch, k)]
        /\ forward = FALSE /\ bad = {} /\ late = {} /\ phase = "boot"
    BY DEF Init
  <1>3. ASSUME NEW k \in Keys PROVE Shown(k).chain = None /\ Shown(k).hosts = {}
    <2>1. HostsOf(dispatch, k) = {} BY <1>2 DEF HostsOf
    <2>2. Shown(k) = View(chain, dispatch, k) BY <1>2 DEF Shown, Busy
    <2>3. QED BY <1>2, <2>1, <2>2 DEF View
  <1>4. Settled.chain = [k \in Keys |-> None] BY <1>2, <1>3, SettledParts
  <1>5. Settled.jumps = {}
    <2>1. ASSUME NEW h \in Hosts, NEW k \in Keys PROVE <<h, k>> \notin Settled.jumps
      BY <1>2, <1>3, SettledParts
    <2>2. ASSUME NEW j \in Settled.jumps PROVE FALSE
      <3>1. PICK h \in Hosts, k \in Keys : j = <<h, k>> BY SettledParts
      <3>2. QED BY <2>1, <2>2, <3>1
    <2>3. QED BY <2>2
  <1>6. Settled = Calls!NoRules BY <1>4, <1>5, SettledParts DEF Calls!NoRules
  <1>7. QED BY <1>1, <1>2, <1>6 DEF Calls!Init

LEMMA SimStep ==
    ASSUME Overlap = FALSE, StepInv, [Next]_vars
    PROVE  Calls!Next \/ UNCHANGED Calls!vars
PROOF
  <1>0. FwInv /\ LeftInv /\ CallsInv /\ BootInv BY DEF StepInv
  <1>1. ASSUME NEW t \in Procs, Command(t) PROVE Calls!Next
    BY <1>0, <1>1, SimCommand
  <1>2. ASSUME SyncStep PROVE Calls!Next BY <1>0, <1>2, SimSync
  <1>3. ASSUME NEW t \in Threads, Request(t) PROVE Calls!Next
    BY <1>0, <1>3, SimRequest DEF Calls!Next
  <1>4. ASSUME Crash PROVE Calls!Next BY <1>0, <1>4, SimCrash DEF Calls!Next
  <1>5. ASSUME UNCHANGED vars PROVE UNCHANGED Calls!vars
    <2>1. /\ row' = row /\ forward' = forward /\ bad' = bad /\ late' = late
          /\ phase' = phase /\ chain' = chain /\ dispatch' = dispatch
          /\ work' = work /\ seen' = seen
      BY <1>5 DEF vars, rules, history
    <2>2. \A k \in Keys : Shown(k)' = Shown(k) BY <2>1 DEF Shown, Busy
    <2>3. Settled' = Settled BY <2>1, <2>2, SettledSame
    <2>4. QED BY <2>1, <2>3 DEF Calls!vars
  <1>6. QED BY <1>1, <1>2, <1>3, <1>4, <1>5 DEF Next, Procs

\* ApplyPeer, RemovePeer and Sync, command by command, implement the single
\* steps of FirewallSpec for any number of peers, threads, failures and crashes,
\* as long as calls for one peer do not overlap: a call either takes effect as
\* FwApply, FwRemove or FwSync, or leaves only its own peer unknown until a Sync
\* repairs it.
THEOREM CallsImplemented ==
    ASSUME Overlap = FALSE PROVE Spec => CallsAreAtomic
PROOF
  <1>1. Init => StepInv BY InitStep
  <1>2. StepInv /\ [Next]_vars => StepInv' BY NextCalls
  <1>3. Init => Calls!Init BY SimInit
  <1>4. StepInv /\ [Next]_vars => [Calls!Next]_(Calls!vars) BY SimStep
  <1>5. QED BY <1>1, <1>2, <1>3, <1>4, PTL DEF Spec, CallsAreAtomic, Calls!Spec
=============================================================================
