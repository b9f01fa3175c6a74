---------------------------- MODULE AgentProofs -----------------------------
(***************************************************************************)
(* Theorems about Agent: it keeps its types, whatever handlers run, and the*)
(* reconciler never acts on a stale view of the database as long as every  *)
(* handler that runs pauses it.                                            *)
(***************************************************************************)
EXTENDS Agent, TLAPS, FiniteSetTheorems, SequenceTheorems

-----------------------------------------------------------------------------
(* The calls on the stores keep the types of the stores.                    *)

KernelType == [Keys -> KernelPeer \cup {None}]

LEMMA IPsType == ASSUME NEW r \in Row PROVE IPsOf(r) \in SUBSET Hosts
  BY DEF IPsOf, Row

LEMMA StripType ==
    ASSUME NEW p \in KernelPeer \cup {None}, NEW hs
    PROVE  Strip(p, hs) \in KernelPeer \cup {None}
  <1>1. CASE p = None
    BY <1>1 DEF Strip
  <1>2. CASE p # None
    <2>1. p \in KernelPeer /\ Strip(p, hs) = [p EXCEPT !.ips = p.ips \ hs]
      BY <1>2 DEF Strip
    <2> QED
      BY <2>1 DEF KernelPeer
  <1> QED
    BY <1>1, <1>2

LEMMA ConfigurePeerType ==
    ASSUME NEW K \in KernelType, NEW k \in Keys, NEW hs \in SUBSET Hosts,
           NEW psk \in Keys \cup {None}, NEW replace \in BOOLEAN
    PROVE  ConfigurePeer(K, k, hs, psk, replace) \in KernelType
  <1> DEFINE old == IF K[k] = None THEN [ips |-> {}, psk |-> None] ELSE K[k]
             new == [ips |-> IF replace THEN hs ELSE old.ips \cup hs,
                     psk |-> IF psk = None THEN old.psk ELSE psk]
  <1>1. old \in KernelPeer
    BY DEF KernelType, KernelPeer
  <1>2. old.ips \in SUBSET Hosts /\ old.psk \in Keys \cup {None}
    BY <1>1 DEF KernelPeer
  <1> HIDE DEF old
  <1>3. new \in KernelPeer
    BY <1>2 DEF KernelPeer
  <1>4. ConfigurePeer(K, k, hs, psk, replace)
          = [j \in Keys |-> IF j = k THEN new ELSE Strip(K[j], hs)]
    BY DEF ConfigurePeer, old
  <1> HIDE DEF new
  <1> QED
    BY <1>3, <1>4, StripType DEF KernelType

LEMMA ConfigureNewType ==
    ASSUME NEW K \in KernelType, NEW s \in Seq(Row)
    PROVE  ConfigureNew(K, s) \in KernelType
  <1> DEFINE hs == UNION {IPsOf(s[i]) : i \in DOMAIN s}
             at(k) == CHOOSE i \in DOMAIN s : s[i].key = k
             new(k) == [ips |-> {h \in IPsOf(s[at(k)]) :
                                   \A j \in DOMAIN s :
                                      j > at(k) => s[j].ips # h},
                        psk |-> s[at(k)].psk]
  <1>1. ASSUME NEW k \in Keys, \E i \in DOMAIN s : s[i].key = k
        PROVE  new(k) \in KernelPeer
    <2>1. at(k) \in DOMAIN s
      BY <1>1
    <2> HIDE DEF at
    <2>2. s[at(k)] \in Row
      BY <2>1
    <2>3. IPsOf(s[at(k)]) \in SUBSET Hosts /\ s[at(k)].psk \in Keys \cup {None}
      BY <2>2, IPsType DEF Row
    <2> QED
      BY <2>3 DEF KernelPeer
  <1>2. ConfigureNew(K, s)
          = [k \in Keys |-> IF \E i \in DOMAIN s : s[i].key = k
                              THEN new(k) ELSE Strip(K[k], hs)]
    BY DEF ConfigureNew
  <1> HIDE DEF new, hs
  <1> QED
    BY <1>1, <1>2, StripType DEF KernelType

LEMMA RemovePeersType ==
    ASSUME NEW K \in KernelType, NEW ks
    PROVE  RemovePeers(K, ks) \in KernelType
  BY DEF RemovePeers, KernelType

LEMMA FwRemoveType ==
    ASSUME NEW F \in Firewall, NEW r \in Row
    PROVE  FwRemove(F, r) \in Firewall
  BY DEF FwRemove, Firewall, Row, Flushed

LEMMA RulesType ==
    ASSUME NEW r \in Row, r.addr # None
    PROVE  /\ [src |-> HostOf[r.addr], allow |-> r.allow] \in Rules
           /\ <<HostOf[r.addr], r.key>> \in Hosts \X Keys
  BY StoresAssumption DEF Row, Rules

LEMMA FwApplyType ==
    ASSUME NEW F \in Firewall, NEW r \in Row
    PROVE  FwApply(F, r) \in Firewall
  <1>1. CASE ~ r.enabled
    BY <1>1, FwRemoveType DEF FwApply
  <1>2. CASE r.enabled /\ r.addr = None
    BY <1>2 DEF FwApply
  <1>3. CASE r.enabled /\ r.addr # None
    <2> DEFINE rule == [src |-> HostOf[r.addr], allow |-> r.allow]
               jump == <<HostOf[r.addr], r.key>>
    <2>1. rule \in Rules /\ jump \in Hosts \X Keys
      BY <1>3, RulesType
    <2>2. FwApply(F, r) = [chain |-> [F.chain EXCEPT ![r.key] = rule],
                           jumps |-> F.jumps \cup {jump}]
      BY <1>3 DEF FwApply
    <2> HIDE DEF rule, jump
    <2> QED
      BY <2>1, <2>2 DEF Firewall, Row
  <1> QED
    BY <1>1, <1>2, <1>3

LEMMA FwApplyNewType ==
    ASSUME NEW F \in Firewall, NEW rows \in SUBSET Row,
           \A r \in rows : r.addr \in Addrs
    PROVE  FwApplyNew(F, rows) \in Firewall
  <1> DEFINE of(k) == CHOOSE r \in rows : r.key = k
             rule(k) == [src |-> HostOf[of(k).addr], allow |-> of(k).allow]
             chain == [k \in Keys |-> IF HasKey(rows, k) THEN rule(k)
                                                        ELSE F.chain[k]]
             jumps == F.jumps \cup {<<HostOf[r.addr], r.key>> : r \in rows}
  <1>1. ASSUME NEW k \in Keys, HasKey(rows, k) PROVE rule(k) \in Rules
    <2>1. of(k) \in rows
      BY <1>1 DEF HasKey
    <2> HIDE DEF of
    <2> QED
      BY <2>1, RulesType, StoresAssumption
  <1>2. jumps \in SUBSET (Hosts \X Keys)
    <2>1. \A r \in rows : <<HostOf[r.addr], r.key>> \in Hosts \X Keys
      BY RulesType, StoresAssumption
    <2>2. F.jumps \in SUBSET (Hosts \X Keys)
      BY DEF Firewall
    <2> QED
      BY <2>1, <2>2
  <1>3. FwApplyNew(F, rows) = [chain |-> chain, jumps |-> jumps]
    BY DEF FwApplyNew
  <1> HIDE DEF rule, jumps
  <1>4. chain \in [Keys -> Rules \cup {Flushed, None}]
    BY <1>1 DEF Firewall
  <1> QED
    BY <1>2, <1>3, <1>4 DEF Firewall

LEMMA FwRemoveNewType ==
    ASSUME NEW F \in Firewall, NEW rows
    PROVE  FwRemoveNew(F, rows) \in Firewall
  BY DEF FwRemoveNew, Firewall

LEMMA FwSyncType ==
    ASSUME NEW F \in Firewall, NEW rows \in SUBSET Row
    PROVE  FwSync(F, rows) \in Firewall
  <1> DEFINE of(k) == CHOOSE r \in rows : r.key = k
             rule(k) == [src |-> HostOf[of(k).addr], allow |-> of(k).allow]
             live == {r \in rows : r.enabled /\ r.addr # None}
             jumps == {<<HostOf[r.addr], r.key>> : r \in live}
             chain == [k \in Keys |->
                         IF ~ HasKey(rows, k) \/ ~ of(k).enabled THEN None
                         ELSE IF of(k).addr = None THEN F.chain[k]
                         ELSE rule(k)]
  <1>1. ASSUME NEW k \in Keys, HasKey(rows, k), of(k).addr # None
        PROVE  rule(k) \in Rules
    <2>1. of(k) \in rows
      BY <1>1 DEF HasKey
    <2> HIDE DEF of
    <2> QED
      BY <1>1, <2>1, RulesType
  <1>2. jumps \in SUBSET (Hosts \X Keys)
    BY RulesType
  <1>3. FwSync(F, rows) = [chain |-> chain, jumps |-> jumps]
    BY DEF FwSync
  <1> HIDE DEF rule, jumps, of
  <1>4. chain \in [Keys -> Rules \cup {Flushed, None}]
    BY <1>1 DEF Firewall
  <1> QED
    BY <1>2, <1>3, <1>4 DEF Firewall

LEMMA InsertRowsType ==
    ASSUME NEW D \in SUBSET Row, NEW last \in Nat, NEW s \in Seq(Row)
    PROVE  InsertRows(D, last, s) \in SUBSET Row
  <1>1. ASSUME NEW i \in DOMAIN s PROVE [s[i] EXCEPT !.id = last + i] \in Row
    <2>1. s[i] \in Row /\ last + i \in Nat
      OBVIOUS
    <2> QED
      BY <2>1 DEF Row
  <1> QED
    BY <1>1 DEF InsertRows

LEMMA QuarantineRowType ==
    ASSUME NEW last \in Nat, NEW k \in Keys
    PROVE  QuarantineRow(last, k) \in Row
  BY DEF QuarantineRow, Row

-----------------------------------------------------------------------------
(* Type correctness.  TypeOK is not inductive: that a handler finds in its  *)
(* locals what its next call needs (an address, a row, one new peer) depends*)
(* on the step it has reached (Shape), and that the reconciler finds a row  *)
(* for the key it works on depends on its snapshot (RecShape).              *)

Shape(j, step) ==
    \/ j.op = "none" /\ step = "idle"
    \/ /\ j.op \in {"create", "batch"}
       /\ step \in {"pause", "fw", "kernel", "insert", "conf", "undo"}
       /\ step = "pause" => j.op = "batch"
       /\ \A i \in DOMAIN j.new : j.new[i].addr \in Addrs
       /\ \A i \in DOMAIN j.undo : j.undo[i] \in {"fw", "db", "kernel"}
    \/ /\ j.op = "update"
       /\ step \in {"ukernel", "utune", "udb", "ufw", "reread", "apply"}
       /\ j.row \in Row /\ j.req \in UpdateReq
       /\ step = "ukernel" => j.req.addr \in Addrs
    \/ /\ j.op = "rotate"
       /\ step \in {"rfw", "rremove", "radd", "rkey", "rpsk", "conf", "rapply",
                    "undo"}
       /\ j.row \in Row /\ 1 \in DOMAIN j.new
       /\ \A i \in DOMAIN j.undo : j.undo[i] \in {"key", "psk", "kernel", "old"}
    \/ /\ j.op = "approve"
       /\ step \in {"adb", "aflag", "akernel", "reread", "apply"}
       /\ j.row \in Row /\ j.req \in UpdateReq /\ j.req.addr \in Addrs
    \/ /\ j.op = "delete"
       /\ step \in {"pause", "dkernel", "ddb", "dfw"}
       /\ j.row \in Row

Control == /\ mu \in Threads \cup {None}
           /\ pc \in [Threads -> Steps]
           /\ job \in [Threads -> Job]
           /\ \A t \in Threads : /\ Shape(job[t], pc[t])
                                 /\ pc[t] = "undo" => job[t].undo # <<>>

Stores == /\ db \in SUBSET Row /\ lastId \in Nat
          /\ kernel \in KernelType
          /\ fw \in Firewall

RecShape == /\ rec \in RecState
            /\ rec.pc \in {"zombie", "unknown", "readded"} => rec.cur \in Keys
            /\ rec.pc \in {"zombie", "readded"} => HasKey(rec.rows, rec.cur)
            /\ rec.pc \in {"missing", "readded"} =>
                  \A k \in rec.todo : HasKey(rec.rows, k)

Rest == /\ used \in SUBSET Keys
        /\ phase \in {"boot", "sync", "up"}
        /\ budget \in [EnvKinds -> Nat]

TypeInv == Stores /\ Control /\ RecShape /\ Rest

LEMMA TypeInvImplies == TypeInv => TypeOK
  BY DEF TypeInv, Stores, Control, RecShape, Rest, TypeOK, KernelType

LEMMA SpendType ==
    ASSUME NEW what \in EnvKinds, budget \in [EnvKinds -> Nat], Spend(what)
    PROVE  budget' \in [EnvKinds -> Nat]
  BY DEF Spend

(* How a handler moves on.  *)

LEMMA GotoControl ==
    ASSUME Control, NEW t \in Threads, NEW step \in Steps \ {"undo"},
           Shape(job[t], step), Goto(t, step)
    PROVE  Control'
  BY DEF Control, Goto

LEMMA NoJobType == NoJob \in Job /\ Shape(NoJob, "idle")
  BY DEF NoJob, Locals, Job, Shape

LEMMA ReturnControl ==
    ASSUME Control, NEW t \in Threads, Return(t)
    PROVE  Control'
  <1>1. job' \in [Threads -> Job] /\ pc' \in [Threads -> Steps]
    BY NoJobType DEF Control, Return, Steps
  <1>2. mu' \in Threads \cup {None}
    BY DEF Control, Return
  <1>3. ASSUME NEW s \in Threads
        PROVE  /\ Shape(job'[s], pc'[s])
               /\ pc'[s] = "undo" => job'[s].undo # <<>>
    <2>1. CASE s = t
      <3>1. job'[s] = NoJob /\ pc'[s] = "idle"
        BY <2>1 DEF Control, Return
      <3> QED
        BY <3>1, NoJobType
    <2>2. CASE s # t
      <3>1. job'[s] = job[s] /\ pc'[s] = pc[s]
        BY <2>2 DEF Control, Return
      <3> QED
        BY <3>1 DEF Control
    <2> QED
      BY <2>1, <2>2
  <1> QED
    BY <1>1, <1>2, <1>3 DEF Control

\* A goroutine takes new locals j and step.
LEMMA JobControl ==
    ASSUME Control, NEW t \in Threads, NEW j \in Job, NEW step \in Steps,
           Shape(j, step), step = "undo" => j.undo # <<>>,
           job' = [job EXCEPT ![t] = j], pc' = [pc EXCEPT ![t] = step],
           mu' \in Threads \cup {None}
    PROVE  Control'
  <1>1. job' \in [Threads -> Job] /\ pc' \in [Threads -> Steps]
    BY DEF Control
  <1>2. ASSUME NEW s \in Threads
        PROVE  /\ Shape(job'[s], pc'[s])
               /\ pc'[s] = "undo" => job'[s].undo # <<>>
    <2>1. CASE s = t
      <3>1. job'[s] = j /\ pc'[s] = step
        BY <2>1 DEF Control
      <3> QED
        BY <3>1
    <2>2. CASE s # t
      <3>1. job'[s] = job[s] /\ pc'[s] = pc[s]
        BY <2>2 DEF Control
      <3> QED
        BY <3>1 DEF Control
    <2> QED
      BY <2>1, <2>2
  <1> QED
    BY <1>1, <1>2 DEF Control

UndoSteps == {"fw", "db", "kernel", "key", "psk", "old"}

LEMMA UnwindControl ==
    ASSUME Control, NEW t \in Threads, NEW s \in Seq(UndoSteps), s # <<>>,
           \/ /\ job[t].op \in {"create", "batch"}
              /\ \A i \in DOMAIN s : s[i] \in {"fw", "db", "kernel"}
           \/ /\ job[t].op = "rotate"
              /\ \A i \in DOMAIN s : s[i] \in {"key", "psk", "kernel", "old"},
           Unwind(t, s)
    PROVE  Control'
  <1> DEFINE j == [job[t] EXCEPT !.undo = s]
  <1>0. job[t] \in Job /\ Shape(job[t], pc[t])
    BY DEF Control
  <1>1. j \in Job
    BY <1>0 DEF Job, UndoSteps
  <1>2. /\ j.op = job[t].op /\ j.row = job[t].row
        /\ j.new = job[t].new /\ j.undo = s
    BY <1>0 DEF Job
  <1> HIDE DEF j
  <1>3. Shape(j, "undo")
    BY <1>0, <1>2 DEF Shape
  <1>4. job' = [job EXCEPT ![t] = j]
    BY DEF Unwind, Control, j
  <1> QED
    BY <1>1, <1>2, <1>3, <1>4, JobControl DEF Unwind, Steps, Control

LEMMA TailUndo ==
    ASSUME NEW q \in Seq(UndoSteps), Len(q) > 1
    PROVE  /\ Tail(q) \in Seq(UndoSteps) /\ Tail(q) # <<>>
           /\ \A i \in DOMAIN Tail(q) : /\ i + 1 \in DOMAIN q
                                        /\ Tail(q)[i] = q[i + 1]
  <1>1. q # <<>>
    BY EmptySeq
  <1>2. /\ Tail(q) \in Seq(UndoSteps)
        /\ Len(Tail(q)) = Len(q) - 1
        /\ \A i \in 1 .. Len(Tail(q)) : Tail(q)[i] = q[i + 1]
    BY <1>1, HeadTailProperties
  <1>3. Len(Tail(q)) \in Nat /\ Len(q) \in Nat /\ Len(Tail(q)) > 0
    BY <1>2
  <1>4. DOMAIN Tail(q) = 1 .. Len(Tail(q)) /\ DOMAIN q = 1 .. Len(q)
    BY <1>2
  <1>5. Tail(q) # <<>>
    <2> SUFFICES ASSUME Tail(q) = <<>> PROVE FALSE
      OBVIOUS
    <2>1. Len(Tail(q)) = 0
      BY EmptySeq
    <2> QED
      BY <1>3, <2>1
  <1> QED
    BY <1>2, <1>3, <1>4, <1>5

LEMMA NextUndoControl ==
    ASSUME Control, NEW t \in Threads, pc[t] = "undo", NextUndo(t)
    PROVE  Control'
  <1>1. CASE Len(job[t].undo) > 1
    <2> DEFINE s == Tail(job[t].undo)
               j == [job[t] EXCEPT !.undo = s]
    <2>0. /\ job[t] \in Job /\ Shape(job[t], pc[t])
          /\ job[t].undo \in Seq(UndoSteps)
      BY DEF Control, Job, UndoSteps
    <2>1. /\ s \in Seq(UndoSteps) /\ s # <<>>
          /\ \A i \in DOMAIN s : i + 1 \in DOMAIN job[t].undo
          /\ \A i \in DOMAIN s : s[i] = job[t].undo[i + 1]
      BY <1>1, <2>0, TailUndo
    <2> HIDE DEF s
    <2>2. j \in Job
      BY <2>0, <2>1 DEF Job, UndoSteps
    <2>3. /\ j.op = job[t].op /\ j.row = job[t].row /\ j.new = job[t].new
          /\ j.undo = s
      BY <2>0 DEF Job
    <2>4. job' = [job EXCEPT ![t] = j] /\ pc' = [pc EXCEPT ![t] = "undo"]
      BY <1>1 DEF NextUndo, Control, s
    <2> HIDE DEF j
    <2>5. Shape(j, "undo")
      BY <2>0, <2>1, <2>3 DEF Shape
    <2> QED
      BY <1>1, <2>1, <2>2, <2>3, <2>4, <2>5, JobControl
      DEF NextUndo, Control, Steps
  <1>2. CASE ~ (Len(job[t].undo) > 1)
    BY <1>2, ReturnControl DEF NextUndo
  <1> QED
    BY <1>1, <1>2

\* A request arrives.
LEMMA AcceptTypes ==
    ASSUME TypeInv, NEW t \in Threads, NEW j \in Job,
           NEW step \in Steps \ {"undo"}, Shape(j, step),
           used' \in SUBSET Keys, Accept(t, j, step)
    PROVE  TypeInv'
  <1>1. Control'
    BY JobControl DEF TypeInv, Control, Accept
  <1>2. budget' \in [EnvKinds -> Nat]
    BY SpendType DEF TypeInv, Rest, Accept, EnvKinds
  <1>3. Stores' /\ RecShape'
    BY DEF TypeInv, Stores, RecShape, Accept, stores
  <1> QED
    BY <1>1, <1>2, <1>3 DEF TypeInv, Rest, Accept

LEMMA NewRowType ==
    ASSUME NEW k \in Keys, NEW a \in Addrs, NEW al \in Allows,
           NEW p \in BOOLEAN
    PROVE  NewRow(k, a, al, p) \in Row /\ NewRow(k, a, al, p).addr = a
  BY StoresAssumption DEF NewRow, Row

LEMMA NoSeq == /\ <<>> \in Seq(Row) /\ <<>> \in Seq(UndoSteps)
               /\ DOMAIN <<>> = {}
  BY EmptySeq

LEMMA RequestTypes ==
    ASSUME TypeInv, NEW t \in Threads, Request(t)
    PROVE  TypeInv'
  <1>0. db \in SUBSET Row /\ used \in SUBSET Keys
    BY DEF TypeInv, Stores, Rest
  <1>1. CASE CreatePeer(t)
    <2> PICK k \in Keys \ used, a \in Addrs, al \in Allows, p \in PskModes :
           /\ used' = used \cup {k}
           /\ Accept(t, Locals("create", None, <<NewRow(k, a, al, p)>>, None),
                     "fw")
      BY <1>1 DEF CreatePeer
    <2> DEFINE n == NewRow(k, a, al, p)
               j == Locals("create", None, <<n>>, None)
    <2>1. n \in Row /\ n.addr \in Addrs
      BY NewRowType, AgentAssumption
    <2>2. Accept(t, j, "fw")
      OBVIOUS
    <2> HIDE DEF n
    <2>3. <<n>> \in Seq(Row) /\ \A i \in DOMAIN <<n>> : <<n>>[i].addr \in Addrs
      BY <2>1
    <2>4. j \in Job /\ j.op = "create" /\ j.new = <<n>> /\ DOMAIN j.undo = {}
      BY <2>3, NoSeq DEF Locals, Job, UndoSteps
    <2> HIDE DEF j
    <2>5. Shape(j, "fw")
      BY <2>3, <2>4 DEF Shape
    <2> QED
      BY <1>0, <2>2, <2>4, <2>5, AcceptTypes DEF Steps
  <1>2. CASE BatchCreatePeers(t)
    <2> PICK n \in BatchSizes :
        \E ks \in [1..n -> Keys \ used], as \in [1..n -> Addrs], al \in Allows,
           p \in PskModes :
           /\ \A i, j \in 1..n : i # j => ks[i] # ks[j]
           /\ PeerLimit > 0 => Cardinality(db) + n <= PeerLimit
           /\ used' = used \cup {ks[i] : i \in 1..n}
           /\ Accept(t, Locals("batch", None,
                               [i \in 1..n |-> NewRow(ks[i], as[i], al, p)],
                               None),
                     "pause")
      BY <1>2 DEF BatchCreatePeers
    <2> PICK ks \in [1..n -> Keys \ used], as \in [1..n -> Addrs],
             al \in Allows, p \in PskModes :
           /\ used' = used \cup {ks[i] : i \in 1..n}
           /\ Accept(t, Locals("batch", None,
                               [i \in 1..n |-> NewRow(ks[i], as[i], al, p)],
                               None),
                     "pause")
      OBVIOUS
    <2> DEFINE s == [i \in 1..n |-> NewRow(ks[i], as[i], al, p)]
               j == Locals("batch", None, s, None)
    <2>1. n \in Nat /\ p \in BOOLEAN
      BY AgentAssumption
    <2>2. s \in [1..n -> Row] /\ \A i \in 1..n : s[i].addr \in Addrs
      <3>1. \A i \in 1..n : ks[i] \in Keys /\ as[i] \in Addrs
        OBVIOUS
      <3>2. \A k \in Keys, a \in Addrs : /\ NewRow(k, a, al, p) \in Row
                                         /\ NewRow(k, a, al, p).addr = a
        BY <2>1, NewRowType
      <3> QED
        BY <3>1, <3>2
    <2>3. used' \in SUBSET Keys
      BY <1>0
    <2>4. Accept(t, j, "pause")
      OBVIOUS
    <2> HIDE DEF s
    <2>5. s \in Seq(Row) /\ \A i \in DOMAIN s : s[i].addr \in Addrs
      BY <2>1, <2>2, SeqDef
    <2>6. j \in Job /\ j.op = "batch" /\ j.new = s /\ DOMAIN j.undo = {}
      BY <2>5, NoSeq DEF Locals, Job, UndoSteps
    <2> HIDE DEF j
    <2>7. Shape(j, "pause")
      BY <2>5, <2>6 DEF Shape
    <2> QED
      BY <2>3, <2>4, <2>6, <2>7, AcceptTypes DEF Steps
  <1>3. CASE UpdatePeer(t)
    <2> PICK r \in db, q \in UpdateReqs :
           /\ Accept(t, Locals("update", r, <<>>, q),
                     IF q.addr \notin {None, r.addr} THEN "ukernel" ELSE "utune")
           /\ UNCHANGED used
      BY <1>3 DEF UpdatePeer
    <2> DEFINE j == Locals("update", r, <<>>, q)
               step == IF q.addr \notin {None, r.addr} THEN "ukernel" ELSE "utune"
    <2>0. r \in Row /\ q \in UpdateReq
      BY <1>0, AgentAssumption
    <2>1. j \in Job /\ j.op = "update" /\ j.row = r /\ j.req = q
      BY <2>0, NoSeq DEF Locals, Job, UndoSteps
    <2>2. step \in Steps \ {"undo"}
      BY DEF Steps
    <2> HIDE DEF j
    <2>3. Shape(j, step)
      BY <2>0, <2>1 DEF Shape, UpdateReq
    <2>4. Accept(t, j, step)
      BY DEF j
    <2> HIDE DEF step
    <2> QED
      BY <1>0, <2>1, <2>2, <2>3, <2>4, AcceptTypes
  <1>4. CASE RotateKeys(t)
    <2> PICK r \in db, k \in Keys \ used :
           /\ used' = used \cup {k}
           /\ Accept(t, Locals("rotate", r, <<Rotated(r, k)>>, None), "rfw")
      BY <1>4 DEF RotateKeys
    <2> DEFINE n == Rotated(r, k)
               j == Locals("rotate", r, <<n>>, None)
    <2>1. n \in Row
      BY <1>0 DEF Row, Rotated
    <2>2. Accept(t, j, "rfw")
      OBVIOUS
    <2> HIDE DEF n
    <2>3. <<n>> \in Seq(Row) /\ 1 \in DOMAIN <<n>>
      BY <2>1
    <2>4. /\ j \in Job /\ j.op = "rotate" /\ j.row = r /\ j.new = <<n>>
          /\ DOMAIN j.undo = {}
      BY <1>0, <2>3, NoSeq DEF Locals, Job, UndoSteps
    <2> HIDE DEF j
    <2>5. Shape(j, "rfw")
      BY <1>0, <2>3, <2>4 DEF Shape
    <2> QED
      BY <1>0, <2>2, <2>4, <2>5, AcceptTypes DEF Steps
  <1>5. CASE ApprovePeer(t)
    <2> PICK r \in db, a \in Addrs, al \in Allows :
           /\ Accept(t, Locals("approve", r, <<>>,
                               [addr |-> a, allow |-> al, enable |-> "on",
                                tune |-> "none"]), "adb")
           /\ UNCHANGED used
      BY <1>5 DEF ApprovePeer
    <2> DEFINE q == [addr |-> a, allow |-> al, enable |-> "on", tune |-> "none"]
               j == Locals("approve", r, <<>>, q)
    <2>1. q \in UpdateReq /\ q.addr \in Addrs
      BY DEF UpdateReq
    <2>2. Accept(t, j, "adb")
      OBVIOUS
    <2> HIDE DEF q
    <2>3. j \in Job /\ j.op = "approve" /\ j.row = r /\ j.req = q
      BY <1>0, <2>1, NoSeq DEF Locals, Job, UndoSteps
    <2> HIDE DEF j
    <2>4. Shape(j, "adb")
      BY <1>0, <2>1, <2>3 DEF Shape
    <2> QED
      BY <1>0, <2>2, <2>3, <2>4, AcceptTypes DEF Steps
  <1>6. CASE DeletePeer(t)
    <2> PICK r \in db :
           /\ Accept(t, Locals("delete", r, <<>>, None), "pause")
           /\ UNCHANGED used
      BY <1>6 DEF DeletePeer
    <2> DEFINE j == Locals("delete", r, <<>>, None)
    <2>1. j \in Job /\ j.op = "delete" /\ j.row = r
      BY <1>0, NoSeq DEF Locals, Job, UndoSteps
    <2>2. Accept(t, j, "pause")
      OBVIOUS
    <2> HIDE DEF j
    <2>3. Shape(j, "pause")
      BY <1>0, <2>1 DEF Shape
    <2> QED
      BY <1>0, <2>1, <2>2, <2>3, AcceptTypes DEF Steps
  <1> QED
    BY <1>1, <1>2, <1>3, <1>4, <1>5, <1>6 DEF Request

(* The steps of the handlers.  *)

LEMMA PauseTypes ==
    ASSUME TypeInv, NEW t \in Threads, Pause(t)
    PROVE  TypeInv'
  <1> DEFINE step == IF job[t].op = "batch" THEN "fw" ELSE "dkernel"
  <1>0. Shape(job[t], "pause")
    BY DEF Pause, TypeInv, Control
  <1>1. Shape(job[t], step) /\ step \in Steps /\ step # "undo"
    <2>1. job[t].op \in {"batch", "delete"}
      BY <1>0 DEF Shape
    <2>2. CASE job[t].op = "batch"
      BY <1>0, <2>2 DEF Shape, Steps
    <2>3. CASE job[t].op = "delete"
      BY <1>0, <2>3 DEF Shape, Steps
    <2> QED
      BY <2>1, <2>2, <2>3
  <1>2. pc' = [pc EXCEPT ![t] = step] /\ job' = job /\ mu' = t
    BY DEF Pause
  <1> HIDE DEF step
  <1>3. Control'
    BY <1>1, <1>2 DEF TypeInv, Control
  <1> QED
    BY <1>3 DEF Pause, TypeInv, Stores, RecShape, Rest, stores

LEMMA HandlerFrame ==
    ASSUME TypeInv, NEW t \in Threads, Handler(t)
    PROVE  RecShape' /\ Rest'
  <1> USE DEF Try, Fault
  <1>0. /\ budget \in [EnvKinds -> Nat]
        /\ {"fault", "iptables", "rollback"} \subseteq EnvKinds
    BY DEF TypeInv, Rest, EnvKinds
  <1>1. ASSUME Import(t) PROVE /\ UNCHANGED <<rec, used, phase>>
                               /\ budget' \in [EnvKinds -> Nat]
    BY <1>0, <1>1, SpendType
    DEF Import, ImportFirewall, ImportKernel, ImportInsert, ConfWrite
  <1>2. ASSUME Undo(t) PROVE /\ UNCHANGED <<rec, used, phase>>
                             /\ budget' \in [EnvKinds -> Nat]
    BY <1>0, <1>2, SpendType
    DEF Undo, UndoFirewall, UndoDB, UndoKernel, UndoKey, UndoPsk, UndoOld
  <1>3. ASSUME Update(t) PROVE /\ UNCHANGED <<rec, used, phase>>
                               /\ budget' \in [EnvKinds -> Nat]
    BY <1>0, <1>3, SpendType
    DEF Update, UpdateKernel, UpdateTune, UpdateDB, UpdateFirewall, Reread,
        ApplyReread
  <1>4. ASSUME Rotate(t) PROVE /\ UNCHANGED <<rec, used, phase>>
                               /\ budget' \in [EnvKinds -> Nat]
    BY <1>0, <1>4, SpendType
    DEF Rotate, RotateFirewall, RotateRemove, RotateAdd, RotateKey, RotatePsk,
        RotateApply
  <1>5. ASSUME Approve(t) \/ Delete(t)
        PROVE  /\ UNCHANGED <<rec, used, phase>>
               /\ budget' \in [EnvKinds -> Nat]
    BY <1>0, <1>5, SpendType
    DEF Approve, ApproveDB, ApproveFlag, ApproveKernel, Delete, DeleteKernel,
        DeleteDB, DeleteFirewall
  <1>6. UNCHANGED <<rec, used, phase>> /\ budget' \in [EnvKinds -> Nat]
    BY <1>1, <1>2, <1>3, <1>4, <1>5 DEF Handler
  <1> QED
    BY <1>6 DEF TypeInv, RecShape, Rest

LEMMA NewRowsType ==
    ASSUME Control, NEW t \in Threads
    PROVE  /\ job[t].new \in Seq(Row)
           /\ NewRows(t) \in SUBSET Row
           /\ job[t].op \in {"create", "batch"} =>
                 \A r \in NewRows(t) : r.addr \in Addrs
  <1>1. job[t].new \in Seq(Row)
    BY DEF Control, Job
  <1>2. \A i \in DOMAIN job[t].new : job[t].new[i] \in Row
    BY <1>1
  <1>3. job[t].op \in {"create", "batch"} =>
           \A i \in DOMAIN job[t].new : job[t].new[i].addr \in Addrs
    BY DEF Control, Shape
  <1> QED
    BY <1>1, <1>2, <1>3 DEF NewRows

LEMMA UndoTuples ==
    /\ \A q \in {<<"fw">>, <<"fw", "kernel">>, <<"fw", "db", "kernel">>,
                 <<"db", "fw", "kernel">>} :
          /\ q \in Seq(UndoSteps) /\ q # <<>>
          /\ \A i \in DOMAIN q : q[i] \in {"fw", "db", "kernel"}
    /\ \A q \in {<<"old">>, <<"kernel", "old">>, <<"key", "kernel", "old">>,
                 <<"key", "psk", "kernel", "old">>} :
          /\ q \in Seq(UndoSteps) /\ q # <<>>
          /\ \A i \in DOMAIN q : q[i] \in {"key", "psk", "kernel", "old"}
  BY DEF UndoSteps

LEMMA ImportTypes ==
    ASSUME TypeInv, NEW t \in Threads, Import(t)
    PROVE  Stores' /\ Control'
  <1> USE DEF Fault, Try
  <1>0. Control /\ Stores
    BY DEF TypeInv
  <1>1. CASE ImportFirewall(t)
    <2>1. job[t].op \in {"create", "batch"} /\ Shape(job[t], "kernel")
      BY <1>0, <1>1 DEF ImportFirewall, Control, Shape
    <2>2. Control'
      BY <1>0, <1>1, <2>1, GotoControl DEF ImportFirewall, Steps
    <2>3. \E rows \in SUBSET NewRows(t) : fw' = FwApplyNew(fw, rows)
      BY <1>1 DEF ImportFirewall
    <2>4. fw' \in Firewall
      BY <1>0, <2>1, <2>3, NewRowsType, FwApplyNewType DEF Stores
    <2> QED
      BY <1>0, <1>1, <2>2, <2>4 DEF ImportFirewall, Stores
  <1>2. CASE ImportKernel(t)
    <2>1. job[t].op \in {"create", "batch"} /\ Shape(job[t], "insert")
      BY <1>0, <1>2 DEF ImportKernel, Control, Shape
    <2>2. Goto(t, "insert") \/ Unwind(t, <<"fw">>)
      BY <1>2 DEF ImportKernel
    <2>3. Control'
      BY <1>0, <2>1, <2>2, GotoControl, UnwindControl, UndoTuples DEF Steps
    <2>4. kernel' \in KernelType
      BY <1>0, <1>2, NewRowsType, ConfigureNewType DEF ImportKernel, Stores
    <2> QED
      BY <1>0, <1>2, <2>3, <2>4 DEF ImportKernel, Stores
  <1>3. CASE ImportInsert(t)
    <2>1. job[t].op \in {"create", "batch"} /\ Shape(job[t], "conf")
      BY <1>0, <1>3 DEF ImportInsert, Control, Shape
    <2>2. Goto(t, "conf") \/ Unwind(t, <<"fw", "kernel">>)
      BY <1>3 DEF ImportInsert
    <2>3. Control'
      BY <1>0, <2>1, <2>2, GotoControl, UnwindControl, UndoTuples DEF Steps
    <2>4. db' \in SUBSET Row /\ lastId' \in Nat
      BY <1>0, <1>3, NewRowsType, InsertRowsType, LenProperties
      DEF ImportInsert, Stores
    <2> QED
      BY <1>0, <1>3, <2>3, <2>4 DEF ImportInsert, Stores
  <1>4. CASE ConfWrite(t)
    <2>1. CASE job[t].op = "rotate"
      <3>1. Shape(job[t], "rapply")
        BY <1>0, <1>4, <2>1 DEF ConfWrite, Control, Shape
      <3>2. Goto(t, "rapply") \/ Unwind(t, <<"key", "psk", "kernel", "old">>)
        BY <1>4, <2>1 DEF ConfWrite, RollbackOf
      <3> QED
        BY <1>0, <1>4, <2>1, <3>1, <3>2, GotoControl, UnwindControl, UndoTuples
        DEF Steps, ConfWrite, Stores, stores
    <2>2. CASE job[t].op # "rotate"
      <3>1. job[t].op \in {"create", "batch"}
        BY <1>0, <1>4, <2>2 DEF ConfWrite, Control, Shape
      <3>2. \/ Return(t)
            \/ \E q \in {<<"fw", "db", "kernel">>, <<"db", "fw", "kernel">>} :
                  Unwind(t, q)
        BY <1>4, <2>2, <3>1 DEF ConfWrite, RollbackOf
      <3> QED
        BY <1>0, <1>4, <3>1, <3>2, ReturnControl, UnwindControl, UndoTuples
        DEF ConfWrite, Stores, stores
    <2> QED
      BY <2>1, <2>2
  <1> QED
    BY <1>1, <1>2, <1>3, <1>4 DEF Import

LEMMA FirstUndo ==
    ASSUME Control, NEW t \in Threads, pc[t] = "undo"
    PROVE  /\ Head(job[t].undo) = "fw" => job[t].op \in {"create", "batch"}
           /\ Head(job[t].undo) \in {"key", "psk", "old"} =>
                 /\ job[t].row \in Row
                 /\ job[t].new[1] \in Row
  <1>1. job[t].undo \in Seq(UndoSteps) /\ job[t].undo # <<>>
    BY DEF Control, Job, UndoSteps
  <1>2. 1 \in DOMAIN job[t].undo /\ Head(job[t].undo) = job[t].undo[1]
    BY <1>1
  <1>3. Shape(job[t], "undo") /\ job[t].new \in Seq(Row)
    BY DEF Control, Job
  <1>4. 1 \in DOMAIN job[t].new => job[t].new[1] \in Row
    BY <1>3
  <1> QED
    BY <1>2, <1>3, <1>4 DEF Shape

LEMMA UndoTypes ==
    ASSUME TypeInv, NEW t \in Threads, Undo(t)
    PROVE  Stores' /\ Control'
  <1> USE DEF Try, Unwinding
  <1>0. Control /\ Stores
    BY DEF TypeInv
  <1>1. Control'
    <2>1. pc[t] = "undo" /\ NextUndo(t)
      BY DEF Undo, UndoFirewall, UndoDB, UndoKernel, UndoKey, UndoPsk, UndoOld
    <2> QED
      BY <1>0, <2>1, NextUndoControl
  <1>2. CASE UndoFirewall(t)
    <2>1. \E rows : fw' = FwRemoveNew(fw, rows)
      BY <1>2 DEF UndoFirewall
    <2> QED
      BY <1>0, <1>1, <1>2, <2>1, FwRemoveNewType DEF UndoFirewall, Stores
  <1>3. CASE UndoDB(t)
    BY <1>0, <1>1, <1>3 DEF UndoDB, Stores, DeleteRows
  <1>4. CASE UndoKernel(t)
    BY <1>0, <1>1, <1>4, RemovePeersType DEF UndoKernel, Stores
  <1>5. CASE UndoKey(t)
    <2>1. job[t].row \in Row
      BY <1>0, <1>5, FirstUndo DEF UndoKey
    <2>2. \A r \in db : [r EXCEPT !.key = job[t].row.key] \in Row
      BY <1>0, <2>1 DEF Stores, Row
    <2>3. db' \in SUBSET Row
      BY <1>0, <1>5, <2>2 DEF UndoKey, UpdateRows, Stores
    <2> QED
      BY <1>0, <1>1, <1>5, <2>3 DEF UndoKey, Stores
  <1>6. CASE UndoPsk(t)
    <2>1. job[t].row \in Row
      BY <1>0, <1>6, FirstUndo DEF UndoPsk
    <2>2. \A r \in db : [r EXCEPT !.psk = job[t].row.psk] \in Row
      BY <1>0, <2>1 DEF Stores, Row
    <2>3. db' \in SUBSET Row
      BY <1>0, <1>6, <2>2 DEF UndoPsk, UpdateRows, Stores
    <2> QED
      BY <1>0, <1>1, <1>6, <2>3 DEF UndoPsk, Stores
  <1>7. CASE UndoOld(t)
    <2>1. job[t].row \in Row
      BY <1>0, <1>7, FirstUndo DEF UndoOld
    <2>2. /\ job[t].row.key \in Keys /\ job[t].row.psk \in Keys \cup {None}
          /\ IPsOf(job[t].row) \in SUBSET Hosts
      BY <2>1, IPsType DEF Row
    <2> QED
      BY <1>0, <1>1, <1>7, <2>2, ConfigurePeerType DEF UndoOld, Stores
  <1> QED
    BY <1>2, <1>3, <1>4, <1>5, <1>6, <1>7 DEF Undo

LEMMA FwCallType ==
    ASSUME TypeInv, NEW r \in Row,
           \/ Try("iptables", fw' = FwRemove(fw, r), UNCHANGED fw)
           \/ Try("iptables", fw' = FwApply(fw, r), UNCHANGED fw)
    PROVE  fw' \in Firewall
  BY FwRemoveType, FwApplyType DEF Try, TypeInv, Stores

LEMMA UpdateTypes ==
    ASSUME TypeInv, NEW t \in Threads, Update(t)
    PROVE  Stores' /\ Control'
  <1>0. Control /\ Stores
    BY DEF TypeInv
  <1>1. CASE UpdateKernel(t)
    <2>1. job[t].op = "update" /\ Shape(job[t], "utune")
      BY <1>0, <1>1 DEF UpdateKernel, Control, Shape
    <2>2. job[t].row.key \in Keys /\ {HostOf[job[t].req.addr]} \in SUBSET Hosts
      BY <1>0, <1>1, StoresAssumption DEF UpdateKernel, Control, Shape, Row
    <2>3. Control'
      BY <1>0, <1>1, <2>1, GotoControl, ReturnControl DEF UpdateKernel, Steps
    <2>4. kernel' \in KernelType
      BY <1>0, <1>1, <2>2, ConfigurePeerType DEF UpdateKernel, Stores
    <2> QED
      BY <1>0, <1>1, <2>3, <2>4 DEF UpdateKernel, Stores
  <1>2. CASE UpdateTune(t)
    <2>1. Shape(job[t], "udb") /\ job[t].row.key \in Keys
      BY <1>0, <1>2 DEF UpdateTune, Control, Shape, Row
    <2>2. Control'
      BY <1>0, <1>2, <2>1, GotoControl, ReturnControl DEF UpdateTune, Steps
    <2>3. kernel' \in KernelType
      BY <1>0, <1>2, <2>1, ConfigurePeerType DEF UpdateTune, Try, Stores
    <2> QED
      BY <1>0, <1>2, <2>2, <2>3 DEF UpdateTune, Stores
  <1>3. CASE UpdateDB(t)
    <2>1. /\ job[t].op = "update" /\ job[t].req \in UpdateReq
          /\ Shape(job[t], "ufw") \/ ~ Moves(t)
          /\ Shape(job[t], "reread")
      BY <1>0, <1>3 DEF UpdateDB, Control, Shape, Moves
    <2>2. Return(t) \/ (Moves(t) /\ Goto(t, "ufw")) \/ Goto(t, "reread")
      BY <1>3 DEF UpdateDB
    <2>3. Control'
      BY <1>0, <2>1, <2>2, GotoControl, ReturnControl DEF Steps
    <2>4. db' \in SUBSET Row
      <3> DEFINE q == job[t].req
                 addr(r) == IF q.addr = None THEN r.addr ELSE q.addr
                 ips(r) == IF Moves(t) THEN HostOf[q.addr] ELSE r.ips
                 allow(r) == IF q.allow = None THEN r.allow ELSE q.allow
                 enabled(r) == IF q.enable = "keep" THEN r.enabled
                                                    ELSE q.enable = "on"
                 set(r) == [r EXCEPT !.addr = addr(r), !.ips = ips(r),
                                     !.allow = allow(r), !.enabled = enabled(r)]
      <3>1. Moves(t) => HostOf[q.addr] \in Hosts
        BY <2>1, StoresAssumption DEF Moves, UpdateReq
      <3>2. ASSUME NEW r \in Row PROVE set(r) \in Row
        <4>1. addr(r) \in Addrs \cup {None} /\ ips(r) \in Hosts \cup {None}
          BY <2>1, <3>1 DEF UpdateReq, Row
        <4>2. allow(r) \in Allows \cup {None} /\ enabled(r) \in BOOLEAN
          BY <2>1 DEF UpdateReq, Row
        <4> HIDE DEF addr, ips, allow, enabled
        <4> QED
          BY <4>1, <4>2 DEF Row
      <3>3. db' = db \/ db' = {IF r.key = job[t].row.key THEN set(r) ELSE r :
                                r \in db}
        BY <1>3 DEF UpdateDB, UpdateRows
      <3> HIDE DEF set
      <3> QED
        BY <1>0, <3>2, <3>3 DEF Stores
    <2> QED
      BY <1>0, <1>3, <2>3, <2>4 DEF UpdateDB, Stores
  <1>4. CASE UpdateFirewall(t)
    <2>1. Shape(job[t], "reread") /\ job[t].row \in Row
      BY <1>0, <1>4 DEF UpdateFirewall, Control, Shape
    <2> QED
      BY <1>0, <1>4, <2>1, GotoControl, FwCallType
      DEF UpdateFirewall, Steps, Stores
  <1>5. CASE Reread(t)
    <2>1. CASE Return(t)
      BY <1>0, <1>5, <2>1, ReturnControl DEF Reread, Stores, stores
    <2>2. CASE ~ Return(t)
      <3>1. PICK r \in db : job' = [job EXCEPT ![t].row = r]
        BY <1>5, <2>2 DEF Reread
      <3> DEFINE j == [job[t] EXCEPT !.row = r]
      <3>2. job[t] \in Job /\ r \in Row /\ Shape(job[t], "reread")
        BY <1>0, <1>5 DEF Reread, Control, Stores
      <3>3. /\ j \in Job /\ j.row = r /\ j.op = job[t].op /\ j.req = job[t].req
            /\ job' = [job EXCEPT ![t] = j]
        BY <1>0, <3>1, <3>2 DEF Job, Control
      <3> HIDE DEF j
      <3>4. Shape(j, "apply")
        BY <3>2, <3>3 DEF Shape
      <3>5. pc' = [pc EXCEPT ![t] = "apply"] /\ mu' = mu
        BY <1>5, <2>2 DEF Reread
      <3>6. Control'
        BY <1>0, <3>3, <3>4, <3>5, JobControl DEF Steps, Control
      <3> QED
        BY <1>0, <1>5, <3>6 DEF Reread, Stores, stores
    <2> QED
      BY <2>1, <2>2
  <1>6. CASE ApplyReread(t)
    <2>1. job[t].row \in Row
      BY <1>0, <1>6 DEF ApplyReread, Control, Shape
    <2> QED
      BY <1>0, <1>6, <2>1, ReturnControl, FwCallType DEF ApplyReread, Stores
  <1> QED
    BY <1>1, <1>2, <1>3, <1>4, <1>5, <1>6 DEF Update

LEMMA RotateTypes ==
    ASSUME TypeInv, NEW t \in Threads, Rotate(t)
    PROVE  Stores' /\ Control'
  <1>0. Control /\ Stores
    BY DEF TypeInv
  <1>1. CASE RotateFirewall(t)
    <2>1. Shape(job[t], "rremove") /\ job[t].row \in Row
      BY <1>0, <1>1 DEF RotateFirewall, Control, Shape
    <2> QED
      BY <1>0, <1>1, <2>1, GotoControl, FwCallType
      DEF RotateFirewall, Steps, Stores
  <1>2. CASE RotateRemove(t)
    <2>1. Shape(job[t], "radd")
      BY <1>0, <1>2 DEF RotateRemove, Control, Shape
    <2>2. kernel' \in KernelType
      BY <1>0, <1>2, RemovePeersType DEF RotateRemove, Try, Stores
    <2> QED
      BY <1>0, <1>2, <2>1, <2>2, GotoControl DEF RotateRemove, Steps, Stores
  <1>3. CASE RotateAdd(t)
    <2>1. job[t].op = "rotate" /\ Shape(job[t], "rkey")
      BY <1>0, <1>3 DEF RotateAdd, Control, Shape
    <2>2. Goto(t, "rkey") \/ Unwind(t, <<"old">>)
      BY <1>3 DEF RotateAdd
    <2>3. Control'
      BY <1>0, <2>1, <2>2, GotoControl, UnwindControl, UndoTuples DEF Steps
    <2>4. kernel' \in KernelType
      BY <1>0, <1>3, NewRowsType, ConfigureNewType DEF RotateAdd, Stores
    <2> QED
      BY <1>0, <1>3, <2>3, <2>4 DEF RotateAdd, Stores
  <1>4. ASSUME RotateKey(t) \/ RotatePsk(t)
        PROVE  /\ job[t].op = "rotate" /\ job[t].new[1] \in Row
               /\ Shape(job[t], "conf") /\ Shape(job[t], "rpsk")
    <2>1. job[t].new \in Seq(Row) /\ 1 \in DOMAIN job[t].new
      BY <1>0, <1>4 DEF RotateKey, RotatePsk, Control, Shape, Job
    <2>2. job[t].new[1] \in Row
      BY <2>1
    <2> QED
      BY <1>0, <1>4, <2>2 DEF RotateKey, RotatePsk, Control, Shape
  <1>5. CASE RotateKey(t)
    <2>1. Goto(t, "conf") \/ Goto(t, "rpsk") \/ Unwind(t, <<"kernel", "old">>)
      BY <1>5 DEF RotateKey
    <2>2. Control'
      BY <1>0, <1>4, <1>5, <2>1, GotoControl, UnwindControl, UndoTuples
      DEF Steps
    <2>3. \A r \in db : [r EXCEPT !.key = job[t].new[1].key] \in Row
      BY <1>0, <1>4, <1>5 DEF Stores, Row
    <2>4. db' \in SUBSET Row
      BY <1>0, <1>5, <2>3 DEF RotateKey, UpdateRows, Stores
    <2> QED
      BY <1>0, <1>5, <2>2, <2>4 DEF RotateKey, Stores
  <1>6. CASE RotatePsk(t)
    <2>1. Goto(t, "conf") \/ Unwind(t, <<"key", "kernel", "old">>)
      BY <1>6 DEF RotatePsk
    <2>2. Control'
      BY <1>0, <1>4, <1>6, <2>1, GotoControl, UnwindControl, UndoTuples
      DEF Steps
    <2>3. \A r \in db : [r EXCEPT !.psk = job[t].new[1].psk] \in Row
      BY <1>0, <1>4, <1>6 DEF Stores, Row
    <2>4. db' \in SUBSET Row
      BY <1>0, <1>6, <2>3 DEF RotatePsk, UpdateRows, Stores
    <2> QED
      BY <1>0, <1>6, <2>2, <2>4 DEF RotatePsk, Stores
  <1>7. CASE RotateApply(t)
    <2>1. job[t].new \in Seq(Row) /\ 1 \in DOMAIN job[t].new
      BY <1>0, <1>7 DEF RotateApply, Control, Shape, Job
    <2>2. job[t].new[1] \in Row
      BY <2>1
    <2> QED
      BY <1>0, <1>7, <2>2, ReturnControl, FwCallType DEF RotateApply, Stores
  <1> QED
    BY <1>1, <1>2, <1>3, <1>5, <1>6, <1>7 DEF Rotate

LEMMA ApproveTypes ==
    ASSUME TypeInv, NEW t \in Threads, Approve(t)
    PROVE  Stores' /\ Control'
  <1>0. Control /\ Stores
    BY DEF TypeInv
  <1>1. /\ job[t].op = "approve" /\ job[t].row \in Row
        /\ job[t].req \in UpdateReq /\ job[t].req.addr \in Addrs
        /\ Shape(job[t], "aflag") /\ Shape(job[t], "akernel")
        /\ Shape(job[t], "reread")
    BY <1>0 DEF Approve, ApproveDB, ApproveFlag, ApproveKernel, Control, Shape
  <1>2. HostOf[job[t].req.addr] \in Hosts
    BY <1>1, StoresAssumption
  <1>3. CASE ApproveDB(t)
    <2>1. Control'
      BY <1>0, <1>1, <1>3, GotoControl, ReturnControl DEF ApproveDB, Steps
    <2> DEFINE set(r) == [r EXCEPT !.addr = job[t].req.addr,
                                   !.ips = HostOf[job[t].req.addr],
                                   !.allow = job[t].req.allow, !.enabled = TRUE]
    <2>2. \A r \in Row : set(r) \in Row
      BY <1>1, <1>2 DEF UpdateReq, Row
    <2>3. db' = db \/ db' = {IF r.key = job[t].row.key THEN set(r) ELSE r :
                              r \in db}
      BY <1>3 DEF ApproveDB, UpdateRows
    <2> HIDE DEF set
    <2>4. db' \in SUBSET Row
      BY <1>0, <2>2, <2>3 DEF Stores
    <2> QED
      BY <1>0, <1>3, <2>1, <2>4 DEF ApproveDB, Stores
  <1>4. CASE ApproveFlag(t)
    <2>1. Control'
      BY <1>0, <1>1, <1>4, GotoControl, ReturnControl DEF ApproveFlag, Steps
    <2> DEFINE set(r) == [r EXCEPT !.enabled = TRUE, !.auto = FALSE]
    <2>2. \A r \in Row : set(r) \in Row
      BY DEF Row
    <2>3. db' = db \/ db' = {IF r.key = job[t].row.key THEN set(r) ELSE r :
                              r \in db}
      BY <1>4 DEF ApproveFlag, UpdateRows
    <2> HIDE DEF set
    <2>4. db' \in SUBSET Row
      BY <1>0, <2>2, <2>3 DEF Stores
    <2> QED
      BY <1>0, <1>4, <2>1, <2>4 DEF ApproveFlag, Stores
  <1>5. CASE ApproveKernel(t)
    <2>1. job[t].row.key \in Keys
      BY <1>1 DEF Row
    <2>2. kernel' \in KernelType
      BY <1>0, <1>2, <1>5, <2>1, ConfigurePeerType
      DEF ApproveKernel, Try, Stores
    <2> QED
      BY <1>0, <1>1, <1>5, <2>2, GotoControl DEF ApproveKernel, Steps, Stores
  <1> QED
    BY <1>3, <1>4, <1>5 DEF Approve

LEMMA DeleteTypes ==
    ASSUME TypeInv, NEW t \in Threads, Delete(t)
    PROVE  Stores' /\ Control'
  <1>0. Control /\ Stores
    BY DEF TypeInv
  <1>1. job[t].row \in Row /\ Shape(job[t], "ddb") /\ Shape(job[t], "dfw")
    BY <1>0 DEF Delete, DeleteKernel, DeleteDB, DeleteFirewall, Control, Shape
  <1>2. CASE DeleteKernel(t)
    <2>1. kernel' \in KernelType
      BY <1>0, <1>2, RemovePeersType DEF DeleteKernel, Try, Stores
    <2> QED
      BY <1>0, <1>1, <1>2, <2>1, GotoControl DEF DeleteKernel, Steps, Stores
  <1>3. CASE DeleteDB(t)
    <2>1. Control'
      BY <1>0, <1>1, <1>3, GotoControl, ReturnControl DEF DeleteDB, Steps
    <2> QED
      BY <1>0, <1>3, <2>1 DEF DeleteDB, DeleteRows, Stores
  <1>4. CASE DeleteFirewall(t)
    BY <1>0, <1>1, <1>4, ReturnControl, FwCallType DEF DeleteFirewall, Stores
  <1> QED
    BY <1>2, <1>3, <1>4 DEF Delete

(* The reconciler, the environment and the start.  *)

LEMMA RowOfKey ==
    ASSUME NEW rows \in SUBSET Row, NEW k, HasKey(rows, k)
    PROVE  RowOf(rows, k) \in rows /\ RowOf(rows, k).key = k
  BY DEF RowOf, HasKey

LEMMA EnabledHasKey ==
    ASSUME NEW rows \in SUBSET Row
    PROVE  /\ EnabledKeys(rows) \in SUBSET Keys
           /\ \A k \in EnabledKeys(rows) : HasKey(rows, k)
  BY DEF EnabledKeys, HasKey, Row

LEMMA ReconcileTypes ==
    ASSUME TypeInv, Reconcile
    PROVE  TypeInv'
  <1> USE DEF Fault
  <1>0. /\ Stores /\ RecShape /\ Rest
        /\ rec \in RecState
        /\ {"fault", "iptables"} \subseteq EnvKinds
    BY DEF TypeInv, RecShape, EnvKinds
  <1>1. Control' /\ used' = used
    BY DEF TypeInv, Reconcile, RecDevice, RecList, RecRemove,
       RecZombieFirewall, RecUpsert, RecMissing, RecReadd, RecReaddFirewall,
       RecDone, RecVars, Control
  <1>2. IdleRec \in RecState /\ IdleRec.pc = "idle"
    BY DEF IdleRec, RecState
  <1>3. Rest'
    <2>1. budget' \in [EnvKinds -> Nat]
      BY <1>0, SpendType DEF Rest, Try, Reconcile, RecDevice, RecList,
         RecRemove, RecZombieFirewall, RecUpsert, RecMissing, RecReadd,
         RecReaddFirewall, RecDone
    <2>2. phase' \in {"boot", "sync", "up"}
      BY <1>0 DEF Rest, Reconcile, RecDevice, RecList, RecRemove, RecReturn,
         RecZombieFirewall, RecUpsert, RecMissing, RecReadd, RecReaddFirewall,
         RecDone
    <2> QED
      BY <1>0, <1>1, <2>1, <2>2 DEF Rest
  <1>4. CASE RecDevice
    <2>1. RecShape'
      BY <1>0, <1>4 DEF RecDevice, RecShape, RecState, KernelKeys
    <2> QED
      BY <1>0, <1>1, <1>3, <1>4, <2>1 DEF TypeInv, RecDevice, Stores, stores
  <1>5. CASE RecList
    <2>1. RecShape'
      BY <1>0, <1>2, <1>5 DEF RecList, RecReturn, RecShape, RecState, Stores
    <2> QED
      BY <1>0, <1>1, <1>3, <1>5, <2>1 DEF TypeInv, RecList, Stores, stores
  <1>6. CASE RecRemove
    <2>1. RecShape'
      BY <1>0, <1>6 DEF RecRemove, RecShape, RecState
    <2>2. kernel' \in KernelType
      BY <1>0, <1>6, RemovePeersType DEF RecRemove, Try, Stores
    <2> QED
      BY <1>0, <1>1, <1>3, <1>6, <2>1, <2>2 DEF TypeInv, RecRemove, Stores
  <1>7. CASE RecZombieFirewall
    <2>1. RecShape'
      BY <1>0, <1>7 DEF RecZombieFirewall, RecShape, RecState
    <2>2. RowOf(rec.rows, rec.cur) \in Row
      BY <1>0, <1>7, RowOfKey DEF RecZombieFirewall, RecShape, RecState
    <2> QED
      BY <1>0, <1>1, <1>3, <1>7, <2>1, <2>2, FwCallType
      DEF TypeInv, RecZombieFirewall, Stores
  <1>8. CASE RecUpsert
    <2>1. RecShape'
      BY <1>0, <1>8 DEF RecUpsert, RecShape, RecState
    <2>2. QuarantineRow(lastId, rec.cur) \in Row
      BY <1>0, <1>8, QuarantineRowType DEF RecUpsert, RecShape, Stores
    <2>3. db' \in SUBSET Row /\ lastId' \in Nat
      BY <1>0, <1>8, <2>2 DEF RecUpsert, Stores
    <2> QED
      BY <1>0, <1>1, <1>3, <1>8, <2>1, <2>3 DEF TypeInv, RecUpsert, Stores
  <1>9. CASE RecMissing
    <2>1. RecShape'
      BY <1>0, <1>9, EnabledHasKey DEF RecMissing, RecShape, RecState
    <2> QED
      BY <1>0, <1>1, <1>3, <1>9, <2>1 DEF TypeInv, RecMissing, Stores, stores
  <1>10. CASE RecReadd
    <2>1. PICK k \in rec.todo :
             /\ \/ kernel' = ConfigurePeer(kernel, k, IPsOf(RowOf(rec.rows, k)),
                                           RowOf(rec.rows, k).psk, FALSE)
                \/ UNCHANGED kernel
             /\ \/ rec' = [rec EXCEPT !.pc = "readded", !.cur = k]
                \/ rec' = [rec EXCEPT !.todo = @ \ {k}]
      BY <1>10 DEF RecReadd
    <2>2. k \in Keys /\ HasKey(rec.rows, k)
      BY <1>0, <1>10 DEF RecReadd, RecShape, RecState
    <2>3. RecShape'
      BY <1>0, <1>10, <2>1, <2>2 DEF RecReadd, RecShape, RecState
    <2>4. RowOf(rec.rows, k) \in Row
      BY <1>0, <2>2, RowOfKey DEF RecState
    <2>5. /\ IPsOf(RowOf(rec.rows, k)) \in SUBSET Hosts
          /\ RowOf(rec.rows, k).psk \in Keys \cup {None}
      BY <2>4, IPsType DEF Row
    <2>6. kernel' \in KernelType
      <3>1. kernel \in KernelType
        BY <1>0 DEF Stores
      <3>2. ConfigurePeer(kernel, k, IPsOf(RowOf(rec.rows, k)),
                          RowOf(rec.rows, k).psk, FALSE) \in KernelType
        BY <2>2, <2>5, <3>1, ConfigurePeerType
      <3> QED
        BY <2>1, <3>1, <3>2
    <2> QED
      BY <1>0, <1>1, <1>3, <1>10, <2>3, <2>6 DEF TypeInv, RecReadd, Stores
  <1>11. CASE RecReaddFirewall
    <2>1. RecShape'
      BY <1>0, <1>11 DEF RecReaddFirewall, RecShape, RecState
    <2>2. RowOf(rec.rows, rec.cur) \in Row
      BY <1>0, <1>11, RowOfKey DEF RecReaddFirewall, RecShape, RecState
    <2> QED
      BY <1>0, <1>1, <1>3, <1>11, <2>1, <2>2, FwCallType
      DEF TypeInv, RecReaddFirewall, Stores
  <1>12. CASE RecDone
    <2>1. RecShape'
      BY <1>2, <1>12 DEF RecDone, RecReturn, RecShape
    <2> QED
      BY <1>0, <1>1, <1>3, <1>12, <2>1 DEF TypeInv, RecDone, Stores, stores
  <1> QED
    BY <1>4, <1>5, <1>6, <1>7, <1>8, <1>9, <1>10, <1>11, <1>12 DEF Reconcile

LEMMA FirewallSyncTypes ==
    ASSUME TypeInv, FirewallSync
    PROVE  TypeInv'
  <1>1. fw' \in Firewall
    BY FwSyncType DEF TypeInv, FirewallSync, Try, Stores
  <1>2. budget' \in [EnvKinds -> Nat]
    BY SpendType DEF TypeInv, FirewallSync, Try, Rest, EnvKinds
  <1> QED
    BY <1>1, <1>2
    DEF TypeInv, FirewallSync, RecVars, Stores, Control, RecShape, Rest

LEMMA EnvironmentTypes ==
    ASSUME TypeInv, Environment
    PROVE  TypeInv'
  <1>0. {"foreign", "crash"} \subseteq EnvKinds /\ Stores /\ Control /\ Rest
    BY DEF EnvKinds, TypeInv
  <1>1. CASE ForeignAdd
    <2>1. PICK k \in Keys \ used, h \in Hosts :
             /\ kernel' = ConfigurePeer(kernel, k, {h}, None, FALSE)
             /\ used' = used \cup {k}
      BY <1>1 DEF ForeignAdd
    <2>2. kernel' \in KernelType
      BY <1>0, <2>1, ConfigurePeerType DEF Stores
    <2>3. budget' \in [EnvKinds -> Nat]
      BY <1>0, <1>1, SpendType DEF ForeignAdd, Rest
    <2> QED
      BY <1>0, <1>1, <2>1, <2>2, <2>3
      DEF ForeignAdd, TypeInv, Stores, Control, RecShape, Rest
  <1>2. CASE ForeignRemove
    <2>1. kernel' \in KernelType
      BY <1>0, <1>2, RemovePeersType DEF ForeignRemove, Stores
    <2>2. budget' \in [EnvKinds -> Nat]
      BY <1>0, <1>2, SpendType DEF ForeignRemove, Rest
    <2> QED
      BY <1>0, <1>2, <2>1, <2>2
      DEF ForeignRemove, TypeInv, Stores, Control, RecShape, Rest
  <1>3. CASE Crash
    <2>1. budget' \in [EnvKinds -> Nat]
      BY <1>0, <1>3, SpendType DEF Crash, Rest
    <2>2. Control'
      BY <1>3, NoJobType DEF Crash, Control, Steps
    <2>3. RecShape'
      BY <1>3 DEF Crash, RecShape, IdleRec, RecState
    <2> QED
      BY <1>0, <1>3, <2>1, <2>2, <2>3 DEF Crash, TypeInv, Stores, stores, Rest
  <1> QED
    BY <1>1, <1>2, <1>3 DEF Environment

LEMMA InitTypes == Init => TypeInv
  <1> SUFFICES ASSUME Init PROVE TypeInv
    OBVIOUS
  <1>1. InitRows \in SUBSET Row /\ Cardinality(InitRows) \in Nat
    BY AgentAssumption, FS_CardinalityType
  <1>2. kernel \in KernelType
    <2>1. ASSUME NEW k \in EnabledKeys(InitRows)
          PROVE  [ips |-> IPsOf(RowOf(InitRows, k)),
                  psk |-> RowOf(InitRows, k).psk] \in KernelPeer
      <3>1. RowOf(InitRows, k) \in Row
        BY <1>1, EnabledHasKey, RowOfKey
      <3> QED
        BY <3>1, IPsType DEF KernelPeer, Row
    <2> QED
      BY <2>1 DEF Init, KernelType
  <1>3. fw \in Firewall
    <2>1. [chain |-> [k \in Keys |-> None], jumps |-> {}] \in Firewall
      BY DEF Firewall
    <2> QED
      BY <1>1, <2>1, FwSyncType DEF Init
  <1>4. Stores
    BY <1>1, <1>2, <1>3 DEF Init, Stores
  <1>5. Control
    BY NoJobType DEF Init, Control, Steps
  <1>6. RecShape
    BY DEF Init, RecShape, IdleRec, RecState
  <1>7. Rest
    <2>1. used \in SUBSET Keys
      BY <1>1 DEF Init, Row
    <2> QED
      BY <2>1, AgentAssumption DEF Init, Rest
  <1> QED
    BY <1>4, <1>5, <1>6, <1>7 DEF TypeInv

LEMMA TypeStep == TypeInv /\ [Next]_vars => TypeInv'
  <1> SUFFICES ASSUME TypeInv, [Next]_vars PROVE TypeInv'
    OBVIOUS
  <1>1. CASE UNCHANGED vars
    BY <1>1 DEF vars, stores, TypeInv, Stores, Control, RecShape, Rest
  <1>2. ASSUME NEW t \in Threads, Request(t) PROVE TypeInv'
    BY <1>2, RequestTypes
  <1>3. ASSUME NEW t \in Threads, Handler(t) PROVE TypeInv'
    BY <1>3, HandlerFrame, ImportTypes, UndoTypes, UpdateTypes, RotateTypes,
       ApproveTypes, DeleteTypes DEF Handler, TypeInv
  <1> QED
    BY <1>1, <1>2, <1>3, PauseTypes, ReconcileTypes, FirewallSyncTypes,
       EnvironmentTypes DEF Next

(* Every handler, the reconciler, the start-up and the environment keep      *)
(* every variable in its type, for any keys, threads, rows and budgets.      *)
THEOREM TypeCorrect == Spec => []TypeOK
  BY InitTypes, TypeStep, TypeInvImplies, PTL DEF Spec

-----------------------------------------------------------------------------
(* Pause keeps a pass and the handlers apart.  When only handlers that pause *)
(* are called, a handler that has left "pause" owns the lock, so that a      *)
(* running pass is alone with the database; what it decides then stays true, *)
(* because the only rows it adds itself are disabled and of keys it has done *)
(* with.                                                                     *)

OnlyPausing == Ops \subseteq {"batch", "delete", "reconcile"}

Locked == /\ \A t \in Threads : pc[t] \in {"idle", "pause"} \/ mu = t
          /\ mu # None => rec.pc = "idle"

\* The pass has its snapshot rec.rows of the table.
Snapshot ==
    /\ rec.rows \subseteq db
    /\ \A r \in db : r \in rec.rows \/ ~ r.enabled

\* Step 1 of the pass: a key still to visit has no enabled row in the snapshot,
\* and no row outside it.
Visiting ==
    /\ \A r \in db : r \in rec.rows \/ r.key \notin rec.todo
    /\ rec.todo \cap EnabledKeys(rec.rows) = {}
    /\ rec.pc \in {"zombie", "unknown"} => rec.cur \in rec.todo
    /\ rec.pc = "zombie"  => HasKey(rec.rows, rec.cur)
    /\ rec.pc = "unknown" => ~ HasKey(rec.rows, rec.cur)

\* Step 2: the keys to re-add are enabled in the snapshot.
Readding ==
    /\ rec.todo \subseteq EnabledKeys(rec.rows)
    /\ rec.pc = "readded" => rec.cur \in EnabledKeys(rec.rows)

PassInv == /\ rec.pc \notin {"idle", "list"} => Snapshot
           /\ rec.pc \in {"kernel", "zombie", "unknown"} => Visiting
           /\ rec.pc \in {"missing", "readded"} => Readding

LEMMA PassInvImplies ==
    ASSUME TypeInv, PassInv
    PROVE  PassMatchesDB
  <1>1. ASSUME rec.pc = "readded" PROVE rec.cur \in EnabledKeys(db)
    BY <1>1 DEF PassInv, Snapshot, Readding, EnabledKeys
  <1>2. ASSUME rec.pc = "zombie"
        PROVE  HasKey(db, rec.cur) /\ rec.cur \notin EnabledKeys(db)
    BY <1>2 DEF PassInv, Snapshot, Visiting, EnabledKeys, HasKey
  <1>3. ASSUME rec.pc = "unknown" PROVE ~ HasKey(db, rec.cur)
    BY <1>3 DEF PassInv, Visiting, HasKey
  <1> QED
    BY <1>1, <1>2, <1>3 DEF PassMatchesDB

\* A request of a handler that pauses goes to "pause" and touches no store.
LEMMA RequestPauses ==
    ASSUME OnlyPausing, NEW t \in Threads, Request(t)
    PROVE  /\ pc' = [pc EXCEPT ![t] = "pause"]
           /\ UNCHANGED <<db, mu, rec>>
  <1> USE DEF OnlyPausing, Accept, Locals, stores
  <1>1. ~ CreatePeer(t)
    BY DEF CreatePeer
  <1>2. ~ UpdatePeer(t)
    BY DEF UpdatePeer
  <1>3. ~ RotateKeys(t)
    BY DEF RotateKeys
  <1>4. ~ ApprovePeer(t)
    BY DEF ApprovePeer
  <1>5. CASE BatchCreatePeers(t)
    BY <1>5 DEF BatchCreatePeers
  <1>6. CASE DeletePeer(t)
    BY <1>6 DEF DeletePeer
  <1> QED
    BY <1>1, <1>2, <1>3, <1>4, <1>5, <1>6 DEF Request

\* A step of a handler: it was past "pause", and it moves no other handler.
LEMMA HandlerSteps ==
    ASSUME TypeInv, NEW t \in Threads, Handler(t)
    PROVE  /\ pc[t] \notin {"idle", "pause"}
           /\ \A s \in Threads \ {t} : pc'[s] = pc[s]
           /\ mu' = mu \/ (mu' = None /\ pc'[t] = "idle")
           /\ rec' = rec
  <1>0. pc \in [Threads -> Steps]
    BY DEF TypeInv, Control
  <1>1. \/ pc' = pc /\ mu' = mu
        \/ \E q : pc' = [pc EXCEPT ![t] = q] /\ mu' = mu
        \/ Return(t)
    <2> USE DEF Goto, Unwind
    <2>1. CASE Import(t)
      BY <2>1
      DEF Import, ImportFirewall, ImportKernel, ImportInsert, ConfWrite
    <2>2. CASE Undo(t)
      BY <2>2 DEF Undo, UndoFirewall, UndoDB, UndoKernel, UndoKey, UndoPsk,
         UndoOld, NextUndo
    <2>3. CASE Update(t)
      BY <2>3 DEF Update, UpdateKernel, UpdateTune, UpdateDB, UpdateFirewall,
         Reread, ApplyReread
    <2>4. CASE Rotate(t)
      BY <2>4 DEF Rotate, RotateFirewall, RotateRemove, RotateAdd, RotateKey,
         RotatePsk, RotateApply
    <2>5. CASE Approve(t) \/ Delete(t)
      BY <2>5 DEF Approve, ApproveDB, ApproveFlag, ApproveKernel, Delete,
         DeleteKernel, DeleteDB, DeleteFirewall
    <2> QED
      BY <2>1, <2>2, <2>3, <2>4, <2>5 DEF Handler
  <1>2. pc[t] \notin {"idle", "pause"} /\ rec' = rec
    BY DEF Handler, Import, ImportFirewall, ImportKernel, ImportInsert,
       ConfWrite, Undo, Unwinding, UndoFirewall, UndoDB, UndoKernel, UndoKey,
       UndoPsk, UndoOld, Update, UpdateKernel, UpdateTune, UpdateDB,
       UpdateFirewall, Reread, ApplyReread, Rotate, RotateFirewall,
       RotateRemove, RotateAdd, RotateKey, RotatePsk, RotateApply, Approve,
       ApproveDB, ApproveFlag, ApproveKernel, Delete, DeleteKernel, DeleteDB,
       DeleteFirewall
  <1> QED
    BY <1>0, <1>1, <1>2 DEF Return

LEMMA LockedStep ==
    ASSUME OnlyPausing, TypeInv, Locked, [Next]_vars
    PROVE  Locked'
  <1>0. pc \in [Threads -> Steps] /\ rec \in RecState
    BY DEF TypeInv, Control, RecShape
  <1>1. ASSUME NEW t \in Threads, Request(t) PROVE Locked'
    BY <1>0, <1>1, RequestPauses DEF Locked
  <1>2. ASSUME NEW t \in Threads, Pause(t) PROVE Locked'
    <2>1. None \notin Threads
      BY AgentAssumption
    <2>2. \A s \in Threads \ {t} : pc'[s] = pc[s] /\ pc[s] \in {"idle", "pause"}
      BY <1>0, <1>2, <2>1 DEF Locked, Pause
    <2> QED
      BY <1>2, <2>2 DEF Locked, Pause
  <1>3. ASSUME NEW t \in Threads, Handler(t) PROVE Locked'
    BY <1>3, HandlerSteps DEF Locked
  <1>4. CASE Reconcile
    <2>1. UNCHANGED <<pc, mu>>
      BY <1>4 DEF Reconcile, RecDevice, RecList, RecRemove, RecZombieFirewall,
         RecUpsert, RecMissing, RecReadd, RecReaddFirewall, RecDone, RecVars
    <2>2. mu = None
      BY <1>4 DEF Reconcile, RecDevice, RecList, RecRemove, RecZombieFirewall,
         RecUpsert, RecMissing, RecReadd, RecReaddFirewall, RecDone, Locked
    <2> QED
      BY <2>1, <2>2 DEF Locked
  <1>5. CASE FirewallSync
    BY <1>5 DEF FirewallSync, RecVars, Locked
  <1>6. CASE Environment
    BY <1>6 DEF Environment, ForeignAdd, ForeignRemove, Crash, IdleRec, Locked
  <1>7. CASE UNCHANGED vars
    BY <1>7 DEF vars, Locked
  <1> QED
    BY <1>1, <1>2, <1>3, <1>4, <1>5, <1>6, <1>7 DEF Next

LEMMA PassStep ==
    ASSUME OnlyPausing, TypeInv, Locked, PassInv, [Next]_vars
    PROVE  PassInv'
  <1>0. rec \in RecState /\ db \in SUBSET Row
    BY DEF TypeInv, RecShape, Stores
  <1>a. ASSUME UNCHANGED <<db, rec>> PROVE PassInv'
    BY <1>a DEF PassInv, Snapshot, Visiting, Readding
  <1>b. ASSUME rec'.pc \in {"idle", "list"} PROVE PassInv'
    BY <1>b DEF PassInv
  <1>1. ASSUME NEW t \in Threads, Request(t) PROVE PassInv'
    BY <1>1, <1>a, RequestPauses
  <1>2. ASSUME NEW t \in Threads, Pause(t) PROVE PassInv'
    BY <1>2, <1>a DEF Pause, stores
  <1>3. ASSUME NEW t \in Threads, Handler(t) PROVE PassInv'
    <2>1. pc[t] \notin {"idle", "pause"} /\ rec' = rec
      BY <1>3, HandlerSteps
    <2>2. rec.pc = "idle"
      BY <2>1, AgentAssumption DEF Locked
    <2> QED
      BY <1>b, <2>1, <2>2
  <1>4. CASE RecDevice
    BY <1>0, <1>4, <1>b DEF RecDevice, RecState
  <1>5. CASE RecList
    <2>1. CASE rec' = IdleRec
      BY <1>b, <2>1 DEF IdleRec
    <2>2. CASE rec' # IdleRec
      <3>1. /\ rec' = [rec EXCEPT !.pc = "kernel", !.rows = db,
                                  !.todo = rec.kset \ EnabledKeys(db)]
            /\ db' = db
        BY <1>5, <2>2 DEF RecList, RecReturn, stores
      <3>2. /\ rec'.pc = "kernel" /\ rec'.rows = db
            /\ rec'.todo = rec.kset \ EnabledKeys(db)
        BY <1>0, <3>1 DEF RecState
      <3> QED
        BY <3>1, <3>2 DEF PassInv, Snapshot, Visiting
    <2> QED
      BY <2>1, <2>2
  <1>6. CASE RecRemove
    <2>1. PICK k \in rec.todo :
             rec' = [rec EXCEPT !.cur = k,
                       !.pc = IF HasKey(rec.rows, k) THEN "zombie"
                                                     ELSE "unknown"]
      BY <1>6 DEF RecRemove
    <2>2. /\ db' = db /\ rec.pc = "kernel"
          /\ rec'.rows = rec.rows /\ rec'.todo = rec.todo /\ rec'.cur = k
          /\ rec'.pc = IF HasKey(rec.rows, k) THEN "zombie" ELSE "unknown"
      BY <1>0, <1>6, <2>1 DEF RecRemove, RecState
    <2> QED
      BY <2>2 DEF PassInv, Snapshot, Visiting
  <1>7. CASE RecZombieFirewall
    <2>1. /\ db' = db /\ rec.pc = "zombie" /\ rec'.pc = "kernel"
          /\ rec'.rows = rec.rows /\ rec'.todo = rec.todo \ {rec.cur}
      BY <1>0, <1>7 DEF RecZombieFirewall, RecState
    <2> QED
      BY <2>1 DEF PassInv, Snapshot, Visiting
  <1>8. CASE RecUpsert
    <2>1. /\ rec.pc = "unknown" /\ rec'.pc = "kernel"
          /\ rec'.rows = rec.rows /\ rec'.todo = rec.todo \ {rec.cur}
          /\ \/ db' = db
             \/ db' = db \cup {QuarantineRow(lastId, rec.cur)}
      BY <1>0, <1>8 DEF RecUpsert, RecState
    <2>2. /\ ~ QuarantineRow(lastId, rec.cur).enabled
          /\ QuarantineRow(lastId, rec.cur).key = rec.cur
      BY DEF QuarantineRow
    <2> QED
      BY <2>1, <2>2 DEF PassInv, Snapshot, Visiting
  <1>9. CASE RecMissing
    <2>1. /\ db' = db /\ rec.pc = "kernel" /\ rec'.pc = "missing"
          /\ rec'.rows = rec.rows
          /\ rec'.todo = EnabledKeys(rec.rows) \ rec.kset
      BY <1>0, <1>9 DEF RecMissing, RecState, stores
    <2> QED
      BY <2>1 DEF PassInv, Snapshot, Readding
  <1>10. CASE RecReadd
    <2>1. PICK k \in rec.todo :
             \/ rec' = [rec EXCEPT !.pc = "readded", !.cur = k]
             \/ rec' = [rec EXCEPT !.todo = @ \ {k}]
      BY <1>10 DEF RecReadd
    <2>2. /\ db' = db /\ rec.pc = "missing" /\ rec'.rows = rec.rows
          /\ \/ rec'.pc = "readded" /\ rec'.cur = k /\ rec'.todo = rec.todo
             \/ rec'.pc = "missing" /\ rec'.todo = rec.todo \ {k}
      BY <1>0, <1>10, <2>1 DEF RecReadd, RecState
    <2> QED
      BY <2>2 DEF PassInv, Snapshot, Readding
  <1>11. CASE RecReaddFirewall
    <2>1. /\ db' = db /\ rec.pc = "readded" /\ rec'.pc = "missing"
          /\ rec'.rows = rec.rows /\ rec'.todo = rec.todo \ {rec.cur}
      BY <1>0, <1>11 DEF RecReaddFirewall, RecState
    <2> QED
      BY <2>1 DEF PassInv, Snapshot, Readding
  <1>12. CASE RecDone
    BY <1>12, <1>b DEF RecDone, RecReturn, IdleRec
  <1>13. CASE FirewallSync
    BY <1>13, <1>a DEF FirewallSync
  <1>14. CASE ForeignAdd \/ ForeignRemove
    BY <1>14, <1>a DEF ForeignAdd, ForeignRemove
  <1>15. CASE Crash
    BY <1>15, <1>b DEF Crash, IdleRec
  <1>16. CASE UNCHANGED vars
    BY <1>16, <1>a DEF vars, stores
  <1> QED
    BY <1>1, <1>2, <1>3, <1>4, <1>5, <1>6, <1>7, <1>8, <1>9, <1>10, <1>11,
       <1>12, <1>13, <1>14, <1>15, <1>16 DEF Next, Reconcile, Environment

(* When every handler that is called pauses the reconciler (a batch import   *)
(* and a deletion do), what a pass decided from its snapshots still holds of *)
(* the table when it acts: for any number of goroutines and peers, with      *)
(* failing calls, peers set by hand and crashes.                             *)
THEOREM PauseProtectsPass ==
    ASSUME OnlyPausing
    PROVE  Spec => []PassMatchesDB
  <1>1. Init => TypeInv /\ Locked /\ PassInv
    <2>1. ASSUME Init PROVE Locked /\ PassInv
      BY <2>1 DEF Init, IdleRec, Locked, PassInv
    <2> QED
      BY <2>1, InitTypes
  <1>2. TypeInv /\ Locked /\ PassInv /\ [Next]_vars
           => (TypeInv /\ Locked /\ PassInv)'
    BY TypeStep, LockedStep, PassStep
  <1>3. TypeInv /\ PassInv => PassMatchesDB
    BY PassInvImplies
  <1> QED
    BY <1>1, <1>2, <1>3, PTL DEF Spec
=============================================================================
