-------------------------- MODULE AgentStoreProofs --------------------------
(***************************************************************************)
(* Theorems about what the start-up, the passes and the requests of Agent  *)
(* leave in the three stores: a start-up pass makes the kernel agree with  *)
(* the table, a pass never sees an import under way, and an import is      *)
(* confined while it lives and leaves nothing when it fails.               *)
(***************************************************************************)
EXTENDS AgentProofs

-----------------------------------------------------------------------------
(* Which peers the calls on the device leave in it.                         *)

LEMMA StripNone ==
    ASSUME NEW p \in KernelPeer \cup {None}, NEW hs
    PROVE  Strip(p, hs) = None <=> p = None
  <1>1. CASE p = None
    BY <1>1 DEF Strip
  <1>2. CASE p # None
    <2>1. p \in KernelPeer /\ Strip(p, hs) = [p EXCEPT !.ips = p.ips \ hs]
      BY <1>2 DEF Strip
    <2>2. Strip(p, hs) \in KernelPeer
      BY <2>1 DEF KernelPeer
    <2> QED
      BY <1>2, <2>2, AbsentAssumption
  <1> QED
    BY <1>1, <1>2

LEMMA KeysRemoved ==
    ASSUME NEW K \in KernelType, NEW ks
    PROVE  KernelKeys(RemovePeers(K, ks)) = KernelKeys(K) \ ks
  BY DEF KernelKeys, RemovePeers, KernelType

LEMMA KeysConfigured ==
    ASSUME NEW K \in KernelType, NEW k \in Keys, NEW hs \in SUBSET Hosts,
           NEW psk \in Keys \cup {None}, NEW replace \in BOOLEAN
    PROVE  KernelKeys(ConfigurePeer(K, k, hs, psk, replace))
             = KernelKeys(K) \cup {k}
  <1> DEFINE C == ConfigurePeer(K, k, hs, psk, replace)
             old == IF K[k] = None THEN [ips |-> {}, psk |-> None] ELSE K[k]
             new == [ips |-> IF replace THEN hs ELSE old.ips \cup hs,
                     psk |-> IF psk = None THEN old.psk ELSE psk]
  <1>1. C \in KernelType
    BY ConfigurePeerType
  <1>2. old \in KernelPeer
    BY DEF KernelType, KernelPeer
  <1>3. old.ips \in SUBSET Hosts /\ old.psk \in Keys \cup {None}
    BY <1>2 DEF KernelPeer
  <1>4. C = [j \in Keys |-> IF j = k THEN new ELSE Strip(K[j], hs)]
    BY DEF ConfigurePeer
  <1> HIDE DEF C, old
  <1>5. new \in KernelPeer
    BY <1>3 DEF KernelPeer
  <1> HIDE DEF new
  <1>6. C[k] # None
    BY <1>4, <1>5, AbsentAssumption
  <1>7. \A j \in Keys \ {k} : C[j] = None <=> K[j] = None
    BY <1>4, StripNone DEF KernelType
  <1> QED
    BY <1>6, <1>7 DEF KernelKeys, C

LEMMA KeysAdded ==
    ASSUME NEW K \in KernelType, NEW s \in Seq(Row)
    PROVE  KernelKeys(ConfigureNew(K, s))
             = KernelKeys(K) \cup {s[i].key : i \in DOMAIN s}
  <1> DEFINE hs == UNION {IPsOf(s[i]) : i \in DOMAIN s}
             C == ConfigureNew(K, s)
             at(k) == CHOOSE i \in DOMAIN s : s[i].key = k
             ip(k) == {h \in IPsOf(s[at(k)]) : \A j \in DOMAIN s :
                                                  j > at(k) => s[j].ips # h}
             new(k) == [ips |-> ip(k), psk |-> s[at(k)].psk]
  <1>1. C = [k \in Keys |-> IF \E i \in DOMAIN s : s[i].key = k
                              THEN new(k) ELSE Strip(K[k], hs)]
    BY DEF ConfigureNew
  <1> HIDE DEF C
  <1>2. ASSUME NEW k \in Keys, \E i \in DOMAIN s : s[i].key = k
        PROVE  C[k] # None
    <2>1. at(k) \in DOMAIN s
      BY <1>2
    <2> HIDE DEF at
    <2>2. s[at(k)] \in Row
      BY <2>1
    <2>3. ip(k) \in SUBSET Hosts /\ s[at(k)].psk \in Keys \cup {None}
      BY <2>2, IPsType DEF Row
    <2> HIDE DEF ip
    <2>4. new(k) \in KernelPeer
      BY <2>3 DEF KernelPeer
    <2> HIDE DEF new
    <2> QED
      BY <1>1, <1>2, <2>4, AbsentAssumption
  <1> HIDE DEF hs, new
  <1>3. ASSUME NEW k \in Keys, \A i \in DOMAIN s : s[i].key # k
        PROVE  C[k] = None <=> K[k] = None
    BY <1>1, <1>3, StripNone DEF KernelType
  <1>4. ASSUME NEW i \in DOMAIN s PROVE s[i].key \in Keys
    <2>1. s[i] \in Row
      OBVIOUS
    <2> QED
      BY <2>1 DEF Row
  <1>5. ASSUME NEW k \in Keys
        PROVE  C[k] # None <=> K[k] # None \/ \E i \in DOMAIN s : s[i].key = k
    BY <1>2, <1>3
  <1> QED
    BY <1>4, <1>5 DEF KernelKeys, C

-----------------------------------------------------------------------------
(* The environment's budget only falls.                                     *)

LEMMA BudgetStep ==
    ASSUME [Next]_vars
    PROVE  budget' = budget \/ \E w \in EnvKinds : Spend(w)
  <1> USE DEF Try, Fault, EnvKinds
  <1>1. ASSUME NEW t \in Threads, Request(t) PROVE Spend("request")
    BY <1>1 DEF Request, CreatePeer, BatchCreatePeers, UpdatePeer, RotateKeys,
       ApprovePeer, DeletePeer, Accept
  <1>2. ASSUME NEW t \in Threads, Pause(t) PROVE budget' = budget
    BY <1>2 DEF Pause
  <1>3. ASSUME NEW t \in Threads, Handler(t)
        PROVE  budget' = budget \/ \E w \in EnvKinds : Spend(w)
    <2>1. CASE Import(t)
      BY <2>1 DEF Import, ImportFirewall, ImportKernel, ImportInsert, ConfWrite
    <2>2. CASE Undo(t)
      BY <2>2 DEF Undo, UndoFirewall, UndoDB, UndoKernel, UndoKey, UndoPsk,
         UndoOld
    <2>3. CASE Update(t)
      BY <2>3 DEF Update, UpdateKernel, UpdateTune, UpdateDB, UpdateFirewall,
         Reread, ApplyReread
    <2>4. CASE Rotate(t)
      BY <2>4 DEF Rotate, RotateFirewall, RotateRemove, RotateAdd, RotateKey,
         RotatePsk, RotateApply
    <2>5. CASE Approve(t) \/ Delete(t)
      BY <2>5 DEF Approve, ApproveDB, ApproveFlag, ApproveKernel, Delete,
         DeleteKernel, DeleteDB, DeleteFirewall
    <2> QED
      BY <1>3, <2>1, <2>2, <2>3, <2>4, <2>5 DEF Handler
  <1>4. CASE Reconcile
    BY <1>4 DEF Reconcile, RecDevice, RecList, RecRemove, RecZombieFirewall,
       RecUpsert, RecMissing, RecReadd, RecReaddFirewall, RecDone
  <1>5. CASE FirewallSync
    BY <1>5 DEF FirewallSync
  <1>6. CASE Environment
    BY <1>6 DEF Environment, ForeignAdd, ForeignRemove, Crash
  <1>7. CASE UNCHANGED vars
    BY <1>7 DEF vars
  <1> QED
    BY <1>1, <1>2, <1>3, <1>4, <1>5, <1>6, <1>7 DEF Next

LEMMA BudgetFalls ==
    ASSUME TypeInv, [Next]_vars, NEW w \in EnvKinds
    PROVE  /\ budget[w] \in Nat /\ budget'[w] \in Nat
           /\ budget'[w] <= budget[w]
  <1>1. budget \in [EnvKinds -> Nat]
    BY DEF TypeInv, Rest
  <1> QED
    BY <1>1, BudgetStep DEF Spend

\* A call that fails leaves less than there was.
LEMMA Spent ==
    ASSUME TypeInv, NEW w \in EnvKinds, Spend(w)
    PROVE  budget[w] \in Nat \ {0} /\ budget'[w] = budget[w] - 1
  BY DEF TypeInv, Rest, Spend

-----------------------------------------------------------------------------
(* The pass at start-up.  BootRepairs speaks of its end only; what the pass *)
(* has still to do at each step is what makes it true.  A key in Pending is *)
(* one the current loop has still to visit: in step 1 it is in the device   *)
(* and has no enabled row, in step 2 the other way round.                   *)

Pending == rec.todo \ {rec.cur}

Dropping == /\ EnabledKeys(db) = EnabledKeys(rec.rows)
            /\ rec.todo \cap EnabledKeys(rec.rows) = {}
            /\ KernelKeys(kernel)
                 = (rec.kset \cap EnabledKeys(rec.rows)) \cup Pending

Restoring == /\ EnabledKeys(db) = EnabledKeys(rec.rows)
             /\ rec.todo \subseteq EnabledKeys(rec.rows)
             /\ KernelKeys(kernel) = EnabledKeys(rec.rows) \ Pending

BootPass == /\ rec.pc \in {"idle", "list", "kernel", "missing"} => rec.cur = None
            /\ rec.pc = "list" => rec.kset = KernelKeys(kernel)
            /\ rec.pc \in {"kernel", "zombie", "unknown"} => Dropping
            /\ rec.pc \in {"missing", "readded"} => Restoring

NoFault == budget["fault"] = Budget["fault"]

BootAlone == /\ budget["foreign"] = 0
             /\ budget["fault"] <= Budget["fault"]
             /\ phase # "up" => \A t \in Threads : pc[t] = "idle"
             /\ phase = "sync" => rec.pc = "idle"

BootInv == /\ BootAlone
           /\ phase = "boot" /\ NoFault => BootPass
           /\ BootRepairs

LEMMA PhaseUp ==
    ASSUME BootAlone, TypeInv, NEW t \in Threads,
           Request(t) \/ Pause(t) \/ Handler(t)
    PROVE  phase = "up" /\ phase' = "up" /\ rec' = rec
  <1>1. CASE Request(t)
    BY <1>1 DEF Request, CreatePeer, BatchCreatePeers, UpdatePeer, RotateKeys,
       ApprovePeer, DeletePeer, Accept
  <1>2. CASE Pause(t)
    BY <1>2 DEF Pause, BootAlone
  <1>3. CASE Handler(t)
    <2>1. pc[t] # "idle" /\ rec' = rec
      BY <1>3, HandlerSteps
    <2>2. phase' = phase
      BY <1>3 DEF Handler, Import, ImportFirewall, ImportKernel, ImportInsert,
         ConfWrite, Undo, UndoFirewall, UndoDB, UndoKernel, UndoKey, UndoPsk,
         UndoOld, Update, UpdateKernel, UpdateTune, UpdateDB, UpdateFirewall,
         Reread, ApplyReread, Rotate, RotateFirewall, RotateRemove, RotateAdd,
         RotateKey, RotatePsk, RotateApply, Approve, ApproveDB, ApproveFlag,
         ApproveKernel, Delete, DeleteKernel, DeleteDB, DeleteFirewall
    <2> QED
      BY <2>1, <2>2 DEF BootAlone
  <1> QED
    BY <1>1, <1>2, <1>3

LEMMA BootAloneStep ==
    ASSUME BootAlone, TypeInv, [Next]_vars
    PROVE  BootAlone'
  <1>0. rec \in RecState /\ pc \in [Threads -> Steps]
    BY DEF TypeInv, RecShape, Control
  <1>1. budget'["foreign"] = 0 /\ budget'["fault"] <= Budget["fault"]
    <2>1. {"foreign", "fault"} \subseteq EnvKinds /\ Budget["fault"] \in Nat
      BY AgentAssumption DEF EnvKinds
    <2>2. /\ budget["foreign"] = 0 /\ budget["fault"] <= Budget["fault"]
      BY DEF BootAlone
    <2>3. /\ budget'["foreign"] \in Nat /\ budget'["foreign"] <= budget["foreign"]
          /\ budget["fault"] \in Nat /\ budget'["fault"] \in Nat
          /\ budget'["fault"] <= budget["fault"]
      BY <2>1, BudgetFalls
    <2> QED
      BY <2>1, <2>2, <2>3
  <1> SUFFICES /\ phase' # "up" => \A t \in Threads : pc'[t] = "idle"
               /\ phase' = "sync" => rec'.pc = "idle"
    BY <1>1 DEF BootAlone
  <1>2. ASSUME NEW t \in Threads, Request(t) \/ Pause(t) \/ Handler(t)
        PROVE  phase' = "up"
    BY <1>2, PhaseUp
  <1>3. CASE Reconcile
    <2>1. pc' = pc
      BY <1>3 DEF Reconcile, RecDevice, RecList, RecRemove, RecZombieFirewall,
         RecUpsert, RecMissing, RecReadd, RecReaddFirewall, RecDone, RecVars
    <2>2. CASE RecDevice
      BY <1>0, <2>1, <2>2 DEF RecDevice, BootAlone
    <2>3. CASE RecList \/ RecDone
      BY <1>0, <2>1, <2>3 DEF RecList, RecDone, RecReturn, IdleRec, BootAlone
    <2>4. CASE RecRemove \/ RecZombieFirewall \/ RecUpsert \/ RecMissing
               \/ RecReadd \/ RecReaddFirewall
      BY <2>1, <2>4 DEF RecRemove, RecZombieFirewall, RecUpsert, RecMissing,
         RecReadd, RecReaddFirewall, BootAlone
    <2> QED
      BY <1>3, <2>2, <2>3, <2>4 DEF Reconcile
  <1>4. CASE FirewallSync
    BY <1>4 DEF FirewallSync
  <1>5. CASE Environment
    BY <1>5 DEF Environment, ForeignAdd, ForeignRemove, Crash, IdleRec, BootAlone
  <1>6. CASE UNCHANGED vars
    BY <1>6 DEF vars, BootAlone
  <1> QED
    BY <1>2, <1>3, <1>4, <1>5, <1>6 DEF Next

\* What a step of the pass without a fault does to Pending and the device.
LEMMA BootPassStep ==
    ASSUME TypeInv, BootAlone, BootPass, phase = "boot", Reconcile,
           budget'["fault"] = budget["fault"]
    PROVE  /\ phase' = "boot" => BootPass'
           /\ phase' = "sync" => KernelKeys(kernel') = EnabledKeys(db')
  <1>0. /\ rec \in RecState /\ db \in SUBSET Row /\ kernel \in KernelType
        /\ rec.todo \subseteq Keys /\ rec.rows \in SUBSET Row
        /\ None \notin Keys
    BY StoresAssumption DEF TypeInv, RecShape, Stores, RecState
  <1>1. ~ Fault
    <2>1. "fault" \in EnvKinds
      BY DEF EnvKinds
    <2> QED
      BY <2>1, Spent DEF Fault
  <1>2. CASE RecDevice
    <2>1. /\ rec.pc = "idle" /\ phase' = phase /\ kernel' = kernel
          /\ rec' = [rec EXCEPT !.pc = "list", !.kset = KernelKeys(kernel)]
      BY <1>1, <1>2 DEF RecDevice, stores
    <2>2. rec'.pc = "list" /\ rec'.kset = KernelKeys(kernel) /\ rec'.cur = rec.cur
      BY <1>0, <2>1 DEF RecState
    <2> QED
      BY <2>1, <2>2 DEF BootPass
  <1>3. CASE RecList
    <2>1. /\ rec.pc = "list" /\ phase' = phase /\ kernel' = kernel /\ db' = db
          /\ rec' = [rec EXCEPT !.pc = "kernel", !.rows = db,
                                !.todo = rec.kset \ EnabledKeys(db)]
      BY <1>1, <1>3 DEF RecList, stores
    <2>2. /\ rec'.pc = "kernel" /\ rec'.kset = rec.kset /\ rec'.cur = rec.cur
          /\ rec'.rows = db /\ rec'.todo = rec.kset \ EnabledKeys(db)
      BY <1>0, <2>1 DEF RecState
    <2>3. rec.cur = None /\ rec.kset = KernelKeys(kernel)
      BY <2>1 DEF BootPass
    <2>4. rec.kset \subseteq Keys
      BY <1>0 DEF RecState
    <2>5. Pending' = rec.kset \ EnabledKeys(db)
      BY <1>0, <2>2, <2>3, <2>4 DEF Pending
    <2>6. Dropping'
      BY <2>1, <2>2, <2>3, <2>5 DEF Dropping
    <2> QED
      BY <2>1, <2>2, <2>3, <2>6 DEF BootPass
  <1>4. CASE RecRemove
    <2>1. PICK k \in rec.todo :
             /\ kernel' = RemovePeers(kernel, {k})
             /\ rec' = [rec EXCEPT !.cur = k,
                          !.pc = IF HasKey(rec.rows, k) THEN "zombie"
                                                        ELSE "unknown"]
      BY <1>1, <1>4 DEF RecRemove, Try, Fault
    <2>2. /\ rec.pc = "kernel" /\ phase' = phase /\ db' = db
          /\ rec'.pc \in {"zombie", "unknown"} /\ rec'.rows = rec.rows
          /\ rec'.kset = rec.kset /\ rec'.todo = rec.todo /\ rec'.cur = k
      BY <1>0, <1>4, <2>1 DEF RecRemove, RecState
    <2>3. KernelKeys(kernel') = KernelKeys(kernel) \ {k}
      BY <1>0, <2>1, KeysRemoved
    <2>4. Dropping /\ rec.cur = None
      BY <2>2 DEF BootPass
    <2>5. Pending = rec.todo /\ Pending' = rec.todo \ {k}
      BY <1>0, <2>2, <2>4 DEF Pending
    <2>6. Dropping'
      BY <2>2, <2>3, <2>4, <2>5 DEF Dropping
    <2> QED
      BY <2>2, <2>6 DEF BootPass
  <1>5. CASE RecZombieFirewall
    <2>1. /\ rec.pc = "zombie" /\ phase' = phase /\ db' = db /\ kernel' = kernel
          /\ rec'.pc = "kernel" /\ rec'.rows = rec.rows /\ rec'.kset = rec.kset
          /\ rec'.todo = rec.todo \ {rec.cur} /\ rec'.cur = None
      BY <1>0, <1>5 DEF RecZombieFirewall, RecState
    <2>2. Pending' = Pending
      BY <1>0, <2>1 DEF Pending
    <2>3. Dropping'
      BY <2>1, <2>2 DEF BootPass, Dropping
    <2> QED
      BY <2>1, <2>3 DEF BootPass
  <1>6. CASE RecUpsert
    <2>1. /\ rec.pc = "unknown" /\ phase' = phase /\ kernel' = kernel
          /\ rec'.pc = "kernel" /\ rec'.rows = rec.rows /\ rec'.kset = rec.kset
          /\ rec'.todo = rec.todo \ {rec.cur} /\ rec'.cur = None
          /\ db' = db \/ db' = db \cup {QuarantineRow(lastId, rec.cur)}
      BY <1>0, <1>6 DEF RecUpsert, RecState
    <2>2. Pending' = Pending
      BY <1>0, <2>1 DEF Pending
    <2>3. ~ QuarantineRow(lastId, rec.cur).enabled
      BY DEF QuarantineRow
    <2>4. EnabledKeys(db') = EnabledKeys(db)
      BY <2>1, <2>3 DEF EnabledKeys
    <2>5. Dropping'
      BY <2>1, <2>2, <2>4 DEF BootPass, Dropping
    <2> QED
      BY <2>1, <2>5 DEF BootPass
  <1>7. CASE RecMissing
    <2>1. /\ rec.pc = "kernel" /\ rec.todo = {} /\ phase' = phase /\ db' = db
          /\ kernel' = kernel /\ rec'.pc = "missing" /\ rec'.rows = rec.rows
          /\ rec'.todo = EnabledKeys(rec.rows) \ rec.kset /\ rec'.cur = rec.cur
      BY <1>0, <1>7 DEF RecMissing, RecState, stores
    <2>2. Dropping /\ rec.cur = None
      BY <2>1 DEF BootPass
    <2>3. EnabledKeys(rec.rows) \subseteq Keys
      BY <1>0 DEF EnabledKeys, Row
    <2>4. Pending = {} /\ Pending' = EnabledKeys(rec.rows) \ rec.kset
      BY <1>0, <2>1, <2>2, <2>3 DEF Pending
    <2>5. Restoring'
      BY <2>1, <2>2, <2>4 DEF Dropping, Restoring
    <2> QED
      BY <2>1, <2>2, <2>5 DEF BootPass
  <1>8. CASE RecReadd
    <2>1. PICK k \in rec.todo :
             /\ kernel' = ConfigurePeer(kernel, k, IPsOf(RowOf(rec.rows, k)),
                                        RowOf(rec.rows, k).psk, FALSE)
             /\ rec' = [rec EXCEPT !.pc = "readded", !.cur = k]
      BY <1>1, <1>8 DEF RecReadd
    <2>2. /\ rec.pc = "missing" /\ phase' = phase /\ db' = db
          /\ rec'.pc = "readded" /\ rec'.rows = rec.rows
          /\ rec'.todo = rec.todo /\ rec'.cur = k
      BY <1>0, <1>8, <2>1 DEF RecReadd, RecState
    <2>3. RowOf(rec.rows, k) \in Row
      BY <1>0, <2>2, RowOfKey DEF TypeInv, RecShape
    <2>4. KernelKeys(kernel') = KernelKeys(kernel) \cup {k}
      BY <1>0, <2>1, <2>3, IPsType, KeysConfigured DEF Row
    <2>5. Restoring /\ rec.cur = None
      BY <2>2 DEF BootPass
    <2>6. Pending = rec.todo /\ Pending' = rec.todo \ {k}
      BY <1>0, <2>2, <2>5 DEF Pending
    <2>7. Restoring'
      BY <2>2, <2>4, <2>5, <2>6 DEF Restoring
    <2> QED
      BY <2>2, <2>7 DEF BootPass
  <1>9. CASE RecReaddFirewall
    <2>1. /\ rec.pc = "readded" /\ phase' = phase /\ db' = db /\ kernel' = kernel
          /\ rec'.pc = "missing" /\ rec'.rows = rec.rows
          /\ rec'.todo = rec.todo \ {rec.cur} /\ rec'.cur = None
      BY <1>0, <1>9 DEF RecReaddFirewall, RecState
    <2>2. Pending' = Pending
      BY <1>0, <2>1 DEF Pending
    <2>3. Restoring'
      BY <2>1, <2>2 DEF BootPass, Restoring
    <2> QED
      BY <2>1, <2>3 DEF BootPass
  <1>10. CASE RecDone
    <2>1. /\ rec.pc = "missing" /\ rec.todo = {} /\ phase' = "sync"
          /\ db' = db /\ kernel' = kernel
      BY <1>10 DEF RecDone, RecReturn, stores
    <2> QED
      BY <2>1 DEF BootPass, Restoring, Pending
  <1> QED
    BY <1>2, <1>3, <1>4, <1>5, <1>6, <1>7, <1>8, <1>9, <1>10 DEF Reconcile

LEMMA BootStep ==
    ASSUME TypeInv, BootInv, [Next]_vars
    PROVE  BootInv'
  <1>0. BootAlone /\ BootAlone'
    BY BootAloneStep DEF BootInv
  <1>1. "fault" \in EnvKinds /\ "foreign" \in EnvKinds /\ Budget["fault"] \in Nat
    BY AgentAssumption DEF EnvKinds
  <1>2. NoFault' => NoFault
    BY <1>0, <1>1, BudgetFalls DEF NoFault, BootAlone
  <1> SUFFICES ASSUME NoFault'
               PROVE  /\ phase' = "boot" => BootPass'
                      /\ phase' = "sync" => KernelKeys(kernel') = EnabledKeys(db')
    BY <1>0 DEF BootInv, BootRepairs, NoFault
  <1>3. ASSUME NEW t \in Threads, Request(t) \/ Pause(t) \/ Handler(t)
        PROVE  phase' = "up"
    BY <1>0, <1>3, PhaseUp
  <1>4. CASE Reconcile /\ phase = "boot"
    <2>1. BootPass /\ budget'["fault"] = budget["fault"]
      BY <1>2, <1>4 DEF BootInv, NoFault
    <2> QED
      BY <1>0, <1>4, <2>1, BootPassStep
  <1>5. CASE Reconcile /\ phase # "boot"
    <2>1. phase = "up"
      BY <1>0, <1>5 DEF BootAlone, Reconcile, RecDevice, RecList, RecRemove,
         RecZombieFirewall, RecUpsert, RecMissing, RecReadd, RecReaddFirewall,
         RecDone, TypeInv, Rest
    <2>2. phase' = "up"
      BY <1>5, <2>1 DEF Reconcile, RecDevice, RecList, RecRemove,
         RecZombieFirewall, RecUpsert, RecMissing, RecReadd, RecReaddFirewall,
         RecDone, RecReturn
    <2> QED
      BY <2>2
  <1>6. CASE FirewallSync
    BY <1>6 DEF FirewallSync
  <1>7. CASE ForeignAdd \/ ForeignRemove
    BY <1>0, <1>1, <1>7, Spent DEF ForeignAdd, ForeignRemove, BootAlone
  <1>8. CASE Crash
    BY <1>8 DEF Crash, IdleRec, BootPass
  <1>9. CASE UNCHANGED vars
    BY <1>2, <1>9 DEF vars, stores, BootInv, BootPass, BootRepairs, NoFault,
       Dropping, Restoring, Pending
  <1> QED
    BY <1>3, <1>4, <1>5, <1>6, <1>7, <1>8, <1>9 DEF Next, Environment

(* Whatever a crash interrupted, for any handlers, any number of goroutines  *)
(* and peers and any number of crashes: if nobody sets peers by hand, a      *)
(* start-up pass in which no call has failed so far leaves exactly the       *)
(* enabled peers in the kernel.                                              *)
THEOREM StartupRepairs ==
    ASSUME Budget["foreign"] = 0
    PROVE  Spec => []BootRepairs
  <1>1. Init => TypeInv /\ BootInv
    <2> SUFFICES ASSUME Init PROVE BootInv
      BY InitTypes
    <2>1. Budget["fault"] \in Nat
      BY AgentAssumption DEF EnvKinds
    <2> QED
      BY <2>1 DEF Init, BootInv, BootAlone, BootRepairs
  <1>2. TypeInv /\ BootInv /\ [Next]_vars => (TypeInv /\ BootInv)'
    BY TypeStep, BootStep
  <1>3. BootInv => BootRepairs
    BY DEF BootInv
  <1> QED
    BY <1>1, <1>2, <1>3, PTL DEF Spec

-----------------------------------------------------------------------------
(* The locals of a handler: the peers an import makes are fresh and its     *)
(* own, and no step of the handler changes them.                            *)

KeysOf(new) == {new[i].key : i \in DOMAIN new}

LEMMA NewKeysOf == ASSUME NEW t PROVE NewKeys(t) = KeysOf(job[t].new)
  BY DEF NewKeys, NewRows, KeysOf

LEMMA KeysOfType ==
    ASSUME NEW new \in Seq(Row)
    PROVE  KeysOf(new) \in SUBSET Keys
  <1>1. \A i \in DOMAIN new : new[i] \in Row
    OBVIOUS
  <1> QED
    BY <1>1 DEF KeysOf, Row

LEMMA NoKeys == KeysOf(NoJob.new) = {}
  BY NoSeq DEF KeysOf, NoJob, Locals

\* What CreatePeer and BatchCreatePeers put into their locals.
Fresh(new) ==
    /\ new \in Seq(Row)
    /\ \A i \in DOMAIN new :
          /\ new[i].addr \in Addrs /\ new[i].ips = HostOf[new[i].addr]
          /\ new[i].enabled /\ ~ new[i].auto
    /\ \A i, j \in DOMAIN new : new[i].key = new[j].key => i = j

LEMMA FreshNewRow ==
    ASSUME NEW k \in Keys, NEW a \in Addrs, NEW al \in Allows, NEW p \in BOOLEAN
    PROVE  /\ NewRow(k, a, al, p) \in Row
           /\ NewRow(k, a, al, p).key = k
           /\ NewRow(k, a, al, p).addr = a
           /\ NewRow(k, a, al, p).ips = HostOf[a]
           /\ NewRow(k, a, al, p).enabled
           /\ ~ NewRow(k, a, al, p).auto
  BY StoresAssumption DEF NewRow, Row

\* A request for an import: op is the handler, step its first step.
ImportAccepted(t, op, step, new) ==
    /\ Fresh(new)
    /\ KeysOf(new) \cap used = {}
    /\ used' = used \cup KeysOf(new)
    /\ job' = [job EXCEPT ![t] = Locals(op, None, new, None)]
    /\ pc' = [pc EXCEPT ![t] = step]
    /\ UNCHANGED <<db, lastId, kernel, fw, mu, phase, rec>>

LEMMA CreateRequest ==
    ASSUME TypeInv, NEW t \in Threads, CreatePeer(t)
    PROVE  \E new : ImportAccepted(t, "create", "fw", new)
  <1>1. PICK k \in Keys \ used, a \in Addrs, al \in Allows, p \in PskModes :
           /\ used' = used \cup {k}
           /\ Accept(t, Locals("create", None, <<NewRow(k, a, al, p)>>, None),
                     "fw")
    BY DEF CreatePeer
  <1> DEFINE n == NewRow(k, a, al, p)
             new == <<n>>
  <1>2. /\ n \in Row /\ n.key = k /\ n.addr = a /\ n.ips = HostOf[a]
        /\ n.enabled /\ ~ n.auto
    BY FreshNewRow, AgentAssumption
  <1>3. Accept(t, Locals("create", None, new, None), "fw")
    BY <1>1
  <1> HIDE DEF n
  <1>4. new \in Seq(Row) /\ DOMAIN new = {1} /\ new[1] = n
    BY <1>2
  <1> HIDE DEF new
  <1>5. Fresh(new)
    BY <1>2, <1>4 DEF Fresh
  <1>6. KeysOf(new) = {k}
    BY <1>2, <1>4 DEF KeysOf
  <1> QED
    BY <1>1, <1>3, <1>5, <1>6 DEF ImportAccepted, Accept, stores

LEMMA BatchRequest ==
    ASSUME TypeInv, NEW t \in Threads, BatchCreatePeers(t)
    PROVE  \E new : ImportAccepted(t, "batch", "pause", new)
  <1>1. PICK n \in BatchSizes :
        \E ks \in [1..n -> Keys \ used], as \in [1..n -> Addrs], al \in Allows,
           p \in PskModes :
           /\ \A i, j \in 1..n : i # j => ks[i] # ks[j]
           /\ PeerLimit > 0 => Cardinality(db) + n <= PeerLimit
           /\ used' = used \cup {ks[i] : i \in 1..n}
           /\ Accept(t, Locals("batch", None,
                               [i \in 1..n |-> NewRow(ks[i], as[i], al, p)],
                               None),
                     "pause")
    BY DEF BatchCreatePeers
  <1>2. PICK ks \in [1..n -> Keys \ used], as \in [1..n -> Addrs],
             al \in Allows, p \in PskModes :
           /\ \A i, j \in 1..n : i # j => ks[i] # ks[j]
           /\ used' = used \cup {ks[i] : i \in 1..n}
           /\ Accept(t, Locals("batch", None,
                               [i \in 1..n |-> NewRow(ks[i], as[i], al, p)],
                               None),
                     "pause")
    BY <1>1
  <1> DEFINE new == [i \in 1..n |-> NewRow(ks[i], as[i], al, p)]
  <1>3. ASSUME NEW i \in 1..n
        PROVE  /\ new[i] \in Row /\ new[i].key = ks[i]
               /\ new[i].addr \in Addrs /\ new[i].ips = HostOf[new[i].addr]
               /\ new[i].enabled /\ ~ new[i].auto
    <2>1. new[i] = NewRow(ks[i], as[i], al, p)
      OBVIOUS
    <2>2. ks[i] \in Keys /\ as[i] \in Addrs /\ p \in BOOLEAN
      BY AgentAssumption
    <2>3. \A k \in Keys, a \in Addrs :
             /\ NewRow(k, a, al, p) \in Row
             /\ NewRow(k, a, al, p).key = k
             /\ NewRow(k, a, al, p).addr = a
             /\ NewRow(k, a, al, p).ips = HostOf[a]
             /\ NewRow(k, a, al, p).enabled
             /\ ~ NewRow(k, a, al, p).auto
      BY <2>2, FreshNewRow
    <2>4. /\ NewRow(ks[i], as[i], al, p) \in Row
          /\ NewRow(ks[i], as[i], al, p).key = ks[i]
          /\ NewRow(ks[i], as[i], al, p).addr = as[i]
          /\ NewRow(ks[i], as[i], al, p).ips = HostOf[as[i]]
          /\ NewRow(ks[i], as[i], al, p).enabled
          /\ ~ NewRow(ks[i], as[i], al, p).auto
      BY <2>2, <2>3
    <2> HIDE DEF new
    <2> QED
      BY <2>1, <2>2, <2>4
  <1>4. DOMAIN new = 1..n /\ n \in Nat
    BY AgentAssumption
  <1>5. Accept(t, Locals("batch", None, new, None), "pause")
    BY <1>2
  <1>6. new \in Seq(Row)
    <2>1. new \in [1..n -> Row]
      <3>1. \A k \in Keys, a \in Addrs : NewRow(k, a, al, p) \in Row
        BY FreshNewRow, AgentAssumption
      <3>2. \A i \in 1..n : ks[i] \in Keys /\ as[i] \in Addrs
        OBVIOUS
      <3> QED
        BY <3>1, <3>2
    <2> HIDE DEF new
    <2> QED
      BY <1>4, <2>1, SeqDef
  <1> HIDE DEF new
  <1>7. KeysOf(new) = {ks[i] : i \in 1..n}
    BY <1>3, <1>4 DEF KeysOf
  <1>8. Fresh(new)
    BY <1>2, <1>3, <1>4, <1>6 DEF Fresh
  <1>9. KeysOf(new) \cap used = {}
    BY <1>7
  <1> QED
    BY <1>2, <1>5, <1>7, <1>8, <1>9 DEF ImportAccepted, Accept, stores

\* A step of a handler: its new peers stay what they were, until it returns.
LEMMA HandlerJob ==
    ASSUME TypeInv, NEW t \in Threads, Handler(t)
    PROVE  /\ \A s \in Threads \ {t} : job'[s] = job[s] /\ pc'[s] = pc[s]
           /\ \/ job'[t] = NoJob /\ pc'[t] = "idle"
              \/ /\ job'[t].op = job[t].op /\ job'[t].new = job[t].new
                 /\ pc'[t] \notin {"idle", "pause"}
           /\ pc[t] \notin {"idle", "pause"}
           /\ UNCHANGED <<used, phase, rec>>
  <1>0. /\ pc \in [Threads -> Steps] /\ job \in [Threads -> Job]
        /\ job[t] \in Job
    BY DEF TypeInv, Control
  <1>1. \/ \E q \in Steps \ {"idle", "pause"} : Goto(t, q)
        \/ Return(t)
        \/ \E s : Unwind(t, s)
        \/ pc[t] = "undo" /\ NextUndo(t)
        \/ /\ \E r : job' = [job EXCEPT ![t].row = r]
           /\ pc' = [pc EXCEPT ![t] = "apply"]
    <2> USE DEF Steps, Unwinding
    <2>1. CASE Import(t)
      BY <2>1
      DEF Import, ImportFirewall, ImportKernel, ImportInsert, ConfWrite
    <2>2. CASE Undo(t)
      BY <2>2 DEF Undo, UndoFirewall, UndoDB, UndoKernel, UndoKey, UndoPsk,
         UndoOld
    <2>3. CASE Update(t)
      BY <2>3 DEF Update, UpdateKernel, UpdateTune, UpdateDB, UpdateFirewall,
         Reread, ApplyReread
    <2>4. CASE Rotate(t)
      BY <2>4 DEF Rotate, RotateFirewall, RotateRemove, RotateAdd, RotateKey,
         RotatePsk, RotateApply
    <2>5. CASE Approve(t) \/ Delete(t)
      BY <2>5 DEF Approve, ApproveDB, ApproveFlag, ApproveKernel, Delete,
         DeleteKernel, DeleteDB, DeleteFirewall
    <2> QED
      BY <2>1, <2>2, <2>3, <2>4, <2>5 DEF Handler
  <1>2. pc[t] \notin {"idle", "pause"}
    BY HandlerSteps
  <1>3. UNCHANGED <<used, phase, rec>>
    BY DEF Handler, Import, ImportFirewall, ImportKernel, ImportInsert,
       ConfWrite, Undo, UndoFirewall, UndoDB, UndoKernel, UndoKey, UndoPsk,
       UndoOld, Update, UpdateKernel, UpdateTune, UpdateDB, UpdateFirewall,
       Reread, ApplyReread, Rotate, RotateFirewall, RotateRemove, RotateAdd,
       RotateKey, RotatePsk, RotateApply, Approve, ApproveDB, ApproveFlag,
       ApproveKernel, Delete, DeleteKernel, DeleteDB, DeleteFirewall
  <1>4. CASE \E q \in Steps \ {"idle", "pause"} : Goto(t, q)
    BY <1>0, <1>2, <1>3, <1>4 DEF Goto
  <1>5. CASE Return(t)
    BY <1>0, <1>2, <1>3, <1>5 DEF Return
  <1>6. CASE \E s : Unwind(t, s)
    BY <1>0, <1>2, <1>3, <1>6 DEF Unwind, Job
  <1>7. CASE pc[t] = "undo" /\ NextUndo(t)
    BY <1>0, <1>2, <1>3, <1>5, <1>7 DEF NextUndo, Job
  <1>8. CASE /\ \E r : job' = [job EXCEPT ![t].row = r]
             /\ pc' = [pc EXCEPT ![t] = "apply"]
    BY <1>0, <1>2, <1>3, <1>8 DEF Job
  <1> QED
    BY <1>1, <1>4, <1>5, <1>6, <1>7, <1>8

\* What a handler that does not change rows is made of.
LEMMA PlainHandler ==
    ASSUME TypeInv, NEW t \in Threads, Handler(t),
           job[t].op \in {"none", "create", "batch", "delete"}
    PROVE  \/ Import(t)
           \/ UndoFirewall(t) \/ UndoDB(t) \/ UndoKernel(t)
           \/ Delete(t)
  <1>0. Control /\ Shape(job[t], pc[t])
    BY DEF TypeInv, Control
  <1>1. ~ Update(t)
    BY <1>0 DEF Shape, Update, UpdateKernel, UpdateTune, UpdateDB,
       UpdateFirewall, Reread, ApplyReread
  <1>2. ~ Rotate(t)
    BY <1>0 DEF Shape, Rotate, RotateFirewall, RotateRemove, RotateAdd,
       RotateKey, RotatePsk, RotateApply
  <1>3. ~ Approve(t)
    BY <1>0 DEF Shape, Approve, ApproveDB, ApproveFlag, ApproveKernel
  <1>4. ASSUME pc[t] = "undo"
        PROVE  Head(job[t].undo) \notin {"key", "psk", "old"}
    <2>1. job[t].undo \in Seq(UndoSteps) /\ job[t].undo # <<>>
      BY <1>0, <1>4 DEF Control, Job, UndoSteps
    <2>2. 1 \in DOMAIN job[t].undo /\ Head(job[t].undo) = job[t].undo[1]
      BY <2>1
    <2> QED
      BY <1>0, <1>4, <2>2 DEF Shape
  <1>5. ~ UndoKey(t) /\ ~ UndoPsk(t) /\ ~ UndoOld(t)
    BY <1>4 DEF UndoKey, UndoPsk, UndoOld, Unwinding
  <1> QED
    BY <1>1, <1>2, <1>3, <1>5 DEF Handler, Undo

-----------------------------------------------------------------------------
(* An import and the passes do not see each other.  That the keys of an     *)
(* import are nowhere while it waits for the lock (Seen) is what keeps them *)
(* out of the snapshot of a pass that is running meanwhile; from then on the*)
(* lock does.                                                               *)

Seen == KernelKeys(kernel) \cup {r.key : r \in db} \cup rec.kset

OwnKeys(t) ==
    /\ job[t].op \in {"none", "batch", "delete"}
    /\ Fresh(job[t].new)
    /\ KeysOf(job[t].new) \subseteq used
    /\ \A s \in Threads \ {t} : KeysOf(job[s].new) \cap KeysOf(job[t].new) = {}
    /\ pc[t] \in {"idle", "pause"} => KeysOf(job[t].new) \cap Seen = {}
    /\ \A r \in db : r.auto => r.key \notin KeysOf(job[t].new)

UnseenInv == /\ Seen \subseteq used
             /\ rec.pc \in {"kernel", "zombie", "unknown"} =>
                   rec.todo \subseteq rec.kset
             /\ \A t \in Threads : OwnKeys(t)

LEMMA FreshNone == Fresh(<<>>) /\ Fresh(NoJob.new) /\ KeysOf(<<>>) = {}
  BY NoSeq DEF Fresh, NoJob, Locals, KeysOf

\* A handler that changes no rows writes to the stores the peers it makes.
LEMMA PlainEffect ==
    ASSUME TypeInv, NEW t \in Threads, Handler(t), Fresh(job[t].new),
           job[t].op \in {"none", "create", "batch", "delete"}
    PROVE  /\ KernelKeys(kernel')
                \subseteq KernelKeys(kernel) \cup KeysOf(job[t].new)
           /\ \A r \in db' : \/ r \in db
                             \/ r.key \in KeysOf(job[t].new) /\ ~ r.auto
  <1>0. kernel \in KernelType /\ job[t].new \in Seq(Row)
    BY DEF TypeInv, Stores, Control, Job
  <1> USE DEF Try
  <1>1. CASE Import(t)
    <2>1. kernel' = kernel \/ kernel' = ConfigureNew(kernel, job[t].new)
      BY <1>1 DEF Import, ImportFirewall, ImportKernel, ImportInsert, ConfWrite,
         stores
    <2>2. db' = db \/ db' = InsertRows(db, lastId, job[t].new)
      BY <1>1 DEF Import, ImportFirewall, ImportKernel, ImportInsert, ConfWrite,
         stores
    <2>3. ASSUME NEW i \in DOMAIN job[t].new
          PROVE  LET r == [job[t].new[i] EXCEPT !.id = lastId + i]
                 IN  r.key \in KeysOf(job[t].new) /\ ~ r.auto
      <3>1. job[t].new[i] \in Row /\ ~ job[t].new[i].auto
        BY <1>0 DEF Fresh
      <3> QED
        BY <3>1 DEF Row, KeysOf
    <2> QED
      BY <1>0, <2>1, <2>2, <2>3, KeysAdded DEF InsertRows, KeysOf
  <1>2. CASE UndoFirewall(t) \/ UndoDB(t) \/ UndoKernel(t) \/ Delete(t)
    <2>1. kernel' = kernel \/ \E ks : kernel' = RemovePeers(kernel, ks)
      BY <1>2 DEF UndoFirewall, UndoDB, UndoKernel, Delete, DeleteKernel,
         DeleteDB, DeleteFirewall
    <2>2. db' \subseteq db
      BY <1>2 DEF UndoFirewall, UndoDB, UndoKernel, Delete, DeleteKernel,
         DeleteDB, DeleteFirewall, DeleteRows
    <2> QED
      BY <1>0, <2>1, <2>2, KeysRemoved
  <1> QED
    BY <1>1, <1>2, PlainHandler

LEMMA UnseenReconcile ==
    ASSUME TypeInv, Locked, PassInv, UnseenInv, Reconcile
    PROVE  UnseenInv'
  <1>0. /\ rec \in RecState /\ db \in SUBSET Row /\ kernel \in KernelType
        /\ rec.rows \in SUBSET Row /\ rec.todo \subseteq Keys
    BY DEF TypeInv, RecShape, Stores, RecState
  <1>1. UNCHANGED <<used, mu, pc, job>>
    BY DEF Reconcile, RecDevice, RecList, RecRemove, RecZombieFirewall,
       RecUpsert, RecMissing, RecReadd, RecReaddFirewall, RecDone, RecVars
  <1> USE DEF Try
  <1> SUFFICES /\ Seen' \subseteq Seen
               /\ rec'.pc \in {"kernel", "zombie", "unknown"} =>
                     rec'.todo \subseteq rec'.kset
               /\ \/ db' = db
                  \/ /\ rec.pc = "unknown"
                     /\ db' = db \cup {QuarantineRow(lastId, rec.cur)}
    <2>1. ASSUME NEW t \in Threads, rec.pc = "unknown"
          PROVE  rec.cur \notin KeysOf(job[t].new)
      <3>1. mu = None /\ pc[t] \in {"idle", "pause"}
        BY <2>1, AgentAssumption DEF Locked
      <3>2. rec.cur \in rec.kset
        BY <2>1 DEF PassInv, Visiting, UnseenInv
      <3> QED
        BY <3>1, <3>2 DEF UnseenInv, OwnKeys, Seen
    <2>2. QuarantineRow(lastId, rec.cur).key = rec.cur
      BY DEF QuarantineRow
    <2>3. ASSUME NEW t \in Threads PROVE OwnKeys(t)'
      BY <1>1, <2>1, <2>2 DEF UnseenInv, OwnKeys
    <2> QED
      BY <1>1, <2>3 DEF UnseenInv
  <1>2. CASE RecDevice
    <2>1. /\ UNCHANGED <<db, kernel>> /\ rec.pc = "idle"
          /\ \/ rec' = rec
             \/ rec' = [rec EXCEPT !.pc = "list", !.kset = KernelKeys(kernel)]
      BY <1>2 DEF RecDevice, stores
    <2>2. CASE rec' = rec
      BY <2>1, <2>2 DEF Seen
    <2>3. CASE rec' = [rec EXCEPT !.pc = "list", !.kset = KernelKeys(kernel)]
      <3>1. rec'.pc = "list" /\ rec'.kset = KernelKeys(kernel)
        BY <1>0, <2>3 DEF RecState
      <3> QED
        BY <2>1, <3>1 DEF Seen
    <2> QED
      BY <2>1, <2>2, <2>3
  <1>3. CASE RecList
    <2>1. /\ UNCHANGED <<db, kernel>>
          /\ \/ rec' = IdleRec
             \/ rec' = [rec EXCEPT !.pc = "kernel", !.rows = db,
                                   !.todo = rec.kset \ EnabledKeys(db)]
      BY <1>3 DEF RecList, RecReturn, stores
    <2>2. \/ rec'.pc = "idle" /\ rec'.kset = {}
          \/ rec'.kset = rec.kset /\ rec'.todo = rec.kset \ EnabledKeys(db)
      <3>1. CASE rec' = IdleRec
        BY <3>1 DEF IdleRec
      <3>2. CASE rec' = [rec EXCEPT !.pc = "kernel", !.rows = db,
                                    !.todo = rec.kset \ EnabledKeys(db)]
        BY <1>0, <3>2 DEF RecState
      <3> QED
        BY <2>1, <3>1, <3>2
    <2> QED
      BY <2>1, <2>2 DEF Seen
  <1>4. CASE RecRemove
    <2>1. /\ db' = db /\ rec.pc = "kernel"
          /\ rec'.kset = rec.kset /\ rec'.todo = rec.todo
          /\ kernel' = kernel \/ \E ks : kernel' = RemovePeers(kernel, ks)
      BY <1>0, <1>4 DEF RecRemove, RecState
    <2> QED
      BY <1>0, <2>1, KeysRemoved DEF Seen, UnseenInv
  <1>5. CASE RecZombieFirewall \/ RecReaddFirewall
    <2>1. /\ UNCHANGED <<db, kernel>> /\ rec'.kset = rec.kset
          /\ rec'.todo \subseteq rec.todo
          /\ rec'.pc = "missing" \/ rec.pc = "zombie"
      BY <1>0, <1>5 DEF RecZombieFirewall, RecReaddFirewall, RecState
    <2> QED
      BY <2>1 DEF Seen, UnseenInv
  <1>6. CASE RecUpsert
    <2>1. /\ rec.pc = "unknown" /\ kernel' = kernel /\ rec'.kset = rec.kset
          /\ rec'.todo \subseteq rec.todo
          /\ db' = db \/ db' = db \cup {QuarantineRow(lastId, rec.cur)}
      BY <1>0, <1>6 DEF RecUpsert, RecState
    <2>2. QuarantineRow(lastId, rec.cur).key = rec.cur
      BY DEF QuarantineRow
    <2>3. rec.cur \in rec.kset
      BY <2>1 DEF PassInv, Visiting, UnseenInv
    <2> QED
      BY <2>1, <2>2, <2>3 DEF Seen, UnseenInv
  <1>7. CASE RecMissing
    <2>1. UNCHANGED <<db, kernel>> /\ rec'.kset = rec.kset /\ rec'.pc = "missing"
      BY <1>0, <1>7 DEF RecMissing, RecState, stores
    <2> QED
      BY <2>1 DEF Seen
  <1>8. CASE RecReadd
    <2>1. PICK k \in rec.todo :
             \/ kernel' = kernel
             \/ kernel' = ConfigurePeer(kernel, k, IPsOf(RowOf(rec.rows, k)),
                                        RowOf(rec.rows, k).psk, FALSE)
      BY <1>8 DEF RecReadd
    <2>2. /\ db' = db /\ rec.pc = "missing" /\ rec'.kset = rec.kset
          /\ rec'.pc \in {"missing", "readded"}
      BY <1>0, <1>8 DEF RecReadd, RecState
    <2>3. RowOf(rec.rows, k) \in Row
      BY <1>0, <2>2, RowOfKey DEF TypeInv, RecShape
    <2>4. KernelKeys(kernel') \subseteq KernelKeys(kernel) \cup {k}
      <3>1. /\ RowOf(rec.rows, k).psk \in Keys \cup {None} /\ k \in Keys
            /\ IPsOf(RowOf(rec.rows, k)) \in SUBSET Hosts
        BY <1>0, <2>3, IPsType DEF Row
      <3>2. CASE kernel' = kernel
        BY <3>2
      <3>3. CASE kernel' = ConfigurePeer(kernel, k, IPsOf(RowOf(rec.rows, k)),
                                         RowOf(rec.rows, k).psk, FALSE)
        BY <1>0, <3>1, <3>3, KeysConfigured
      <3> QED
        BY <2>1, <3>2, <3>3
    <2>5. k \in {r.key : r \in db}
      BY <2>2 DEF PassInv, Readding, Snapshot, EnabledKeys
    <2> QED
      BY <2>2, <2>4, <2>5 DEF Seen
  <1>9. CASE RecDone
    BY <1>9 DEF RecDone, RecReturn, IdleRec, stores, Seen
  <1> QED
    BY <1>2, <1>3, <1>4, <1>5, <1>6, <1>7, <1>8, <1>9 DEF Reconcile

LEMMA UnseenRequest ==
    ASSUME OnlyPausing, TypeInv, UnseenInv, NEW t \in Threads, Request(t)
    PROVE  UnseenInv'
  <1>0. pc \in [Threads -> Steps] /\ job \in [Threads -> Job]
    BY DEF TypeInv, Control
  <1>1. \E new : /\ Fresh(new) /\ KeysOf(new) \cap used = {}
                 /\ used' = used \cup KeysOf(new)
                 /\ \E row : \E op \in {"batch", "delete"} :
                       job' = [job EXCEPT ![t] = Locals(op, row, new, None)]
                 /\ UNCHANGED <<db, kernel, rec>>
    <2>1. CASE BatchCreatePeers(t)
      BY <2>1, BatchRequest DEF ImportAccepted
    <2>2. CASE DeletePeer(t)
      <3>1. PICK row : /\ Accept(t, Locals("delete", row, <<>>, None), "pause")
                       /\ UNCHANGED used
        BY <2>2 DEF DeletePeer
      <3> QED
        BY <3>1, FreshNone DEF Accept, stores
    <2>3. ~ CreatePeer(t) /\ ~ UpdatePeer(t) /\ ~ RotateKeys(t) /\ ~ ApprovePeer(t)
      BY DEF CreatePeer, UpdatePeer, RotateKeys, ApprovePeer, OnlyPausing,
         Accept, Locals
    <2> QED
      BY <2>1, <2>2, <2>3 DEF Request
  <1>2. PICK new : /\ Fresh(new) /\ KeysOf(new) \cap used = {}
                   /\ used' = used \cup KeysOf(new)
                   /\ \E row : \E op \in {"batch", "delete"} :
                         job' = [job EXCEPT ![t] = Locals(op, row, new, None)]
                   /\ UNCHANGED <<db, kernel, rec>>
    BY <1>1
  <1>3. Seen' = Seen
    BY <1>2 DEF Seen
  <1>4. job'[t].op \in {"batch", "delete"} /\ job'[t].new = new
    BY <1>0, <1>2 DEF Locals
  <1>5. ASSUME NEW s \in Threads \ {t} PROVE job'[s] = job[s] /\ pc'[s] = pc[s]
    BY <1>0, <1>2, RequestPauses
  <1>6. OwnKeys(t)'
    BY <1>2, <1>3, <1>4, <1>5 DEF UnseenInv, OwnKeys, Seen
  <1>7. ASSUME NEW s \in Threads \ {t} PROVE OwnKeys(s)'
    BY <1>2, <1>3, <1>4, <1>5 DEF UnseenInv, OwnKeys
  <1> QED
    BY <1>2, <1>3, <1>6, <1>7 DEF UnseenInv

LEMMA UnseenHandler ==
    ASSUME TypeInv, UnseenInv, NEW t \in Threads, Handler(t)
    PROVE  UnseenInv'
  <1>1. /\ \A s \in Threads \ {t} : job'[s] = job[s] /\ pc'[s] = pc[s]
        /\ \/ job'[t] = NoJob
           \/ /\ job'[t].op = job[t].op /\ job'[t].new = job[t].new
              /\ pc'[t] \notin {"idle", "pause"}
        /\ UNCHANGED <<used, rec>>
    BY HandlerJob
  <1>2. /\ KernelKeys(kernel')
             \subseteq KernelKeys(kernel) \cup KeysOf(job[t].new)
        /\ \A r \in db' : \/ r \in db
                          \/ r.key \in KeysOf(job[t].new) /\ ~ r.auto
    BY PlainEffect DEF UnseenInv, OwnKeys
  <1>3. Seen' \subseteq Seen \cup KeysOf(job[t].new)
    BY <1>1, <1>2 DEF Seen
  <1>4. NoJob.op = "none" /\ KeysOf(NoJob.new) = {} /\ Fresh(NoJob.new)
    BY NoKeys, FreshNone DEF NoJob, Locals
  <1>5. OwnKeys(t)'
    BY <1>1, <1>2, <1>3, <1>4 DEF UnseenInv, OwnKeys
  <1>6. ASSUME NEW s \in Threads \ {t} PROVE OwnKeys(s)'
    BY <1>1, <1>2, <1>3, <1>4 DEF UnseenInv, OwnKeys
  <1> QED
    BY <1>1, <1>3, <1>5, <1>6 DEF UnseenInv, OwnKeys

LEMMA UnseenEnvironment ==
    ASSUME TypeInv, UnseenInv, Environment
    PROVE  UnseenInv'
  <1>0. kernel \in KernelType
    BY DEF TypeInv, Stores
  <1>1. CASE ForeignAdd
    <2>1. PICK k \in Keys \ used, h \in Hosts :
             /\ kernel' = ConfigurePeer(kernel, k, {h}, None, FALSE)
             /\ used' = used \cup {k}
      BY <1>1 DEF ForeignAdd
    <2>2. UNCHANGED <<db, pc, job, rec>>
      BY <1>1 DEF ForeignAdd
    <2>3. KernelKeys(kernel') = KernelKeys(kernel) \cup {k}
      BY <1>0, <2>1, KeysConfigured
    <2>4. Seen' = Seen \cup {k}
      BY <2>2, <2>3 DEF Seen
    <2>5. ASSUME NEW t \in Threads PROVE OwnKeys(t)'
      BY <2>1, <2>2, <2>4 DEF UnseenInv, OwnKeys
    <2> QED
      BY <2>1, <2>2, <2>4, <2>5 DEF UnseenInv
  <1>2. CASE ForeignRemove
    <2>1. /\ UNCHANGED <<db, pc, job, rec, used>>
          /\ KernelKeys(kernel') \subseteq KernelKeys(kernel)
      BY <1>0, <1>2, KeysRemoved DEF ForeignRemove
    <2>2. Seen' \subseteq Seen
      BY <2>1 DEF Seen
    <2>3. ASSUME NEW t \in Threads PROVE OwnKeys(t)'
      BY <2>1, <2>2 DEF UnseenInv, OwnKeys
    <2> QED
      BY <2>1, <2>2, <2>3 DEF UnseenInv
  <1>3. CASE Crash
    <2>1. /\ UNCHANGED <<db, kernel, used>> /\ rec'.kset = {} /\ rec'.pc = "idle"
          /\ \A t \in Threads : job'[t] = NoJob
      BY <1>3 DEF Crash, IdleRec, stores
    <2>2. Seen' \subseteq Seen
      BY <2>1 DEF Seen
    <2>3. NoJob.op = "none" /\ KeysOf(NoJob.new) = {} /\ Fresh(NoJob.new)
      BY NoKeys, FreshNone DEF NoJob, Locals
    <2>4. ASSUME NEW t \in Threads PROVE OwnKeys(t)'
      BY <2>1, <2>3 DEF OwnKeys
    <2> QED
      BY <2>1, <2>2, <2>4 DEF UnseenInv
  <1> QED
    BY <1>1, <1>2, <1>3 DEF Environment

LEMMA UnseenStep ==
    ASSUME OnlyPausing, TypeInv, Locked, PassInv, UnseenInv, [Next]_vars
    PROVE  UnseenInv'
  <1>0. pc \in [Threads -> Steps]
    BY DEF TypeInv, Control
  <1>1. ASSUME NEW t \in Threads, Pause(t) PROVE UnseenInv'
    <2>1. /\ UNCHANGED <<db, kernel, used, job, rec>>
          /\ \A s \in Threads : pc'[s] \in {"idle", "pause"} => pc'[s] = pc[s]
      BY <1>0, <1>1 DEF Pause, stores
    <2>2. Seen' = Seen
      BY <2>1 DEF Seen
    <2>3. ASSUME NEW s \in Threads PROVE OwnKeys(s)'
      BY <2>1, <2>2 DEF UnseenInv, OwnKeys
    <2> QED
      BY <2>1, <2>2, <2>3 DEF UnseenInv
  <1>2. ASSUME UNCHANGED <<db, kernel, used, pc, job, rec>> PROVE UnseenInv'
    BY <1>2 DEF UnseenInv, OwnKeys, Seen
  <1>3. CASE FirewallSync
    BY <1>2, <1>3 DEF FirewallSync, RecVars
  <1>4. CASE UNCHANGED vars
    BY <1>2, <1>4 DEF vars, stores
  <1> QED
    BY <1>1, <1>3, <1>4, UnseenRequest, UnseenHandler, UnseenReconcile,
       UnseenEnvironment DEF Next

(* handlers.go, BatchCreatePeers: "Without this, the reconciler could see    *)
(* peers in the kernel that are not yet in DB and delete them".  When every  *)
(* handler that is called pauses the reconciler, no pass ever quarantines a  *)
(* peer that an import is creating, for any number of imports, deletions,    *)
(* passes, failing calls, peers set by hand and crashes.                     *)
THEOREM PauseHidesImport ==
    ASSUME OnlyPausing
    PROVE  Spec => []ImportUnseen
  <1> DEFINE Inv == TypeInv /\ Locked /\ PassInv /\ UnseenInv
  <1>1. Init => Inv
    <2> SUFFICES ASSUME Init PROVE Inv
      OBVIOUS
    <2>1. TypeInv
      BY InitTypes
    <2>2. Locked /\ PassInv
      BY DEF Init, IdleRec, Locked, PassInv
    <2>3. KernelKeys(kernel) \subseteq EnabledKeys(InitRows)
      BY DEF Init, KernelKeys
    <2>4. /\ rec.kset = {} /\ rec.pc = "idle" /\ db = InitRows
          /\ used = {r.key : r \in InitRows}
      BY DEF Init, IdleRec
    <2>5. EnabledKeys(InitRows) \subseteq {r.key : r \in InitRows}
      BY DEF EnabledKeys
    <2>6. Seen \subseteq used
      BY <2>3, <2>4, <2>5 DEF Seen
    <2>7. NoJob.op = "none" /\ KeysOf(NoJob.new) = {} /\ Fresh(NoJob.new)
      BY NoKeys, FreshNone DEF NoJob, Locals
    <2>8. ASSUME NEW t \in Threads PROVE OwnKeys(t)
      BY <2>7 DEF Init, OwnKeys
    <2> QED
      BY <2>1, <2>2, <2>4, <2>6, <2>8 DEF UnseenInv
  <1>2. Inv /\ [Next]_vars => Inv'
    BY TypeStep, LockedStep, PassStep, UnseenStep
  <1>3. Inv => ImportUnseen
    BY NewKeysOf DEF UnseenInv, OwnKeys, ImportUnseen
  <1> QED
    BY <1>1, <1>2, <1>3, PTL DEF Spec

-----------------------------------------------------------------------------
(* Imports leave nothing behind.  NoResidue speaks of the moments between   *)
(* requests, NeverExposed of the peers that are not being rolled back; both *)
(* rest on where the peers of a running import are.  A handler that goes    *)
(* forward has put them into the stores it has passed; one that unwinds has *)
(* them still in exactly the stores whose rollback call it owes (Placed).   *)
(* All other keys are in the kernel iff a row enables them, and have rules  *)
(* only then (Settled).  A jump of the dispatch chain leads to a chain with *)
(* rules of a peer that has the address (JumpInv).                          *)

\* The instance: imports only, which may fail at any call, one after another or
\* at the same time; the calls that the code makes without looking at the
\* result (iptables, rollback) succeed.
ImportsOnly ==
    /\ Ops \subseteq {"create", "batch"}
    /\ \A w \in {"iptables", "rollback", "foreign", "crash"} : Budget[w] = 0
    /\ \A r \in InitRows : r.enabled => /\ r.addr # None
                                        /\ r.ips = HostOf[r.addr]

Owes(u, store) == \E i \in DOMAIN u : u[i] = store

Reached(t, store, steps) ==
    pc[t] \in steps \/ (pc[t] = "undo" /\ Owes(job[t].undo, store))

FwHas(t)     == Reached(t, "fw", {"kernel", "insert", "conf"})
KernelHas(t) == Reached(t, "kernel", {"insert", "conf"})
DbHas(t)     == Reached(t, "db", {"conf"})

Ruled(F, r) == /\ <<HostOf[r.addr], r.key>> \in F.jumps
               /\ F.chain[r.key] \notin {None, Flushed}

Unruled(F, k) == F.chain[k] = None /\ \A j \in F.jumps : j[2] # k

Placed(t) ==
    \A r \in NewRows(t) :
       /\ r.key \in KernelKeys(kernel) <=> KernelHas(t)
       /\ r.key \in EnabledKeys(db) <=> DbHas(t)
       /\ FwHas(t) => /\ Ruled(fw, r)
                      /\ \A j \in fw.jumps : j[2] = r.key =>
                                                j[1] = HostOf[r.addr]
       /\ ~ FwHas(t) => Unruled(fw, r.key)

Importing(t) ==
    /\ job[t].op \in {"none", "create", "batch"}
    /\ job[t].op = "none" => KeysOf(job[t].new) = {}
    /\ Fresh(job[t].new)
    /\ KeysOf(job[t].new) \subseteq used
    /\ \A i, j \in DOMAIN job[t].undo : job[t].undo[i] = job[t].undo[j] => i = j
    /\ \A s \in Threads \ {t} : KeysOf(job[s].new) \cap KeysOf(job[t].new) = {}
    /\ Placed(t)

Settled(k) == /\ k \in KernelKeys(kernel) <=> k \in EnabledKeys(db)
              /\ k \notin EnabledKeys(db) => Unruled(fw, k)

\* Keys that nobody has generated yet are nowhere.
Untouched == \A k \in Keys \ used : /\ k \notin KernelKeys(kernel)
                                    /\ k \notin EnabledKeys(db)
                                    /\ Unruled(fw, k)

ImportsAlone ==
    /\ \A w \in {"iptables", "rollback", "foreign", "crash"} : budget[w] = 0
    /\ phase = "up" /\ rec.pc = "idle"

\* The device routes to k only what a jump leads to the chain of k, with rules.
OwnRules(K, F, k) ==
    \A h \in K[k].ips : <<h, k>> \in F.jumps /\ F.chain[k] \notin {None, Flushed}

Screened ==
    \A k \in KernelKeys(kernel) :
       ~ (\E t \in Threads : pc[t] = "undo" /\ k \in NewKeys(t))
          => OwnRules(kernel, fw, k)

ResidueInv ==
    /\ ImportsAlone
    /\ Untouched
    /\ \A t \in Threads : Importing(t)
    /\ \A k \in Keys : (\A t \in Threads : k \notin KeysOf(job[t].new))
                          => Settled(k)
    /\ Screened


(* What the calls on the stores do to the keys of an import, and to others.  *)

LEMMA FreshJob ==
    ASSUME NEW t \in Threads, Fresh(job[t].new)
    PROVE  /\ NewRows(t) \in SUBSET Row
           /\ KeysOf(job[t].new) = {r.key : r \in NewRows(t)}
           /\ \A r \in NewRows(t) :
                 /\ r.addr \in Addrs /\ r.ips = HostOf[r.addr]
                 /\ r.enabled /\ r.key \in KeysOf(job[t].new) /\ r.key \in Keys
           /\ \A q, r \in NewRows(t) : q.key = r.key => q = r
  <1>1. \A i \in DOMAIN job[t].new : job[t].new[i] \in Row
    BY DEF Fresh
  <1>2. NewRows(t) \in SUBSET Row
    BY <1>1 DEF NewRows
  <1>3. KeysOf(job[t].new) = {r.key : r \in NewRows(t)}
    BY DEF KeysOf, NewRows
  <1>4. ASSUME NEW r \in NewRows(t)
        PROVE  /\ r.addr \in Addrs /\ r.ips = HostOf[r.addr]
               /\ r.enabled /\ r.key \in KeysOf(job[t].new) /\ r.key \in Keys
    <2>1. r.addr \in Addrs /\ r.ips = HostOf[r.addr] /\ r.enabled
      BY DEF NewRows, Fresh
    <2>2. r.key \in Keys
      BY <1>2 DEF Row
    <2> QED
      BY <1>3, <2>1, <2>2
  <1>5. ASSUME NEW q \in NewRows(t), NEW r \in NewRows(t), q.key = r.key
        PROVE  q = r
    BY <1>5 DEF NewRows, Fresh
  <1> QED
    BY <1>2, <1>3, <1>4, <1>5

LEMMA RulesRuled ==
    ASSUME NEW a \in Addrs, NEW al \in Allows \cup {None}
    PROVE  [src |-> HostOf[a], allow |-> al] \notin {None, Flushed}
  <1>1. HostOf[a] \in Hosts /\ HostOf[a] # None
    BY StoresAssumption
  <1> DEFINE rule == [src |-> HostOf[a], allow |-> al]
  <1>2. rule \in Rules /\ rule.src # None /\ Flushed.src = None
    BY <1>1 DEF Rules, Flushed
  <1> HIDE DEF rule
  <1>3. rule # None /\ rule # Flushed
    BY <1>2, AbsentAssumption
  <1> QED
    BY <1>3 DEF rule

LEMMA NewConfigured ==
    ASSUME NEW K \in KernelType, NEW new, Fresh(new),
           NEW C, C = ConfigureNew(K, new)
    PROVE  /\ \A i \in DOMAIN new : C[new[i].key].ips \subseteq {HostOf[new[i].addr]}
           /\ \A k \in Keys \ KeysOf(new) :
                 K[k] # None => C[k].ips \subseteq K[k].ips
  <1> DEFINE hs == UNION {IPsOf(new[i]) : i \in DOMAIN new}
             at(k) == CHOOSE i \in DOMAIN new : new[i].key = k
             ip(k) == {h \in IPsOf(new[at(k)]) : \A j \in DOMAIN new :
                                                  j > at(k) => new[j].ips # h}
             peer(k) == [ips |-> ip(k), psk |-> new[at(k)].psk]
  <1>1. C = [k \in Keys |-> IF \E i \in DOMAIN new : new[i].key = k
                              THEN peer(k) ELSE Strip(K[k], hs)]
    BY DEF ConfigureNew
  <1>2. new \in Seq(Row) /\ \A i \in DOMAIN new : new[i] \in Row
    BY DEF Fresh
  <1>3. ASSUME NEW i \in DOMAIN new
        PROVE  C[new[i].key].ips \subseteq {HostOf[new[i].addr]}
    <2>1. new[i].key \in Keys
      BY <1>2 DEF Row
    <2>2. at(new[i].key) = i
      <3>1. /\ at(new[i].key) \in DOMAIN new
            /\ new[at(new[i].key)].key = new[i].key
        OBVIOUS
      <3> HIDE DEF at
      <3> QED
        BY <3>1 DEF Fresh
    <2>3. IPsOf(new[i]) \subseteq {HostOf[new[i].addr]}
      BY DEF Fresh, IPsOf
    <2> HIDE DEF at
    <2>4. ip(new[i].key) \subseteq {HostOf[new[i].addr]}
      BY <2>2, <2>3
    <2> HIDE DEF ip
    <2>5. C[new[i].key] = peer(new[i].key)
      BY <1>1, <2>1
    <2>6. peer(new[i].key).ips = ip(new[i].key)
      OBVIOUS
    <2> QED
      BY <2>4, <2>5, <2>6
  <1> HIDE DEF peer, hs
  <1>4. ASSUME NEW k \in Keys \ KeysOf(new), K[k] # None
        PROVE  C[k].ips \subseteq K[k].ips
    <2>1. C[k] = Strip(K[k], hs)
      BY <1>1 DEF KeysOf
    <2>2. K[k] \in KernelPeer
      BY <1>4 DEF KernelType
    <2>3. Strip(K[k], hs) = [K[k] EXCEPT !.ips = K[k].ips \ hs]
      BY <1>4 DEF Strip
    <2>4. Strip(K[k], hs).ips = K[k].ips \ hs
      BY <2>2, <2>3 DEF KernelPeer
    <2> QED
      BY <2>1, <2>4
  <1> QED
    BY <1>3, <1>4

\* The calls leave the rules of other keys alone.
SameRules(F, G, k) ==
    /\ G.chain[k] = F.chain[k]
    /\ \A j \in Hosts \X Keys : j[2] = k => (j \in G.jumps <=> j \in F.jumps)

LEMMA NewRuled ==
    ASSUME NEW F \in Firewall, NEW rows \in SUBSET Row,
           \A r \in rows : r.addr \in Addrs,
           \A q, r \in rows : q.key = r.key => q = r,
           NEW G, G = FwApplyNew(F, rows)
    PROVE  /\ \A r \in rows :
                 /\ Ruled(G, r)
                 /\ Unruled(F, r.key) =>
                       \A j \in G.jumps : j[2] = r.key => j[1] = HostOf[r.addr]
           /\ \A k \in Keys : ~ HasKey(rows, k) => SameRules(F, G, k)
  <1> DEFINE of(k) == CHOOSE r \in rows : r.key = k
             rule(k) == [src |-> HostOf[of(k).addr], allow |-> of(k).allow]
             chain == [k \in Keys |-> IF HasKey(rows, k) THEN rule(k)
                                                        ELSE F.chain[k]]
             add == {<<HostOf[r.addr], r.key>> : r \in rows}
  <1>1. G.chain = chain /\ G.jumps = F.jumps \cup add
    BY DEF FwApplyNew
  <1>2. ASSUME NEW r \in rows
        PROVE  /\ Ruled(G, r)
               /\ Unruled(F, r.key) =>
                     \A j \in G.jumps : j[2] = r.key => j[1] = HostOf[r.addr]
    <2>1. r.key \in Keys /\ HasKey(rows, r.key) /\ r.allow \in Allows \cup {None}
      BY DEF Row, HasKey
    <2>2. of(r.key) = r
      <3>1. of(r.key) \in rows /\ of(r.key).key = r.key
        BY <2>1
      <3> HIDE DEF of
      <3> QED
        BY <3>1
    <2> HIDE DEF of
    <2>3. G.chain[r.key] = [src |-> HostOf[r.addr], allow |-> r.allow]
      BY <1>1, <2>1, <2>2
    <2>4. G.chain[r.key] \notin {None, Flushed}
      BY <2>1, <2>3, RulesRuled
    <2>5. <<HostOf[r.addr], r.key>> \in G.jumps
      BY <1>1
    <2>6. ASSUME Unruled(F, r.key), NEW j \in G.jumps, j[2] = r.key
          PROVE  j[1] = HostOf[r.addr]
      <3>1. j \in add
        BY <1>1, <2>6 DEF Unruled
      <3>2. PICK q \in rows : j = <<HostOf[q.addr], q.key>>
        BY <3>1
      <3> QED
        BY <2>6, <3>2
    <2> QED
      BY <2>4, <2>5, <2>6 DEF Ruled
  <1>3. ASSUME NEW k \in Keys, ~ HasKey(rows, k) PROVE SameRules(F, G, k)
    <2>1. G.chain[k] = F.chain[k]
      BY <1>1, <1>3
    <2>2. \A j \in add : j[2] # k
      BY <1>3 DEF HasKey
    <2> HIDE DEF add
    <2> QED
      BY <1>1, <2>1, <2>2 DEF SameRules
  <1> QED
    BY <1>2, <1>3

LEMMA NewUnruled ==
    ASSUME NEW F \in Firewall, NEW rows \in SUBSET Row,
           NEW G, G = FwRemoveNew(F, rows)
    PROVE  /\ \A r \in rows :
                 (\A j \in F.jumps : j[2] = r.key => j[1] = HostOf[r.addr])
                    => Unruled(G, r.key)
           /\ \A k \in Keys : ~ HasKey(rows, k) => SameRules(F, G, k)
  <1> DEFINE del == {<<HostOf[r.addr], r.key>> : r \in rows}
             left == F.jumps \ del
             chain == [k \in Keys |->
                         IF ~ HasKey(rows, k) THEN F.chain[k]
                         ELSE IF F.chain[k] = None \/ \A j \in left : j[2] # k
                           THEN None ELSE Flushed]
  <1>1. G.chain = chain /\ G.jumps = left
    BY DEF FwRemoveNew
  <1>2. ASSUME NEW r \in rows,
               \A j \in F.jumps : j[2] = r.key => j[1] = HostOf[r.addr]
        PROVE  Unruled(G, r.key)
    <2>1. r.key \in Keys /\ HasKey(rows, r.key)
      BY DEF Row, HasKey
    <2>2. ASSUME NEW j \in left PROVE j[2] # r.key
      <3>1. j \in Hosts \X Keys /\ j \in F.jumps
        BY DEF Firewall
      <3>2. CASE j[2] = r.key
        <4>1. j = <<HostOf[r.addr], r.key>>
          BY <1>2, <3>1, <3>2
        <4> QED
          BY <4>1
      <3> QED
        BY <3>2
    <2> HIDE DEF left
    <2> QED
      BY <1>1, <2>1, <2>2 DEF Unruled
  <1>3. ASSUME NEW k \in Keys, ~ HasKey(rows, k) PROVE SameRules(F, G, k)
    <2>1. G.chain[k] = F.chain[k]
      BY <1>1, <1>3
    <2>2. \A j \in del : j[2] # k
      BY <1>3 DEF HasKey
    <2> HIDE DEF del
    <2> QED
      BY <1>1, <2>1, <2>2 DEF SameRules
  <1> QED
    BY <1>2, <1>3

LEMMA EnabledInserted ==
    ASSUME NEW D \in SUBSET Row, NEW last, NEW new, Fresh(new)
    PROVE  EnabledKeys(InsertRows(D, last, new)) = EnabledKeys(D) \cup KeysOf(new)
  <1> DEFINE row(i) == [new[i] EXCEPT !.id = last + i]
  <1>1. ASSUME NEW i \in DOMAIN new PROVE row(i).key = new[i].key /\ row(i).enabled
    <2>1. new[i] \in Row /\ new[i].enabled
      BY DEF Fresh
    <2> QED
      BY <2>1 DEF Row
  <1>2. InsertRows(D, last, new) = D \cup {row(i) : i \in DOMAIN new}
    BY DEF InsertRows
  <1> HIDE DEF row
  <1> QED
    BY <1>1, <1>2 DEF EnabledKeys, KeysOf

LEMMA EnabledDeleted ==
    ASSUME NEW D, NEW ks
    PROVE  EnabledKeys(DeleteRows(D, ks)) = EnabledKeys(D) \ ks
  BY DEF EnabledKeys, DeleteRows


(* How a step of one import leaves the others as they were.                  *)

Kept(k) == /\ k \in KernelKeys(kernel') <=> k \in KernelKeys(kernel)
           /\ k \in EnabledKeys(db') <=> k \in EnabledKeys(db)
           /\ SameRules(fw, fw', k)
           /\ kernel[k] # None => kernel'[k].ips \subseteq kernel[k].ips

LEMMA KeptSame ==
    ASSUME UNCHANGED <<db, kernel, fw>>
    PROVE  \A k \in Keys : Kept(k)
  BY DEF Kept, SameRules

LEMMA KeptRules ==
    ASSUME fw \in Firewall, fw' \in Firewall, NEW k \in Keys, Kept(k)
    PROVE  /\ Unruled(fw, k) => Unruled(fw', k)
           /\ \A a \in Addrs : <<HostOf[a], k>> \in fw.jumps =>
                                  <<HostOf[a], k>> \in fw'.jumps
           /\ \A h : (\A j \in fw.jumps : j[2] = k => j[1] = h)
                        => \A j \in fw'.jumps : j[2] = k => j[1] = h
           /\ Settled(k) => Settled(k)'
  <1>1. fw.jumps \subseteq Hosts \X Keys /\ fw'.jumps \subseteq Hosts \X Keys
    BY DEF Firewall
  <1>2. /\ fw'.chain[k] = fw.chain[k]
        /\ \A j \in Hosts \X Keys : j[2] = k => (j \in fw'.jumps <=> j \in fw.jumps)
    BY DEF Kept, SameRules
  <1>3. Unruled(fw, k) => Unruled(fw', k)
    BY <1>1, <1>2 DEF Unruled
  <1>4. ASSUME NEW a \in Addrs, <<HostOf[a], k>> \in fw.jumps
        PROVE  <<HostOf[a], k>> \in fw'.jumps
    BY <1>1, <1>2, <1>4
  <1>5. ASSUME NEW h, \A j \in fw.jumps : j[2] = k => j[1] = h
        PROVE  \A j \in fw'.jumps : j[2] = k => j[1] = h
    BY <1>1, <1>2, <1>5
  <1>6. Settled(k) => Settled(k)'
    BY <1>3 DEF Settled, Kept
  <1> QED
    BY <1>3, <1>4, <1>5, <1>6

LEMMA KeptOwnRules ==
    ASSUME TypeInv, NEW k \in Keys, Kept(k), k \in KernelKeys(kernel),
           OwnRules(kernel, fw, k)
    PROVE  OwnRules(kernel', fw', k)
  <1>1. kernel[k] # None /\ kernel[k].ips \subseteq Hosts
    BY DEF KernelKeys, TypeInv, Stores, KernelType, KernelPeer
  <1>2. kernel'[k].ips \subseteq kernel[k].ips
    BY <1>1 DEF Kept
  <1>3. ASSUME NEW h \in kernel'[k].ips
        PROVE  <<h, k>> \in fw'.jumps /\ fw'.chain[k] \notin {None, Flushed}
    <2>1. h \in Hosts /\ <<h, k>> \in fw.jumps /\ fw.chain[k] \notin {None, Flushed}
      BY <1>1, <1>2 DEF OwnRules
    <2>2. <<h, k>> \in Hosts \X Keys /\ <<h, k>>[2] = k
      BY <2>1
    <2> QED
      BY <2>1, <2>2 DEF Kept, SameRules
  <1> QED
    BY <1>3 DEF OwnRules

LEMMA PlacedKept ==
    ASSUME TypeInv, fw' \in Firewall, NEW t \in Threads, Placed(t),
           Fresh(job[t].new), \A k \in KeysOf(job[t].new) : Kept(k),
           job'[t] = job[t], pc'[t] = pc[t]
    PROVE  Placed(t)'
  <1>0. fw \in Firewall
    BY DEF TypeInv, Stores
  <1>1. /\ NewRows(t)' = NewRows(t)
        /\ FwHas(t)' <=> FwHas(t)
        /\ KernelHas(t)' <=> KernelHas(t)
        /\ DbHas(t)' <=> DbHas(t)
    BY DEF NewRows, FwHas, KernelHas, DbHas, Reached
  <1>2. ASSUME NEW r \in NewRows(t)
        PROVE  r.key \in Keys /\ r.addr \in Addrs /\ Kept(r.key)
    BY FreshJob
  <1>3. ASSUME NEW r \in NewRows(t)
        PROVE  /\ r.key \in KernelKeys(kernel') <=> KernelHas(t)
               /\ r.key \in EnabledKeys(db') <=> DbHas(t)
               /\ FwHas(t) => /\ Ruled(fw', r)
                              /\ \A j \in fw'.jumps : j[2] = r.key =>
                                                         j[1] = HostOf[r.addr]
               /\ ~ FwHas(t) => Unruled(fw', r.key)
    <2>1. /\ r.key \in KernelKeys(kernel) <=> KernelHas(t)
          /\ r.key \in EnabledKeys(db) <=> DbHas(t)
          /\ FwHas(t) => /\ Ruled(fw, r)
                         /\ \A j \in fw.jumps : j[2] = r.key =>
                                                   j[1] = HostOf[r.addr]
          /\ ~ FwHas(t) => Unruled(fw, r.key)
      BY DEF Placed
    <2>2. Kept(r.key) /\ r.key \in Keys /\ r.addr \in Addrs
      BY <1>2
    <2>3. /\ r.key \in KernelKeys(kernel') <=> r.key \in KernelKeys(kernel)
          /\ r.key \in EnabledKeys(db') <=> r.key \in EnabledKeys(db)
          /\ fw'.chain[r.key] = fw.chain[r.key]
      BY <2>2 DEF Kept, SameRules
    <2>4. Ruled(fw, r) => Ruled(fw', r)
      BY <1>0, <2>2, <2>3, KeptRules DEF Ruled
    <2>5. (\A j \in fw.jumps : j[2] = r.key => j[1] = HostOf[r.addr])
             => \A j \in fw'.jumps : j[2] = r.key => j[1] = HostOf[r.addr]
      BY <1>0, <2>2, KeptRules
    <2>6. Unruled(fw, r.key) => Unruled(fw', r.key)
      BY <1>0, <2>2, KeptRules
    <2> QED
      BY <2>1, <2>3, <2>4, <2>5, <2>6
  <1> QED
    BY <1>1, <1>3 DEF Placed

\* What a step of the import t has to show: it leaves other keys alone, and its
\* own peers are where they belong, whether it goes on or returns.
OthersKept(t) == \A k \in Keys \ KeysOf(job[t].new) : Kept(k)

Confining(K, F, k) == k \in KernelKeys(K) => OwnRules(K, F, k)

Answered(t) ==
    /\ job'[t] = NoJob
    /\ \A r \in NewRows(t) : /\ Settled(r.key)'
                             /\ Confining(kernel', fw', r.key)

Gone(t) == Answered(t) /\ \A r \in NewRows(t) : Unruled(fw', r.key)

GoesOn(t) ==
    /\ job'[t].op = job[t].op /\ job'[t].new = job[t].new
    /\ \A i, j \in DOMAIN job'[t].undo :
          job'[t].undo[i] = job'[t].undo[j] => i = j
    /\ Placed(t)'
    /\ \/ pc'[t] = "undo"
       \/ \A r \in NewRows(t) : Confining(kernel', fw', r.key)

LEMMA ResidueMove ==
    ASSUME TypeInv, TypeInv', ResidueInv, ImportsAlone', NEW t \in Threads,
           \A s \in Threads \ {t} : job'[s] = job[s] /\ pc'[s] = pc[s],
           used' = used, OthersKept(t), Answered(t) \/ GoesOn(t)
    PROVE  ResidueInv'
  <1>0. /\ fw \in Firewall /\ fw' \in Firewall
        /\ kernel \in KernelType /\ kernel' \in KernelType
    BY DEF TypeInv, Stores
  <1>a. \A s \in Threads : Importing(s) /\ KeysOf(job[s].new) \subseteq used
    BY DEF ResidueInv, Importing
  <1>b. /\ NoJob.op = "none" /\ KeysOf(NoJob.new) = {} /\ Fresh(NoJob.new)
        /\ NoJob.new = <<>> /\ NoJob.undo = <<>>
    BY NoKeys, FreshNone DEF NoJob, Locals
  <1>c. \/ job'[t] = NoJob /\ KeysOf(job'[t].new) = {}
        \/ job'[t].new = job[t].new
    BY <1>b DEF Answered, GoesOn
  <1>d. KeysOf(job[t].new) = {r.key : r \in NewRows(t)}
    BY DEF KeysOf, NewRows
  <1>1. Untouched'
    BY <1>0, <1>a, KeptRules DEF ResidueInv, Untouched, OthersKept, Kept
  <1>2. ASSUME NEW s \in Threads PROVE Importing(s)'
    <2>1. CASE s = t /\ Answered(t)
      <3>1. NewRows(t)' = {}
        BY <1>b, <2>1, NoSeq DEF Answered, NewRows
      <3>2. Placed(t)'
        BY <3>1 DEF Placed
      <3>3. job'[t].undo = <<>> /\ DOMAIN <<>> = {}
        BY <1>b, <2>1, NoSeq DEF Answered
      <3> QED
        BY <1>b, <2>1, <3>2, <3>3 DEF Importing, Answered
    <2>2. CASE s = t /\ GoesOn(t)
      BY <1>a, <2>2 DEF Importing, GoesOn
    <2>3. CASE s # t
      <3>1. Importing(s) /\ job'[s] = job[s] /\ pc'[s] = pc[s]
        BY <1>a, <2>3
      <3>2. KeysOf(job[s].new) \subseteq Keys \ KeysOf(job[t].new)
        BY <1>a, <2>3, KeysOfType DEF Importing, Fresh
      <3>3. Placed(s)'
        BY <1>0, <3>1, <3>2, PlacedKept DEF Importing, OthersKept
      <3> QED
        BY <1>c, <3>1, <3>3 DEF Importing
    <2> QED
      BY <2>1, <2>2, <2>3
  <1>3. ASSUME NEW k \in Keys, \A s \in Threads : k \notin KeysOf(job'[s].new)
        PROVE  Settled(k)'
    <2>1. CASE k \in KeysOf(job[t].new)
      <3>1. Answered(t)
        BY <1>3, <2>1 DEF GoesOn
      <3> QED
        BY <1>d, <2>1, <3>1 DEF Answered
    <2>2. CASE k \notin KeysOf(job[t].new)
      <3>1. \A s \in Threads : k \notin KeysOf(job[s].new)
        BY <1>3, <2>2
      <3>2. Settled(k) /\ Kept(k)
        BY <2>2, <3>1 DEF ResidueInv, OthersKept
      <3> QED
        BY <1>0, <3>2, KeptRules
    <2> QED
      BY <2>1, <2>2
  <1>4. Screened'
    <2> SUFFICES ASSUME NEW k \in KernelKeys(kernel'),
                        ~ (\E s \in Threads : pc'[s] = "undo" /\ k \in NewKeys(s)')
                 PROVE  OwnRules(kernel', fw', k)
      BY DEF Screened
    <2>0. k \in Keys /\ \A s \in Threads : NewKeys(s)' = KeysOf(job'[s].new)
      BY DEF KernelKeys, NewKeys, NewRows, KeysOf
    <2>1. CASE k \in KeysOf(job[t].new)
      <3>1. Answered(t) \/ pc'[t] # "undo"
        BY <2>0, <2>1 DEF GoesOn
      <3>2. \A r \in NewRows(t) : Confining(kernel', fw', r.key)
        BY <3>1 DEF Answered, GoesOn
      <3> QED
        BY <1>d, <2>1, <3>2 DEF Confining
    <2>2. CASE k \notin KeysOf(job[t].new)
      <3>1. Kept(k) /\ k \in KernelKeys(kernel)
        BY <2>0, <2>2 DEF OthersKept, Kept
      <3>2. ~ (\E s \in Threads : pc[s] = "undo" /\ k \in NewKeys(s))
        BY <2>0, <2>2, NewKeysOf
      <3>3. OwnRules(kernel, fw, k)
        BY <3>1, <3>2 DEF ResidueInv, Screened
      <3> QED
        BY <2>0, <3>1, <3>3, KeptOwnRules
    <2> QED
      BY <2>1, <2>2
  <1> QED
    BY <1>1, <1>2, <1>3, <1>4 DEF ResidueInv


(* The rollback calls an import owes.                                        *)

Distinct(u) == \A i, j \in DOMAIN u : u[i] = u[j] => i = j

LEMMA OwesTuples ==
    /\ Distinct(<<"fw">>) /\ Distinct(<<"fw", "kernel">>)
    /\ Distinct(<<"fw", "db", "kernel">>) /\ Distinct(<<"db", "fw", "kernel">>)
    /\ \A x : /\ Owes(<<"fw">>, x) <=> x = "fw"
              /\ Owes(<<"fw", "kernel">>, x) <=> x \in {"fw", "kernel"}
              /\ Owes(<<"fw", "db", "kernel">>, x) <=> x \in {"fw", "db", "kernel"}
              /\ Owes(<<"db", "fw", "kernel">>, x) <=> x \in {"fw", "db", "kernel"}
  BY DEF Distinct, Owes

LEMMA OwesNext ==
    ASSUME NEW u \in Seq(UndoSteps), u # <<>>, Distinct(u)
    PROVE  /\ Owes(u, Head(u))
           /\ Len(u) > 1 =>
                 /\ Distinct(Tail(u))
                 /\ \A x : Owes(Tail(u), x) <=> Owes(u, x) /\ x # Head(u)
           /\ ~ (Len(u) > 1) => \A x : Owes(u, x) <=> x = Head(u)
  <1>1. /\ Len(u) \in Nat \ {0} /\ DOMAIN u = 1 .. Len(u) /\ Head(u) = u[1]
        /\ 1 \in DOMAIN u
    BY EmptySeq
  <1>2. ASSUME Len(u) > 1
        PROVE  /\ Distinct(Tail(u))
               /\ \A x : Owes(Tail(u), x) <=> Owes(u, x) /\ x # Head(u)
    <2>1. /\ Len(Tail(u)) = Len(u) - 1
          /\ DOMAIN Tail(u) = 1 .. (Len(u) - 1)
          /\ \A i \in 1 .. (Len(u) - 1) : Tail(u)[i] = u[i + 1]
      BY <1>2, HeadTailProperties, LenProperties
    <2>2. Distinct(Tail(u))
      <3> SUFFICES ASSUME NEW i \in 1 .. (Len(u) - 1), NEW j \in 1 .. (Len(u) - 1),
                          u[i + 1] = u[j + 1]
                   PROVE  i = j
        BY <2>1 DEF Distinct
      <3>1. i + 1 \in DOMAIN u /\ j + 1 \in DOMAIN u
        BY <1>1
      <3>2. i + 1 = j + 1
        BY <3>1 DEF Distinct
      <3> QED
        BY <3>2
    <2>3. ASSUME NEW x, Owes(Tail(u), x) PROVE Owes(u, x) /\ x # Head(u)
      <3>1. PICK i \in 1 .. (Len(u) - 1) : u[i + 1] = x
        BY <2>1, <2>3 DEF Owes
      <3>2. i + 1 \in DOMAIN u /\ i + 1 # 1
        BY <1>1
      <3> QED
        BY <1>1, <3>1, <3>2 DEF Owes, Distinct
    <2>4. ASSUME NEW x, Owes(u, x), x # Head(u) PROVE Owes(Tail(u), x)
      <3>1. PICK i \in 1 .. Len(u) : u[i] = x
        BY <1>1, <2>4 DEF Owes
      <3>2. i # 1
        BY <1>1, <2>4, <3>1
      <3>3. i - 1 \in 1 .. (Len(u) - 1) /\ (i - 1) + 1 = i
        BY <1>1, <3>2
      <3>4. Tail(u)[i - 1] = x
        BY <2>1, <3>1, <3>3
      <3> QED
        BY <2>1, <3>3, <3>4 DEF Owes
    <2> QED
      BY <2>2, <2>3, <2>4
  <1>3. ASSUME ~ (Len(u) > 1) PROVE \A x : Owes(u, x) <=> x = Head(u)
    <2>1. DOMAIN u = {1}
      BY <1>1, <1>3
    <2> QED
      BY <1>1, <2>1 DEF Owes
  <1>4. Owes(u, Head(u))
    BY <1>1 DEF Owes
  <1> QED
    BY <1>2, <1>3, <1>4

\* An import takes the error path: its peers stay where they are, and it owes a
\* rollback call for exactly the stores they are in.
LEMMA ResidueUnwind ==
    ASSUME TypeInv, TypeInv', ResidueInv, NEW t \in Threads, NEW u, Unwind(t, u),
           UNCHANGED <<db, kernel, fw>>, Distinct(u),
           pc[t] \in {"kernel", "insert", "conf"}, Owes(u, "fw"),
           Owes(u, "kernel") <=> pc[t] \in {"insert", "conf"},
           Owes(u, "db") <=> pc[t] = "conf"
    PROVE  OthersKept(t) /\ GoesOn(t)
  <1>0. /\ job[t] \in Job /\ job \in [Threads -> Job]
        /\ pc \in [Threads -> Steps] /\ Placed(t)
    BY DEF TypeInv, Control, ResidueInv, Importing
  <1>1. /\ job'[t].op = job[t].op /\ job'[t].new = job[t].new
        /\ job'[t].undo = u /\ pc'[t] = "undo"
    BY <1>0 DEF Unwind, Job
  <1>2. NewRows(t)' = NewRows(t)
    BY <1>1 DEF NewRows
  <1>3. /\ FwHas(t)' <=> FwHas(t)
        /\ KernelHas(t)' <=> KernelHas(t)
        /\ DbHas(t)' <=> DbHas(t)
    BY <1>1 DEF FwHas, KernelHas, DbHas, Reached
  <1>4. Placed(t)'
    BY <1>0, <1>2, <1>3 DEF Placed
  <1> QED
    BY <1>1, <1>4, KeptSame DEF OthersKept, GoesOn, Distinct

LEMMA NoIptablesFault ==
    ASSUME ImportsAlone, TypeInv
    PROVE  ~ Spend("iptables") /\ ~ Spend("rollback")
  <1>1. budget["iptables"] = 0 /\ budget["rollback"] = 0
    BY DEF ImportsAlone
  <1> QED
    BY <1>1 DEF Spend

\* The import goes forward to the next store.
LEMMA ResidueImport ==
    ASSUME TypeInv, TypeInv', ResidueInv, NEW t \in Threads, Import(t)
    PROVE  OthersKept(t) /\ (Answered(t) \/ GoesOn(t))
  <1>0. /\ job[t] \in Job /\ job \in [Threads -> Job]
        /\ pc \in [Threads -> Steps] /\ Placed(t) /\ Fresh(job[t].new)
        /\ kernel \in KernelType /\ fw \in Firewall /\ db \in SUBSET Row
        /\ job[t].new \in Seq(Row)
        /\ job[t].op \in {"none", "create", "batch"}
        /\ Distinct(job[t].undo) /\ ImportsAlone
    BY DEF TypeInv, Control, Stores, ResidueInv, Importing, Fresh, Distinct
  <1>a. /\ NewRows(t) \in SUBSET Row
        /\ KeysOf(job[t].new) = {r.key : r \in NewRows(t)}
        /\ \A r \in NewRows(t) :
              /\ r.addr \in Addrs /\ r.ips = HostOf[r.addr]
              /\ r.enabled /\ r.key \in KeysOf(job[t].new) /\ r.key \in Keys
        /\ \A q, r \in NewRows(t) : q.key = r.key => q = r
    BY <1>0, FreshJob
  <1>b. ASSUME NEW step \in {"kernel", "insert", "conf"}, Goto(t, step)
        PROVE  /\ job'[t] = job[t] /\ pc'[t] = step /\ NewRows(t)' = NewRows(t)
               /\ FwHas(t)'
               /\ KernelHas(t)' <=> step \in {"insert", "conf"}
               /\ DbHas(t)' <=> step = "conf"
    <2>1. job' = job /\ pc'[t] = step
      BY <1>0, <1>b DEF Goto
    <2> QED
      BY <2>1 DEF NewRows, FwHas, KernelHas, DbHas, Reached
  <1>c. \A k \in Keys : k \notin KeysOf(job[t].new) => ~ HasKey(NewRows(t), k)
    BY <1>a DEF HasKey
  <1>1. CASE ImportFirewall(t)
    <2>1. /\ pc[t] = "fw" /\ fw' = FwApplyNew(fw, NewRows(t))
          /\ Goto(t, "kernel") /\ UNCHANGED <<db, kernel>>
      BY <1>0, <1>1, NoIptablesFault DEF ImportFirewall, Try
    <2>2. /\ \A r \in NewRows(t) :
                /\ Ruled(fw', r)
                /\ Unruled(fw, r.key) =>
                      \A j \in fw'.jumps : j[2] = r.key => j[1] = HostOf[r.addr]
          /\ \A k \in Keys : ~ HasKey(NewRows(t), k) => SameRules(fw, fw', k)
      BY <1>0, <1>a, <2>1, NewRuled
    <2>3. OthersKept(t)
      BY <1>c, <2>1, <2>2 DEF OthersKept, Kept
    <2>4. ~ FwHas(t) /\ ~ KernelHas(t) /\ ~ DbHas(t)
      BY <2>1 DEF FwHas, KernelHas, DbHas, Reached
    <2>5. ASSUME NEW r \in NewRows(t)
          PROVE  /\ r.key \notin KernelKeys(kernel)
                 /\ r.key \notin EnabledKeys(db) /\ Unruled(fw, r.key)
      BY <1>0, <2>4 DEF Placed
    <2>6. Placed(t)'
      BY <1>b, <2>1, <2>2, <2>5 DEF Placed
    <2>7. GoesOn(t)
      BY <1>0, <1>b, <2>1, <2>5, <2>6 DEF GoesOn, Confining, Distinct
    <2> QED
      BY <2>3, <2>7
  <1>2. CASE ImportKernel(t)
    <2>0. pc[t] = "kernel" /\ UNCHANGED <<db, fw>>
      BY <1>2 DEF ImportKernel
    <2>1. CASE Unwind(t, <<"fw">>) /\ UNCHANGED kernel
      BY <2>0, <2>1, OwesTuples, ResidueUnwind
    <2>2. CASE kernel' = ConfigureNew(kernel, job[t].new) /\ Goto(t, "insert")
      <3>1. KernelKeys(kernel') = KernelKeys(kernel) \cup KeysOf(job[t].new)
        BY <1>0, <2>2, KeysAdded DEF KeysOf
      <3>2. /\ \A i \in DOMAIN job[t].new :
                  kernel'[job[t].new[i].key].ips
                     \subseteq {HostOf[job[t].new[i].addr]}
            /\ \A k \in Keys \ KeysOf(job[t].new) :
                  kernel[k] # None => kernel'[k].ips \subseteq kernel[k].ips
        BY <1>0, <2>2, NewConfigured
      <3>3. \A r \in NewRows(t) : kernel'[r.key].ips \subseteq {HostOf[r.addr]}
        BY <3>2 DEF NewRows
      <3>4. OthersKept(t)
        BY <2>0, <3>1, <3>2 DEF OthersKept, Kept, SameRules
      <3>5. FwHas(t) /\ ~ DbHas(t)
        BY <2>0 DEF FwHas, DbHas, Reached
      <3>6. \A r \in NewRows(t) :
               /\ r.key \notin EnabledKeys(db) /\ Ruled(fw, r)
               /\ \A j \in fw.jumps : j[2] = r.key => j[1] = HostOf[r.addr]
        BY <1>0, <3>5 DEF Placed
      <3>7. Placed(t)'
        BY <1>a, <1>b, <2>0, <2>2, <3>1, <3>6 DEF Placed
      <3>8. \A r \in NewRows(t) : Confining(kernel', fw', r.key)
        BY <2>0, <3>3, <3>6 DEF Confining, OwnRules, Ruled
      <3>9. GoesOn(t)
        BY <1>0, <1>b, <2>2, <3>7, <3>8 DEF GoesOn, Distinct
      <3> QED
        BY <3>4, <3>9
    <2> QED
      BY <1>2, <2>1, <2>2 DEF ImportKernel
  <1>3. CASE ImportInsert(t)
    <2>0. pc[t] = "insert" /\ UNCHANGED <<kernel, fw>>
      BY <1>3 DEF ImportInsert
    <2>1. CASE Unwind(t, <<"fw", "kernel">>) /\ UNCHANGED db
      BY <2>0, <2>1, OwesTuples, ResidueUnwind
    <2>2. CASE db' = InsertRows(db, lastId, job[t].new) /\ Goto(t, "conf")
      <3>1. EnabledKeys(db') = EnabledKeys(db) \cup KeysOf(job[t].new)
        BY <1>0, <2>2, EnabledInserted
      <3>2. OthersKept(t)
        BY <2>0, <3>1 DEF OthersKept, Kept, SameRules
      <3>3. FwHas(t) /\ KernelHas(t)
        BY <2>0 DEF FwHas, KernelHas, Reached
      <3>4. \A r \in NewRows(t) :
               /\ r.key \in KernelKeys(kernel) /\ Ruled(fw, r)
               /\ \A j \in fw.jumps : j[2] = r.key => j[1] = HostOf[r.addr]
        BY <1>0, <3>3 DEF Placed
      <3>5. Placed(t)'
        BY <1>a, <1>b, <2>0, <2>2, <3>1, <3>4 DEF Placed
      <3>6. \A r \in NewRows(t) : Confining(kernel, fw, r.key)
        <4>1. \A s \in Threads : pc[s] = "undo" => s # t
          BY <2>0
        <4>2. \A s \in Threads \ {t} :
                 NewKeys(s) \cap KeysOf(job[t].new) = {}
          BY NewKeysOf DEF ResidueInv, Importing
        <4> QED
          BY <1>a, <4>1, <4>2 DEF ResidueInv, Screened, Confining
      <3>7. GoesOn(t)
        BY <1>0, <1>b, <2>0, <2>2, <3>5, <3>6 DEF GoesOn, Distinct
      <3> QED
        BY <3>2, <3>7
    <2> QED
      BY <1>3, <2>1, <2>2 DEF ImportInsert
  <1>4. CASE ConfWrite(t)
    <2>0. pc[t] = "conf" /\ UNCHANGED <<db, kernel, fw>>
      BY <1>4 DEF ConfWrite, stores
    <2>1. job[t].op \in {"create", "batch"}
      BY <1>0, <2>0 DEF TypeInv, Control, Shape
    <2>2. CASE Unwind(t, RollbackOf(job[t].op))
      <3>1. RollbackOf(job[t].op)
              \in {<<"fw", "db", "kernel">>, <<"db", "fw", "kernel">>}
        BY <2>1 DEF RollbackOf
      <3>2. /\ Distinct(RollbackOf(job[t].op))
            /\ \A x \in {"fw", "db", "kernel"} : Owes(RollbackOf(job[t].op), x)
        BY <3>1, OwesTuples
      <3> QED
        BY <2>0, <2>2, <3>2, ResidueUnwind
    <2>3. CASE Return(t)
      <3>1. job'[t] = NoJob
        BY <1>0, <2>3 DEF Return
      <3>2. KernelHas(t) /\ DbHas(t)
        BY <2>0 DEF KernelHas, DbHas, Reached
      <3>3. \A r \in NewRows(t) : r.key \in KernelKeys(kernel) \cap EnabledKeys(db)
        BY <1>0, <3>2 DEF Placed
      <3>4. \A r \in NewRows(t) : Settled(r.key)'
        BY <2>0, <3>3 DEF Settled
      <3>5. \A r \in NewRows(t) : Confining(kernel, fw, r.key)
        <4>1. \A s \in Threads : pc[s] = "undo" => s # t
          BY <2>0
        <4>2. \A s \in Threads \ {t} :
                 NewKeys(s) \cap KeysOf(job[t].new) = {}
          BY NewKeysOf DEF ResidueInv, Importing
        <4> QED
          BY <1>a, <4>1, <4>2 DEF ResidueInv, Screened, Confining
      <3>6. Answered(t)
        BY <2>0, <3>1, <3>4, <3>5 DEF Answered
      <3> QED
        BY <2>0, <3>6, KeptSame DEF OthersKept
    <2> QED
      BY <1>4, <2>1, <2>2, <2>3 DEF ConfWrite
  <1> QED
    BY <1>1, <1>2, <1>3, <1>4 DEF Import


\* A rollback call takes the peers out of its store; after the last one they
\* are nowhere.
LEMMA ResidueUndo ==
    ASSUME TypeInv, TypeInv', ResidueInv, NEW t \in Threads,
           UndoFirewall(t) \/ UndoDB(t) \/ UndoKernel(t)
    PROVE  OthersKept(t) /\ (Gone(t) \/ GoesOn(t))
  <1>0. /\ job[t] \in Job /\ job \in [Threads -> Job]
        /\ pc \in [Threads -> Steps] /\ Placed(t) /\ Fresh(job[t].new)
        /\ kernel \in KernelType /\ fw \in Firewall /\ db \in SUBSET Row
        /\ Distinct(job[t].undo) /\ ImportsAlone
    BY DEF TypeInv, Control, Stores, ResidueInv, Importing, Distinct
  <1>a. /\ NewRows(t) \in SUBSET Row
        /\ KeysOf(job[t].new) = {r.key : r \in NewRows(t)}
        /\ \A r \in NewRows(t) : r.key \in KeysOf(job[t].new) /\ r.key \in Keys
    BY <1>0, FreshJob
  <1>b. NewKeys(t) = KeysOf(job[t].new)
    BY NewKeysOf
  <1>c. \A k \in Keys : k \notin KeysOf(job[t].new) => ~ HasKey(NewRows(t), k)
    BY <1>a DEF HasKey
  <1>1. /\ pc[t] = "undo" /\ NextUndo(t)
        /\ job[t].undo \in Seq(UndoSteps) /\ job[t].undo # <<>>
    BY <1>0 DEF UndoFirewall, UndoDB, UndoKernel, Unwinding, TypeInv, Control,
       Job, UndoSteps
  <1>2. PICK u : u = job[t].undo
    OBVIOUS
  <1>3. PICK x : x = Head(u)
    OBVIOUS
  <1>4. /\ FwHas(t) <=> Owes(u, "fw")
        /\ KernelHas(t) <=> Owes(u, "kernel")
        /\ DbHas(t) <=> Owes(u, "db")
    BY <1>1, <1>2 DEF FwHas, KernelHas, DbHas, Reached
  <1>5. /\ u \in Seq(UndoSteps) /\ u # <<>> /\ Distinct(u)
    BY <1>0, <1>1, <1>2
  <1>6. /\ OthersKept(t)
        /\ \A r \in NewRows(t) :
              /\ r.key \in KernelKeys(kernel') <=> Owes(u, "kernel") /\ x # "kernel"
              /\ r.key \in EnabledKeys(db') <=> Owes(u, "db") /\ x # "db"
              /\ Owes(u, "fw") /\ x # "fw" =>
                    /\ Ruled(fw', r)
                    /\ \A j \in fw'.jumps : j[2] = r.key => j[1] = HostOf[r.addr]
              /\ ~ (Owes(u, "fw") /\ x # "fw") => Unruled(fw', r.key)
    <2>1. CASE UndoFirewall(t)
      <3>1. /\ x = "fw" /\ fw' = FwRemoveNew(fw, NewRows(t))
            /\ UNCHANGED <<db, kernel>>
        BY <1>0, <1>2, <1>3, <2>1, NoIptablesFault DEF UndoFirewall, Unwinding, Try
      <3>2. /\ \A r \in NewRows(t) :
                  (\A j \in fw.jumps : j[2] = r.key => j[1] = HostOf[r.addr])
                     => Unruled(fw', r.key)
            /\ \A k \in Keys : ~ HasKey(NewRows(t), k) => SameRules(fw, fw', k)
        BY <1>0, <1>a, <3>1, NewUnruled
      <3>3. Owes(u, "fw")
        BY <1>3, <1>5, <3>1, OwesNext
      <3>4. \A r \in NewRows(t) : Unruled(fw', r.key)
        BY <1>0, <1>4, <3>2, <3>3 DEF Placed
      <3>5. OthersKept(t)
        BY <1>c, <3>1, <3>2 DEF OthersKept, Kept
      <3> QED
        BY <1>0, <1>4, <3>1, <3>4, <3>5 DEF Placed
    <2>2. CASE UndoDB(t)
      <3>1. /\ x = "db" /\ db' = DeleteRows(db, NewKeys(t))
            /\ UNCHANGED <<kernel, fw>>
        BY <1>0, <1>2, <1>3, <2>2, NoIptablesFault DEF UndoDB, Unwinding, Try
      <3>2. EnabledKeys(db') = EnabledKeys(db) \ KeysOf(job[t].new)
        BY <1>b, <3>1, EnabledDeleted
      <3>3. OthersKept(t)
        BY <3>1, <3>2 DEF OthersKept, Kept, SameRules
      <3> QED
        BY <1>0, <1>a, <1>4, <3>1, <3>2, <3>3 DEF Placed
    <2>3. CASE UndoKernel(t)
      <3>1. /\ x = "kernel" /\ kernel' = RemovePeers(kernel, NewKeys(t))
            /\ UNCHANGED <<db, fw>>
        BY <1>0, <1>2, <1>3, <2>3, NoIptablesFault DEF UndoKernel, Unwinding, Try
      <3>2. KernelKeys(kernel') = KernelKeys(kernel) \ KeysOf(job[t].new)
        BY <1>0, <1>b, <3>1, KeysRemoved
      <3>3. \A k \in Keys \ KeysOf(job[t].new) : kernel'[k] = kernel[k]
        BY <1>b, <3>1 DEF RemovePeers
      <3>4. OthersKept(t)
        BY <3>1, <3>2, <3>3 DEF OthersKept, Kept, SameRules
      <3> QED
        BY <1>0, <1>a, <1>4, <3>1, <3>2, <3>4 DEF Placed
    <2> QED
      BY <2>1, <2>2, <2>3
  <1>7. CASE Len(u) > 1
    <2>1. /\ job'[t].op = job[t].op /\ job'[t].new = job[t].new
          /\ job'[t].undo = Tail(u) /\ pc'[t] = "undo"
      BY <1>0, <1>1, <1>2, <1>7 DEF NextUndo, Job
    <2>2. /\ Distinct(Tail(u))
          /\ \A y : Owes(Tail(u), y) <=> Owes(u, y) /\ y # x
      BY <1>3, <1>5, <1>7, OwesNext
    <2>3. /\ FwHas(t)' <=> Owes(u, "fw") /\ x # "fw"
          /\ KernelHas(t)' <=> Owes(u, "kernel") /\ x # "kernel"
          /\ DbHas(t)' <=> Owes(u, "db") /\ x # "db"
      BY <2>1, <2>2 DEF FwHas, KernelHas, DbHas, Reached
    <2>4. NewRows(t)' = NewRows(t)
      BY <2>1 DEF NewRows
    <2>5. Placed(t)'
      BY <1>6, <2>3, <2>4 DEF Placed
    <2>6. GoesOn(t)
      BY <2>1, <2>2, <2>5 DEF GoesOn, Distinct
    <2> QED
      BY <1>6, <2>6
  <1>8. CASE ~ (Len(u) > 1)
    <2>1. \A y : Owes(u, y) <=> y = x
      BY <1>3, <1>5, <1>8, OwesNext
    <2>2. job'[t] = NoJob
      BY <1>0, <1>1, <1>2, <1>8 DEF NextUndo, Return
    <2>3. ASSUME NEW r \in NewRows(t)
          PROVE  Settled(r.key)' /\ Confining(kernel', fw', r.key)
      <3>1. /\ r.key \notin KernelKeys(kernel') /\ r.key \notin EnabledKeys(db')
            /\ Unruled(fw', r.key)
        BY <1>6, <2>1
      <3> QED
        BY <3>1 DEF Settled, Confining
    <2>4. Gone(t)
      BY <1>6, <2>1, <2>2, <2>3 DEF Answered, Gone
    <2> QED
      BY <1>6, <2>4
  <1> QED
    BY <1>7, <1>8

\* A request: the keys of the new peers are fresh, and in no store.
LEMMA ResidueRequest ==
    ASSUME Ops \subseteq {"create", "batch"}, TypeInv, TypeInv', ResidueInv,
           ImportsAlone', NEW t \in Threads, Request(t)
    PROVE  ResidueInv'
  <1>0. /\ pc \in [Threads -> Steps] /\ job \in [Threads -> Job]
        /\ fw \in Firewall
    BY DEF TypeInv, Control, Stores
  <1>1. PICK op \in {"create", "batch"} :
          \E step \in {"fw", "pause"} : \E new : ImportAccepted(t, op, step, new)
    <2>1. ~ UpdatePeer(t) /\ ~ RotateKeys(t) /\ ~ ApprovePeer(t) /\ ~ DeletePeer(t)
      BY DEF UpdatePeer, RotateKeys, ApprovePeer, DeletePeer, Accept, Locals
    <2> QED
      BY <2>1, CreateRequest, BatchRequest DEF Request
  <1>2. PICK step \in {"fw", "pause"} : \E new : ImportAccepted(t, op, step, new)
    BY <1>1
  <1>3. PICK new : ImportAccepted(t, op, step, new)
    BY <1>2
  <1>4. /\ Fresh(new) /\ KeysOf(new) \cap used = {}
        /\ used' = used \cup KeysOf(new)
        /\ UNCHANGED <<db, kernel, fw>>
        /\ job' = [job EXCEPT ![t] = Locals(op, None, new, None)]
        /\ pc' = [pc EXCEPT ![t] = step]
    BY <1>3 DEF ImportAccepted
  <1>5. /\ job'[t].op = op /\ job'[t].new = new /\ job'[t].undo = <<>>
        /\ pc'[t] = step
        /\ \A s \in Threads \ {t} : job'[s] = job[s] /\ pc'[s] = pc[s]
    BY <1>0, <1>4 DEF Locals
  <1>6. pc[t] = "idle" /\ KeysOf(job[t].new) = {}
    <2>1. pc[t] = "idle"
      BY DEF Request, CreatePeer, BatchCreatePeers, UpdatePeer, RotateKeys,
         ApprovePeer, DeletePeer, Accept
    <2>2. job[t].op = "none"
      BY <2>1 DEF TypeInv, Control, Shape
    <2> QED
      BY <2>1, <2>2 DEF ResidueInv, Importing
  <1>7. \A k \in Keys : Kept(k)
    BY <1>4, KeptSame
  <1>8. Untouched'
    BY <1>4 DEF ResidueInv, Untouched
  <1>9. Importing(t)'
    <2>1. DOMAIN <<>> = {}
      BY NoSeq
    <2>2. ~ FwHas(t)' /\ ~ KernelHas(t)' /\ ~ DbHas(t)'
      BY <1>5 DEF FwHas, KernelHas, DbHas, Reached
    <2>3. KeysOf(new) \subseteq Keys \ used
      BY <1>4, KeysOfType DEF Fresh
    <2>4. ASSUME NEW r \in NewRows(t)' PROVE r.key \in KeysOf(new)
      BY <1>5, <2>4 DEF NewRows, KeysOf
    <2>5. Placed(t)'
      BY <1>4, <2>2, <2>3, <2>4 DEF Placed, ResidueInv, Untouched
    <2>6. \A s \in Threads \ {t} : KeysOf(job'[s].new) \cap KeysOf(new) = {}
      BY <1>4, <1>5 DEF ResidueInv, Importing
    <2> QED
      BY <1>4, <1>5, <2>1, <2>5, <2>6 DEF Importing
  <1>10. ASSUME NEW s \in Threads \ {t} PROVE Importing(s)'
    <2>1. Importing(s) /\ job'[s] = job[s] /\ pc'[s] = pc[s]
      BY <1>5 DEF ResidueInv
    <2>2. \A k \in KeysOf(job[s].new) : Kept(k)
      BY <1>7, <2>1, KeysOfType DEF Importing, Fresh
    <2>3. Placed(s)'
      BY <1>0, <1>4, <2>1, <2>2, PlacedKept DEF Importing
    <2> QED
      BY <1>4, <1>5, <2>1, <2>3 DEF Importing
  <1>11. ASSUME NEW k \in Keys, \A s \in Threads : k \notin KeysOf(job'[s].new)
         PROVE  Settled(k)'
    <2>1. \A s \in Threads : k \notin KeysOf(job[s].new)
      BY <1>5, <1>6, <1>11
    <2>2. Settled(k)
      BY <2>1 DEF ResidueInv
    <2> QED
      BY <1>4, <2>2 DEF Settled
  <1>12. Screened'
    <2>1. \A s \in Threads : pc[s] = "undo" => /\ pc'[s] = "undo"
                                             /\ NewKeys(s)' = NewKeys(s)
      BY <1>5, <1>6 DEF NewKeys, NewRows
    <2> QED
      BY <1>4, <2>1 DEF ResidueInv, Screened
  <1> QED
    BY <1>8, <1>9, <1>10, <1>11, <1>12 DEF ResidueInv

LEMMA ResidueAlone ==
    ASSUME Ops \subseteq {"create", "batch"}, TypeInv, ImportsAlone, [Next]_vars
    PROVE  ImportsAlone' /\ ~ Reconcile /\ ~ FirewallSync /\ ~ Environment
  <1>1. /\ budget["iptables"] = 0 /\ budget["rollback"] = 0
        /\ budget["foreign"] = 0 /\ budget["crash"] = 0
        /\ phase = "up" /\ rec.pc = "idle"
    BY DEF ImportsAlone
  <1>2. ~ Environment
    BY <1>1 DEF Environment, ForeignAdd, ForeignRemove, Crash, Spend
  <1>3. ~ FirewallSync
    BY <1>1 DEF FirewallSync
  <1>4. ~ Reconcile
    BY <1>1 DEF Reconcile, RecDevice, RecList, RecRemove, RecZombieFirewall,
       RecUpsert, RecMissing, RecReadd, RecReaddFirewall, RecDone
  <1>5. ASSUME NEW w \in {"iptables", "rollback", "foreign", "crash"}
        PROVE  budget'[w] = 0
    <2>1. w \in EnvKinds /\ budget[w] = 0
      BY <1>1 DEF EnvKinds
    <2> QED
      BY <2>1, BudgetFalls
  <1>6. phase' = phase /\ rec' = rec
    <2>1. ASSUME NEW t \in Threads, Request(t) PROVE phase' = phase /\ rec' = rec
      BY <2>1 DEF Request, CreatePeer, BatchCreatePeers, UpdatePeer, RotateKeys,
         ApprovePeer, DeletePeer, Accept
    <2>2. ASSUME NEW t \in Threads, Pause(t) PROVE phase' = phase /\ rec' = rec
      BY <2>2 DEF Pause
    <2>3. ASSUME NEW t \in Threads, Handler(t) PROVE phase' = phase /\ rec' = rec
      BY <2>3, HandlerJob
    <2> QED
      BY <1>2, <1>3, <1>4, <2>1, <2>2, <2>3 DEF Next, vars
  <1> QED
    BY <1>1, <1>2, <1>3, <1>4, <1>5, <1>6 DEF ImportsAlone

LEMMA ResidueStep ==
    ASSUME Ops \subseteq {"create", "batch"}, TypeInv, TypeInv', ResidueInv,
           [Next]_vars
    PROVE  ResidueInv'
  <1>0. ImportsAlone' /\ ~ Reconcile /\ ~ FirewallSync /\ ~ Environment
    BY ResidueAlone DEF ResidueInv
  <1>1. ASSUME NEW t \in Threads, Handler(t) PROVE ResidueInv'
    <2>1. /\ \A s \in Threads \ {t} : job'[s] = job[s] /\ pc'[s] = pc[s]
          /\ used' = used
      BY <1>1, HandlerJob
    <2>2. job[t].op \in {"none", "create", "batch"}
      BY DEF ResidueInv, Importing
    <2>3. ~ Delete(t)
      <3>1. Shape(job[t], pc[t])
        BY DEF TypeInv, Control
      <3> QED
        BY <2>2, <3>1
        DEF Shape, Delete, DeleteKernel, DeleteDB, DeleteFirewall
    <2>4. Import(t) \/ UndoFirewall(t) \/ UndoDB(t) \/ UndoKernel(t)
      BY <1>1, <2>2, <2>3, PlainHandler
    <2>5. OthersKept(t) /\ (Answered(t) \/ GoesOn(t))
      BY <2>4, ResidueImport, ResidueUndo DEF Gone
    <2> QED
      BY <1>0, <2>1, <2>5, ResidueMove
  <1>2. ASSUME NEW t \in Threads, Pause(t) PROVE ResidueInv'
    <2>0. /\ pc \in [Threads -> Steps] /\ Importing(t) /\ Shape(job[t], pc[t])
      BY DEF TypeInv, Control, ResidueInv
    <2>1. /\ pc[t] = "pause" /\ job' = job /\ used' = used
          /\ UNCHANGED <<db, kernel, fw>>
          /\ \A s \in Threads \ {t} : job'[s] = job[s] /\ pc'[s] = pc[s]
      BY <1>2, <2>0 DEF Pause, stores
    <2>2. pc'[t] = "fw"
      <3>1. job[t].op = "batch"
        BY <2>0, <2>1 DEF Shape, Importing
      <3> QED
        BY <1>2, <2>0, <3>1 DEF Pause
    <2>3. /\ ~ FwHas(t) /\ ~ KernelHas(t) /\ ~ DbHas(t)
          /\ ~ FwHas(t)' /\ ~ KernelHas(t)' /\ ~ DbHas(t)'
      BY <2>1, <2>2 DEF FwHas, KernelHas, DbHas, Reached
    <2>4. NewRows(t)' = NewRows(t)
      BY <2>1 DEF NewRows
    <2>5. Placed(t)' /\ \A r \in NewRows(t) : r.key \notin KernelKeys(kernel)
      BY <2>0, <2>1, <2>3, <2>4 DEF Importing, Placed
    <2>6. GoesOn(t)
      BY <2>0, <2>1, <2>5 DEF GoesOn, Importing, Confining
    <2>7. OthersKept(t)
      BY <2>1, KeptSame DEF OthersKept
    <2> QED
      BY <1>0, <2>1, <2>6, <2>7, ResidueMove
  <1>3. CASE UNCHANGED vars
    <2>1. UNCHANGED <<db, kernel, fw, used, pc, job>>
      BY <1>3 DEF vars, stores
    <2>2. Untouched' /\ Screened'
      BY <2>1 DEF ResidueInv, Untouched, Screened, NewKeys, NewRows
    <2>3. \A t \in Threads : Importing(t)'
      BY <2>1 DEF ResidueInv, Importing, Placed, NewRows, FwHas, KernelHas,
         DbHas, Reached
    <2>4. \A k \in Keys : (\A t \in Threads : k \notin KeysOf(job'[t].new))
                              => Settled(k)'
      BY <2>1 DEF ResidueInv, Settled
    <2> QED
      BY <1>0, <2>2, <2>3, <2>4 DEF ResidueInv
  <1> QED
    BY <1>0, <1>1, <1>2, <1>3, ResidueRequest DEF Next

LEMMA ResidueInit ==
    ASSUME ImportsOnly, Init
    PROVE  ResidueInv
  <1>0. /\ InitRows \in SUBSET Row
        /\ \A q, r \in InitRows : q.key = r.key => q = r
    BY AgentAssumption
  <1>1. ImportsAlone
    BY DEF Init, ImportsOnly, ImportsAlone, IdleRec
  <1>2. ASSUME NEW k \in EnabledKeys(InitRows)
        PROVE  /\ k \in Keys /\ HasKey(InitRows, k)
               /\ RowOf(InitRows, k) \in InitRows
               /\ RowOf(InitRows, k).key = k /\ RowOf(InitRows, k).enabled
               /\ RowOf(InitRows, k).addr \in Addrs
               /\ RowOf(InitRows, k).ips = HostOf[RowOf(InitRows, k).addr]
    <2>1. PICK r \in InitRows : r.enabled /\ r.key = k
      BY DEF EnabledKeys
    <2>2. HasKey(InitRows, k)
      BY <2>1 DEF HasKey
    <2>3. RowOf(InitRows, k) = r
      BY <1>0, <2>1, <2>2, RowOfKey
    <2>4. r \in Row /\ r.addr # None /\ r.ips = HostOf[r.addr]
      BY <1>0, <2>1 DEF ImportsOnly
    <2> QED
      BY <2>1, <2>2, <2>3, <2>4 DEF Row
  <1>3. KernelKeys(kernel) = EnabledKeys(InitRows)
    <2>1. ASSUME NEW k \in EnabledKeys(InitRows)
          PROVE  k \in Keys /\ kernel[k] # None
      <3>1. RowOf(InitRows, k) \in Row
        BY <1>0, <1>2
      <3> DEFINE p == [ips |-> IPsOf(RowOf(InitRows, k)),
                       psk |-> RowOf(InitRows, k).psk]
      <3>2. p \in KernelPeer
        BY <3>1, IPsType DEF KernelPeer, Row
      <3>3. kernel[k] = p
        BY <1>2 DEF Init
      <3> QED
        BY <1>2, <3>2, <3>3, AbsentAssumption
    <2> QED
      BY <2>1 DEF Init, KernelKeys
  <1> DEFINE F == [chain |-> [k \in Keys |-> None], jumps |-> {}]
             live == {r \in InitRows : r.enabled /\ r.addr # None}
             of(k) == CHOOSE r \in InitRows : r.key = k
  <1>4. /\ fw.jumps = {<<HostOf[r.addr], r.key>> : r \in live}
        /\ \A k \in Keys :
              fw.chain[k] =
                 IF ~ HasKey(InitRows, k) \/ ~ of(k).enabled THEN None
                 ELSE IF of(k).addr = None THEN F.chain[k]
                 ELSE [src |-> HostOf[of(k).addr], allow |-> of(k).allow]
    BY DEF Init, FwSync
  <1>5. \A k \in Keys : of(k) = RowOf(InitRows, k)
    BY DEF RowOf
  <1> HIDE DEF of
  <1>6. ASSUME NEW k \in EnabledKeys(InitRows)
        PROVE  OwnRules(kernel, fw, k)
    <2>1. PICK r : r = RowOf(InitRows, k)
      OBVIOUS
    <2>2. /\ k \in Keys /\ HasKey(InitRows, k) /\ r \in InitRows /\ r.key = k
          /\ r.enabled /\ r.addr \in Addrs /\ r.ips = HostOf[r.addr]
      BY <1>2, <2>1
    <2>3. r.addr # None /\ r.allow \in Allows \cup {None} /\ r.ips # None
      BY <1>0, <2>2, StoresAssumption DEF Row
    <2>4. kernel[k].ips = {HostOf[r.addr]}
      BY <2>1, <2>2, <2>3 DEF Init, IPsOf
    <2>5. <<HostOf[r.addr], k>> \in fw.jumps
      BY <1>4, <2>2, <2>3
    <2>6. fw.chain[k] = [src |-> HostOf[r.addr], allow |-> r.allow]
      BY <1>4, <1>5, <2>1, <2>2, <2>3
    <2>7. fw.chain[k] \notin {None, Flushed}
      BY <2>2, <2>3, <2>6, RulesRuled
    <2> QED
      BY <2>4, <2>5, <2>7 DEF OwnRules
  <1>7. ASSUME NEW k \in Keys \ EnabledKeys(InitRows)
        PROVE  Unruled(fw, k)
    <2>1. \A j \in fw.jumps : j[2] # k
      BY <1>4 DEF EnabledKeys
    <2>2. CASE ~ HasKey(InitRows, k)
      BY <1>4, <2>1, <2>2 DEF Unruled
    <2>3. CASE HasKey(InitRows, k)
      <3>1. of(k) \in InitRows /\ of(k).key = k
        BY <1>0, <1>5, <2>3, RowOfKey
      <3>2. ~ of(k).enabled
        BY <3>1 DEF EnabledKeys
      <3> QED
        BY <1>4, <2>1, <3>2 DEF Unruled
    <2> QED
      BY <2>2, <2>3
  <1>8. db = InitRows /\ EnabledKeys(InitRows) \subseteq used
    BY DEF Init, EnabledKeys
  <1>9. Untouched
    BY <1>3, <1>7, <1>8 DEF Untouched
  <1>10. ASSUME NEW t \in Threads PROVE Importing(t)
    <2>1. job[t] = NoJob
      BY DEF Init
    <2>2. /\ NoJob.op = "none" /\ KeysOf(NoJob.new) = {} /\ Fresh(NoJob.new)
          /\ NoJob.new = <<>> /\ NoJob.undo = <<>>
      BY NoKeys, FreshNone DEF NoJob, Locals
    <2>3. DOMAIN <<>> = {}
      BY NoSeq
    <2>4. NewRows(t) = {}
      BY <2>1, <2>2, <2>3 DEF NewRows
    <2>5. Placed(t)
      BY <2>4 DEF Placed
    <2> QED
      BY <2>1, <2>2, <2>3, <2>5 DEF Importing
  <1>11. \A k \in Keys : Settled(k)
    BY <1>3, <1>7, <1>8 DEF Settled
  <1>12. Screened
    BY <1>3, <1>6 DEF Screened
  <1> QED
    BY <1>1, <1>9, <1>10, <1>11, <1>12 DEF ResidueInv

LEMMA ResidueAlways ==
    ASSUME ImportsOnly
    PROVE  Spec => [](TypeInv /\ ResidueInv)
  <1>1. Init => TypeInv /\ ResidueInv
    BY InitTypes, ResidueInit
  <1>2. TypeInv /\ ResidueInv /\ [Next]_vars => (TypeInv /\ ResidueInv)'
    BY TypeStep, ResidueStep DEF ImportsOnly
  <1> QED
    BY <1>1, <1>2, PTL DEF Spec

(* A failed import leaves nothing behind: whichever call of CreatePeer or    *)
(* BatchCreatePeers fails, and however many imports run at the same time,    *)
(* once all have answered the kernel has exactly the enabled peers, and no   *)
(* chain or jump belongs to another key.                                     *)
THEOREM ImportsLeaveNothing ==
    ASSUME ImportsOnly
    PROVE  Spec => []NoResidue
  <1>1. TypeInv /\ ResidueInv => NoResidue
    <2> SUFFICES ASSUME TypeInv, ResidueInv, Quiet PROVE
           /\ KernelKeys(kernel) = EnabledKeys(db)
           /\ \A k \in Keys : fw.chain[k] # None => k \in EnabledKeys(db)
           /\ \A j \in fw.jumps : j[2] \in EnabledKeys(db)
      BY DEF NoResidue
    <2>1. ASSUME NEW t \in Threads PROVE KeysOf(job[t].new) = {}
      <3>1. pc[t] = "idle" /\ Shape(job[t], pc[t])
        BY DEF Quiet, TypeInv, Control
      <3>2. job[t].op = "none"
        BY <3>1 DEF Shape
      <3> QED
        BY <3>2 DEF ResidueInv, Importing
    <2>2. \A k \in Keys : Settled(k)
      BY <2>1 DEF ResidueInv
    <2>3. KernelKeys(kernel) \subseteq Keys /\ EnabledKeys(db) \subseteq Keys
      BY EnabledHasKey DEF KernelKeys, TypeInv, Stores
    <2>4. \A j \in fw.jumps : j[2] \in Keys
      BY DEF TypeInv, Stores, Firewall
    <2> QED
      BY <2>2, <2>3, <2>4 DEF Settled, Unruled
  <1> QED
    BY <1>1, ResidueAlways, PTL

-----------------------------------------------------------------------------
(* Where the jumps lead.  The rows of an import that has inserted them keep *)
(* the addresses its jumps were made for, until it answers and they stay.   *)

InTable(t) == \A r \in NewRows(t) :
                 \E q \in db : q.key = r.key /\ q.addr = r.addr

JumpInv == /\ \A j \in fw.jumps : Complete(fw, j[2]) /\ HasAddress(j[2], j[1])
           /\ \A t \in Threads : pc[t] = "conf" => InTable(t)

\* Rows of other keys than those of the import t stay.
LEMMA OtherRows ==
    ASSUME ImportsAlone, TypeInv, NEW t \in Threads,
           Import(t) \/ UndoFirewall(t) \/ UndoDB(t) \/ UndoKernel(t)
    PROVE  \A r \in db : r.key \notin KeysOf(job[t].new) => r \in db'
  <1>1. CASE Import(t)
    BY <1>1 DEF Import, ImportFirewall, ImportKernel, ImportInsert, ConfWrite,
       InsertRows, stores
  <1>2. CASE UndoFirewall(t) \/ UndoKernel(t)
    BY <1>2 DEF UndoFirewall, UndoKernel
  <1>3. CASE UndoDB(t)
    BY <1>3, NoIptablesFault, NewKeysOf DEF UndoDB, Try, DeleteRows
  <1> QED
    BY <1>1, <1>2, <1>3

LEMMA JumpHandler ==
    ASSUME TypeInv, TypeInv', ResidueInv, JumpInv, NEW t \in Threads,
           \A s \in Threads \ {t} : job'[s] = job[s] /\ pc'[s] = pc[s],
           Import(t) \/ UndoFirewall(t) \/ UndoDB(t) \/ UndoKernel(t)
    PROVE  JumpInv'
  <1>0. /\ job[t] \in Job /\ job \in [Threads -> Job]
        /\ pc \in [Threads -> Steps] /\ Placed(t) /\ Fresh(job[t].new)
        /\ fw \in Firewall /\ fw' \in Firewall /\ db \in SUBSET Row
        /\ ImportsAlone /\ Importing(t)
    BY DEF TypeInv, Control, Stores, ResidueInv, Importing
  <1>a. /\ KeysOf(job[t].new) = {r.key : r \in NewRows(t)}
        /\ \A r \in NewRows(t) : r.addr \in Addrs /\ r.key \in Keys
    BY <1>0, FreshJob
  <1>b. OthersKept(t) /\ (Answered(t) \/ GoesOn(t))
    BY ResidueImport, ResidueUndo DEF Gone
  <1>c. \A r \in db : r.key \notin KeysOf(job[t].new) => r \in db'
    BY <1>0, OtherRows
  <1>d. \A s \in Threads \ {t} : NewRows(s)' = NewRows(s)
    BY DEF NewRows
  <1>1. ASSUME NEW j \in fw'.jumps, j[2] \notin KeysOf(job[t].new)
        PROVE  Complete(fw', j[2]) /\ HasAddress(j[2], j[1])'
    <2>1. j \in Hosts \X Keys /\ j[2] \in Keys
      BY <1>0 DEF Firewall
    <2>2. SameRules(fw, fw', j[2])
      BY <1>1, <1>b, <2>1 DEF OthersKept, Kept
    <2>3. j \in fw.jumps /\ fw'.chain[j[2]] = fw.chain[j[2]]
      BY <2>1, <2>2 DEF SameRules
    <2>4. Complete(fw, j[2]) /\ HasAddress(j[2], j[1])
      BY <2>3 DEF JumpInv
    <2>5. PICK r \in db \cup UNION {NewRows(s) : s \in Threads} :
             r.key = j[2] /\ r.addr # None /\ HostOf[r.addr] = j[1]
      BY <2>4 DEF HasAddress
    <2>6. r \in db => r \in db'
      BY <1>1, <1>c, <2>5
    <2>7. ASSUME NEW s \in Threads, r \in NewRows(s)
          PROVE  r \in UNION {NewRows(q)' : q \in Threads}
      <3>1. s # t
        BY <1>1, <1>a, <2>5, <2>7
      <3> QED
        BY <1>d, <2>7, <3>1
    <2>8. HasAddress(j[2], j[1])'
      BY <2>5, <2>6, <2>7 DEF HasAddress
    <2> QED
      BY <2>3, <2>4, <2>8 DEF Complete
  <1>2. ASSUME GoesOn(t), NEW j \in fw'.jumps, j[2] \in KeysOf(job[t].new)
        PROVE  Complete(fw', j[2]) /\ HasAddress(j[2], j[1])'
    <2>1. PICK r \in NewRows(t) : r.key = j[2]
      BY <1>2, <1>a
    <2>2. NewRows(t)' = NewRows(t) /\ Placed(t)'
      BY <1>2 DEF GoesOn, NewRows
    <2>3. Ruled(fw', r) /\ j[1] = HostOf[r.addr]
      BY <1>2, <2>1, <2>2 DEF Placed, Unruled
    <2>4. r.addr # None
      BY <1>a, StoresAssumption
    <2> QED
      BY <2>1, <2>2, <2>3, <2>4 DEF Ruled, Complete, HasAddress
  <1>3. ASSUME Answered(t), NEW j \in fw'.jumps, j[2] \in KeysOf(job[t].new)
        PROVE  Complete(fw', j[2]) /\ HasAddress(j[2], j[1])'
    <2>1. PICK r \in NewRows(t) : r.key = j[2]
      BY <1>3, <1>a
    <2>2. ASSUME GoesOn(t) PROVE FALSE
      <3>1. job'[t].new = job[t].new /\ job'[t].new = <<>>
        BY <1>3, <2>2 DEF GoesOn, Answered, NoJob, Locals
      <3> QED
        BY <1>3, <3>1, NoSeq DEF KeysOf
    <2>3. ~ Gone(t)
      BY <1>3, <2>1 DEF Gone, Unruled
    <2>4. ConfWrite(t)
      <3>1. Import(t)
        BY <2>2, <2>3, ResidueUndo
      <3>2. ASSUME ImportFirewall(t) \/ ImportKernel(t) \/ ImportInsert(t)
            PROVE  FALSE
        <4>1. job'[t].new = job[t].new
          BY <1>0, <3>2 DEF ImportFirewall, ImportKernel, ImportInsert, Goto,
             Unwind, Job
        <4>2. job'[t].new = <<>>
          BY <1>3 DEF Answered, NoJob, Locals
        <4> QED
          BY <1>3, <4>1, <4>2, NoSeq DEF KeysOf
      <3> QED
        BY <3>1, <3>2 DEF Import
    <2>5. pc[t] = "conf" /\ UNCHANGED <<db, fw>>
      BY <2>4 DEF ConfWrite, stores
    <2>6. Complete(fw, j[2])
      BY <1>3, <2>5 DEF JumpInv
    <2>7. j[1] = HostOf[r.addr]
      BY <1>0, <1>3, <2>1, <2>5 DEF Placed, FwHas, Reached
    <2>8. PICK q \in db : q.key = r.key /\ q.addr = r.addr
      BY <2>5 DEF JumpInv, InTable
    <2>9. q \in db' /\ q.addr # None
      BY <1>a, <2>5, <2>8, StoresAssumption
    <2> QED
      BY <2>1, <2>5, <2>6, <2>7, <2>8, <2>9 DEF HasAddress
  <1>4. ASSUME NEW s \in Threads, pc'[s] = "conf" PROVE InTable(s)'
    <2>1. CASE s # t
      <3>1. pc[s] = "conf" /\ NewRows(s)' = NewRows(s) /\ InTable(s)
        BY <1>4, <1>d, <2>1 DEF JumpInv
      <3>2. \A r \in NewRows(s) : r.key \notin KeysOf(job[t].new)
        <4>1. KeysOf(job[s].new) \cap KeysOf(job[t].new) = {}
          BY <1>0, <2>1 DEF Importing
        <4> QED
          BY <4>1 DEF NewRows, KeysOf
      <3> QED
        BY <1>c, <3>1, <3>2 DEF InTable
    <2>2. CASE s = t
      <3>1. ImportInsert(t)
        <4>1. ~ ImportFirewall(t) /\ ~ ImportKernel(t)
          BY <1>0, <1>4, <2>2 DEF ImportFirewall, ImportKernel, Goto, Unwind
        <4>2. ~ ConfWrite(t)
          BY <1>0, <1>4, <2>2 DEF ConfWrite, Goto, Unwind, Return
        <4>3. ~ UndoFirewall(t) /\ ~ UndoDB(t) /\ ~ UndoKernel(t)
          <5>1. ASSUME pc[t] = "undo", NextUndo(t) PROVE FALSE
            BY <1>0, <1>4, <2>2, <5>1 DEF NextUndo, Return
          <5> QED
            BY <5>1 DEF UndoFirewall, UndoDB, UndoKernel, Unwinding
        <4> QED
          BY <4>1, <4>2, <4>3 DEF Import
      <3>2. db' = InsertRows(db, lastId, job[t].new) /\ job' = job
        BY <1>0, <1>4, <2>2, <3>1 DEF ImportInsert, Goto, Unwind
      <3>3. ASSUME NEW i \in DOMAIN job[t].new
            PROVE  \E q \in db' : /\ q.key = job[t].new[i].key
                                  /\ q.addr = job[t].new[i].addr
        <4>1. job[t].new[i] \in Row
          BY <1>0 DEF Fresh
        <4>2. [job[t].new[i] EXCEPT !.id = lastId + i] \in db'
          BY <3>2 DEF InsertRows
        <4> QED
          BY <4>1, <4>2 DEF Row
      <3> QED
        BY <2>2, <3>2, <3>3 DEF InTable, NewRows
    <2> QED
      BY <2>1, <2>2
  <1> QED
    BY <1>b, <1>1, <1>2, <1>3, <1>4 DEF JumpInv

LEMMA JumpStep ==
    ASSUME Ops \subseteq {"create", "batch"}, TypeInv, TypeInv', ResidueInv,
           JumpInv, [Next]_vars
    PROVE  JumpInv'
  <1>0. ~ Reconcile /\ ~ FirewallSync /\ ~ Environment
    BY ResidueAlone DEF ResidueInv
  <1>1. ASSUME NEW t \in Threads, Handler(t) PROVE JumpInv'
    <2>1. \A s \in Threads \ {t} : job'[s] = job[s] /\ pc'[s] = pc[s]
      BY <1>1, HandlerJob
    <2>2. job[t].op \in {"none", "create", "batch"}
      BY DEF ResidueInv, Importing
    <2>3. ~ Delete(t)
      <3>1. Shape(job[t], pc[t])
        BY DEF TypeInv, Control
      <3> QED
        BY <2>2, <3>1
        DEF Shape, Delete, DeleteKernel, DeleteDB, DeleteFirewall
    <2>4. Import(t) \/ UndoFirewall(t) \/ UndoDB(t) \/ UndoKernel(t)
      BY <1>1, <2>2, <2>3, PlainHandler
    <2> QED
      BY <2>1, <2>4, JumpHandler
  <1>2. ASSUME NEW t \in Threads, Request(t) \/ Pause(t) PROVE JumpInv'
    <2>0. /\ pc \in [Threads -> Steps] /\ job \in [Threads -> Job]
      BY DEF TypeInv, Control
    <2>1. /\ pc[t] \in {"idle", "pause"} /\ UNCHANGED <<db, fw>>
          /\ \A s \in Threads \ {t} : job'[s] = job[s] /\ pc'[s] = pc[s]
          /\ pc'[t] # "conf"
          /\ pc[t] = "idle" \/ job' = job
      BY <1>2, <2>0 DEF Request, CreatePeer, BatchCreatePeers, UpdatePeer,
         RotateKeys, ApprovePeer, DeletePeer, Accept, Pause, stores
    <2>2. \A s \in Threads : NewRows(s) \subseteq NewRows(s)'
      <3>1. ASSUME pc[t] = "idle" PROVE NewRows(t) = {}
        <4>1. job[t].op = "none"
          BY <3>1 DEF TypeInv, Control, Shape
        <4>2. KeysOf(job[t].new) = {}
          BY <4>1 DEF ResidueInv, Importing
        <4> QED
          BY <4>2 DEF KeysOf, NewRows
      <3> QED
        BY <2>1, <3>1 DEF NewRows
    <2>3. \A k, h : HasAddress(k, h) => HasAddress(k, h)'
      BY <2>1, <2>2 DEF HasAddress
    <2>4. ASSUME NEW s \in Threads, pc'[s] = "conf" PROVE InTable(s)'
      <3>1. s # t
        BY <2>1, <2>4
      <3>2. pc[s] = "conf" /\ NewRows(s)' = NewRows(s)
        BY <2>1, <2>4, <3>1 DEF NewRows
      <3> QED
        BY <2>1, <3>2 DEF JumpInv, InTable
    <2> QED
      BY <2>1, <2>3, <2>4 DEF JumpInv
  <1>3. CASE UNCHANGED vars
    BY <1>3 DEF JumpInv, InTable, HasAddress, NewRows, vars, stores
  <1> QED
    BY <1>0, <1>1, <1>2, <1>3 DEF Next

LEMMA JumpInit ==
    ASSUME Init
    PROVE  JumpInv
  <1>0. /\ InitRows \in SUBSET Row
        /\ \A q, r \in InitRows : q.key = r.key => q = r
    BY AgentAssumption
  <1>1. ASSUME NEW j \in fw.jumps
        PROVE  Complete(fw, j[2]) /\ HasAddress(j[2], j[1])
    <2>1. PICK r \in InitRows :
             r.enabled /\ r.addr # None /\ j = <<HostOf[r.addr], r.key>>
      BY DEF Init, FwSync
    <2>2. /\ r.key \in Keys /\ r.addr \in Addrs
          /\ r.allow \in Allows \cup {None} /\ HasKey(InitRows, r.key)
      BY <1>0, <2>1 DEF Row, HasKey
    <2>3. (CHOOSE q \in InitRows : q.key = r.key) = r
      BY <1>0
    <2>4. fw.chain[r.key] = [src |-> HostOf[r.addr], allow |-> r.allow]
      BY <2>1, <2>2, <2>3 DEF Init, FwSync
    <2>5. Complete(fw, r.key)
      BY <2>2, <2>4, RulesRuled DEF Complete
    <2>6. r \in db
      BY DEF Init
    <2> QED
      BY <2>1, <2>5, <2>6 DEF HasAddress
  <1> QED
    BY <1>1 DEF Init, JumpInv

(* docs/firewall.md, "zero exposure window": whatever the kernel routes to a *)
(* peer that an import has put there meets a chain with its rules in place,  *)
(* the peer's own or one of a peer with an address of the same host, at      *)
(* every moment until a rollback begins, for any number of imports at the    *)
(* same time, whatever call of theirs fails, and in whatever order the jumps *)
(* of the dispatch chain are.                                                *)
THEOREM ImportsNeverExposed ==
    ASSUME ImportsOnly
    PROVE  Spec => []NeverExposed
  <1>1. Init => JumpInv
    BY JumpInit
  <1>2. TypeInv /\ TypeInv' /\ ResidueInv /\ JumpInv /\ [Next]_vars => JumpInv'
    BY JumpStep DEF ImportsOnly
  <1>3. ResidueInv /\ JumpInv => NeverExposed
    <2> SUFFICES ASSUME ResidueInv, JumpInv, NEW k \in KernelKeys(kernel),
                        ~ (\E t \in Threads : pc[t] = "undo" /\ k \in NewKeys(t)),
                        NEW h \in kernel[k].ips
                 PROVE  /\ k \in Deciders(fw, h)
                        /\ \A d \in Deciders(fw, h) :
                              Complete(fw, d) /\ HasAddress(d, h)
      BY DEF NeverExposed
    <2>1. <<h, k>> \in fw.jumps
      BY DEF ResidueInv, Screened, OwnRules
    <2>2. ASSUME NEW d \in Deciders(fw, h)
          PROVE  Complete(fw, d) /\ HasAddress(d, h)
      <3>1. PICK j \in fw.jumps : j[1] = h /\ j[2] = d
        BY DEF Deciders
      <3> QED
        BY <3>1 DEF JumpInv
    <2> QED
      BY <2>1, <2>2 DEF Deciders
  <1> QED
    BY <1>1, <1>2, <1>3, ResidueAlways, PTL DEF Spec
=============================================================================
