-------------------------- MODULE AgentSerialProofs -------------------------
(***************************************************************************)
(* Theorems about Agent for requests that come one at a time: the two      *)
(* address columns of a row agree, a key that was revoked is out, a        *)
(* rotation that fails has undone itself when it answers, and the traffic  *)
(* of an enabled peer stays decided by its own rules.                      *)
(***************************************************************************)
EXTENDS AgentStoreProofs

-----------------------------------------------------------------------------
(* The two address columns of a row.  Every statement writes both or leaves *)
(* both alone, except the UPDATE of UpdatePeer: whether it writes            *)
(* allowed_ips was decided from the row the handler read at the start       *)
(* (Moves).  It is right because that row is still the one the UPDATE finds *)
(* (RowRead); with two handlers at the same time it need not be.            *)

OneAtATime == /\ \A t, s \in Threads : t = s
              /\ \A r \in InitRows : r.addr # None => r.ips = HostOf[r.addr]

UniqueKeys(rows) == \A q, r \in rows : q.key = r.key => q = r

Routed(r) == r.addr # None => r.ips = HostOf[r.addr]

RowRead == \A t \in Threads :
              /\ pc[t] \in {"ukernel", "utune", "udb"} => job[t].row \in db
              /\ job[t].op \in {"create", "batch"} => Fresh(job[t].new)

AddrInv == UniqueKeys(db) /\ AddressRoutes /\ RowRead

\* An UPDATE that keeps the keys, or moves one row to a key that is free.
LEMMA UpdatedRows ==
    ASSUME NEW D, NEW k, NEW set, UniqueKeys(D), \A r \in D : Routed(r),
           \A r \in D : r.key = k => Routed(set[r]),
           \/ \A r \in D : set[r].key = r.key
           \/ \E new : /\ \A r \in D : set[r].key = new
                       /\ ~ HasKey(D, new)
    PROVE  /\ UniqueKeys(UpdateRows(D, k, set))
           /\ \A r \in UpdateRows(D, k, set) : Routed(r)
  <1> DEFINE to(r) == IF r.key = k THEN set[r] ELSE r
  <1>1. UpdateRows(D, k, set) = {to(r) : r \in D}
    BY DEF UpdateRows
  <1>2. \A r \in D : Routed(to(r))
    OBVIOUS
  <1>3. ASSUME NEW q \in D, NEW r \in D, to(q).key = to(r).key PROVE q = r
    <2>1. CASE \A x \in D : set[x].key = x.key
      BY <1>3, <2>1 DEF UniqueKeys
    <2>2. CASE \E new : (\A x \in D : set[x].key = new) /\ ~ HasKey(D, new)
      BY <1>3, <2>2 DEF UniqueKeys, HasKey
    <2> QED
      BY <2>1, <2>2
  <1> HIDE DEF to
  <1> QED
    BY <1>1, <1>2, <1>3 DEF UniqueKeys

LEMMA InsertedRows ==
    ASSUME NEW D \in SUBSET Row, NEW last, NEW new, Fresh(new),
           ~ InsertConflict(D, new), UniqueKeys(D), \A r \in D : Routed(r)
    PROVE  /\ UniqueKeys(InsertRows(D, last, new))
           /\ \A r \in InsertRows(D, last, new) : Routed(r)
  <1> DEFINE row(i) == [new[i] EXCEPT !.id = last + i]
  <1>1. ASSUME NEW i \in DOMAIN new
        PROVE  /\ row(i).key = new[i].key /\ Routed(row(i))
               /\ \A r \in D : r.key # row(i).key
    <2>1. new[i] \in Row /\ new[i].addr \in Addrs /\ new[i].ips = HostOf[new[i].addr]
      BY DEF Fresh
    <2>2. /\ row(i).key = new[i].key /\ row(i).addr = new[i].addr
          /\ row(i).ips = new[i].ips
      BY <2>1 DEF Row
    <2> HIDE DEF row
    <2> QED
      BY <2>1, <2>2 DEF Routed, InsertConflict
  <1>2. InsertRows(D, last, new) = D \cup {row(i) : i \in DOMAIN new}
    BY DEF InsertRows
  <1>3. ASSUME NEW i \in DOMAIN new, NEW j \in DOMAIN new,
               row(i).key = row(j).key
        PROVE  i = j
    BY <1>1, <1>3 DEF Fresh
  <1> HIDE DEF row
  <1> QED
    BY <1>1, <1>2, <1>3 DEF UniqueKeys

\* What a handler does to the table keeps the columns in step.
LEMMA AddrHandler ==
    ASSUME TypeInv, AddrInv, NEW t \in Threads, Handler(t)
    PROVE  UniqueKeys(db') /\ \A r \in db' : Routed(r)
  <1>0. /\ UniqueKeys(db) /\ \A r \in db : Routed(r)
        /\ db \in SUBSET Row /\ Shape(job[t], pc[t]) /\ job[t] \in Job
    BY DEF AddrInv, AddressRoutes, Routed, TypeInv, Stores, Control
  <1>a. ASSUME db' \subseteq db PROVE UniqueKeys(db') /\ \A r \in db' : Routed(r)
    BY <1>0, <1>a DEF UniqueKeys
  <1> USE DEF Try
  <1>1. CASE Import(t)
    <2>1. CASE ImportInsert(t)
      <3>1. job[t].op \in {"create", "batch"}
        BY <1>0, <2>1 DEF ImportInsert, Shape
      <3>2. Fresh(job[t].new)
        BY <3>1 DEF AddrInv, RowRead
      <3>3. \/ db' = db
            \/ /\ ~ InsertConflict(db, job[t].new)
               /\ db' = InsertRows(db, lastId, job[t].new)
        BY <2>1 DEF ImportInsert
      <3> QED
        BY <1>0, <1>a, <3>2, <3>3, InsertedRows
    <2>2. CASE ~ ImportInsert(t)
      BY <1>1, <1>a, <2>2 DEF Import, ImportFirewall, ImportKernel, ConfWrite, stores
    <2> QED
      BY <2>1, <2>2
  <1>2. CASE Undo(t)
    <2>1. CASE UndoKey(t)
      <3>1. PICK old : old = job[t].row.key
        OBVIOUS
      <3>2. PICK set : set = [r \in db |-> [r EXCEPT !.key = old]]
        OBVIOUS
      <3>3. \/ db' = db
            \/ ~ HasKey(db, old) /\ db' = UpdateRows(db, job[t].new[1].key, set)
        BY <2>1, <3>1, <3>2 DEF UndoKey
      <3>4. ASSUME NEW r \in db PROVE set[r].key = old /\ Routed(set[r])
        <4>1. r \in Row /\ Routed(r) /\ set[r] = [r EXCEPT !.key = old]
          BY <1>0, <3>2
        <4>2. set[r].key = old /\ set[r].addr = r.addr /\ set[r].ips = r.ips
          BY <4>1 DEF Row
        <4> QED
          BY <4>1, <4>2 DEF Routed
      <3> QED
        BY <1>0, <1>a, <3>3, <3>4, UpdatedRows
    <2>2. CASE UndoPsk(t)
      <3>1. PICK set : set = [r \in db |-> [r EXCEPT !.psk = job[t].row.psk]]
        OBVIOUS
      <3>2. db' = db \/ db' = UpdateRows(db, job[t].row.key, set)
        BY <2>2, <3>1 DEF UndoPsk
      <3>3. ASSUME NEW r \in db PROVE set[r].key = r.key /\ Routed(set[r])
        <4>1. /\ r \in Row /\ Routed(r)
              /\ set[r] = [r EXCEPT !.psk = job[t].row.psk]
          BY <1>0, <3>1
        <4>2. set[r].key = r.key /\ set[r].addr = r.addr /\ set[r].ips = r.ips
          BY <4>1 DEF Row
        <4> QED
          BY <4>1, <4>2 DEF Routed
      <3> QED
        BY <1>0, <1>a, <3>2, <3>3, UpdatedRows
    <2>3. CASE ~ UndoKey(t) /\ ~ UndoPsk(t)
      <3>1. db' \subseteq db
        BY <1>2, <2>3
        DEF Undo, UndoFirewall, UndoDB, UndoKernel, UndoOld, DeleteRows
      <3> QED
        BY <1>a, <3>1
    <2> QED
      BY <2>1, <2>2, <2>3
  <1>3. CASE Update(t)
    <2>1. CASE UpdateDB(t)
      <3>1. PICK q : q = job[t].req
        OBVIOUS
      <3>2. PICK k : k = job[t].row.key
        OBVIOUS
      <3>3. PICK set : set = [r \in db |->
                     [r EXCEPT
                        !.addr    = IF q.addr = None THEN r.addr ELSE q.addr,
                        !.ips     = IF Moves(t) THEN HostOf[q.addr] ELSE r.ips,
                        !.allow   = IF q.allow = None THEN r.allow ELSE q.allow,
                        !.enabled = IF q.enable = "keep" THEN r.enabled
                                                         ELSE q.enable = "on"]]
        OBVIOUS
      <3>4. db' = db \/ db' = UpdateRows(db, k, set)
        BY <2>1, <3>1, <3>2, <3>3 DEF UpdateDB
      <3>5. job[t].row \in db
        BY <2>1 DEF UpdateDB, AddrInv, RowRead
      <3>6. ASSUME NEW r \in db
            PROVE  /\ set[r].key = r.key
                   /\ set[r].addr = IF q.addr = None THEN r.addr ELSE q.addr
                   /\ set[r].ips = IF Moves(t) THEN HostOf[q.addr] ELSE r.ips
        <4>1. r \in Row
          BY <1>0
        <4> QED
          BY <3>3, <4>1 DEF Row
      <3>7. ASSUME NEW r \in db, r.key = k PROVE Routed(set[r])
        <4>1. r = job[t].row /\ Routed(r)
          BY <1>0, <3>2, <3>5, <3>7 DEF UniqueKeys
        <4>2. CASE Moves(t)
          <5>1. q.addr # None
            BY <3>1, <4>2 DEF Moves
          <5> QED
            BY <3>6, <4>2, <5>1 DEF Routed
        <4>3. CASE ~ Moves(t)
          <5>1. q.addr = None \/ q.addr = r.addr
            BY <3>1, <4>1, <4>3 DEF Moves
          <5> QED
            BY <3>6, <4>1, <4>3, <5>1 DEF Routed
        <4> QED
          BY <4>2, <4>3
      <3> QED
        BY <1>0, <1>a, <3>4, <3>6, <3>7, UpdatedRows
    <2>2. CASE ~ UpdateDB(t)
      <3>1. db' = db
        BY <1>3, <2>2 DEF Update, UpdateKernel, UpdateTune, UpdateFirewall,
           Reread, ApplyReread, stores
      <3> QED
        BY <1>a, <3>1
    <2> QED
      BY <2>1, <2>2
  <1>4. CASE Rotate(t)
    <2>1. CASE RotateKey(t)
      <3>1. PICK new : new = job[t].new[1].key
        OBVIOUS
      <3>2. PICK set : set = [r \in db |-> [r EXCEPT !.key = new]]
        OBVIOUS
      <3>3. \/ db' = db
            \/ ~ HasKey(db, new) /\ db' = UpdateRows(db, job[t].row.key, set)
        BY <2>1, <3>1, <3>2 DEF RotateKey
      <3>4. ASSUME NEW r \in db PROVE set[r].key = new /\ Routed(set[r])
        <4>1. r \in Row /\ Routed(r) /\ set[r] = [r EXCEPT !.key = new]
          BY <1>0, <3>2
        <4>2. set[r].key = new /\ set[r].addr = r.addr /\ set[r].ips = r.ips
          BY <4>1 DEF Row
        <4> QED
          BY <4>1, <4>2 DEF Routed
      <3> QED
        BY <1>0, <1>a, <3>3, <3>4, UpdatedRows
    <2>2. CASE RotatePsk(t)
      <3>1. PICK new : new = job[t].new[1]
        OBVIOUS
      <3>2. PICK set : set = [r \in db |-> [r EXCEPT !.psk = new.psk]]
        OBVIOUS
      <3>3. db' = db \/ db' = UpdateRows(db, new.key, set)
        BY <2>2, <3>1, <3>2 DEF RotatePsk
      <3>4. ASSUME NEW r \in db PROVE set[r].key = r.key /\ Routed(set[r])
        <4>1. r \in Row /\ Routed(r) /\ set[r] = [r EXCEPT !.psk = new.psk]
          BY <1>0, <3>2
        <4>2. set[r].key = r.key /\ set[r].addr = r.addr /\ set[r].ips = r.ips
          BY <4>1 DEF Row
        <4> QED
          BY <4>1, <4>2 DEF Routed
      <3> QED
        BY <1>0, <1>a, <3>3, <3>4, UpdatedRows
    <2>3. CASE ~ RotateKey(t) /\ ~ RotatePsk(t)
      <3>1. db' = db
        BY <1>4, <2>3 DEF Rotate, RotateFirewall, RotateRemove, RotateAdd,
           RotateApply
      <3> QED
        BY <1>a, <3>1
    <2> QED
      BY <2>1, <2>2, <2>3
  <1>5. CASE Approve(t)
    <2>1. CASE ApproveDB(t)
      <3>1. PICK q : q = job[t].req
        OBVIOUS
      <3>2. PICK set : set = [r \in db |-> [r EXCEPT !.addr = q.addr,
                                                     !.ips = HostOf[q.addr],
                                                     !.allow = q.allow,
                                                     !.enabled = TRUE]]
        OBVIOUS
      <3>3. db' = db \/ db' = UpdateRows(db, job[t].row.key, set)
        BY <2>1, <3>1, <3>2 DEF ApproveDB
      <3>4. ASSUME NEW r \in db PROVE set[r].key = r.key /\ Routed(set[r])
        <4>1. r \in Row
          BY <1>0
        <4>2. /\ set[r].key = r.key /\ set[r].addr = q.addr
              /\ set[r].ips = HostOf[q.addr]
          BY <3>2, <4>1 DEF Row
        <4> QED
          BY <4>2 DEF Routed
      <3> QED
        BY <1>0, <1>a, <3>3, <3>4, UpdatedRows
    <2>2. CASE ApproveFlag(t)
      <3>1. PICK set : set = [r \in db |-> [r EXCEPT !.enabled = TRUE,
                                                     !.auto = FALSE]]
        OBVIOUS
      <3>2. db' = db \/ db' = UpdateRows(db, job[t].row.key, set)
        BY <2>2, <3>1 DEF ApproveFlag
      <3>3. ASSUME NEW r \in db PROVE set[r].key = r.key /\ Routed(set[r])
        <4>1. r \in Row /\ Routed(r)
          BY <1>0
        <4>2. set[r].key = r.key /\ set[r].addr = r.addr /\ set[r].ips = r.ips
          BY <3>1, <4>1 DEF Row
        <4> QED
          BY <4>1, <4>2 DEF Routed
      <3> QED
        BY <1>0, <1>a, <3>2, <3>3, UpdatedRows
    <2>3. CASE ApproveKernel(t)
      BY <1>a, <2>3 DEF ApproveKernel
    <2> QED
      BY <1>5, <2>1, <2>2, <2>3 DEF Approve
  <1>6. CASE Delete(t)
    <2>1. db' \subseteq db
      BY <1>6 DEF Delete, DeleteKernel, DeleteDB, DeleteFirewall, DeleteRows
    <2> QED
      BY <1>a, <2>1
  <1> QED
    BY <1>1, <1>2, <1>3, <1>4, <1>5, <1>6 DEF Handler

\* Until its UPDATE, the row the handler has read stays.
LEMMA RowReadHandler ==
    ASSUME TypeInv, AddrInv, NEW t \in Threads, Handler(t),
           \A s, q \in Threads : s = q
    PROVE  RowRead'
  <1>0. /\ pc \in [Threads -> Steps] /\ job \in [Threads -> Job]
    BY DEF TypeInv, Control
  <1>1. \/ job'[t] = NoJob /\ pc'[t] = "idle"
        \/ job'[t].op = job[t].op /\ job'[t].new = job[t].new
    BY HandlerJob
  <1>2. NoJob.op = "none"
    BY DEF NoJob, Locals
  <1>3. ASSUME pc'[t] \in {"ukernel", "utune", "udb"} PROVE job'[t].row \in db'
    <2>1. UpdateKernel(t) \/ UpdateTune(t)
      <3> USE DEF Goto, Return, Unwind, NextUndo, Unwinding
      <3>1. ~ Import(t)
        BY <1>0, <1>3
        DEF Import, ImportFirewall, ImportKernel, ImportInsert, ConfWrite
      <3>2. ~ Undo(t)
        BY <1>0, <1>3 DEF Undo, UndoFirewall, UndoDB, UndoKernel, UndoKey,
           UndoPsk, UndoOld
      <3>3. ~ Rotate(t)
        BY <1>0, <1>3 DEF Rotate, RotateFirewall, RotateRemove, RotateAdd,
           RotateKey, RotatePsk, RotateApply
      <3>4. ~ Approve(t) /\ ~ Delete(t)
        BY <1>0, <1>3 DEF Approve, ApproveDB, ApproveFlag, ApproveKernel,
           Delete, DeleteKernel, DeleteDB, DeleteFirewall
      <3>5. Update(t)
        BY <3>1, <3>2, <3>3, <3>4 DEF Handler
      <3> QED
        BY <1>0, <1>3, <3>5 DEF Update, UpdateDB, UpdateFirewall, Reread,
           ApplyReread
    <2>2. /\ db' = db /\ pc[t] \in {"ukernel", "utune"}
          /\ job' = job \/ Return(t)
      BY <2>1 DEF UpdateKernel, UpdateTune, Goto
    <2>3. job' = job
      BY <1>0, <1>3, <2>2 DEF Return
    <2> QED
      BY <2>2, <2>3 DEF AddrInv, RowRead
  <1> QED
    BY <1>1, <1>2, <1>3 DEF RowRead, AddrInv

LEMMA RowReadRequest ==
    ASSUME TypeInv, AddrInv, NEW t \in Threads, Request(t),
           \A s, q \in Threads : s = q
    PROVE  RowRead' /\ db' = db
  <1>0. pc \in [Threads -> Steps] /\ job \in [Threads -> Job]
    BY DEF TypeInv, Control
  <1> SUFFICES /\ pc'[t] \in {"ukernel", "utune", "udb"} => job'[t].row \in db'
               /\ job'[t].op \in {"create", "batch"} => Fresh(job'[t].new)
               /\ db' = db
    BY DEF RowRead
  <1>1. CASE CreatePeer(t)
    <2>1. PICK new : ImportAccepted(t, "create", "fw", new)
      BY <1>1, CreateRequest
    <2> QED
      BY <1>0, <2>1 DEF ImportAccepted, Locals
  <1>2. CASE BatchCreatePeers(t)
    <2>1. PICK new : ImportAccepted(t, "batch", "pause", new)
      BY <1>2, BatchRequest
    <2> QED
      BY <1>0, <2>1 DEF ImportAccepted, Locals
  <1>3. CASE UpdatePeer(t)
    BY <1>0, <1>3 DEF UpdatePeer, Accept, Locals, stores
  <1>4. CASE RotateKeys(t)
    BY <1>0, <1>4 DEF RotateKeys, Accept, Locals, stores
  <1>5. CASE ApprovePeer(t)
    BY <1>0, <1>5 DEF ApprovePeer, Accept, Locals, stores
  <1>6. CASE DeletePeer(t)
    BY <1>0, <1>6 DEF DeletePeer, Accept, Locals, stores
  <1> QED
    BY <1>1, <1>2, <1>3, <1>4, <1>5, <1>6 DEF Request

LEMMA AddrStep ==
    ASSUME OneAtATime, TypeInv, AddrInv, [Next]_vars
    PROVE  AddrInv'
  <1>0. /\ UniqueKeys(db) /\ \A r \in db : Routed(r)
        /\ \A t, s \in Threads : t = s
        /\ pc \in [Threads -> Steps]
    BY DEF AddrInv, AddressRoutes, Routed, OneAtATime, TypeInv, Control
  <1>a. ASSUME UniqueKeys(db'), \A r \in db' : Routed(r), RowRead' PROVE AddrInv'
    BY <1>a DEF AddrInv, AddressRoutes, Routed
  <1>b. ASSUME UNCHANGED <<pc, job>>, db \subseteq db' PROVE RowRead'
    BY <1>b DEF AddrInv, RowRead
  <1>1. ASSUME NEW t \in Threads, Handler(t) PROVE AddrInv'
    BY <1>0, <1>1, <1>a, AddrHandler, RowReadHandler
  <1>2. ASSUME NEW t \in Threads, Request(t) PROVE AddrInv'
    BY <1>0, <1>2, <1>a, RowReadRequest
  <1>3. ASSUME NEW t \in Threads, Pause(t) PROVE AddrInv'
    <2>1. /\ db' = db /\ job' = job
          /\ \A s \in Threads : pc'[s] \in {"fw", "dkernel"} \/ pc'[s] = pc[s]
      BY <1>0, <1>3 DEF Pause, stores
    <2>2. RowRead'
      BY <2>1 DEF AddrInv, RowRead
    <2> QED
      BY <1>0, <1>a, <2>1, <2>2
  <1>4. CASE Reconcile
    <2>1. UNCHANGED <<pc, job>>
      BY <1>4 DEF Reconcile, RecDevice, RecList, RecRemove, RecZombieFirewall,
         RecUpsert, RecMissing, RecReadd, RecReaddFirewall, RecDone, RecVars
    <2>2. \/ db' = db
          \/ /\ ~ HasKey(db, rec.cur)
             /\ db' = db \cup {QuarantineRow(lastId, rec.cur)}
      BY <1>4 DEF Reconcile, RecDevice, RecList, RecRemove, RecZombieFirewall,
         RecUpsert, RecMissing, RecReadd, RecReaddFirewall, RecDone, stores
    <2>3. /\ QuarantineRow(lastId, rec.cur).addr = None
          /\ QuarantineRow(lastId, rec.cur).key = rec.cur
      BY DEF QuarantineRow
    <2>4. UniqueKeys(db') /\ \A r \in db' : Routed(r)
      BY <1>0, <2>2, <2>3 DEF UniqueKeys, Routed, HasKey
    <2> QED
      BY <1>a, <1>b, <2>1, <2>2, <2>4
  <1>5. CASE FirewallSync \/ ForeignAdd \/ ForeignRemove \/ UNCHANGED vars
    <2>1. UNCHANGED <<db, pc, job>>
      BY <1>5 DEF FirewallSync, ForeignAdd, ForeignRemove, RecVars, vars, stores
    <2> QED
      BY <1>0, <1>a, <1>b, <2>1
  <1>6. CASE Crash
    <2>1. db' = db /\ \A t \in Threads : pc'[t] = "idle" /\ job'[t] = NoJob
      BY <1>6 DEF Crash, stores
    <2>2. RowRead'
      BY <2>1 DEF RowRead, NoJob, Locals
    <2> QED
      BY <1>0, <1>a, <2>1, <2>2
  <1> QED
    BY <1>1, <1>2, <1>3, <1>4, <1>5, <1>6 DEF Next, Environment

(* allowed_ips is the /32 of client_address in every row, whichever handlers *)
(* wrote it in whichever order: for requests one at a time, with passes of   *)
(* the reconciler between their calls, failing calls, crashes and peers set  *)
(* by hand.                                                                  *)
THEOREM AddressesRoute ==
    ASSUME OneAtATime
    PROVE  Spec => []AddressRoutes
  <1>1. Init => TypeInv /\ AddrInv
    <2> SUFFICES ASSUME Init PROVE AddrInv
      BY InitTypes
    <2>1. UniqueKeys(db) /\ AddressRoutes
      BY AgentAssumption DEF Init, OneAtATime, UniqueKeys, AddressRoutes
    <2>2. RowRead
      BY DEF Init, RowRead, NoJob, Locals
    <2> QED
      BY <2>1, <2>2 DEF AddrInv
  <1>2. TypeInv /\ AddrInv /\ [Next]_vars => (TypeInv /\ AddrInv)'
    BY TypeStep, AddrStep
  <1>3. AddrInv => AddressRoutes
    BY DEF AddrInv
  <1> QED
    BY <1>1, <1>2, <1>3, PTL DEF Spec


-----------------------------------------------------------------------------
(* How a step leaves the locals of its handler.                             *)

SameLocals(t) == /\ job'[t].op = job[t].op /\ job'[t].row = job[t].row
                 /\ job'[t].new = job[t].new /\ job'[t].req = job[t].req

LEMMA StepLocals ==
    ASSUME TypeInv, NEW t \in Threads
    PROVE  /\ \A step : Goto(t, step) => /\ pc'[t] = step /\ job'[t] = job[t]
                                         /\ job' = job
           /\ Return(t) => pc'[t] = "idle" /\ job'[t] = NoJob
           /\ \A u : Unwind(t, u) =>
                 pc'[t] = "undo" /\ job'[t].undo = u /\ SameLocals(t)
           /\ NextUndo(t) /\ pc[t] = "undo" =>
                 \/ /\ Len(job[t].undo) > 1
                    /\ pc'[t] = "undo" /\ job'[t].undo = Tail(job[t].undo)
                    /\ SameLocals(t)
                 \/ ~ (Len(job[t].undo) > 1) /\ pc'[t] = "idle" /\ job'[t] = NoJob
           /\ \A j, step : Accept(t, j, step) => pc'[t] = step /\ job'[t] = j
  <1>0. /\ pc \in [Threads -> Steps] /\ job \in [Threads -> Job]
        /\ job[t] \in Job
    BY DEF TypeInv, Control
  <1>1. \A step : Goto(t, step) => /\ pc'[t] = step /\ job'[t] = job[t]
                                   /\ job' = job
    BY <1>0 DEF Goto
  <1>2. Return(t) => pc'[t] = "idle" /\ job'[t] = NoJob
    BY <1>0 DEF Return
  <1>3. ASSUME NEW u, Unwind(t, u)
        PROVE  pc'[t] = "undo" /\ job'[t].undo = u /\ SameLocals(t)
    <2>1. pc'[t] = "undo" /\ job'[t] = [job[t] EXCEPT !.undo = u]
      BY <1>0, <1>3 DEF Unwind
    <2> QED
      BY <1>0, <2>1 DEF SameLocals, Job
  <1>4. ASSUME NextUndo(t), pc[t] = "undo"
        PROVE  \/ /\ Len(job[t].undo) > 1
                  /\ pc'[t] = "undo" /\ job'[t].undo = Tail(job[t].undo)
                  /\ SameLocals(t)
               \/ /\ ~ (Len(job[t].undo) > 1)
                  /\ pc'[t] = "idle" /\ job'[t] = NoJob
    <2>1. CASE Len(job[t].undo) > 1
      <3>1. /\ pc'[t] = "undo"
            /\ job'[t] = [job[t] EXCEPT !.undo = Tail(job[t].undo)]
        BY <1>0, <1>4, <2>1 DEF NextUndo
      <3> QED
        BY <1>0, <2>1, <3>1 DEF SameLocals, Job
    <2>2. CASE ~ (Len(job[t].undo) > 1)
      BY <1>2, <1>4, <2>2 DEF NextUndo
    <2> QED
      BY <2>1, <2>2
  <1>5. \A j, step : Accept(t, j, step) => pc'[t] = step /\ job'[t] = j
    BY <1>0 DEF Accept
  <1> QED
    BY <1>1, <1>2, <1>3, <1>4, <1>5

-----------------------------------------------------------------------------
(* Every key that is anywhere is one that exists: a new key is in no store, *)
(* no snapshot and no handler's locals.                                     *)

TableKeys(rows) == {r.key : r \in rows}

HasRow(j) == j.op \in {"update", "rotate", "approve", "delete"}

KeysAt(j) == KeysOf(j.new) \cup (IF HasRow(j) THEN {j.row.key} ELSE {})

UsedInv ==
    /\ KernelKeys(kernel) \cup TableKeys(db) \subseteq used
    /\ rec.kset \cup rec.todo \cup TableKeys(rec.rows) \subseteq used
    /\ rec.pc \in {"zombie", "unknown", "readded"} => rec.cur \in used
    /\ \A t \in Threads : KeysAt(job[t]) \subseteq used

LEMMA KeysAtNone == KeysAt(NoJob) = {}
  BY NoKeys DEF KeysAt, HasRow, NoJob, Locals

\* An UPDATE brings no key but the one it sets.
LEMMA UpdatedKeys ==
    ASSUME NEW D, NEW k, NEW set, NEW ks,
           \A r \in D : set[r].key = r.key \/ set[r].key \in ks
    PROVE  TableKeys(UpdateRows(D, k, set)) \subseteq TableKeys(D) \cup ks
  BY DEF TableKeys, UpdateRows

LEMMA InsertedKeys ==
    ASSUME NEW D, NEW last, NEW new \in Seq(Row)
    PROVE  TableKeys(InsertRows(D, last, new)) = TableKeys(D) \cup KeysOf(new)
  <1> DEFINE row(i) == [new[i] EXCEPT !.id = last + i]
  <1>1. ASSUME NEW i \in DOMAIN new PROVE row(i).key = new[i].key
    <2>1. new[i] \in Row
      OBVIOUS
    <2> QED
      BY <2>1 DEF Row
  <1>2. InsertRows(D, last, new) = D \cup {row(i) : i \in DOMAIN new}
    BY DEF InsertRows
  <1> HIDE DEF row
  <1> QED
    BY <1>1, <1>2 DEF TableKeys, KeysOf

LEMMA FirstUndoOp ==
    ASSUME Control, NEW t \in Threads, pc[t] = "undo",
           Head(job[t].undo) \in {"key", "psk", "old"}
    PROVE  job[t].op = "rotate" /\ HasRow(job[t]) /\ job[t].row \in Row
  <1>0. Shape(job[t], pc[t]) /\ job[t] \in Job /\ job[t].undo # <<>>
    BY DEF Control
  <1>1. job[t].undo \in Seq(UndoSteps)
    BY <1>0 DEF Job, UndoSteps
  <1>2. 1 \in DOMAIN job[t].undo /\ Head(job[t].undo) = job[t].undo[1]
    BY <1>0, <1>1
  <1> QED
    BY <1>0, <1>2 DEF Shape, HasRow

\* What a handler brings into the table.
LEMMA HandlerTableKeys ==
    ASSUME TypeInv, NEW t \in Threads, Handler(t)
    PROVE  TableKeys(db') \subseteq TableKeys(db) \cup KeysAt(job[t])
  <1>0. /\ Shape(job[t], pc[t]) /\ job[t] \in Job /\ db \in SUBSET Row
        /\ job[t].new \in Seq(Row) /\ Control
    BY NewRowsType DEF TypeInv, Control, Stores
  <1>a. ASSUME db' \subseteq db
        PROVE  TableKeys(db') \subseteq TableKeys(db) \cup KeysAt(job[t])
    BY <1>a DEF TableKeys
  <1> USE DEF Try
  <1>1. CASE Import(t)
    <2>1. CASE ImportInsert(t)
      <3>1. db' = db \/ db' = InsertRows(db, lastId, job[t].new)
        BY <2>1 DEF ImportInsert
      <3> QED
        BY <1>0, <1>a, <3>1, InsertedKeys DEF KeysAt
    <2>2. CASE ~ ImportInsert(t)
      BY <1>1, <1>a, <2>2 DEF Import, ImportFirewall, ImportKernel, ConfWrite, stores
    <2> QED
      BY <2>1, <2>2
  <1>2. CASE Undo(t)
    <2>1. CASE UndoKey(t)
      <3>1. HasRow(job[t])
        BY <1>0, <2>1, FirstUndoOp DEF UndoKey, Unwinding
      <3>2. PICK old : old = job[t].row.key
        OBVIOUS
      <3>3. PICK set : set = [r \in db |-> [r EXCEPT !.key = old]]
        OBVIOUS
      <3>4. db' = db \/ db' = UpdateRows(db, job[t].new[1].key, set)
        BY <2>1, <3>2, <3>3 DEF UndoKey
      <3>5. \A r \in db : set[r].key \in {old}
        BY <1>0, <3>3 DEF Row
      <3>6. old \in KeysAt(job[t])
        BY <3>1, <3>2 DEF KeysAt
      <3> QED
        BY <1>a, <3>4, <3>5, <3>6, UpdatedKeys
    <2>2. CASE UndoPsk(t)
      <3>1. PICK set : set = [r \in db |-> [r EXCEPT !.psk = job[t].row.psk]]
        OBVIOUS
      <3>2. db' = db \/ db' = UpdateRows(db, job[t].row.key, set)
        BY <2>2, <3>1 DEF UndoPsk
      <3>3. \A r \in db : set[r].key = r.key
        BY <1>0, <3>1 DEF Row
      <3> QED
        BY <1>a, <3>2, <3>3, UpdatedKeys
    <2>3. CASE ~ UndoKey(t) /\ ~ UndoPsk(t)
      <3>1. db' \subseteq db
        BY <1>2, <2>3
        DEF Undo, UndoFirewall, UndoDB, UndoKernel, UndoOld, DeleteRows
      <3> QED
        BY <1>a, <3>1
    <2> QED
      BY <2>1, <2>2, <2>3
  <1>3. CASE Update(t)
    <2>1. CASE UpdateDB(t)
      <3>1. PICK q : q = job[t].req
        OBVIOUS
      <3>2. PICK k : k = job[t].row.key
        OBVIOUS
      <3>3. PICK set : set = [r \in db |->
                     [r EXCEPT
                        !.addr    = IF q.addr = None THEN r.addr ELSE q.addr,
                        !.ips     = IF Moves(t) THEN HostOf[q.addr] ELSE r.ips,
                        !.allow   = IF q.allow = None THEN r.allow ELSE q.allow,
                        !.enabled = IF q.enable = "keep" THEN r.enabled
                                                         ELSE q.enable = "on"]]
        OBVIOUS
      <3>4. db' = db \/ db' = UpdateRows(db, k, set)
        BY <2>1, <3>1, <3>2, <3>3 DEF UpdateDB
      <3>5. \A r \in db : set[r].key = r.key
        BY <1>0, <3>3 DEF Row
      <3> QED
        BY <1>a, <3>4, <3>5, UpdatedKeys
    <2>2. CASE ~ UpdateDB(t)
      <3>1. db' = db
        BY <1>3, <2>2 DEF Update, UpdateKernel, UpdateTune, UpdateFirewall,
           Reread, ApplyReread, stores
      <3> QED
        BY <1>a, <3>1
    <2> QED
      BY <2>1, <2>2
  <1>4. CASE Rotate(t)
    <2>1. CASE RotateKey(t)
      <3>1. 1 \in DOMAIN job[t].new
        BY <1>0, <2>1 DEF Shape, RotateKey
      <3>2. PICK new : new = job[t].new[1].key
        OBVIOUS
      <3>3. PICK set : set = [r \in db |-> [r EXCEPT !.key = new]]
        OBVIOUS
      <3>4. db' = db \/ db' = UpdateRows(db, job[t].row.key, set)
        BY <2>1, <3>2, <3>3 DEF RotateKey
      <3>5. \A r \in db : set[r].key \in {new}
        BY <1>0, <3>3 DEF Row
      <3>6. new \in KeysAt(job[t])
        BY <3>1, <3>2 DEF KeysAt, KeysOf
      <3> QED
        BY <1>a, <3>4, <3>5, <3>6, UpdatedKeys
    <2>2. CASE RotatePsk(t)
      <3>1. PICK new : new = job[t].new[1]
        OBVIOUS
      <3>2. PICK set : set = [r \in db |-> [r EXCEPT !.psk = new.psk]]
        OBVIOUS
      <3>3. db' = db \/ db' = UpdateRows(db, new.key, set)
        BY <2>2, <3>1, <3>2 DEF RotatePsk
      <3>4. \A r \in db : set[r].key = r.key
        BY <1>0, <3>2 DEF Row
      <3> QED
        BY <1>a, <3>3, <3>4, UpdatedKeys
    <2>3. CASE ~ RotateKey(t) /\ ~ RotatePsk(t)
      <3>1. db' = db
        BY <1>4, <2>3 DEF Rotate, RotateFirewall, RotateRemove, RotateAdd,
           RotateApply
      <3> QED
        BY <1>a, <3>1
    <2> QED
      BY <2>1, <2>2, <2>3
  <1>5. CASE Approve(t)
    <2>1. CASE ApproveDB(t)
      <3>1. PICK q : q = job[t].req
        OBVIOUS
      <3>2. PICK set : set = [r \in db |-> [r EXCEPT !.addr = q.addr,
                                                     !.ips = HostOf[q.addr],
                                                     !.allow = q.allow,
                                                     !.enabled = TRUE]]
        OBVIOUS
      <3>3. db' = db \/ db' = UpdateRows(db, job[t].row.key, set)
        BY <2>1, <3>1, <3>2 DEF ApproveDB
      <3>4. \A r \in db : set[r].key = r.key
        BY <1>0, <3>2 DEF Row
      <3> QED
        BY <1>a, <3>3, <3>4, UpdatedKeys
    <2>2. CASE ApproveFlag(t)
      <3>1. PICK set : set = [r \in db |-> [r EXCEPT !.enabled = TRUE,
                                                     !.auto = FALSE]]
        OBVIOUS
      <3>2. db' = db \/ db' = UpdateRows(db, job[t].row.key, set)
        BY <2>2, <3>1 DEF ApproveFlag
      <3>3. \A r \in db : set[r].key = r.key
        BY <1>0, <3>1 DEF Row
      <3> QED
        BY <1>a, <3>2, <3>3, UpdatedKeys
    <2>3. CASE ApproveKernel(t)
      BY <1>a, <2>3 DEF ApproveKernel
    <2> QED
      BY <1>5, <2>1, <2>2, <2>3 DEF Approve
  <1>6. CASE Delete(t)
    <2>1. db' \subseteq db
      BY <1>6 DEF Delete, DeleteKernel, DeleteDB, DeleteFirewall, DeleteRows
    <2> QED
      BY <1>a, <2>1
  <1> QED
    BY <1>1, <1>2, <1>3, <1>4, <1>5, <1>6 DEF Handler

LEMMA HandlerKernelKeys ==
    ASSUME TypeInv, NEW t \in Threads, Handler(t)
    PROVE  KernelKeys(kernel') \subseteq KernelKeys(kernel) \cup KeysAt(job[t])
  <1>0. /\ Shape(job[t], pc[t]) /\ job[t] \in Job /\ kernel \in KernelType
        /\ job[t].new \in Seq(Row) /\ Control
    BY NewRowsType DEF TypeInv, Control, Stores
  <1>1. \/ kernel' = kernel
        \/ kernel' = ConfigureNew(kernel, job[t].new)
        \/ \E ks : kernel' = RemovePeers(kernel, ks)
        \/ /\ HasRow(job[t]) /\ job[t].row \in Row
           /\ \E hs \in SUBSET Hosts, psk \in Keys \cup {None}, rep \in BOOLEAN :
                 kernel' = ConfigurePeer(kernel, job[t].row.key, hs, psk, rep)
    <2> USE DEF Try
    <2>1. CASE Import(t)
      BY <2>1 DEF Import, ImportFirewall, ImportKernel, ImportInsert, ConfWrite,
         stores
    <2>2. CASE Undo(t)
      <3>1. CASE UndoOld(t)
        <4>1. HasRow(job[t]) /\ job[t].row \in Row
          BY <1>0, <3>1, FirstUndoOp DEF UndoOld, Unwinding
        <4>2. /\ IPsOf(job[t].row) \in SUBSET Hosts
              /\ job[t].row.psk \in Keys \cup {None}
          BY <4>1, IPsType DEF Row
        <4> QED
          BY <3>1, <4>1, <4>2 DEF UndoOld
      <3>2. CASE ~ UndoOld(t)
        BY <2>2, <3>2
        DEF Undo, UndoFirewall, UndoDB, UndoKernel, UndoKey, UndoPsk
      <3> QED
        BY <3>1, <3>2
    <2>3. CASE Update(t)
      <3>1. HasRow(job[t]) /\ job[t].row \in Row
        BY <1>0, <2>3 DEF Update, UpdateKernel, UpdateTune, UpdateDB,
           UpdateFirewall, Reread, ApplyReread, Shape, HasRow
      <3>2. pc[t] = "ukernel" => {HostOf[job[t].req.addr]} \in SUBSET Hosts
        BY <1>0, StoresAssumption DEF Shape
      <3> QED
        BY <2>3, <3>1, <3>2 DEF Update, UpdateKernel, UpdateTune, UpdateDB,
           UpdateFirewall, Reread, ApplyReread, stores
    <2>4. CASE Rotate(t)
      BY <2>4 DEF Rotate, RotateFirewall, RotateRemove, RotateAdd, RotateKey,
         RotatePsk, RotateApply
    <2>5. CASE Approve(t)
      <3>1. HasRow(job[t]) /\ job[t].row \in Row
        BY <1>0, <2>5 DEF Approve, ApproveDB, ApproveFlag, ApproveKernel, Shape,
           HasRow
      <3>2. {HostOf[job[t].req.addr]} \in SUBSET Hosts
        BY <1>0, <2>5, StoresAssumption
        DEF Approve, ApproveDB, ApproveFlag, ApproveKernel, Shape
      <3> QED
        BY <2>5, <3>1, <3>2 DEF Approve, ApproveDB, ApproveFlag, ApproveKernel
    <2>6. CASE Delete(t)
      BY <2>6 DEF Delete, DeleteKernel, DeleteDB, DeleteFirewall
    <2> QED
      BY <2>1, <2>2, <2>3, <2>4, <2>5, <2>6 DEF Handler
  <1>2. CASE kernel' = ConfigureNew(kernel, job[t].new)
    BY <1>0, <1>2, KeysAdded DEF KeysAt, KeysOf
  <1>3. CASE \E ks : kernel' = RemovePeers(kernel, ks)
    BY <1>0, <1>3, KeysRemoved
  <1>4. CASE /\ HasRow(job[t]) /\ job[t].row \in Row
             /\ \E hs \in SUBSET Hosts, psk \in Keys \cup {None}, rep \in BOOLEAN :
                   kernel' = ConfigurePeer(kernel, job[t].row.key, hs, psk, rep)
    <2>1. job[t].row.key \in Keys
      BY <1>4 DEF Row
    <2>2. PICK hs \in SUBSET Hosts, psk \in Keys \cup {None}, rep \in BOOLEAN :
             kernel' = ConfigurePeer(kernel, job[t].row.key, hs, psk, rep)
      BY <1>4
    <2>3. KernelKeys(kernel') = KernelKeys(kernel) \cup {job[t].row.key}
      BY <1>0, <2>1, <2>2, KeysConfigured
    <2> QED
      BY <1>4, <2>3 DEF KeysAt
  <1> QED
    BY <1>1, <1>2, <1>3, <1>4

LEMMA HandlerKeysAt ==
    ASSUME TypeInv, NEW t \in Threads, Handler(t)
    PROVE  KeysAt(job'[t]) \subseteq KeysAt(job[t]) \cup TableKeys(db)
  <1>0. job[t] \in Job
    BY DEF TypeInv, Control
  <1>a. ASSUME SameLocals(t) PROVE KeysAt(job'[t]) = KeysAt(job[t])
    BY <1>a DEF SameLocals, KeysAt, HasRow
  <1>b. ASSUME \/ \E step : Goto(t, step)
               \/ Return(t)
               \/ \E u : Unwind(t, u)
               \/ pc[t] = "undo" /\ NextUndo(t)
        PROVE  KeysAt(job'[t]) \subseteq KeysAt(job[t])
    BY <1>a, <1>b, StepLocals, KeysAtNone
  <1>1. CASE Reread(t)
    <2>1. CASE Return(t)
      BY <1>b, <2>1
    <2>2. CASE ~ Return(t)
      <3>1. PICK r \in db : job' = [job EXCEPT ![t].row = r]
        BY <1>1, <2>2 DEF Reread
      <3>2. job'[t] = [job[t] EXCEPT !.row = r]
        BY <3>1 DEF TypeInv, Control
      <3>3. job'[t].op = job[t].op /\ job'[t].new = job[t].new /\ job'[t].row = r
        BY <1>0, <3>2 DEF Job
      <3> QED
        BY <3>3 DEF KeysAt, HasRow, TableKeys
    <2> QED
      BY <2>1, <2>2
  <1>2. CASE ~ Reread(t)
    <2> USE DEF Unwinding
    <2>1. CASE Import(t)
      BY <1>b, <2>1
      DEF Import, ImportFirewall, ImportKernel, ImportInsert, ConfWrite
    <2>2. CASE Undo(t)
      BY <1>b, <2>2 DEF Undo, UndoFirewall, UndoDB, UndoKernel, UndoKey, UndoPsk,
         UndoOld
    <2>3. CASE Update(t)
      BY <1>2, <1>b, <2>3 DEF Update, UpdateKernel, UpdateTune, UpdateDB,
         UpdateFirewall, ApplyReread
    <2>4. CASE Rotate(t)
      BY <1>b, <2>4 DEF Rotate, RotateFirewall, RotateRemove, RotateAdd,
         RotateKey, RotatePsk, RotateApply
    <2>5. CASE Approve(t) \/ Delete(t)
      BY <1>b, <2>5 DEF Approve, ApproveDB, ApproveFlag, ApproveKernel, Delete,
         DeleteKernel, DeleteDB, DeleteFirewall
    <2> QED
      BY <2>1, <2>2, <2>3, <2>4, <2>5 DEF Handler
  <1> QED
    BY <1>1, <1>2

LEMMA UsedHandler ==
    ASSUME TypeInv, UsedInv, NEW t \in Threads, Handler(t)
    PROVE  UsedInv'
  <1>1. /\ \A s \in Threads \ {t} : job'[s] = job[s]
        /\ UNCHANGED <<used, rec>>
    BY HandlerJob
  <1>2. /\ KernelKeys(kernel') \subseteq KernelKeys(kernel) \cup KeysAt(job[t])
        /\ TableKeys(db') \subseteq TableKeys(db) \cup KeysAt(job[t])
        /\ KeysAt(job'[t]) \subseteq KeysAt(job[t]) \cup TableKeys(db)
    BY HandlerKernelKeys, HandlerTableKeys, HandlerKeysAt
  <1>3. \A s \in Threads : KeysAt(job'[s]) \subseteq used'
    BY <1>1, <1>2 DEF UsedInv
  <1>4. KernelKeys(kernel') \cup TableKeys(db') \subseteq used'
    BY <1>1, <1>2 DEF UsedInv
  <1> QED
    BY <1>1, <1>3, <1>4 DEF UsedInv

LEMMA UsedRequest ==
    ASSUME TypeInv, UsedInv, NEW t \in Threads, Request(t)
    PROVE  UsedInv'
  <1>0. pc \in [Threads -> Steps] /\ job \in [Threads -> Job]
    BY DEF TypeInv, Control
  <1>a. ASSUME NEW j, NEW step, Accept(t, j, step), used \subseteq used',
               KeysAt(j) \subseteq used'
        PROVE  UsedInv'
    <2>1. UNCHANGED <<db, kernel, rec>> /\ job' = [job EXCEPT ![t] = j]
      BY <1>a DEF Accept, stores
    <2>2. \A s \in Threads : KeysAt(job'[s]) \subseteq used'
      BY <1>0, <1>a, <2>1 DEF UsedInv
    <2> QED
      BY <1>a, <2>1, <2>2 DEF UsedInv
  <1>b. ASSUME NEW op, NEW step, NEW new, ImportAccepted(t, op, step, new),
               op \in {"create", "batch"}
        PROVE  UsedInv'
    <2>1. /\ UNCHANGED <<db, kernel, rec>>
          /\ job' = [job EXCEPT ![t] = Locals(op, None, new, None)]
          /\ used' = used \cup KeysOf(new)
      BY <1>b DEF ImportAccepted
    <2>2. KeysAt(Locals(op, None, new, None)) = KeysOf(new)
      BY <1>b DEF KeysAt, HasRow, Locals
    <2>3. \A s \in Threads : KeysAt(job'[s]) \subseteq used'
      BY <1>0, <2>1, <2>2 DEF UsedInv
    <2> QED
      BY <2>1, <2>3 DEF UsedInv
  <1>c. ASSUME NEW r \in db, NEW op, NEW req
        PROVE  KeysAt(Locals(op, r, <<>>, req)) \subseteq used
    BY FreshNone DEF KeysAt, Locals, UsedInv, TableKeys
  <1>1. CASE CreatePeer(t)
    BY <1>1, <1>b, CreateRequest
  <1>2. CASE BatchCreatePeers(t)
    BY <1>2, <1>b, BatchRequest
  <1>3. CASE UpdatePeer(t) \/ ApprovePeer(t) \/ DeletePeer(t)
    BY <1>3, <1>a, <1>c DEF UpdatePeer, ApprovePeer, DeletePeer
  <1>4. CASE RotateKeys(t)
    <2>1. PICK r \in db, k \in Keys \ used :
             /\ used' = used \cup {k}
             /\ Accept(t, Locals("rotate", r, <<Rotated(r, k)>>, None), "rfw")
      BY <1>4 DEF RotateKeys
    <2>2. r \in Row
      BY DEF TypeInv, Stores
    <2>3. Rotated(r, k).key = k
      BY <2>2 DEF Rotated, Row
    <2>4. KeysOf(<<Rotated(r, k)>>) = {k}
      BY <2>3 DEF KeysOf
    <2>5. KeysAt(Locals("rotate", r, <<Rotated(r, k)>>, None)) \subseteq used'
      BY <2>1, <2>4 DEF KeysAt, Locals, UsedInv, TableKeys
    <2> QED
      BY <1>a, <2>1, <2>5
  <1> QED
    BY <1>1, <1>2, <1>3, <1>4 DEF Request

LEMMA UsedReconcile ==
    ASSUME TypeInv, UsedInv, Reconcile
    PROVE  UsedInv'
  <1>0. /\ rec \in RecState /\ RecShape /\ kernel \in KernelType
        /\ db \in SUBSET Row /\ rec.todo \in SUBSET Keys
        /\ rec.rows \in SUBSET Row
    BY DEF TypeInv, Stores, RecShape, RecState
  <1>1. /\ KernelKeys(kernel) \subseteq used /\ TableKeys(db) \subseteq used
        /\ rec.kset \subseteq used /\ rec.todo \subseteq used
        /\ TableKeys(rec.rows) \subseteq used
        /\ rec.pc \in {"zombie", "unknown", "readded"} => rec.cur \in used
    BY DEF UsedInv
  <1>2. UNCHANGED <<used, job>>
    BY DEF Reconcile, RecDevice, RecList, RecRemove, RecZombieFirewall,
       RecUpsert, RecMissing, RecReadd, RecReaddFirewall, RecDone, RecVars
  <1>3. KernelKeys(kernel') \subseteq used
    <2>1. \/ kernel' = kernel
          \/ \E k : kernel' = RemovePeers(kernel, {k})
          \/ \E k \in rec.todo :
                /\ rec.pc = "missing"
                /\ kernel' = ConfigurePeer(kernel, k, IPsOf(RowOf(rec.rows, k)),
                                           RowOf(rec.rows, k).psk, FALSE)
      BY DEF Reconcile, RecDevice, RecList, RecRemove, RecZombieFirewall,
         RecUpsert, RecMissing, RecReadd, RecReaddFirewall, RecDone, stores, Try
    <2>2. CASE \E k : kernel' = RemovePeers(kernel, {k})
      BY <1>0, <1>1, <2>2, KeysRemoved
    <2>3. CASE \E k \in rec.todo :
                /\ rec.pc = "missing"
                /\ kernel' = ConfigurePeer(kernel, k, IPsOf(RowOf(rec.rows, k)),
                                           RowOf(rec.rows, k).psk, FALSE)
      <3>1. PICK k \in rec.todo :
               kernel' = ConfigurePeer(kernel, k, IPsOf(RowOf(rec.rows, k)),
                                       RowOf(rec.rows, k).psk, FALSE)
        BY <2>3
      <3>2. HasKey(rec.rows, k)
        BY <1>0, <2>3 DEF RecShape
      <3>3. RowOf(rec.rows, k) \in Row
        BY <1>0, <3>2, RowOfKey
      <3>4. /\ IPsOf(RowOf(rec.rows, k)) \in SUBSET Hosts
            /\ RowOf(rec.rows, k).psk \in Keys \cup {None}
        BY <3>3, IPsType DEF Row
      <3>5. KernelKeys(kernel') = KernelKeys(kernel) \cup {k}
        BY <1>0, <3>1, <3>4, KeysConfigured
      <3> QED
        BY <1>1, <3>5
    <2> QED
      BY <1>1, <2>1, <2>2, <2>3
  <1>4. TableKeys(db') \subseteq used
    <2>1. \/ db' = db
          \/ /\ rec.pc = "unknown"
             /\ db' = db \cup {QuarantineRow(lastId, rec.cur)}
      BY DEF Reconcile, RecDevice, RecList, RecRemove, RecZombieFirewall,
         RecUpsert, RecMissing, RecReadd, RecReaddFirewall, RecDone, stores
    <2>2. QuarantineRow(lastId, rec.cur).key = rec.cur
      BY DEF QuarantineRow
    <2> QED
      BY <1>1, <2>1, <2>2 DEF TableKeys
  <1>5. /\ rec'.kset \cup rec'.todo \cup TableKeys(rec'.rows) \subseteq used
        /\ rec'.pc \in {"zombie", "unknown", "readded"} => rec'.cur \in used
    <2>1. CASE RecDevice
      BY <1>0, <1>1, <2>1 DEF RecDevice, RecState
    <2>2. CASE RecList
      <3>1. CASE rec' = IdleRec
        BY <3>1 DEF IdleRec, TableKeys
      <3>2. CASE rec' = [rec EXCEPT !.pc = "kernel", !.rows = db,
                                    !.todo = rec.kset \ EnabledKeys(db)]
        <4>1. /\ rec'.kset = rec.kset /\ rec'.rows = db /\ rec'.pc = "kernel"
              /\ rec'.todo \subseteq rec.kset
          BY <1>0, <3>2 DEF RecState
        <4> QED
          BY <1>1, <4>1
      <3> QED
        BY <2>2, <3>1, <3>2 DEF RecList, RecReturn
    <2>3. CASE RecRemove
      BY <1>0, <1>1, <2>3 DEF RecRemove, RecState
    <2>4. CASE RecMissing
      <3>1. EnabledKeys(rec.rows) \subseteq TableKeys(rec.rows)
        BY DEF EnabledKeys, TableKeys
      <3> QED
        BY <1>0, <1>1, <2>4, <3>1 DEF RecMissing, RecState
    <2>5. CASE RecZombieFirewall \/ RecUpsert \/ RecReaddFirewall
      BY <1>0, <1>1, <2>5 DEF RecZombieFirewall, RecUpsert, RecReaddFirewall,
         RecState
    <2>6. CASE RecReadd
      BY <1>0, <1>1, <2>6 DEF RecReadd, RecState
    <2>7. CASE RecDone
      BY <2>7 DEF RecDone, RecReturn, IdleRec, TableKeys
    <2> QED
      BY <2>1, <2>2, <2>3, <2>4, <2>5, <2>6, <2>7 DEF Reconcile
  <1> QED
    BY <1>2, <1>3, <1>4, <1>5 DEF UsedInv

LEMMA UsedStep ==
    ASSUME TypeInv, UsedInv, [Next]_vars
    PROVE  UsedInv'
  <1>1. ASSUME NEW t \in Threads, Request(t) \/ Handler(t) PROVE UsedInv'
    BY <1>1, UsedRequest, UsedHandler
  <1>2. CASE Reconcile
    BY <1>2, UsedReconcile
  <1>3. ASSUME \/ \E t \in Threads : Pause(t)
               \/ FirewallSync
               \/ UNCHANGED vars
        PROVE  UsedInv'
    BY <1>3 DEF Pause, FirewallSync, RecVars, stores, vars, UsedInv
  <1>4. CASE ForeignAdd
    <2>1. PICK k \in Keys \ used, h \in Hosts :
             /\ kernel' = ConfigurePeer(kernel, k, {h}, None, FALSE)
             /\ used' = used \cup {k}
      BY <1>4 DEF ForeignAdd
    <2>2. KernelKeys(kernel') = KernelKeys(kernel) \cup {k}
      BY <2>1, KeysConfigured DEF TypeInv, Stores
    <2>3. UNCHANGED <<db, job, rec>>
      BY <1>4 DEF ForeignAdd
    <2> QED
      BY <2>1, <2>2, <2>3 DEF UsedInv
  <1>5. CASE ForeignRemove
    <2>1. KernelKeys(kernel') \subseteq KernelKeys(kernel)
      BY <1>5, KeysRemoved DEF ForeignRemove, TypeInv, Stores
    <2> QED
      BY <1>5, <2>1 DEF ForeignRemove, UsedInv
  <1>6. CASE Crash
    <2>1. /\ UNCHANGED <<db, kernel, used>> /\ rec' = IdleRec
          /\ \A t \in Threads : job'[t] = NoJob
      BY <1>6 DEF Crash, stores
    <2>2. /\ rec'.kset = {} /\ rec'.todo = {} /\ TableKeys(rec'.rows) = {}
          /\ rec'.pc = "idle"
      BY <2>1 DEF IdleRec, TableKeys
    <2> QED
      BY <2>1, <2>2, KeysAtNone DEF UsedInv
  <1> QED
    BY <1>1, <1>2, <1>3, <1>4, <1>5, <1>6 DEF Next, Environment

LEMMA UsedInit == Init => UsedInv
  <1> SUFFICES ASSUME Init PROVE UsedInv
    OBVIOUS
  <1>1. TableKeys(db) \subseteq used
    BY DEF Init, TableKeys
  <1>2. KernelKeys(kernel) \subseteq EnabledKeys(InitRows)
    BY DEF Init, KernelKeys
  <1>3. EnabledKeys(InitRows) \subseteq used
    BY DEF Init, EnabledKeys
  <1>4. /\ rec.kset = {} /\ rec.todo = {} /\ TableKeys(rec.rows) = {}
        /\ rec.pc = "idle"
    BY DEF Init, IdleRec, TableKeys
  <1>5. \A t \in Threads : KeysAt(job[t]) = {}
    BY KeysAtNone DEF Init
  <1> QED
    BY <1>1, <1>2, <1>3, <1>4, <1>5 DEF UsedInv

-----------------------------------------------------------------------------
(* Requests one at a time, no pass but those of the start-up, no peers set  *)
(* by hand and no rollback call that fails.                                 *)

Serial == /\ \A t, s \in Threads : t = s
          /\ "reconcile" \notin Ops
          /\ Budget["foreign"] = 0 /\ Budget["rollback"] = 0

SerialEnv == /\ BootInv
             /\ budget["rollback"] = 0
             /\ phase = "up" => rec.pc = "idle"

LEMMA SerialEnvStep ==
    ASSUME Serial, TypeInv, SerialEnv, [Next]_vars
    PROVE  SerialEnv'
  <1>1. BootInv'
    BY BootStep DEF SerialEnv
  <1>2. budget'["rollback"] = 0
    <2>1. "rollback" \in EnvKinds
      BY DEF EnvKinds
    <2>2. /\ budget["rollback"] = 0 /\ budget'["rollback"] \in Nat
          /\ budget'["rollback"] <= budget["rollback"]
      BY <2>1, BudgetFalls DEF SerialEnv
    <2> QED
      BY <2>2
  <1>3. phase' = "up" => rec'.pc = "idle"
    <2>0. BootAlone /\ (phase = "up" => rec.pc = "idle") /\ "reconcile" \notin Ops
      BY DEF SerialEnv, BootInv, Serial
    <2>1. ASSUME NEW t \in Threads, Request(t) \/ Pause(t) \/ Handler(t)
          PROVE  phase' = "up" => rec'.pc = "idle"
      BY <2>0, <2>1, PhaseUp
    <2>2. CASE Reconcile
      BY <2>0, <2>2 DEF Reconcile, RecDevice, RecList, RecRemove,
         RecZombieFirewall, RecUpsert, RecMissing, RecReadd, RecReaddFirewall,
         RecDone, RecReturn
    <2>3. CASE FirewallSync
      BY <2>0, <2>3 DEF FirewallSync, BootAlone
    <2>4. CASE Environment
      BY <2>0, <2>4 DEF Environment, ForeignAdd, ForeignRemove, Crash
    <2>5. CASE UNCHANGED vars
      BY <2>0, <2>5 DEF vars
    <2> QED
      BY <2>1, <2>2, <2>3, <2>4, <2>5 DEF Next
  <1> QED
    BY <1>1, <1>2, <1>3 DEF SerialEnv

LEMMA SerialEnvInit ==
    ASSUME Serial, Init
    PROVE  SerialEnv
  <1>1. BootAlone
    BY AgentAssumption DEF Init, BootAlone, Serial, EnvKinds
  <1>2. BootInv
    BY <1>1 DEF BootInv, Init, BootRepairs
  <1> QED
    BY <1>2 DEF SerialEnv, Init, IdleRec, Serial

\* Nothing that is outside the handler runs beside it.
LEMMA NoPass ==
    ASSUME Serial, TypeInv, SerialEnv, Reconcile \/ FirewallSync
    PROVE  /\ phase # "up" /\ \A t \in Threads : pc[t] = "idle"
           /\ UNCHANGED <<pc, job, used>>
  <1>1. BootAlone
    BY DEF SerialEnv, BootInv
  <1>2. CASE FirewallSync
    BY <1>1, <1>2 DEF FirewallSync, BootAlone, RecVars
  <1>3. CASE Reconcile
    <2>1. UNCHANGED <<pc, job, used>>
      BY <1>3 DEF Reconcile, RecDevice, RecList, RecRemove, RecZombieFirewall,
         RecUpsert, RecMissing, RecReadd, RecReaddFirewall, RecDone, RecVars
    <2>2. phase # "up"
      <3> SUFFICES ASSUME phase = "up" PROVE FALSE
        OBVIOUS
      <3>1. rec.pc = "idle" /\ "reconcile" \notin Ops
        BY DEF SerialEnv, Serial
      <3> QED
        BY <1>3, <3>1 DEF Reconcile, RecDevice, RecList, RecRemove,
           RecZombieFirewall, RecUpsert, RecMissing, RecReadd,
           RecReaddFirewall, RecDone
    <2> QED
      BY <1>1, <2>1, <2>2 DEF BootAlone
  <1> QED
    BY <1>2, <1>3

LEMMA NoRollbackFault ==
    ASSUME TypeInv, SerialEnv
    PROVE  ~ Spend("rollback") /\ ~ Spend("foreign")
  BY DEF SerialEnv, BootInv, BootAlone, Spend

LEMMA IdleJob ==
    ASSUME TypeInv, NEW t \in Threads, pc[t] = "idle"
    PROVE  job[t].op = "none"
  <1>1. Shape(job[t], pc[t])
    BY DEF TypeInv, Control
  <1> QED
    BY <1>1 DEF Shape

-----------------------------------------------------------------------------
(* What a handler knows of the table.  Alone, it finds the row it has read, *)
(* and a rotation finds that row under the old or the new key, with the old *)
(* or the new preshared key, as its own statements have left it.            *)

Moved(r, k) == [r EXCEPT !.key = k]

RotJob(j) == /\ DOMAIN j.new = {1}
             /\ j.new[1] = Rotated(j.row, j.new[1].key)
             /\ j.new[1].key # j.row.key

RotUndo(r, n, u, D) ==
    \/ u \in {<<"old">>, <<"kernel", "old">>} /\ r \in D
    \/ u = <<"key", "kernel", "old">> /\ Moved(r, n.key) \in D /\ ~ HasKey(D, r.key)
    \/ u = <<"psk", "kernel", "old">> /\ Moved(n, r.key) \in D
    \/ u = <<"key", "psk", "kernel", "old">> /\ n \in D /\ ~ HasKey(D, r.key)

RotRow(step, r, n, u, D) ==
    /\ step \in {"rfw", "rremove", "radd", "rkey"} => r \in D /\ ~ HasKey(D, n.key)
    /\ step = "rpsk" => /\ Moved(r, n.key) \in D /\ ~ HasKey(D, r.key)
                        /\ r.psk # None
    /\ step \in {"conf", "rapply"} => n \in D /\ ~ HasKey(D, r.key)
    /\ step = "undo" => RotUndo(r, n, u, D)

Knows(j, step, D) ==
    /\ step \in {"ukernel", "utune", "udb"} => j.row \in D
    /\ step \in {"adb", "aflag", "akernel"} => HasKey(D, j.row.key)
    /\ j.op = "rotate" => RotJob(j) /\ RotRow(step, j.row, j.new[1], j.undo, D)

TableInv == \A t \in Threads : Knows(job[t], pc[t], db)

\* The rows a rotation makes of r.
LEMMA RotatedRow ==
    ASSUME NEW r \in Row, NEW k \in Keys, NEW n, n = Rotated(r, k)
    PROVE  /\ n \in Row /\ n.key = k /\ n.ips = r.ips /\ n.addr = r.addr
           /\ n.enabled = r.enabled /\ n.id = r.id /\ n.allow = r.allow
           /\ Moved(r, k).key = k /\ Moved(r, k) \in Row
           /\ [Moved(r, k) EXCEPT !.key = r.key] = r
           /\ r.psk # None => [Moved(r, k) EXCEPT !.psk = n.psk] = n
           /\ r.psk = None => Moved(r, k) = n
           /\ Moved(n, r.key).key = r.key
           /\ [Moved(n, r.key) EXCEPT !.psk = r.psk] = r
  <1>1. /\ n \in Row /\ n.key = k /\ n.ips = r.ips /\ n.addr = r.addr
        /\ n.enabled = r.enabled /\ n.id = r.id /\ n.allow = r.allow
        /\ n.auto = r.auto /\ n.psk = IF r.psk = None THEN None ELSE k
    BY DEF Rotated, Row
  <1>2. /\ Moved(r, k).key = k /\ Moved(r, k) \in Row
        /\ [Moved(r, k) EXCEPT !.key = r.key] = r
    BY DEF Moved, Row
  <1>3. /\ r.psk # None => [Moved(r, k) EXCEPT !.psk = n.psk] = n
        /\ r.psk = None => Moved(r, k) = n
    BY DEF Moved, Row, Rotated
  <1>4. /\ Moved(n, r.key).key = r.key
        /\ [Moved(n, r.key) EXCEPT !.psk = r.psk] = r
    BY DEF Moved, Row, Rotated
  <1> QED
    BY <1>1, <1>2, <1>3, <1>4

\* An UPDATE of the row x, and one that moves every row of a key.
LEMMA RowUpdated ==
    ASSUME NEW D, NEW set, NEW x \in D
    PROVE  set[x] \in UpdateRows(D, x.key, set)
  BY DEF UpdateRows

LEMMA KeyMoved ==
    ASSUME NEW D, NEW k, NEW new, NEW set, \A r \in D : set[r].key = new, new # k
    PROVE  ~ HasKey(UpdateRows(D, k, set), k)
  BY DEF UpdateRows, HasKey

LEMMA KeyKept ==
    ASSUME NEW D, NEW k, NEW set, \A r \in D : set[r].key = r.key
    PROVE  \A j : HasKey(UpdateRows(D, k, set), j) <=> HasKey(D, j)
  BY DEF UpdateRows, HasKey

LEMMA UndoTails ==
    /\ Len(<<"old">>) = 1 /\ Head(<<"old">>) = "old"
    /\ Head(<<"kernel", "old">>) = "kernel"
    /\ Tail(<<"kernel", "old">>) = <<"old">> /\ Len(<<"kernel", "old">>) = 2
    /\ Head(<<"key", "kernel", "old">>) = "key"
    /\ Tail(<<"key", "kernel", "old">>) = <<"kernel", "old">>
    /\ Len(<<"key", "kernel", "old">>) = 3
    /\ Head(<<"psk", "kernel", "old">>) = "psk"
    /\ Tail(<<"psk", "kernel", "old">>) = <<"kernel", "old">>
    /\ Len(<<"psk", "kernel", "old">>) = 3
    /\ Head(<<"key", "psk", "kernel", "old">>) = "key"
    /\ Tail(<<"key", "psk", "kernel", "old">>) = <<"psk", "kernel", "old">>
    /\ Len(<<"key", "psk", "kernel", "old">>) = 4
  OBVIOUS

LEMMA LongTails ==
    ASSUME NEW u \in {<<"kernel", "old">>, <<"key", "kernel", "old">>,
                      <<"psk", "kernel", "old">>, <<"key", "psk", "kernel", "old">>}
    PROVE  Len(u) > 1
  <1>1. Len(u) \in {2, 3, 4}
    BY UndoTails
  <1> QED
    BY <1>1

\* What a rotation is made of.
LEMMA RotateHandler ==
    ASSUME TypeInv, NEW t \in Threads, Handler(t), job[t].op = "rotate"
    PROVE  \/ ConfWrite(t) \/ Rotate(t)
           \/ UndoKernel(t) \/ UndoKey(t) \/ UndoPsk(t) \/ UndoOld(t)
  <1>0. Shape(job[t], pc[t]) /\ job[t] \in Job /\ Control
    BY DEF TypeInv, Control
  <1>1. CASE Import(t)
    BY <1>0, <1>1
    DEF Import, ImportFirewall, ImportKernel, ImportInsert, Shape
  <1>2. CASE Undo(t)
    <2>1. pc[t] = "undo" => Head(job[t].undo) \notin {"fw", "db"}
      <3> SUFFICES ASSUME pc[t] = "undo"
                   PROVE  Head(job[t].undo) \notin {"fw", "db"}
        OBVIOUS
      <3>1. job[t].undo \in Seq(UndoSteps) /\ job[t].undo # <<>>
        BY <1>0 DEF Control, Job, UndoSteps
      <3>2. 1 \in DOMAIN job[t].undo /\ Head(job[t].undo) = job[t].undo[1]
        BY <3>1
      <3> QED
        BY <1>0, <3>2 DEF Shape
    <2> QED
      BY <1>2, <2>1 DEF Undo, UndoFirewall, UndoDB, Unwinding
  <1>3. ~ Update(t)
    BY <1>0 DEF Shape, Update, UpdateKernel, UpdateTune, UpdateDB,
       UpdateFirewall, Reread, ApplyReread
  <1>4. ~ Approve(t) /\ ~ Delete(t)
    BY <1>0 DEF Shape, Approve, ApproveDB, ApproveFlag, ApproveKernel,
       Delete, DeleteKernel, DeleteDB, DeleteFirewall
  <1> QED
    BY <1>1, <1>2, <1>3, <1>4 DEF Handler

LEMMA TableRotate ==
    ASSUME TypeInv, SerialEnv, TableInv, NEW t \in Threads, Handler(t),
           job[t].op = "rotate"
    PROVE  Knows(job'[t], pc'[t], db')
  <1>0. /\ Shape(job[t], pc[t]) /\ job[t] \in Job /\ Control
        /\ db \in SUBSET Row /\ job[t].new \in Seq(Row)
    BY NewRowsType DEF TypeInv, Control, Stores
  <1> DEFINE r == job[t].row
             n == job[t].new[1]
             u == job[t].undo
  <1>1. /\ RotJob(job[t]) /\ RotRow(pc[t], r, n, u, db)
        /\ r \in Row /\ n \in Row /\ n = Rotated(r, n.key) /\ n.key \in Keys
        /\ n.key # r.key
    <2>1. RotJob(job[t]) /\ RotRow(pc[t], r, n, u, db)
      BY DEF TableInv, Knows
    <2>2. r \in Row /\ n \in Row
      BY <1>0 DEF Shape
    <2> QED
      BY <2>1, <2>2 DEF RotJob, Row
  <1>2. /\ n.key = n.key /\ Moved(r, n.key).key = n.key
        /\ [Moved(r, n.key) EXCEPT !.key = r.key] = r
        /\ r.psk # None => [Moved(r, n.key) EXCEPT !.psk = n.psk] = n
        /\ r.psk = None => Moved(r, n.key) = n
        /\ Moved(n, r.key).key = r.key
        /\ [Moved(n, r.key) EXCEPT !.psk = r.psk] = r
    <2> HIDE DEF r, n
    <2> QED
      BY <1>1, RotatedRow
  <1>3. pc[t] \in {"rfw", "rremove", "radd", "rkey", "rpsk", "conf", "rapply",
                   "undo"}
    BY <1>0 DEF Shape
  <1>a. ASSUME SameLocals(t), RotRow(pc'[t], r, n, job'[t].undo, db'),
               pc'[t] \notin {"ukernel", "utune", "udb", "adb", "aflag", "akernel"}
        PROVE  Knows(job'[t], pc'[t], db')
    BY <1>1, <1>a DEF Knows, SameLocals, RotJob
  <1>b. ASSUME job'[t] = NoJob, pc'[t] = "idle"
        PROVE  Knows(job'[t], pc'[t], db')
    BY <1>b DEF Knows, NoJob, Locals
  <1>c. ASSUME NEW step, Goto(t, step),
               step \in {"rremove", "radd", "rkey", "rpsk", "conf", "rapply"},
               RotRow(step, r, n, u, db')
        PROVE  Knows(job'[t], pc'[t], db')
    <2>1. pc'[t] = step /\ job'[t] = job[t]
      BY <1>c, StepLocals
    <2> QED
      BY <1>a, <1>c, <2>1 DEF SameLocals
  <1>d. ASSUME NEW v, Unwind(t, v), RotUndo(r, n, v, db')
        PROVE  Knows(job'[t], pc'[t], db')
    <2>1. pc'[t] = "undo" /\ job'[t].undo = v /\ SameLocals(t)
      BY <1>d, StepLocals
    <2>2. RotRow(pc'[t], r, n, job'[t].undo, db')
      BY <1>d, <2>1 DEF RotRow
    <2> QED
      BY <1>a, <2>1, <2>2
  <1>e. ASSUME pc[t] = "undo", NextUndo(t),
               Len(u) > 1 => RotUndo(r, n, Tail(u), db')
        PROVE  Knows(job'[t], pc'[t], db')
    <2>1. CASE job'[t] = NoJob /\ pc'[t] = "idle"
      BY <1>b, <2>1
    <2>2. CASE /\ Len(u) > 1 /\ pc'[t] = "undo" /\ job'[t].undo = Tail(u)
               /\ SameLocals(t)
      <3>1. RotRow(pc'[t], r, n, job'[t].undo, db')
        BY <1>e, <2>2 DEF RotRow
      <3> QED
        BY <1>a, <2>2, <3>1
    <2> QED
      BY <1>e, <2>1, <2>2, StepLocals
  <1>f. ~ Spend("rollback")
    BY NoRollbackFault
  <1> HIDE DEF r, n, u
  <1>4. CASE ConfWrite(t)
    <2>1. pc[t] = "conf" /\ db' = db /\ n \in db /\ ~ HasKey(db, r.key)
      BY <1>1, <1>4 DEF ConfWrite, stores, RotRow
    <2>2. CASE Goto(t, "rapply")
      <3>1. RotRow("rapply", r, n, u, db')
        BY <2>1 DEF RotRow
      <3> QED
        BY <1>c, <2>2, <3>1
    <2>3. CASE Unwind(t, RollbackOf("rotate"))
      <3>1. RotUndo(r, n, RollbackOf("rotate"), db')
        BY <2>1 DEF RotUndo, RollbackOf
      <3> QED
        BY <1>d, <2>3, <3>1
    <2> QED
      BY <1>4, <2>2, <2>3 DEF ConfWrite
  <1>5. CASE RotateFirewall(t) \/ RotateRemove(t) \/ RotateAdd(t)
    <2>1. db' = db /\ r \in db /\ ~ HasKey(db, n.key)
      BY <1>1, <1>5 DEF RotateFirewall, RotateRemove, RotateAdd, RotRow
    <2>2. \/ \E step \in {"rremove", "radd", "rkey"} : Goto(t, step)
          \/ Unwind(t, <<"old">>)
      BY <1>5 DEF RotateFirewall, RotateRemove, RotateAdd
    <2>3. /\ \A step \in {"rremove", "radd", "rkey"} : RotRow(step, r, n, u, db')
          /\ RotUndo(r, n, <<"old">>, db')
      BY <2>1 DEF RotRow, RotUndo
    <2> QED
      BY <1>c, <1>d, <2>2, <2>3
  <1>6. CASE RotateKey(t)
    <2>1. pc[t] = "rkey" /\ r \in db /\ ~ HasKey(db, n.key) /\ HasKey(db, r.key)
      BY <1>1, <1>6 DEF RotateKey, RotRow, HasKey
    <2>2. CASE Unwind(t, <<"kernel", "old">>) /\ db' = db
      <3>1. RotUndo(r, n, <<"kernel", "old">>, db')
        BY <2>1, <2>2 DEF RotUndo
      <3> QED
        BY <1>d, <2>2, <3>1
    <2>3. CASE ~ (Unwind(t, <<"kernel", "old">>) /\ db' = db)
      <3>1. PICK set : set = [x \in db |-> [x EXCEPT !.key = n.key]]
        OBVIOUS
      <3>2. /\ db' = UpdateRows(db, r.key, set)
            /\ Goto(t, IF r.psk = None THEN "conf" ELSE "rpsk")
        BY <1>6, <2>3, <3>1 DEF RotateKey, r, n
      <3>3. \A x \in db : set[x].key = n.key
        BY <1>0, <3>1 DEF Row
      <3>4. ~ HasKey(db', r.key)
        BY <1>1, <3>2, <3>3, KeyMoved
      <3>5. Moved(r, n.key) \in db'
        <4>1. set[r] = Moved(r, n.key)
          BY <2>1, <3>1 DEF Moved
        <4> QED
          BY <2>1, <3>2, <4>1, RowUpdated
      <3>6. CASE r.psk = None
        <4>1. RotRow("conf", r, n, u, db')
          BY <1>2, <3>4, <3>5, <3>6 DEF RotRow
        <4> QED
          BY <1>c, <3>2, <3>6, <4>1
      <3>7. CASE r.psk # None
        <4>1. RotRow("rpsk", r, n, u, db')
          BY <3>4, <3>5, <3>7 DEF RotRow
        <4> QED
          BY <1>c, <3>2, <3>7, <4>1
      <3> QED
        BY <3>6, <3>7
    <2> QED
      BY <2>2, <2>3
  <1>7. CASE RotatePsk(t)
    <2>1. /\ pc[t] = "rpsk" /\ Moved(r, n.key) \in db /\ ~ HasKey(db, r.key)
          /\ r.psk # None
      BY <1>1, <1>7 DEF RotatePsk, RotRow
    <2>2. CASE Unwind(t, <<"key", "kernel", "old">>) /\ db' = db
      <3>1. RotUndo(r, n, <<"key", "kernel", "old">>, db')
        BY <2>1, <2>2 DEF RotUndo
      <3> QED
        BY <1>d, <2>2, <3>1
    <2>3. CASE ~ (Unwind(t, <<"key", "kernel", "old">>) /\ db' = db)
      <3>1. PICK set : set = [x \in db |-> [x EXCEPT !.psk = n.psk]]
        OBVIOUS
      <3>2. db' = UpdateRows(db, n.key, set) /\ Goto(t, "conf")
        BY <1>7, <2>3, <3>1 DEF RotatePsk, n
      <3>3. \A x \in db : set[x].key = x.key
        BY <1>0, <3>1 DEF Row
      <3>4. ~ HasKey(db', r.key)
        BY <2>1, <3>2, <3>3, KeyKept
      <3>5. n \in db'
        <4>1. set[Moved(r, n.key)] = n
          BY <1>2, <2>1, <3>1
        <4>2. set[Moved(r, n.key)] \in UpdateRows(db, n.key, set)
          BY <1>2, <2>1, RowUpdated
        <4> QED
          BY <3>2, <4>1, <4>2
      <3>6. RotRow("conf", r, n, u, db')
        BY <3>4, <3>5 DEF RotRow
      <3> QED
        BY <1>c, <3>2, <3>6
    <2> QED
      BY <2>2, <2>3
  <1>8. CASE RotateApply(t)
    BY <1>8, <1>b, StepLocals DEF RotateApply
  <1>9. ASSUME UndoKernel(t) \/ UndoKey(t) \/ UndoPsk(t) \/ UndoOld(t)
        PROVE  Knows(job'[t], pc'[t], db')
    <2>1. pc[t] = "undo" /\ NextUndo(t) /\ RotUndo(r, n, u, db)
      BY <1>1, <1>9
      DEF UndoKernel, UndoKey, UndoPsk, UndoOld, Unwinding, RotRow
    <2>2. CASE UndoKernel(t) \/ UndoOld(t)
      <3>1. Head(u) \in {"kernel", "old"} /\ db' = db
        BY <2>2 DEF UndoKernel, UndoOld, Unwinding, u
      <3>2. u \in {<<"old">>, <<"kernel", "old">>} /\ r \in db
        BY <2>1, <3>1, UndoTails DEF RotUndo
      <3>3. u = <<"kernel", "old">> => RotUndo(r, n, Tail(u), db')
        BY <3>1, <3>2, UndoTails DEF RotUndo
      <3>4. u = <<"old">> => ~ (Len(u) > 1)
        BY UndoTails
      <3> QED
        BY <1>e, <2>1, <3>2, <3>3, <3>4
    <2>3. CASE UndoKey(t)
      <3>1. Head(u) = "key"
        BY <2>3 DEF UndoKey, Unwinding, u
      <3>2. \/ u = <<"key", "kernel", "old">> /\ Moved(r, n.key) \in db
            \/ u = <<"key", "psk", "kernel", "old">> /\ n \in db
        BY <2>1, <3>1, UndoTails DEF RotUndo
      <3>3. ~ HasKey(db, r.key)
        BY <2>1, <3>1, UndoTails DEF RotUndo
      <3>4. PICK set : set = [x \in db |-> [x EXCEPT !.key = r.key]]
        OBVIOUS
      <3>5. db' = UpdateRows(db, n.key, set)
        BY <1>f, <2>3, <3>3, <3>4 DEF UndoKey, Try, r, n
      <3>6. CASE u = <<"key", "kernel", "old">> /\ Moved(r, n.key) \in db
        <4>1. set[Moved(r, n.key)] = r
          BY <1>2, <3>4, <3>6
        <4>2. set[Moved(r, n.key)] \in UpdateRows(db, n.key, set)
          BY <1>2, <3>6, RowUpdated
        <4>3. RotUndo(r, n, Tail(u), db')
          BY <3>5, <3>6, <4>1, <4>2, UndoTails DEF RotUndo
        <4> QED
          BY <1>e, <2>1, <4>3
      <3>7. CASE u = <<"key", "psk", "kernel", "old">> /\ n \in db
        <4>1. set[n] = Moved(n, r.key)
          BY <3>4, <3>7 DEF Moved
        <4>2. set[n] \in UpdateRows(db, n.key, set)
          BY <3>7, RowUpdated
        <4>3. RotUndo(r, n, Tail(u), db')
          BY <3>5, <3>7, <4>1, <4>2, UndoTails DEF RotUndo
        <4> QED
          BY <1>e, <2>1, <4>3
      <3> QED
        BY <3>2, <3>6, <3>7
    <2>4. CASE UndoPsk(t)
      <3>1. Head(u) = "psk"
        BY <2>4 DEF UndoPsk, Unwinding, u
      <3>2. u = <<"psk", "kernel", "old">> /\ Moved(n, r.key) \in db
        BY <2>1, <3>1, UndoTails DEF RotUndo
      <3>3. PICK set : set = [x \in db |-> [x EXCEPT !.psk = r.psk]]
        OBVIOUS
      <3>4. db' = UpdateRows(db, r.key, set)
        BY <1>f, <2>4, <3>3 DEF UndoPsk, Try, r
      <3>5. set[Moved(n, r.key)] = r
        BY <1>2, <3>2, <3>3
      <3>6. set[Moved(n, r.key)] \in UpdateRows(db, r.key, set)
        BY <1>2, <3>2, RowUpdated
      <3>7. RotUndo(r, n, Tail(u), db')
        BY <3>2, <3>4, <3>5, <3>6, UndoTails DEF RotUndo
      <3> QED
        BY <1>e, <2>1, <3>7
    <2> QED
      BY <1>9, <2>2, <2>3, <2>4
  <1> QED
    BY <1>4, <1>5, <1>6, <1>7, <1>8, <1>9, RotateHandler DEF Rotate

LEMMA TableOther ==
    ASSUME TypeInv, TableInv, NEW t \in Threads, Handler(t),
           job[t].op # "rotate"
    PROVE  Knows(job'[t], pc'[t], db')
  <1>0. /\ pc \in [Threads -> Steps] /\ job \in [Threads -> Job]
        /\ db \in SUBSET Row /\ Knows(job[t], pc[t], db)
    BY DEF TypeInv, Control, Stores, TableInv
  <1>1. job'[t].op # "rotate"
    BY HandlerJob DEF NoJob, Locals
  <1>2. ASSUME pc'[t] \in {"ukernel", "utune", "udb", "adb", "aflag", "akernel"}
        PROVE  \/ UpdateKernel(t) \/ UpdateTune(t)
               \/ ApproveDB(t) \/ ApproveFlag(t)
    <2> USE DEF Goto, Return, Unwind, NextUndo, Unwinding
    <2>1. ~ Import(t)
      BY <1>0, <1>2
      DEF Import, ImportFirewall, ImportKernel, ImportInsert, ConfWrite
    <2>2. ~ Undo(t)
      BY <1>0, <1>2 DEF Undo, UndoFirewall, UndoDB, UndoKernel, UndoKey,
         UndoPsk, UndoOld
    <2>3. ~ Rotate(t)
      BY <1>0, <1>2 DEF Rotate, RotateFirewall, RotateRemove, RotateAdd,
         RotateKey, RotatePsk, RotateApply
    <2>4. ~ Delete(t) /\ ~ ApproveKernel(t)
      BY <1>0, <1>2 DEF ApproveKernel, Delete, DeleteKernel, DeleteDB,
         DeleteFirewall
    <2>5. ~ UpdateDB(t) /\ ~ UpdateFirewall(t) /\ ~ Reread(t) /\ ~ ApplyReread(t)
      BY <1>0, <1>2 DEF UpdateDB, UpdateFirewall, Reread, ApplyReread
    <2> QED
      BY <2>1, <2>2, <2>3, <2>4, <2>5 DEF Handler, Update, Approve
  <1>3. CASE UpdateKernel(t) \/ UpdateTune(t)
    <2>1. /\ pc[t] \in {"ukernel", "utune"} /\ db' = db
          /\ (\E step \in {"utune", "udb"} : Goto(t, step)) \/ Return(t)
      BY <1>3 DEF UpdateKernel, UpdateTune
    <2>2. CASE Return(t)
      BY <1>1, <2>2, StepLocals DEF Knows
    <2>3. CASE \E step \in {"utune", "udb"} : Goto(t, step)
      <3>1. pc'[t] \in {"utune", "udb"} /\ job'[t] = job[t]
        BY <2>3, StepLocals
      <3>2. job[t].row \in db
        BY <1>0, <2>1 DEF Knows
      <3> QED
        BY <1>1, <2>1, <3>1, <3>2 DEF Knows
    <2> QED
      BY <2>1, <2>2, <2>3
  <1>4. CASE ApproveDB(t)
    <2>1. CASE Return(t)
      BY <1>1, <2>1, StepLocals DEF Knows
    <2>2. CASE ~ Return(t)
      <3>1. PICK q : q = job[t].req
        OBVIOUS
      <3>2. PICK set : set = [r \in db |-> [r EXCEPT !.addr = q.addr,
                                                     !.ips = HostOf[q.addr],
                                                     !.allow = q.allow,
                                                     !.enabled = TRUE]]
        OBVIOUS
      <3>3. db' = UpdateRows(db, job[t].row.key, set) /\ Goto(t, "aflag")
        BY <1>4, <2>2, <3>1, <3>2 DEF ApproveDB
      <3>4. \A r \in db : set[r].key = r.key
        BY <1>0, <3>2 DEF Row
      <3>5. HasKey(db, job[t].row.key)
        BY <1>0, <1>4 DEF Knows, ApproveDB
      <3>6. HasKey(db', job[t].row.key)
        BY <3>3, <3>4, <3>5, KeyKept
      <3>7. pc'[t] = "aflag" /\ job'[t] = job[t]
        BY <3>3, StepLocals
      <3> QED
        BY <1>1, <3>6, <3>7 DEF Knows
    <2> QED
      BY <2>1, <2>2
  <1>5. CASE ApproveFlag(t)
    <2>1. CASE Return(t)
      BY <1>1, <2>1, StepLocals DEF Knows
    <2>2. CASE ~ Return(t)
      <3>1. PICK set : set = [r \in db |-> [r EXCEPT !.enabled = TRUE,
                                                     !.auto = FALSE]]
        OBVIOUS
      <3>2. db' = UpdateRows(db, job[t].row.key, set) /\ Goto(t, "akernel")
        BY <1>5, <2>2, <3>1 DEF ApproveFlag
      <3>3. \A r \in db : set[r].key = r.key
        BY <1>0, <3>1 DEF Row
      <3>4. HasKey(db, job[t].row.key)
        BY <1>0, <1>5 DEF Knows, ApproveFlag
      <3>5. HasKey(db', job[t].row.key)
        BY <3>2, <3>3, <3>4, KeyKept
      <3>6. pc'[t] = "akernel" /\ job'[t] = job[t]
        BY <3>2, StepLocals
      <3> QED
        BY <1>1, <3>5, <3>6 DEF Knows
    <2> QED
      BY <2>1, <2>2
  <1> QED
    BY <1>1, <1>2, <1>3, <1>4, <1>5 DEF Knows

LEMMA TableRequest ==
    ASSUME TypeInv, UsedInv, NEW t \in Threads, Request(t)
    PROVE  Knows(job'[t], pc'[t], db') /\ db' = db
  <1>0. db \in SUBSET Row /\ job \in [Threads -> Job] /\ pc \in [Threads -> Steps]
    BY DEF TypeInv, Stores, Control
  <1>1. CASE CreatePeer(t)
    <2>1. PICK new : ImportAccepted(t, "create", "fw", new)
      BY <1>1, CreateRequest
    <2> QED
      BY <1>0, <2>1 DEF ImportAccepted, Locals, Knows
  <1>2. CASE BatchCreatePeers(t)
    <2>1. PICK new : ImportAccepted(t, "batch", "pause", new)
      BY <1>2, BatchRequest
    <2> QED
      BY <1>0, <2>1 DEF ImportAccepted, Locals, Knows
  <1>3. CASE UpdatePeer(t)
    BY <1>0, <1>3 DEF UpdatePeer, Accept, Locals, stores, Knows
  <1>4. CASE RotateKeys(t)
    <2>1. PICK r \in db, k \in Keys \ used :
             Accept(t, Locals("rotate", r, <<Rotated(r, k)>>, None), "rfw")
      BY <1>4 DEF RotateKeys
    <2>2. PICK n : n = Rotated(r, k)
      OBVIOUS
    <2>3. r \in Row /\ n.key = k
      BY <1>0, <2>2, RotatedRow
    <2>4. ~ HasKey(db, k) /\ r.key # k
      BY <2>1 DEF UsedInv, TableKeys, HasKey
    <2>5. pc'[t] = "rfw" /\ job'[t] = Locals("rotate", r, <<n>>, None) /\ db' = db
      BY <2>1, <2>2, StepLocals DEF Accept, stores
    <2>6. /\ job'[t].op = "rotate" /\ job'[t].row = r /\ job'[t].new = <<n>>
      BY <2>5 DEF Locals
    <2>7. DOMAIN <<n>> = {1} /\ <<n>>[1] = n
      OBVIOUS
    <2>8. RotJob(job'[t])
      BY <2>2, <2>3, <2>4, <2>6, <2>7 DEF RotJob
    <2>9. RotRow("rfw", r, n, job'[t].undo, db')
      BY <2>3, <2>4, <2>5 DEF RotRow
    <2> QED
      BY <2>5, <2>6, <2>7, <2>8, <2>9 DEF Knows
  <1>5. CASE ApprovePeer(t)
    <2>0. PICK r \in db :
             \E j : Accept(t, j, "adb") /\ j.op = "approve" /\ j.row = r
      BY <1>5 DEF ApprovePeer, Locals
    <2>1. PICK j : Accept(t, j, "adb") /\ j.op = "approve" /\ j.row = r
      BY <2>0
    <2>2. HasKey(db, r.key)
      BY <2>1 DEF HasKey
    <2>3. pc'[t] = "adb" /\ job'[t] = j /\ db' = db
      BY <2>1, StepLocals DEF Accept, stores
    <2> QED
      BY <2>1, <2>2, <2>3 DEF Knows
  <1>6. CASE DeletePeer(t)
    BY <1>0, <1>6 DEF DeletePeer, Accept, Locals, stores, Knows
  <1> QED
    BY <1>1, <1>2, <1>3, <1>4, <1>5, <1>6 DEF Request

LEMMA TableStep ==
    ASSUME Serial, TypeInv, SerialEnv, UsedInv, TableInv, [Next]_vars
    PROVE  TableInv'
  <1>0. \A t, s \in Threads : t = s
    BY DEF Serial
  <1>1. ASSUME NEW t \in Threads, Request(t) PROVE TableInv'
    BY <1>0, <1>1, TableRequest DEF TableInv
  <1>2. ASSUME NEW t \in Threads, Handler(t) PROVE TableInv'
    BY <1>0, <1>2, TableRotate, TableOther DEF TableInv
  <1>3. ASSUME NEW t \in Threads, Pause(t) PROVE TableInv'
    <2>1. /\ Shape(job[t], "pause") /\ pc \in [Threads -> Steps]
          /\ db' = db /\ job' = job
      BY <1>3 DEF TypeInv, Control, Pause, stores
    <2>2. job[t].op # "rotate" /\ pc'[t] \in {"fw", "dkernel"}
      BY <1>3, <2>1 DEF Shape, Pause
    <2>3. Knows(job'[t], pc'[t], db')
      BY <2>1, <2>2 DEF Knows
    <2> QED
      BY <1>0, <2>3 DEF TableInv
  <1>4. ASSUME \A t \in Threads : pc'[t] = "idle" /\ job'[t].op = "none"
        PROVE  TableInv'
    BY <1>4 DEF TableInv, Knows
  <1>5. CASE Reconcile \/ FirewallSync
    BY <1>4, <1>5, NoPass, IdleJob
  <1>6. CASE Environment
    <2>1. Crash
      BY <1>6, NoRollbackFault DEF Environment, ForeignAdd, ForeignRemove
    <2>2. \A t \in Threads : pc'[t] = "idle" /\ job'[t].op = "none"
      BY <2>1 DEF Crash, NoJob, Locals
    <2> QED
      BY <1>4, <2>2
  <1>7. CASE UNCHANGED vars
    BY <1>7 DEF vars, stores, TableInv
  <1> QED
    BY <1>1, <1>2, <1>3, <1>5, <1>6, <1>7 DEF Next

LEMMA TableInit == Init => TableInv
  BY DEF Init, TableInv, Knows, NoJob, Locals

-----------------------------------------------------------------------------
(* Revoked keys.  A key of the device that has no row is one a handler has  *)
(* just put there and is about to insert or to take out again (Held); and   *)
(* the key a rotation or a deletion revokes has left the device before its  *)
(* row loses it.  This is so as long as no call has failed: the rotation of *)
(* a handler that goes on after a failed RemovePeer leaves the old key in   *)
(* the device until the next pass.                                          *)

Held(j, step) == IF step \in {"insert", "rkey", "undo"} THEN KeysOf(j.new) ELSE {}

Revoking(j, step, K) ==
    /\ step \in {"radd", "rkey", "ddb"} => j.row.key \notin KernelKeys(K)
    /\ step = "undo" => /\ j.op \in {"create", "batch"}
                        /\ j.undo \in {<<"fw", "kernel">>, <<"kernel">>}

KeyRows == \A k \in KernelKeys(kernel) :
              k \in TableKeys(db) \/ \E t \in Threads : k \in Held(job[t], pc[t])

RevokedInv ==
    NoFault /\ phase = "up"
       => KeyRows /\ \A t \in Threads : Revoking(job[t], pc[t], kernel)

LEMMA TableKey == ASSUME NEW D, NEW k PROVE k \in TableKeys(D) <=> HasKey(D, k)
  BY DEF TableKeys, HasKey

LEMMA RollbackTails ==
    /\ Head(<<"fw", "kernel">>) = "fw" /\ Tail(<<"fw", "kernel">>) = <<"kernel">>
    /\ Head(<<"kernel">>) = "kernel" /\ Len(<<"kernel">>) = 1
    /\ Len(<<"fw", "kernel">>) = 2
  OBVIOUS

\* If no call has failed after a step, none failed in it.
LEMMA NoFaultBefore ==
    ASSUME TypeInv, BootAlone, [Next]_vars, NoFault'
    PROVE  NoFault /\ ~ Fault
  <1>1. "fault" \in EnvKinds /\ Budget["fault"] \in Nat
    BY AgentAssumption DEF EnvKinds
  <1>2. NoFault
    BY <1>1, BudgetFalls DEF NoFault, BootAlone
  <1>3. ~ Fault
    BY <1>1, <1>2, Spent DEF Fault, NoFault
  <1> QED
    BY <1>2, <1>3

LEMMA RevokedImport ==
    ASSUME TypeInv, SerialEnv, TableInv, NEW t \in Threads, Import(t), ~ Fault,
           Revoking(job[t], pc[t], kernel),
           KernelKeys(kernel) \subseteq TableKeys(db) \cup Held(job[t], pc[t])
    PROVE  /\ Revoking(job'[t], pc'[t], kernel')
           /\ KernelKeys(kernel') \subseteq TableKeys(db') \cup Held(job'[t], pc'[t])
  <1>0. /\ Shape(job[t], pc[t]) /\ kernel \in KernelType
        /\ job[t].new \in Seq(Row)
    BY NewRowsType DEF TypeInv, Control, Stores
  <1>1. CASE ImportFirewall(t)
    <2>1. /\ pc[t] = "fw" /\ pc'[t] = "kernel" /\ UNCHANGED <<db, kernel>>
      BY <1>1, StepLocals DEF ImportFirewall
    <2> QED
      BY <2>1 DEF Held, Revoking
  <1>2. CASE ImportKernel(t)
    <2>1. /\ pc[t] = "kernel" /\ pc'[t] = "insert" /\ job'[t] = job[t]
          /\ kernel' = ConfigureNew(kernel, job[t].new) /\ db' = db
      BY <1>2, StepLocals DEF ImportKernel
    <2>2. KernelKeys(kernel') = KernelKeys(kernel) \cup KeysOf(job[t].new)
      BY <1>0, <2>1, KeysAdded DEF KeysOf
    <2> QED
      BY <2>1, <2>2 DEF Held, Revoking
  <1>3. CASE ImportInsert(t)
    <2>1. pc[t] = "insert" /\ kernel' = kernel /\ job[t].op \in {"create", "batch"}
      BY <1>0, <1>3 DEF ImportInsert, Shape
    <2>2. CASE Goto(t, "conf") /\ db' = InsertRows(db, lastId, job[t].new)
      <3>1. pc'[t] = "conf"
        BY <2>2, StepLocals
      <3>2. TableKeys(db') = TableKeys(db) \cup KeysOf(job[t].new)
        BY <1>0, <2>2, InsertedKeys
      <3> QED
        BY <2>1, <3>1, <3>2 DEF Held, Revoking
    <2>3. CASE Unwind(t, <<"fw", "kernel">>) /\ db' = db
      <3>1. pc'[t] = "undo" /\ job'[t].undo = <<"fw", "kernel">> /\ SameLocals(t)
        BY <2>3, StepLocals
      <3> QED
        BY <2>1, <2>3, <3>1 DEF Held, Revoking, SameLocals
    <2> QED
      BY <1>3, <2>2, <2>3 DEF ImportInsert
  <1>4. CASE ConfWrite(t)
    <2>1. pc[t] = "conf" /\ UNCHANGED <<db, kernel>>
      BY <1>4 DEF ConfWrite, stores
    <2>2. pc'[t] \in {"rapply", "idle"}
      BY <1>4, StepLocals DEF ConfWrite
    <2> QED
      BY <2>1, <2>2 DEF Held, Revoking
  <1> QED
    BY <1>1, <1>2, <1>3, <1>4 DEF Import

LEMMA RevokedUndo ==
    ASSUME TypeInv, SerialEnv, TableInv, NEW t \in Threads, Undo(t), ~ Fault,
           Revoking(job[t], pc[t], kernel),
           KernelKeys(kernel) \subseteq TableKeys(db) \cup Held(job[t], pc[t])
    PROVE  /\ Revoking(job'[t], pc'[t], kernel')
           /\ KernelKeys(kernel') \subseteq TableKeys(db') \cup Held(job'[t], pc'[t])
  <1>0. kernel \in KernelType
    BY DEF TypeInv, Stores
  <1>1. /\ pc[t] = "undo" /\ NextUndo(t)
        /\ Head(job[t].undo) \notin {"fw", "kernel"} =>
              ~ UndoFirewall(t) /\ ~ UndoKernel(t)
    BY DEF Undo, UndoFirewall, UndoDB, UndoKernel, UndoKey, UndoPsk, UndoOld,
       Unwinding
  <1>2. /\ job[t].op \in {"create", "batch"}
        /\ job[t].undo \in {<<"fw", "kernel">>, <<"kernel">>}
        /\ KernelKeys(kernel) \subseteq TableKeys(db) \cup KeysOf(job[t].new)
    BY <1>1 DEF Revoking, Held
  <1>3. Head(job[t].undo) \in {"fw", "kernel"}
    BY <1>2, RollbackTails
  <1>4. UndoFirewall(t) \/ UndoKernel(t)
    BY <1>3 DEF Undo, UndoDB, UndoKey, UndoPsk, UndoOld, Unwinding
  <1>5. CASE UndoFirewall(t)
    <2>1. Head(job[t].undo) = "fw" /\ UNCHANGED <<db, kernel>>
      BY <1>5 DEF UndoFirewall, Unwinding
    <2>2. job[t].undo = <<"fw", "kernel">>
      BY <1>2, <2>1, RollbackTails
    <2>3. Len(job[t].undo) > 1 /\ Tail(job[t].undo) = <<"kernel">>
      BY <2>2, RollbackTails
    <2>4. pc'[t] = "undo" /\ job'[t].undo = <<"kernel">> /\ SameLocals(t)
      BY <1>1, <2>3, StepLocals
    <2> QED
      BY <1>2, <2>1, <2>4 DEF Held, Revoking, SameLocals
  <1>6. CASE UndoKernel(t)
    <2>1. Head(job[t].undo) = "kernel" /\ db' = db
      BY <1>6 DEF UndoKernel, Unwinding
    <2>2. job[t].undo = <<"kernel">>
      BY <1>2, <2>1, RollbackTails
    <2>3. ~ (Len(job[t].undo) > 1)
      BY <2>2, RollbackTails
    <2>4. pc'[t] = "idle"
      BY <1>1, <2>3, StepLocals
    <2>5. kernel' = RemovePeers(kernel, NewKeys(t))
      BY <1>6, NoRollbackFault DEF UndoKernel, Try
    <2>6. KernelKeys(kernel') = KernelKeys(kernel) \ KeysOf(job[t].new)
      BY <1>0, <2>5, KeysRemoved, NewKeysOf
    <2> QED
      BY <1>2, <2>1, <2>4, <2>6 DEF Held, Revoking
  <1> QED
    BY <1>4, <1>5, <1>6

\* A statement of UpdatePeer or ApprovePeer leaves every row its key.
LEMMA RowsKeepKeys ==
    ASSUME TypeInv, NEW t \in Threads, UpdateDB(t) \/ ApproveDB(t) \/ ApproveFlag(t)
    PROVE  TableKeys(db') = TableKeys(db)
  <1>0. db \in SUBSET Row
    BY DEF TypeInv, Stores
  <1>a. ASSUME NEW k, NEW set, \A r \in db : set[r].key = r.key,
               db' = UpdateRows(db, k, set)
        PROVE  TableKeys(db') = TableKeys(db)
    <2>1. \A j : HasKey(db', j) <=> HasKey(db, j)
      BY <1>a, KeyKept
    <2> QED
      BY <2>1, TableKey
  <1>1. CASE UpdateDB(t)
    <2>1. PICK q : q = job[t].req
      OBVIOUS
    <2>2. PICK set : set = [r \in db |->
                   [r EXCEPT
                      !.addr    = IF q.addr = None THEN r.addr ELSE q.addr,
                      !.ips     = IF Moves(t) THEN HostOf[q.addr] ELSE r.ips,
                      !.allow   = IF q.allow = None THEN r.allow ELSE q.allow,
                      !.enabled = IF q.enable = "keep" THEN r.enabled
                                                       ELSE q.enable = "on"]]
      OBVIOUS
    <2>3. db' = db \/ db' = UpdateRows(db, job[t].row.key, set)
      BY <1>1, <2>1, <2>2 DEF UpdateDB
    <2>4. \A r \in db : set[r].key = r.key
      BY <1>0, <2>2 DEF Row
    <2> QED
      BY <1>a, <2>3, <2>4
  <1>2. CASE ApproveDB(t)
    <2>1. PICK q : q = job[t].req
      OBVIOUS
    <2>2. PICK set : set = [r \in db |-> [r EXCEPT !.addr = q.addr,
                                                   !.ips = HostOf[q.addr],
                                                   !.allow = q.allow,
                                                   !.enabled = TRUE]]
      OBVIOUS
    <2>3. db' = db \/ db' = UpdateRows(db, job[t].row.key, set)
      BY <1>2, <2>1, <2>2 DEF ApproveDB
    <2>4. \A r \in db : set[r].key = r.key
      BY <1>0, <2>2 DEF Row
    <2> QED
      BY <1>a, <2>3, <2>4
  <1>3. CASE ApproveFlag(t)
    <2>1. PICK set : set = [r \in db |-> [r EXCEPT !.enabled = TRUE,
                                                   !.auto = FALSE]]
      OBVIOUS
    <2>2. db' = db \/ db' = UpdateRows(db, job[t].row.key, set)
      BY <1>3, <2>1 DEF ApproveFlag
    <2>3. \A r \in db : set[r].key = r.key
      BY <1>0, <2>1 DEF Row
    <2> QED
      BY <1>a, <2>2, <2>3
  <1> QED
    BY <1>1, <1>2, <1>3

LEMMA RevokedUpdate ==
    ASSUME TypeInv, SerialEnv, TableInv, NEW t \in Threads,
           Update(t) \/ Approve(t), ~ Fault,
           Revoking(job[t], pc[t], kernel),
           KernelKeys(kernel) \subseteq TableKeys(db) \cup Held(job[t], pc[t])
    PROVE  /\ Revoking(job'[t], pc'[t], kernel')
           /\ KernelKeys(kernel') \subseteq TableKeys(db') \cup Held(job'[t], pc'[t])
  <1>0. /\ Shape(job[t], pc[t]) /\ kernel \in KernelType
        /\ Knows(job[t], pc[t], db) /\ pc \in [Threads -> Steps]
    BY DEF TypeInv, Control, Stores, TableInv
  <1>1. pc[t] \in {"ukernel", "utune", "udb", "ufw", "reread", "apply",
                   "adb", "aflag", "akernel"}
    BY DEF Update, UpdateKernel, UpdateTune, UpdateDB, UpdateFirewall, Reread,
       ApplyReread, Approve, ApproveDB, ApproveFlag, ApproveKernel
  <1>2. KernelKeys(kernel) \subseteq TableKeys(db)
    BY <1>1 DEF Held
  <1>3. pc'[t] \in {"idle", "utune", "udb", "ufw", "reread", "apply", "aflag",
                    "akernel"}
    <2> USE DEF Goto, Return
    <2>1. CASE Update(t)
      BY <1>0, <2>1 DEF Update, UpdateKernel, UpdateTune, UpdateDB,
         UpdateFirewall, Reread, ApplyReread
    <2>2. CASE Approve(t)
      BY <1>0, <2>2 DEF Approve, ApproveDB, ApproveFlag, ApproveKernel
    <2> QED
      BY <2>1, <2>2
  <1> SUFFICES KernelKeys(kernel') \subseteq TableKeys(db')
    BY <1>3 DEF Held, Revoking
  <1>4. CASE UpdateDB(t) \/ ApproveDB(t) \/ ApproveFlag(t)
    <2>1. kernel' = kernel
      BY <1>4 DEF UpdateDB, ApproveDB, ApproveFlag
    <2> QED
      BY <1>2, <1>4, <2>1, RowsKeepKeys
  <1>5. CASE UpdateKernel(t) \/ UpdateTune(t) \/ ApproveKernel(t)
    <2>1. /\ db' = db
          /\ \/ kernel' = kernel
             \/ /\ pc[t] \in {"ukernel", "akernel"}
                /\ kernel' = ConfigurePeer(kernel, job[t].row.key,
                                           {HostOf[job[t].req.addr]}, None, TRUE)
             \/ kernel' = ConfigurePeer(kernel, job[t].row.key, {}, None, FALSE)
      BY <1>5 DEF UpdateKernel, UpdateTune, ApproveKernel, Try
    <2>2. pc[t] \in {"ukernel", "utune", "akernel"}
      BY <1>5 DEF UpdateKernel, UpdateTune, ApproveKernel
    <2>3. /\ job[t].row \in Row
          /\ pc[t] \in {"ukernel", "akernel"} => job[t].req.addr \in Addrs
      BY <1>0, <2>2 DEF Shape
    <2>4. job[t].row.key \in Keys /\ job[t].row.key \in TableKeys(db)
      BY <1>0, <2>2, <2>3, TableKey DEF Knows, Row, HasKey
    <2>5. CASE kernel' = kernel
      BY <1>2, <2>1, <2>5
    <2>6. CASE kernel' # kernel
      <3>1. pc[t] \in {"ukernel", "akernel"} => {HostOf[job[t].req.addr]} \in SUBSET Hosts
        BY <2>3, StoresAssumption
      <3>2. ASSUME NEW hs \in SUBSET Hosts, NEW rep \in BOOLEAN,
                   kernel' = ConfigurePeer(kernel, job[t].row.key, hs, None, rep)
            PROVE  KernelKeys(kernel') = KernelKeys(kernel) \cup {job[t].row.key}
        BY <1>0, <2>4, <3>2, KeysConfigured
      <3>3. KernelKeys(kernel') = KernelKeys(kernel) \cup {job[t].row.key}
        BY <2>1, <2>6, <3>1, <3>2
      <3> QED
        BY <1>2, <2>1, <2>4, <3>3
    <2> QED
      BY <2>5, <2>6
  <1>6. CASE UpdateFirewall(t) \/ Reread(t) \/ ApplyReread(t)
    BY <1>2, <1>6 DEF UpdateFirewall, Reread, ApplyReread, stores
  <1> QED
    BY <1>4, <1>5, <1>6 DEF Update, Approve

LEMMA RevokedDelete ==
    ASSUME TypeInv, NEW t \in Threads, Delete(t), ~ Fault,
           Revoking(job[t], pc[t], kernel),
           KernelKeys(kernel) \subseteq TableKeys(db) \cup Held(job[t], pc[t])
    PROVE  /\ Revoking(job'[t], pc'[t], kernel')
           /\ KernelKeys(kernel') \subseteq TableKeys(db') \cup Held(job'[t], pc'[t])
  <1>0. kernel \in KernelType
    BY DEF TypeInv, Stores
  <1>1. CASE DeleteKernel(t)
    <2>1. /\ pc[t] = "dkernel" /\ pc'[t] = "ddb" /\ job'[t] = job[t]
          /\ kernel' = RemovePeers(kernel, {job[t].row.key}) /\ db' = db
      BY <1>1, StepLocals DEF DeleteKernel, Try, Fault
    <2>2. KernelKeys(kernel') = KernelKeys(kernel) \ {job[t].row.key}
      BY <1>0, <2>1, KeysRemoved
    <2> QED
      BY <2>1, <2>2 DEF Held, Revoking
  <1>2. CASE DeleteDB(t)
    <2>1. /\ pc[t] = "ddb" /\ pc'[t] \in {"dfw", "idle"} /\ kernel' = kernel
          /\ db' = db \/ db' = DeleteRows(db, {job[t].row.key})
      BY <1>2, StepLocals DEF DeleteDB
    <2>2. job[t].row.key \notin KernelKeys(kernel)
      BY <2>1 DEF Revoking
    <2>3. TableKeys(db) \ {job[t].row.key} \subseteq TableKeys(db')
      BY <2>1 DEF TableKeys, DeleteRows
    <2> QED
      BY <2>1, <2>2, <2>3 DEF Held, Revoking
  <1>3. CASE DeleteFirewall(t)
    <2>1. pc[t] = "dfw" /\ pc'[t] = "idle" /\ UNCHANGED <<db, kernel>>
      BY <1>3, StepLocals DEF DeleteFirewall
    <2> QED
      BY <2>1 DEF Held, Revoking
  <1> QED
    BY <1>1, <1>2, <1>3 DEF Delete

LEMMA RevokedRotate ==
    ASSUME TypeInv, SerialEnv, TableInv, NEW t \in Threads, Rotate(t), ~ Fault,
           Revoking(job[t], pc[t], kernel),
           KernelKeys(kernel) \subseteq TableKeys(db) \cup Held(job[t], pc[t])
    PROVE  /\ Revoking(job'[t], pc'[t], kernel')
           /\ KernelKeys(kernel') \subseteq TableKeys(db') \cup Held(job'[t], pc'[t])
  <1> DEFINE r == job[t].row
             n == job[t].new[1]
  <1>0. /\ kernel \in KernelType /\ db \in SUBSET Row
        /\ job[t].new \in Seq(Row) /\ job[t].op = "rotate"
        /\ r \in Row /\ n \in Row
    <2>1. Shape(job[t], pc[t]) /\ job[t].new \in Seq(Row)
      BY NewRowsType DEF TypeInv, Control
    <2>2. job[t].op = "rotate"
      BY <2>1 DEF Shape, Rotate, RotateFirewall, RotateRemove, RotateAdd,
         RotateKey, RotatePsk, RotateApply
    <2>3. r \in Row /\ n \in Row
      BY <2>1, <2>2 DEF Shape
    <2> QED
      BY <2>1, <2>2, <2>3 DEF TypeInv, Stores
  <1>1. /\ RotJob(job[t]) /\ RotRow(pc[t], r, n, job[t].undo, db)
        /\ KeysOf(job[t].new) = {n.key} /\ n.key # r.key
    BY <1>0 DEF TableInv, Knows, RotJob, KeysOf
  <1>2. CASE RotateFirewall(t)
    <2>1. pc[t] = "rfw" /\ pc'[t] = "rremove" /\ UNCHANGED <<db, kernel>>
      BY <1>2, StepLocals DEF RotateFirewall
    <2> QED
      BY <2>1 DEF Held, Revoking
  <1>3. CASE RotateRemove(t)
    <2>1. /\ pc[t] = "rremove" /\ pc'[t] = "radd" /\ job'[t] = job[t]
          /\ kernel' = RemovePeers(kernel, {r.key}) /\ db' = db
      BY <1>3, StepLocals DEF RotateRemove, Try, Fault
    <2>2. KernelKeys(kernel') = KernelKeys(kernel) \ {r.key}
      BY <1>0, <2>1, KeysRemoved
    <2> QED
      BY <2>1, <2>2 DEF Held, Revoking
  <1>4. CASE RotateAdd(t)
    <2>1. /\ pc[t] = "radd" /\ pc'[t] = "rkey" /\ job'[t] = job[t]
          /\ kernel' = ConfigureNew(kernel, job[t].new) /\ db' = db
      BY <1>4, StepLocals DEF RotateAdd
    <2>2. KernelKeys(kernel') = KernelKeys(kernel) \cup {n.key}
      BY <1>0, <1>1, <2>1, KeysAdded DEF KeysOf
    <2>3. r.key \notin KernelKeys(kernel)
      BY <2>1 DEF Revoking
    <2> QED
      BY <1>1, <2>1, <2>2, <2>3 DEF Held, Revoking
  <1>5. CASE RotateKey(t)
    <2>1. pc[t] = "rkey" /\ kernel' = kernel /\ r \in db /\ ~ HasKey(db, n.key)
      BY <1>1, <1>5 DEF RotateKey, RotRow
    <2>2. HasKey(db, r.key)
      BY <2>1 DEF HasKey
    <2>3. PICK set : set = [x \in db |-> [x EXCEPT !.key = n.key]]
      OBVIOUS
    <2>4. /\ db' = UpdateRows(db, r.key, set)
          /\ \E step \in {"conf", "rpsk"} : Goto(t, step)
      BY <1>5, <2>1, <2>2, <2>3 DEF RotateKey
    <2>5. pc'[t] \in {"conf", "rpsk"}
      BY <2>4, StepLocals
    <2>6. set[r] \in db' /\ set[r].key = n.key
      <3>1. set[r] \in db'
        BY <2>1, <2>4, RowUpdated
      <3>2. set[r].key = n.key
        BY <1>0, <2>1, <2>3 DEF Row
      <3> QED
        BY <3>1, <3>2
    <2>7. (TableKeys(db) \ {r.key}) \cup {n.key} \subseteq TableKeys(db')
      <3>1. n.key \in TableKeys(db')
        BY <2>6 DEF TableKeys
      <3>2. ASSUME NEW k \in TableKeys(db), k # r.key PROVE k \in TableKeys(db')
        BY <2>4, <3>2 DEF TableKeys, UpdateRows
      <3> QED
        BY <3>1, <3>2
    <2>8. /\ r.key \notin KernelKeys(kernel)
          /\ KernelKeys(kernel) \subseteq TableKeys(db) \cup {n.key}
      BY <1>1, <2>1 DEF Revoking, Held
    <2> QED
      BY <2>1, <2>5, <2>7, <2>8 DEF Held, Revoking
  <1>6. CASE RotatePsk(t)
    <2>1. pc[t] = "rpsk" /\ kernel' = kernel /\ Moved(r, n.key) \in db
      BY <1>1, <1>6 DEF RotatePsk, RotRow
    <2>2. HasKey(db, n.key)
      <3>1. Moved(r, n.key).key = n.key
        BY <1>0 DEF Moved, Row
      <3> QED
        BY <2>1, <3>1 DEF HasKey
    <2>3. PICK set : set = [x \in db |-> [x EXCEPT !.psk = n.psk]]
      OBVIOUS
    <2>4. db' = UpdateRows(db, n.key, set) /\ Goto(t, "conf")
      BY <1>6, <2>2, <2>3 DEF RotatePsk
    <2>5. \A x \in db : set[x].key = x.key
      BY <1>0, <2>3 DEF Row
    <2>6. \A k : HasKey(db', k) <=> HasKey(db, k)
      BY <2>4, <2>5, KeyKept
    <2>7. TableKeys(db') = TableKeys(db)
      BY <2>6, TableKey
    <2>8. pc'[t] = "conf"
      BY <2>4, StepLocals
    <2> QED
      BY <2>1, <2>7, <2>8 DEF Held, Revoking
  <1>7. CASE RotateApply(t)
    <2>1. pc[t] = "rapply" /\ pc'[t] = "idle" /\ UNCHANGED <<db, kernel>>
      BY <1>7, StepLocals DEF RotateApply
    <2> QED
      BY <2>1 DEF Held, Revoking
  <1> QED
    BY <1>2, <1>3, <1>4, <1>5, <1>6, <1>7 DEF Rotate

LEMMA RevokedStep ==
    ASSUME Serial, TypeInv, SerialEnv, TableInv, RevokedInv, [Next]_vars
    PROVE  RevokedInv'
  <1>0. BootAlone /\ \A t, s \in Threads : t = s
    BY DEF SerialEnv, BootInv, Serial
  <1> SUFFICES ASSUME NoFault', phase' = "up"
               PROVE  /\ KeyRows'
                      /\ \A t \in Threads : Revoking(job'[t], pc'[t], kernel')
    BY DEF RevokedInv
  <1>1. NoFault /\ ~ Fault
    BY <1>0, NoFaultBefore
  <1>a. ASSUME phase = "up"
        PROVE  /\ KeyRows
               /\ \A t \in Threads :
                     /\ Revoking(job[t], pc[t], kernel)
                     /\ KernelKeys(kernel)
                          \subseteq TableKeys(db) \cup Held(job[t], pc[t])
    BY <1>0, <1>1, <1>a DEF RevokedInv, KeyRows
  <1>b. ASSUME NEW t \in Threads, Revoking(job'[t], pc'[t], kernel'),
               KernelKeys(kernel') \subseteq TableKeys(db') \cup Held(job'[t], pc'[t])
        PROVE  /\ KeyRows'
               /\ \A s \in Threads : Revoking(job'[s], pc'[s], kernel')
    BY <1>0, <1>b DEF KeyRows
  <1>2. ASSUME NEW t \in Threads, Handler(t)
        PROVE  /\ KeyRows'
               /\ \A s \in Threads : Revoking(job'[s], pc'[s], kernel')
    <2>1. phase = "up"
      BY <1>0, <1>2, PhaseUp
    <2>2. /\ Revoking(job[t], pc[t], kernel)
          /\ KernelKeys(kernel) \subseteq TableKeys(db) \cup Held(job[t], pc[t])
      BY <1>a, <2>1
    <2>3. /\ Revoking(job'[t], pc'[t], kernel')
          /\ KernelKeys(kernel') \subseteq TableKeys(db') \cup Held(job'[t], pc'[t])
      BY <1>1, <1>2, <2>2, RevokedImport, RevokedUndo, RevokedUpdate,
         RevokedRotate, RevokedDelete DEF Handler
    <2> QED
      BY <1>b, <2>3
  <1>3. ASSUME NEW t \in Threads, Request(t) \/ Pause(t)
        PROVE  /\ KeyRows'
               /\ \A s \in Threads : Revoking(job'[s], pc'[s], kernel')
    <2>1. phase = "up"
      BY <1>0, <1>3, PhaseUp
    <2>2. pc \in [Threads -> Steps] /\ job \in [Threads -> Job]
      BY DEF TypeInv, Control
    <2>3. /\ pc[t] \in {"idle", "pause"} /\ UNCHANGED <<db, kernel>>
          /\ pc'[t] \in {"fw", "pause", "ukernel", "utune", "rfw", "adb",
                         "dkernel"}
      BY <1>3, <2>2 DEF Request, CreatePeer, BatchCreatePeers, UpdatePeer,
         RotateKeys, ApprovePeer, DeletePeer, Accept, Pause, stores
    <2>4. KernelKeys(kernel) \subseteq TableKeys(db)
      BY <1>a, <2>1, <2>3 DEF Held
    <2> QED
      BY <1>b, <2>3, <2>4 DEF Held, Revoking
  <1>4. CASE Reconcile
    <2>1. (phase # "up" /\ rec.pc # "idle") \/ phase = "boot"
      BY <1>0, <1>4, NoPass DEF BootAlone, TypeInv, Rest, Reconcile, RecDevice,
         RecList, RecRemove, RecZombieFirewall, RecUpsert, RecMissing, RecReadd,
         RecReaddFirewall, RecDone
    <2>2. phase' # "up"
      BY <1>4, <2>1 DEF Reconcile, RecDevice, RecList, RecRemove,
         RecZombieFirewall, RecUpsert, RecMissing, RecReadd, RecReaddFirewall,
         RecDone, RecReturn
    <2> QED
      BY <2>2
  <1>5. CASE FirewallSync
    <2>1. KernelKeys(kernel) = EnabledKeys(db) /\ UNCHANGED <<db, kernel, pc, job>>
      BY <1>1, <1>5 DEF SerialEnv, BootInv, BootRepairs, NoFault, FirewallSync,
         RecVars
    <2>2. \A t \in Threads : pc[t] = "idle"
      BY <1>5, NoPass
    <2>3. KernelKeys(kernel') \subseteq TableKeys(db')
      BY <2>1 DEF EnabledKeys, TableKeys
    <2> QED
      BY <2>1, <2>2, <2>3 DEF KeyRows, Revoking
  <1>6. CASE Environment
    BY <1>6, NoRollbackFault DEF Environment, ForeignAdd, ForeignRemove, Crash
  <1>7. CASE UNCHANGED vars
    BY <1>1, <1>7 DEF vars, stores, RevokedInv, KeyRows
  <1> QED
    BY <1>2, <1>3, <1>4, <1>5, <1>6, <1>7 DEF Next

\* What holds of requests one at a time, whatever fails.
SerialInv == TypeInv /\ SerialEnv /\ UsedInv /\ TableInv

LEMMA SerialStep ==
    ASSUME Serial, SerialInv, [Next]_vars
    PROVE  SerialInv'
  BY TypeStep, SerialEnvStep, UsedStep, TableStep DEF SerialInv

LEMMA SerialInit ==
    ASSUME Serial, Init
    PROVE  SerialInv
  BY InitTypes, SerialEnvInit, UsedInit, TableInit DEF SerialInv

(* For requests one at a time, of every kind and in every order, with        *)
(* crashes at every step, start-up passes and iptables calls that fail: as   *)
(* long as no call of a handler or a pass has failed, a key that no row has  *)
(* is not in the kernel between requests.  In particular RotateKeys and      *)
(* DeletePeer have taken out the key they revoke when they answer, and the   *)
(* import that the table refuses has taken its keys out again.               *)
THEOREM RevokedKeysOut ==
    ASSUME Serial
    PROVE  Spec => []RevokedIsOut
  <1>1. Init => SerialInv /\ RevokedInv
    <2> SUFFICES ASSUME Init PROVE RevokedInv
      BY SerialInit
    <2>1. KernelKeys(kernel) \subseteq TableKeys(db)
      <3>1. KernelKeys(kernel) \subseteq EnabledKeys(InitRows)
        BY DEF Init, KernelKeys
      <3> QED
        BY <3>1 DEF Init, EnabledKeys, TableKeys
    <2> QED
      BY <2>1 DEF RevokedInv, KeyRows, Revoking, Init
  <1>2. SerialInv /\ RevokedInv /\ [Next]_vars => (SerialInv /\ RevokedInv)'
    BY SerialStep, RevokedStep DEF SerialInv
  <1>3. RevokedInv => RevokedIsOut
    <2> SUFFICES ASSUME RevokedInv, Calm, NEW k \in KernelKeys(kernel)
                 PROVE  HasKey(db, k)
      BY DEF RevokedIsOut
    <2>1. KeyRows /\ \A t \in Threads : pc[t] = "idle"
      BY DEF RevokedInv, Calm, Quiet, NoFault
    <2> QED
      BY <2>1, TableKey DEF KeyRows, Held
  <1> QED
    BY <1>1, <1>2, <1>3, PTL DEF Spec

-----------------------------------------------------------------------------
(* A rotation that fails.  Its rollback puts the old peer back without       *)
(* replace_allowed_ips, so that the result is the old peer only if nothing   *)
(* of it is left in the device (Cleared): RemovePeer must not have failed,   *)
(* which is why one failed call is what this can be proved for.              *)

OneFault == /\ Serial /\ Budget["crash"] = 0 /\ Budget["fault"] <= 1

Cleared(j, step, K, quiet) ==
    j.op = "rotate" =>
       /\ step \in {"radd", "rkey", "rpsk", "conf"} /\ quiet
             => j.row.key \notin KernelKeys(K)
       /\ step \in {"rfw", "rremove", "radd"} => j.new[1].key \notin KernelKeys(K)
       /\ step = "undo" => j.row.key \notin KernelKeys(K)
       /\ step = "undo" /\ j.undo = <<"old">> => j.new[1].key \notin KernelKeys(K)

UndoneInv == /\ budget["crash"] = 0
             /\ \A t \in Threads : Cleared(job[t], pc[t], kernel, NoFault)

LEMMA FirstFault ==
    ASSUME OneFault, TypeInv, SerialEnv, Fault
    PROVE  NoFault /\ ~ NoFault'
  <1>1. "fault" \in EnvKinds /\ Budget["fault"] \in Nat
    BY AgentAssumption DEF EnvKinds
  <1>2. /\ budget["fault"] \in Nat \ {0} /\ budget'["fault"] = budget["fault"] - 1
        /\ budget["fault"] <= Budget["fault"] /\ Budget["fault"] <= 1
    BY <1>1, Spent DEF Fault, SerialEnv, BootInv, BootAlone, OneFault
  <1> QED
    BY <1>1, <1>2 DEF NoFault

LEMMA ClearedRotate ==
    ASSUME OneFault, SerialInv, UndoneInv, NEW t \in Threads, Handler(t),
           job[t].op = "rotate", NoFault' => NoFault
    PROVE  Cleared(job'[t], pc'[t], kernel', NoFault')
  <1> DEFINE r == job[t].row
             n == job[t].new[1]
             u == job[t].undo
  <1>0. /\ TypeInv /\ SerialEnv /\ TableInv
        /\ kernel \in KernelType /\ job[t].new \in Seq(Row)
        /\ r \in Row /\ n \in Row
    <2>1. TypeInv /\ SerialEnv /\ TableInv
      BY DEF SerialInv
    <2>2. Shape(job[t], pc[t]) /\ job[t].new \in Seq(Row)
      BY <2>1, NewRowsType DEF TypeInv, Control
    <2>3. r \in Row /\ n \in Row
      BY <2>2 DEF Shape
    <2> QED
      BY <2>1, <2>2, <2>3 DEF TypeInv, Stores
  <1>1. /\ RotRow(pc[t], r, n, u, db) /\ n.key # r.key
        /\ KeysOf(job[t].new) = {n.key} /\ Cleared(job[t], pc[t], kernel, NoFault)
    BY <1>0 DEF TableInv, Knows, RotJob, KeysOf, UndoneInv
  <1>a. ASSUME job'[t] = NoJob PROVE Cleared(job'[t], pc'[t], kernel', NoFault')
    BY <1>a DEF Cleared, NoJob, Locals
  <1>b. ASSUME NEW v, Unwind(t, v), kernel' = kernel, Fault,
               pc[t] \in {"radd", "rkey", "rpsk", "conf"},
               v = <<"old">> => n.key \notin KernelKeys(kernel)
        PROVE  Cleared(job'[t], pc'[t], kernel', NoFault')
    <2>1. NoFault
      BY <1>0, <1>b, FirstFault
    <2>2. pc'[t] = "undo" /\ job'[t].undo = v /\ SameLocals(t)
      BY <1>0, <1>b, StepLocals
    <2> QED
      BY <1>1, <1>b, <2>1, <2>2 DEF Cleared, SameLocals
  <1>2. CASE ConfWrite(t)
    <2>1. pc[t] = "conf" /\ kernel' = kernel
      BY <1>2 DEF ConfWrite, stores
    <2>2. CASE Goto(t, "rapply")
      BY <1>0, <2>2, StepLocals DEF Cleared
    <2>3. CASE Fault /\ Unwind(t, RollbackOf("rotate"))
      <3>1. RollbackOf("rotate") # <<"old">>
        BY UndoTails DEF RollbackOf
      <3> QED
        BY <1>b, <2>1, <2>3, <3>1
    <2> QED
      BY <1>2, <2>2, <2>3 DEF ConfWrite
  <1>3. CASE RotateFirewall(t)
    <2>1. /\ pc[t] = "rfw" /\ kernel' = kernel
          /\ pc'[t] = "rremove" /\ job'[t] = job[t]
      BY <1>0, <1>3, StepLocals DEF RotateFirewall
    <2> QED
      BY <1>1, <2>1 DEF Cleared
  <1>4. CASE RotateRemove(t)
    <2>1. /\ pc[t] = "rremove" /\ pc'[t] = "radd" /\ job'[t] = job[t]
      BY <1>0, <1>4, StepLocals DEF RotateRemove
    <2>2. CASE kernel' = RemovePeers(kernel, {r.key})
      <3>1. KernelKeys(kernel') = KernelKeys(kernel) \ {r.key}
        BY <1>0, <2>2, KeysRemoved
      <3> QED
        BY <1>1, <2>1, <3>1 DEF Cleared
    <2>3. CASE Fault /\ kernel' = kernel
      <3>1. ~ NoFault'
        BY <1>0, <2>3, FirstFault
      <3> QED
        BY <1>1, <2>1, <2>3, <3>1 DEF Cleared
    <2> QED
      BY <1>4, <2>2, <2>3 DEF RotateRemove, Try, Fault
  <1>5. CASE RotateAdd(t)
    <2>1. pc[t] = "radd"
      BY <1>5 DEF RotateAdd
    <2>2. CASE Goto(t, "rkey") /\ kernel' = ConfigureNew(kernel, job[t].new)
      <3>1. pc'[t] = "rkey" /\ job'[t] = job[t]
        BY <1>0, <2>2, StepLocals
      <3>2. KernelKeys(kernel') = KernelKeys(kernel) \cup {n.key}
        BY <1>0, <1>1, <2>2, KeysAdded DEF KeysOf
      <3> QED
        BY <1>1, <2>1, <3>1, <3>2 DEF Cleared
    <2>3. CASE Fault /\ Unwind(t, <<"old">>) /\ kernel' = kernel
      <3>1. n.key \notin KernelKeys(kernel)
        BY <1>1, <2>1 DEF Cleared
      <3> QED
        BY <1>b, <2>1, <2>3, <3>1
    <2> QED
      BY <1>5, <2>2, <2>3 DEF RotateAdd
  <1>6. CASE RotateKey(t)
    <2>1. /\ pc[t] = "rkey" /\ kernel' = kernel /\ HasKey(db, r.key)
          /\ ~ HasKey(db, n.key)
      BY <1>1, <1>6 DEF RotateKey, RotRow, HasKey
    <2>2. CASE \E step \in {"conf", "rpsk"} : Goto(t, step)
      <3>1. pc'[t] \in {"conf", "rpsk"} /\ job'[t] = job[t]
        BY <1>0, <2>2, StepLocals
      <3> QED
        BY <1>1, <2>1, <3>1 DEF Cleared
    <2>3. CASE Fault /\ Unwind(t, <<"kernel", "old">>)
      BY <1>b, <2>1, <2>3, UndoTails
    <2> QED
      BY <1>6, <2>1, <2>2, <2>3 DEF RotateKey
  <1>7. CASE RotatePsk(t)
    <2>1. pc[t] = "rpsk" /\ kernel' = kernel /\ Moved(r, n.key) \in db
      BY <1>1, <1>7 DEF RotatePsk, RotRow
    <2>2. HasKey(db, n.key)
      <3>1. Moved(r, n.key).key = n.key
        BY <1>0 DEF Moved, Row
      <3> QED
        BY <2>1, <3>1 DEF HasKey
    <2>3. CASE Goto(t, "conf")
      <3>1. pc'[t] = "conf" /\ job'[t] = job[t]
        BY <1>0, <2>3, StepLocals
      <3> QED
        BY <1>1, <2>1, <3>1 DEF Cleared
    <2>4. CASE Fault /\ Unwind(t, <<"key", "kernel", "old">>)
      BY <1>b, <2>1, <2>4, UndoTails
    <2> QED
      BY <1>7, <2>2, <2>3, <2>4 DEF RotatePsk
  <1>8. CASE RotateApply(t) \/ UndoOld(t)
    <2>1. CASE RotateApply(t)
      BY <1>0, <1>a, <2>1, StepLocals DEF RotateApply
    <2>2. CASE UndoOld(t)
      <3>1. pc[t] = "undo" /\ NextUndo(t) /\ Head(u) = "old"
        BY <2>2 DEF UndoOld, Unwinding
      <3>2. u = <<"old">>
        BY <1>1, <3>1, UndoTails DEF RotRow, RotUndo
      <3>3. ~ (Len(u) > 1)
        BY <3>2, UndoTails
      <3> QED
        BY <1>0, <1>a, <3>1, <3>3, StepLocals
    <2> QED
      BY <1>8, <2>1, <2>2
  <1>9. CASE UndoKernel(t) \/ UndoKey(t) \/ UndoPsk(t)
    <2>1. /\ pc[t] = "undo" /\ NextUndo(t) /\ RotUndo(r, n, u, db)
          /\ Head(u) \in {"kernel", "key", "psk"}
      BY <1>1, <1>9 DEF UndoKernel, UndoKey, UndoPsk, Unwinding, RotRow
    <2>2. Len(u) > 1
      <3> HIDE DEF r, n, u
      <3>1. u \in {<<"kernel", "old">>, <<"key", "kernel", "old">>,
                  <<"psk", "kernel", "old">>, <<"key", "psk", "kernel", "old">>}
        BY <2>1, UndoTails DEF RotUndo
      <3> QED
        BY <3>1, LongTails
    <2>3. pc'[t] = "undo" /\ job'[t].undo = Tail(u) /\ SameLocals(t)
      BY <1>0, <2>1, <2>2, StepLocals
    <2>4. r.key \notin KernelKeys(kernel)
      BY <1>1, <2>1 DEF Cleared
    <2>5. CASE UndoKernel(t)
      <3>1. kernel' = RemovePeers(kernel, NewKeys(t))
        BY <1>0, <2>5, NoRollbackFault DEF UndoKernel, Try
      <3>2. KernelKeys(kernel') = KernelKeys(kernel) \ {n.key}
        BY <1>0, <1>1, <3>1, KeysRemoved, NewKeysOf
      <3> QED
        BY <2>3, <2>4, <3>2 DEF Cleared, SameLocals
    <2>6. CASE UndoKey(t) \/ UndoPsk(t)
      <3>1. kernel' = kernel /\ Head(u) \in {"key", "psk"}
        BY <2>6 DEF UndoKey, UndoPsk, Unwinding
      <3>2. Tail(u) # <<"old">>
        BY <2>1, <3>1, UndoTails DEF RotUndo
      <3> QED
        BY <2>3, <2>4, <3>1, <3>2 DEF Cleared, SameLocals
    <2> QED
      BY <1>9, <2>5, <2>6
  <1> QED
    BY <1>0, <1>2, <1>3, <1>4, <1>5, <1>6, <1>7, <1>8, <1>9, RotateHandler DEF Rotate

LEMMA UndoneStep ==
    ASSUME OneFault, SerialInv, UndoneInv, [Next]_vars
    PROVE  UndoneInv'
  <1>0. /\ TypeInv /\ SerialEnv /\ UsedInv /\ Serial /\ BootAlone
        /\ \A t, s \in Threads : t = s
    BY DEF SerialInv, OneFault, Serial, SerialEnv, BootInv
  <1>1. budget'["crash"] = 0
    <2>1. "crash" \in EnvKinds
      BY DEF EnvKinds
    <2>2. /\ budget["crash"] = 0 /\ budget'["crash"] \in Nat
          /\ budget'["crash"] <= budget["crash"]
      BY <1>0, <2>1, BudgetFalls DEF UndoneInv
    <2> QED
      BY <2>2
  <1>2. NoFault' => NoFault
    BY <1>0, NoFaultBefore
  <1> SUFFICES \A t \in Threads : Cleared(job'[t], pc'[t], kernel', NoFault')
    BY <1>1 DEF UndoneInv
  <1>3. ASSUME NEW t \in Threads, Cleared(job'[t], pc'[t], kernel', NoFault')
        PROVE  \A s \in Threads : Cleared(job'[s], pc'[s], kernel', NoFault')
    BY <1>0, <1>3
  <1>4. ASSUME NEW t \in Threads, Handler(t)
        PROVE  Cleared(job'[t], pc'[t], kernel', NoFault')
    <2>1. CASE job[t].op = "rotate"
      BY <1>2, <1>4, <2>1, ClearedRotate
    <2>2. CASE job[t].op # "rotate"
      <3>1. job'[t].op # "rotate"
        BY <1>0, <1>4, <2>2, HandlerJob DEF NoJob, Locals
      <3> QED
        BY <3>1 DEF Cleared
    <2> QED
      BY <2>1, <2>2
  <1>5. ASSUME NEW t \in Threads, Request(t)
        PROVE  Cleared(job'[t], pc'[t], kernel', NoFault')
    <2>0. job \in [Threads -> Job] /\ pc \in [Threads -> Steps] /\ db \in SUBSET Row
      BY <1>0 DEF TypeInv, Control, Stores
    <2>1. CASE RotateKeys(t)
      <3>1. PICK r \in db, k \in Keys \ used :
               Accept(t, Locals("rotate", r, <<Rotated(r, k)>>, None), "rfw")
        BY <2>1 DEF RotateKeys
      <3>2. /\ pc'[t] = "rfw" /\ kernel' = kernel
            /\ job'[t] = Locals("rotate", r, <<Rotated(r, k)>>, None)
        BY <1>0, <3>1, StepLocals DEF Accept, stores
      <3>3. job'[t].new[1] = Rotated(r, k)
        BY <3>2 DEF Locals
      <3>4. Rotated(r, k).key = k
        BY <2>0, RotatedRow
      <3>5. k \notin KernelKeys(kernel)
        BY <1>0 DEF UsedInv
      <3> QED
        BY <3>2, <3>3, <3>4, <3>5 DEF Cleared
    <2>2. CASE ~ RotateKeys(t)
      <3>1. job'[t].op # "rotate"
        BY <1>5, <2>0, <2>2 DEF Request, CreatePeer, BatchCreatePeers,
           UpdatePeer, ApprovePeer, DeletePeer, Accept, Locals
      <3> QED
        BY <3>1 DEF Cleared
    <2> QED
      BY <2>1, <2>2
  <1>6. ASSUME NEW t \in Threads, Pause(t)
        PROVE  Cleared(job'[t], pc'[t], kernel', NoFault')
    <2>1. Shape(job[t], "pause") /\ job' = job
      BY <1>0, <1>6 DEF TypeInv, Control, Pause
    <2> QED
      BY <2>1 DEF Shape, Cleared
  <1>7. CASE Reconcile \/ FirewallSync
    <2>1. \A t \in Threads : job'[t].op = "none"
      BY <1>0, <1>7, NoPass, IdleJob
    <2> QED
      BY <2>1 DEF Cleared
  <1>8. CASE Environment
    <2>1. Crash /\ Spend("crash")
      BY <1>0, <1>8, NoRollbackFault DEF Environment, ForeignAdd, ForeignRemove, Crash
    <2> QED
      BY <2>1 DEF UndoneInv, Spend
  <1>9. CASE UNCHANGED vars
    BY <1>9 DEF vars, stores, UndoneInv, NoFault
  <1> QED
    BY <1>3, <1>4, <1>5, <1>6, <1>7, <1>8, <1>9 DEF Next

\* The last call of a rollback finds neither key in the device and the old row
\* in the table.
LEMMA RollbackEnds ==
    ASSUME OneFault, SerialInv, UndoneInv, [Next]_vars, NEW t \in Threads,
           pc[t] = "undo", job[t].op = "rotate", pc'[t] = "idle"
    PROVE  LET r == job[t].row
           IN  /\ r \in db'
               /\ kernel'[r.key] = [ips |-> IPsOf(r), psk |-> r.psk]
               /\ kernel'[job[t].new[1].key] = None
  <1> DEFINE r == job[t].row
             n == job[t].new[1]
             u == job[t].undo
  <1>0. /\ TypeInv /\ SerialEnv /\ Serial /\ \A s, q \in Threads : s = q
        /\ kernel \in KernelType
    BY DEF SerialInv, OneFault, Serial, TypeInv, Stores
  <1>1. Handler(t)
    <2>1. ASSUME NEW s \in Threads, Request(s) \/ Pause(s) PROVE FALSE
      <3>1. pc[s] \in {"idle", "pause"}
        BY <2>1 DEF Request, CreatePeer, BatchCreatePeers, UpdatePeer,
           RotateKeys, ApprovePeer, DeletePeer, Accept, Pause
      <3>2. s = t
        BY <1>0
      <3> QED
        BY <3>1, <3>2
    <2>2. ASSUME Reconcile \/ FirewallSync PROVE FALSE
      <3>1. pc[t] = "idle"
        BY <1>0, <2>2, NoPass
      <3> QED
        BY <3>1
    <2>3. ~ Environment
      <3>1. ~ ForeignAdd /\ ~ ForeignRemove
        BY <1>0, NoRollbackFault DEF ForeignAdd, ForeignRemove
      <3>2. ~ Crash
        BY DEF Crash, UndoneInv, Spend
      <3> QED
        BY <3>1, <3>2 DEF Environment
    <2>4. ~ UNCHANGED vars
      BY DEF vars
    <2> QED
      BY <1>0, <2>1, <2>2, <2>3, <2>4 DEF Next
  <1>2. /\ RotUndo(r, n, u, db) /\ n.key # r.key
        /\ r \in Row /\ n \in Row
        /\ Cleared(job[t], pc[t], kernel, NoFault)
    <2>1. Knows(job[t], pc[t], db) /\ Shape(job[t], pc[t])
      BY <1>0 DEF SerialInv, TableInv, TypeInv, Control
    <2>2. Control /\ job[t].new \in Seq(Row)
      BY <1>0, NewRowsType DEF TypeInv
    <2>3. r \in Row /\ n \in Row
      BY <2>1, <2>2 DEF Shape
    <2> QED
      BY <2>1, <2>3 DEF Knows, RotRow, RotJob, UndoneInv
  <1>3. UndoKernel(t) \/ UndoKey(t) \/ UndoPsk(t) \/ UndoOld(t)
    BY <1>0, <1>1, RotateHandler DEF ConfWrite, Rotate, RotateFirewall,
       RotateRemove, RotateAdd, RotateKey, RotatePsk, RotateApply
  <1>4. NextUndo(t)
    BY <1>3 DEF UndoKernel, UndoKey, UndoPsk, UndoOld
  <1>5. ~ (Len(u) > 1)
    <2>1. pc'[t] # "undo"
      OBVIOUS
    <2> QED
      BY <1>0, <1>4, <2>1, StepLocals
  <1>6. u = <<"old">> /\ r \in db
    <2> HIDE DEF r, n, u
    <2>1. CASE u = <<"old">>
      BY <1>2, <2>1, UndoTails DEF RotUndo
    <2>2. CASE u # <<"old">>
      <3>1. u \in {<<"kernel", "old">>, <<"key", "kernel", "old">>,
                  <<"psk", "kernel", "old">>, <<"key", "psk", "kernel", "old">>}
        BY <1>2, <2>2 DEF RotUndo
      <3> QED
        BY <1>5, <3>1, LongTails
    <2> QED
      BY <2>1, <2>2
  <1>7. UndoOld(t)
    BY <1>3, <1>6, UndoTails DEF UndoKernel, UndoKey, UndoPsk, Unwinding
  <1>8. kernel' = ConfigurePeer(kernel, r.key, IPsOf(r), r.psk, FALSE) /\ db' = db
    BY <1>0, <1>7, NoRollbackFault DEF UndoOld, Try
  <1>9. kernel[r.key] = None /\ kernel[n.key] = None /\ r.key \in Keys /\ n.key \in Keys
    BY <1>2, <1>6 DEF Cleared, KernelKeys, Row
  <1> HIDE DEF r, n, u
  <1>10. kernel'[n.key] = None
    BY <1>2, <1>8, <1>9 DEF ConfigurePeer, Strip
  <1>11. kernel'[r.key] = [ips |-> IPsOf(r), psk |-> r.psk]
    <2>1. PICK old : old = [ips |-> {}, psk |-> None]
      OBVIOUS
    <2>2. kernel'[r.key] = [ips |-> old.ips \cup IPsOf(r),
                            psk |-> IF r.psk = None THEN old.psk ELSE r.psk]
      BY <1>8, <1>9, <2>1 DEF ConfigurePeer
    <2>3. /\ old.ips \cup IPsOf(r) = IPsOf(r)
          /\ (IF r.psk = None THEN old.psk ELSE r.psk) = r.psk
      BY <2>1
    <2> QED
      BY <2>2, <2>3
  <1> QED
    BY <1>6, <1>8, <1>10, <1>11 DEF r, n

(* For requests one at a time of which one call fails, whichever it is: a    *)
(* rotation that answers with an error has undone itself.  The row is the    *)
(* one it read, the new key is gone, and of an enabled row the kernel has the*)
(* old key with the routes and the preshared key of that row.  Of a disabled *)
(* row the theorem does not say that the device is as before: the rollback   *)
(* puts its key there as well (RollbackEnds).                                *)
THEOREM FailedRotationUndone ==
    ASSUME OneFault
    PROVE  Spec => RotationUndone
  <1>0. Serial
    BY DEF OneFault
  <1>1. Init => SerialInv /\ UndoneInv
    <2> SUFFICES ASSUME Init PROVE UndoneInv
      BY <1>0, SerialInit
    <2> QED
      BY DEF Init, UndoneInv, OneFault, Cleared, NoJob, Locals
  <1>2. SerialInv /\ UndoneInv /\ [Next]_vars => (SerialInv /\ UndoneInv)'
    BY <1>0, SerialStep, UndoneStep
  <1>3. SerialInv /\ UndoneInv /\ [Next]_vars
          => [\A t \in Threads :
                pc[t] = "undo" /\ job[t].op = "rotate" /\ pc'[t] = "idle"
                   => LET r == job[t].row
                      IN  /\ r \in db'
                          /\ r.enabled => kernel'[r.key] = [ips |-> IPsOf(r),
                                                            psk |-> r.psk]
                          /\ kernel'[job[t].new[1].key] = None]_vars
    BY RollbackEnds
  <1> QED
    BY <1>1, <1>2, <1>3, PTL DEF Spec, RotationUndone

-----------------------------------------------------------------------------
(* Peers that stay confined.  The device routes to a peer what its row says *)
(* (Fits), and an enabled row with an address has its rules (Covered),      *)
(* except for the row a handler is at: after UpdatePeer has moved the peer  *)
(* in the device its row has still the old address (Rerouting), and until   *)
(* ApplyPeer at its end a handler that changed a row has no rules for it    *)
(* (Uncovered).  What each step knows makes the last one right: the row read*)
(* again is the one that was changed, since row ids are unique (Tidy); the  *)
(* UPDATE after a move is not refused, since the address is still free;     *)
(* the keys of an import are in no row until it inserts them.               *)

\* The instance: requests one at a time; no end of the process in the middle of a
\* move, which leaves the device at the new address and the row at the old one;
\* no iptables call that fails, which is logged and passed over; no request that
\* moves a peer and is refused after it (a malformed endpoint); no two client
\* addresses of one host, which the agent tells apart by their text and accepts,
\* and of which the older jump decides for both peers.
Undisturbed ==
    /\ Threads # {} /\ Serial /\ Budget["crash"] = 0 /\ Budget["iptables"] = 0
    /\ \A a, b \in Addrs : HostOf[a] = HostOf[b] => a = b
    /\ \A r \in InitRows : r.ips = IF r.addr = None THEN None ELSE HostOf[r.addr]
    /\ \A q \in UpdateReqs : q.tune = "bad" => q.addr = None

Fits(K, r) == K[r.key] # None => K[r.key].ips \subseteq IPsOf(r)

Covered(F, r) == r.enabled /\ r.addr # None => Ruled(F, r)

Shifts(j) == j.req.addr \notin {None, j.row.addr}

Rerouting(j, step, k) ==
    /\ step \in {"aflag", "akernel"} \/ (step \in {"utune", "udb"} /\ Shifts(j))
    /\ k = j.row.key

Uncovered(j, step, k) ==
    \/ /\ step \in {"ufw", "reread", "apply", "rremove", "radd", "rkey", "aflag",
                    "akernel"}
       /\ k = j.row.key
    \/ /\ step \in {"rpsk", "rapply"} \/ (step = "conf" /\ j.op = "rotate")
       /\ k = j.new[1].key

Tidy(D, last) ==
    /\ \A r \in D : r.id <= last /\ (r.addr = None => r.ips = None)
    /\ \A q, r \in D : q.id = r.id => q = r

SameRow(r, q) == r.key = q.key /\ r.id = q.id

UpdateAt(j, step, D, K) ==
    /\ step \in {"ukernel", "utune", "udb"} /\ j.req.addr # None
         => ~ ClientAddressTaken(D, j.req.addr, j.row.key)
    /\ step = "ukernel" => Shifts(j)
    /\ step \in {"utune", "udb"} /\ Shifts(j) /\ K[j.row.key] # None
         => K[j.row.key].ips \subseteq {HostOf[j.req.addr]}
    /\ step \in {"ukernel", "utune"} => j.req \in UpdateReqs
    /\ step \in {"ufw", "reread"} => \E r \in D : SameRow(r, j.row)
    /\ step \in {"adb", "apply"} => j.row \in D
    /\ step \in {"aflag", "akernel"} =>
         \E r \in D : SameRow(r, j.row) /\ r.ips = HostOf[j.req.addr]

ImportAt(j, step, D, K, F) ==
    j.op \in {"create", "batch"} =>
       /\ step # "conf" => KeysOf(j.new) \cap TableKeys(D) = {}
       /\ step \in {"kernel", "insert"} =>
            \A i \in DOMAIN j.new : Covered(F, j.new[i])
       /\ step = "insert" => \A i \in DOMAIN j.new : Fits(K, j.new[i])

OtherAt(j, step, D, K) ==
    /\ step = "rkey" => Fits(K, j.new[1])
    /\ step = "dfw" => ~ HasKey(D, j.row.key)

ConfinedAt(j, step, D, K, F) ==
    /\ \A r \in D : Rerouting(j, step, r.key) \/ Fits(K, r)
    /\ \A r \in D : Uncovered(j, step, r.key) \/ Covered(F, r)
    /\ ImportAt(j, step, D, K, F)
    /\ UpdateAt(j, step, D, K)
    /\ OtherAt(j, step, D, K)

ConfinedInv ==
    /\ budget["crash"] = 0 /\ budget["iptables"] = 0 /\ phase = "up"
    /\ NoFault => /\ Tidy(db, lastId)
                  /\ \A t \in Threads : ConfinedAt(job[t], pc[t], db, kernel, fw)

\* A call on the device for one peer.
LEMMA FitsOther ==
    ASSUME NEW K \in KernelType, NEW k, NEW hs, NEW psk, NEW rep \in BOOLEAN,
           NEW x \in Row, x.key # k, Fits(K, x)
    PROVE  Fits(ConfigurePeer(K, k, hs, psk, rep), x)
  <1>1. ConfigurePeer(K, k, hs, psk, rep)[x.key] = Strip(K[x.key], hs)
    BY DEF ConfigurePeer, Row
  <1>2. CASE K[x.key] = None
    BY <1>1, <1>2 DEF Fits, Strip
  <1>3. CASE K[x.key] # None
    <2>1. /\ K[x.key] \in KernelPeer
          /\ Strip(K[x.key], hs) = [K[x.key] EXCEPT !.ips = K[x.key].ips \ hs]
      BY <1>3 DEF KernelType, Row, Strip
    <2>2. Strip(K[x.key], hs).ips = K[x.key].ips \ hs
      BY <2>1 DEF KernelPeer
    <2> QED
      BY <1>1, <1>3, <2>2 DEF Fits
  <1> QED
    BY <1>2, <1>3

LEMMA FitsRemoved ==
    ASSUME NEW K \in KernelType, NEW ks, NEW x \in Row, Fits(K, x)
    PROVE  Fits(RemovePeers(K, ks), x)
  BY DEF Fits, RemovePeers, Row

\* ConfigurePeers for new peers.
LEMMA FitsNew ==
    ASSUME NEW K \in KernelType, NEW s \in Seq(Row),
           \A i, j \in DOMAIN s : s[i].key = s[j].key => i = j,
           NEW C, C = ConfigureNew(K, s)
    PROVE  /\ \A i \in DOMAIN s : Fits(C, s[i])
           /\ \A x \in Row : x.key \notin KeysOf(s) /\ Fits(K, x) => Fits(C, x)
  <1> DEFINE hs == UNION {IPsOf(s[i]) : i \in DOMAIN s}
             at(k) == CHOOSE i \in DOMAIN s : s[i].key = k
             ip(k) == {h \in IPsOf(s[at(k)]) : \A j \in DOMAIN s :
                                                  j > at(k) => s[j].ips # h}
             peer(k) == [ips |-> ip(k), psk |-> s[at(k)].psk]
  <1>1. C = [k \in Keys |-> IF \E i \in DOMAIN s : s[i].key = k
                              THEN peer(k) ELSE Strip(K[k], hs)]
    BY DEF ConfigureNew
  <1>2. ASSUME NEW i \in DOMAIN s PROVE Fits(C, s[i])
    <2>0. s[i] \in Row
      OBVIOUS
    <2>1. s[i].key \in Keys
      BY <2>0 DEF Row
    <2>2. at(s[i].key) = i
      OBVIOUS
    <2>3. C[s[i].key] = peer(s[i].key)
      BY <1>1, <2>1
    <2>4. C[s[i].key].ips = ip(s[i].key)
      BY <2>3
    <2>5. ip(s[i].key) \subseteq IPsOf(s[i])
      BY <2>2
    <2> HIDE DEF ip, peer, at
    <2> QED
      BY <2>4, <2>5 DEF Fits
  <1>3. ASSUME NEW x \in Row, x.key \notin KeysOf(s), Fits(K, x)
        PROVE  Fits(C, x)
    <2> HIDE DEF hs, peer
    <2>1. C[x.key] = Strip(K[x.key], hs)
      BY <1>1, <1>3 DEF KeysOf, Row
    <2>2. CASE K[x.key] = None
      BY <2>1, <2>2 DEF Fits, Strip
    <2>3. CASE K[x.key] # None
      <3>1. /\ K[x.key] \in KernelPeer
            /\ Strip(K[x.key], hs) = [K[x.key] EXCEPT !.ips = K[x.key].ips \ hs]
        BY <2>3 DEF KernelType, Row, Strip
      <3>2. Strip(K[x.key], hs).ips = K[x.key].ips \ hs
        BY <3>1 DEF KernelPeer
      <3> QED
        BY <1>3, <2>1, <2>3, <3>2 DEF Fits
    <2> QED
      BY <2>2, <2>3
  <1> QED
    BY <1>2, <1>3

\* Calls on the firewall.
LEMMA CoveredSame ==
    ASSUME NEW F \in Firewall, NEW G \in Firewall, NEW x \in Row,
           SameRules(F, G, x.key), Covered(F, x)
    PROVE  Covered(G, x)
  <1> SUFFICES ASSUME x.enabled, x.addr # None PROVE Ruled(G, x)
    BY DEF Covered
  <1>1. Ruled(F, x) /\ x.addr \in Addrs /\ x.key \in Keys
    BY DEF Covered, Row
  <1>2. <<HostOf[x.addr], x.key>> \in Hosts \X Keys
    BY <1>1, StoresAssumption
  <1> QED
    BY <1>1, <1>2 DEF Ruled, SameRules

LEMMA RemovedRules ==
    ASSUME NEW F \in Firewall, NEW r \in Row
    PROVE  \A k \in Keys \ {r.key} : SameRules(F, FwRemove(F, r), k)
  BY DEF FwRemove, SameRules, Firewall, Row

LEMMA AppliedRules ==
    ASSUME NEW F \in Firewall, NEW r \in Row
    PROVE  /\ \A k \in Keys \ {r.key} : SameRules(F, FwApply(F, r), k)
           /\ Covered(FwApply(F, r), r)
  <1>1. CASE ~ r.enabled
    BY <1>1, RemovedRules DEF FwApply, Covered
  <1>2. CASE r.enabled /\ r.addr = None
    BY <1>2 DEF FwApply, Covered, SameRules
  <1>3. CASE r.enabled /\ r.addr # None
    <2>1. r.addr \in Addrs /\ r.allow \in Allows \cup {None} /\ r.key \in Keys
      BY <1>3 DEF Row
    <2> DEFINE rule == [src |-> HostOf[r.addr], allow |-> r.allow]
               jump == <<HostOf[r.addr], r.key>>
    <2>2. rule \notin {None, Flushed}
      BY <2>1, RulesRuled
    <2>3. /\ FwApply(F, r).chain = [F.chain EXCEPT ![r.key] = rule]
          /\ FwApply(F, r).jumps = F.jumps \cup {jump}
      BY <1>3 DEF FwApply
    <2>4. F.chain = [k \in Keys |-> F.chain[k]]
      BY DEF Firewall
    <2>5. FwApply(F, r).chain[r.key] = rule
      BY <2>1, <2>3, <2>4
    <2>6. Covered(FwApply(F, r), r)
      BY <2>2, <2>3, <2>5 DEF Covered, Ruled
    <2>7. ASSUME NEW k \in Keys \ {r.key} PROVE SameRules(F, FwApply(F, r), k)
      <3>1. FwApply(F, r).chain[k] = F.chain[k]
        BY <2>3, <2>4
      <3>2. ASSUME NEW j \in Hosts \X Keys, j[2] = k PROVE j # jump
        BY <3>2
      <3> QED
        BY <2>3, <3>1, <3>2 DEF SameRules
    <2> QED
      BY <2>6, <2>7
  <1> QED
    BY <1>1, <1>2, <1>3

LEMMA NoSpend ==
    ASSUME ConfinedInv, TypeInv, SerialEnv
    PROVE  ~ Spend("iptables") /\ ~ Spend("crash") /\ ~ Spend("rollback")
  BY NoRollbackFault DEF ConfinedInv, Spend

\* The rows of E are those of D and those made of new.
Extends(D, E, new) ==
    \A r \in E : \/ r \in D
                \/ \E i \in DOMAIN new :
                      /\ r.key = new[i].key /\ r.addr = new[i].addr
                      /\ r.ips = new[i].ips /\ r.enabled = new[i].enabled

\* What the inserted rows of an import are.
LEMMA TidyInserted ==
    ASSUME NEW D \in SUBSET Row, NEW last \in Nat, Tidy(D, last), NEW new,
           Fresh(new)
    PROVE  /\ Tidy(InsertRows(D, last, new), last + Len(new))
           /\ Extends(D, InsertRows(D, last, new), new)
  <1> DEFINE row(i) == [new[i] EXCEPT !.id = last + i]
  <1>0. new \in Seq(Row) /\ Len(new) \in Nat /\ DOMAIN new = 1 .. Len(new)
    BY DEF Fresh
  <1>1. ASSUME NEW i \in DOMAIN new
        PROVE  /\ row(i).key = new[i].key /\ row(i).addr = new[i].addr
               /\ row(i).ips = new[i].ips /\ row(i).enabled = new[i].enabled
               /\ row(i).id = last + i /\ row(i).addr # None
               /\ i \in Nat /\ i >= 1 /\ i <= Len(new)
    <2>1. new[i] \in Row
      BY <1>0
    <2>2. /\ row(i).key = new[i].key /\ row(i).addr = new[i].addr
          /\ row(i).ips = new[i].ips /\ row(i).enabled = new[i].enabled
          /\ row(i).id = last + i
      BY <2>1 DEF Row
    <2>3. new[i].addr # None
      BY StoresAssumption DEF Fresh
    <2>4. i \in Nat /\ i >= 1 /\ i <= Len(new)
      BY <1>0
    <2> QED
      BY <2>2, <2>3, <2>4
  <1>2. \A r \in InsertRows(D, last, new) :
           r \in D \/ \E i \in DOMAIN new : r = row(i)
    BY DEF InsertRows
  <1> HIDE DEF row
  <1>3. \A r \in D : r.id \in Nat /\ r.id <= last
    BY DEF Tidy, Row
  <1>4. ASSUME NEW r \in InsertRows(D, last, new)
        PROVE  r.id <= last + Len(new) /\ (r.addr = None => r.ips = None)
    <2>1. CASE r \in D
      BY <1>0, <1>3, <2>1 DEF Tidy
    <2>2. CASE r \notin D
      BY <1>0, <1>1, <1>2, <2>2
    <2> QED
      BY <2>1, <2>2
  <1>5. ASSUME NEW q \in InsertRows(D, last, new),
               NEW r \in InsertRows(D, last, new), q.id = r.id
        PROVE  q = r
    <2>1. CASE q \in D /\ r \in D
      BY <1>5, <2>1 DEF Tidy
    <2>2. CASE q \in D /\ r \notin D
      BY <1>1, <1>2, <1>3, <1>5, <2>2
    <2>3. CASE q \notin D /\ r \in D
      BY <1>1, <1>2, <1>3, <1>5, <2>3
    <2>4. CASE q \notin D /\ r \notin D
      <3>1. PICK i \in DOMAIN new : q = row(i)
        BY <1>2, <2>4
      <3>2. PICK j \in DOMAIN new : r = row(j)
        BY <1>2, <2>4
      <3>3. i = j
        BY <1>1, <1>5, <3>1, <3>2
      <3> QED
        BY <3>1, <3>2, <3>3
    <2> QED
      BY <2>1, <2>2, <2>3, <2>4
  <1> QED
    BY <1>1, <1>2, <1>4, <1>5 DEF Tidy, Extends

LEMMA ConfinedImport ==
    ASSUME Undisturbed, SerialInv, AddrInv, ConfinedInv, NoFault, ~ Fault,
           NEW t \in Threads, Import(t)
    PROVE  /\ Tidy(db', lastId')
           /\ ConfinedAt(job'[t], pc'[t], db', kernel', fw')
  <1>0. /\ TypeInv /\ Shape(job[t], pc[t]) /\ kernel \in KernelType
        /\ db \in SUBSET Row /\ lastId \in Nat /\ fw \in Firewall
        /\ ~ Spend("iptables")
    BY NoSpend DEF SerialInv, TypeInv, Control, Stores
  <1>a. Tidy(db, lastId) /\ ConfinedAt(job[t], pc[t], db, kernel, fw)
    BY DEF ConfinedInv
  <1>b. ASSUME job[t].op \in {"create", "batch"}
        PROVE  /\ Fresh(job[t].new) /\ job[t].new \in Seq(Row)
               /\ \A i, j \in DOMAIN job[t].new :
                     job[t].new[i].key = job[t].new[j].key => i = j
    BY <1>b DEF AddrInv, RowRead, Fresh
  <1>c. \A r \in db : r.key \in Keys /\ r.key \in TableKeys(db)
    BY <1>0 DEF Row, TableKeys
  <1>1. CASE ImportFirewall(t)
    <2>1. /\ pc[t] = "fw" /\ pc'[t] = "kernel" /\ job'[t] = job[t]
          /\ UNCHANGED <<db, lastId, kernel>>
          /\ fw' = FwApplyNew(fw, NewRows(t))
      BY <1>0, <1>1, StepLocals DEF ImportFirewall, Try
    <2>2. job[t].op \in {"create", "batch"}
      BY <1>0, <2>1 DEF Shape
    <2>3. /\ NewRows(t) \in SUBSET Row
          /\ KeysOf(job[t].new) = {r.key : r \in NewRows(t)}
          /\ \A r \in NewRows(t) : r.addr \in Addrs
          /\ \A q, r \in NewRows(t) : q.key = r.key => q = r
      BY <1>b, <2>2, FreshJob
    <2>4. fw' \in Firewall
      BY <1>0, <2>1, <2>3, FwApplyNewType
    <2>5. /\ \A r \in NewRows(t) : Ruled(fw', r)
          /\ \A k \in Keys : ~ HasKey(NewRows(t), k) => SameRules(fw, fw', k)
      BY <1>0, <2>1, <2>3, NewRuled
    <2>6. \A i \in DOMAIN job[t].new : Covered(fw', job[t].new[i])
      BY <2>5 DEF NewRows, Covered
    <2>7. KeysOf(job[t].new) \cap TableKeys(db) = {}
      BY <1>a, <2>1, <2>2 DEF ConfinedAt, ImportAt
    <2>8. ASSUME NEW r \in db PROVE Fits(kernel, r) /\ Covered(fw', r)
      <3>1. Fits(kernel, r) /\ Covered(fw, r)
        BY <1>a, <2>1 DEF ConfinedAt, Rerouting, Uncovered
      <3>2. ~ HasKey(NewRows(t), r.key) /\ r.key \in Keys
        BY <1>c, <2>3, <2>7 DEF HasKey
      <3>3. SameRules(fw, fw', r.key) /\ r \in Row
        BY <1>0, <2>5, <3>2
      <3> QED
        BY <1>0, <2>4, <3>1, <3>3, CoveredSame
    <2> QED
      BY <1>a, <2>1, <2>2, <2>6, <2>7, <2>8
      DEF ConfinedAt, ImportAt, UpdateAt, OtherAt
  <1>2. CASE ImportKernel(t)
    <2>1. /\ pc[t] = "kernel" /\ pc'[t] = "insert" /\ job'[t] = job[t]
          /\ kernel' = ConfigureNew(kernel, job[t].new)
          /\ UNCHANGED <<db, lastId, fw>>
      BY <1>0, <1>2, StepLocals DEF ImportKernel
    <2>2. job[t].op \in {"create", "batch"}
      BY <1>0, <2>1 DEF Shape
    <2>3. /\ \A i \in DOMAIN job[t].new : Fits(kernel', job[t].new[i])
          /\ \A x \in Row : x.key \notin KeysOf(job[t].new) /\ Fits(kernel, x)
                               => Fits(kernel', x)
      BY <1>0, <1>b, <2>1, <2>2, FitsNew
    <2>4. /\ KeysOf(job[t].new) \cap TableKeys(db) = {}
          /\ \A i \in DOMAIN job[t].new : Covered(fw, job[t].new[i])
          /\ \A r \in db : Fits(kernel, r) /\ Covered(fw, r)
      BY <1>a, <2>1, <2>2 DEF ConfinedAt, ImportAt, Rerouting, Uncovered
    <2>5. \A r \in db : Fits(kernel', r)
      BY <1>0, <1>c, <2>3, <2>4
    <2> QED
      BY <1>a, <2>1, <2>2, <2>3, <2>4, <2>5
      DEF ConfinedAt, ImportAt, UpdateAt, OtherAt
  <1>3. CASE ImportInsert(t)
    <2>1. pc[t] = "insert" /\ UNCHANGED <<kernel, fw>>
      BY <1>3 DEF ImportInsert
    <2>2. job[t].op \in {"create", "batch"}
      BY <1>0, <2>1 DEF Shape
    <2>3. /\ KeysOf(job[t].new) \cap TableKeys(db) = {}
          /\ \A i \in DOMAIN job[t].new : /\ Covered(fw, job[t].new[i])
                                          /\ Fits(kernel, job[t].new[i])
          /\ \A r \in db : Fits(kernel, r) /\ Covered(fw, r)
      BY <1>a, <2>1, <2>2 DEF ConfinedAt, ImportAt, Rerouting, Uncovered
    <2>4. CASE /\ Goto(t, "conf") /\ db' = InsertRows(db, lastId, job[t].new)
               /\ lastId' = lastId + Len(job[t].new)
      <3>1. pc'[t] = "conf" /\ job'[t] = job[t]
        BY <1>0, <2>4, StepLocals
      <3>a. Fresh(job[t].new)
        BY <1>b, <2>2
      <3>2. Tidy(db', lastId') /\ Extends(db, db', job[t].new)
        BY <1>0, <1>a, <2>4, <3>a, TidyInserted
      <3>3. ASSUME NEW r \in db' PROVE Fits(kernel, r) /\ Covered(fw, r)
        <4>1. CASE r \in db
          BY <2>3, <4>1
        <4>2. CASE r \notin db
          <5>1. PICK i \in DOMAIN job[t].new :
                   /\ r.key = job[t].new[i].key /\ r.addr = job[t].new[i].addr
                   /\ r.ips = job[t].new[i].ips
                   /\ r.enabled = job[t].new[i].enabled
            BY <3>2, <4>2 DEF Extends
          <5> QED
            BY <2>3, <5>1 DEF Fits, Covered, Ruled, IPsOf
        <4> QED
          BY <4>1, <4>2
      <3> QED
        BY <2>1, <2>2, <3>1, <3>2, <3>3
        DEF ConfinedAt, ImportAt, UpdateAt, OtherAt
    <2>5. CASE Unwind(t, <<"fw", "kernel">>) /\ UNCHANGED <<db, lastId>>
      <3>1. pc'[t] = "undo" /\ SameLocals(t)
        BY <1>0, <2>5, StepLocals
      <3> QED
        BY <1>a, <2>1, <2>2, <2>3, <2>5, <3>1
        DEF ConfinedAt, ImportAt, UpdateAt, OtherAt, SameLocals
    <2> QED
      BY <1>3, <2>4, <2>5 DEF ImportInsert
  <1>4. CASE ConfWrite(t)
    <2>1. pc[t] = "conf" /\ UNCHANGED <<db, lastId, kernel, fw>>
      BY <1>4 DEF ConfWrite, stores
    <2>2. CASE job[t].op = "rotate"
      <3>1. pc'[t] = "rapply" /\ job'[t] = job[t]
        BY <1>0, <1>4, <2>2, StepLocals DEF ConfWrite
      <3> QED
        BY <1>a, <2>1, <2>2, <3>1
        DEF ConfinedAt, ImportAt, UpdateAt, OtherAt, Rerouting, Uncovered
    <2>3. CASE job[t].op # "rotate"
      <3>1. pc'[t] = "idle" /\ job'[t] = NoJob /\ NoJob.op = "none"
        BY <1>0, <1>4, <2>3, StepLocals DEF ConfWrite, NoJob, Locals
      <3> QED
        BY <1>a, <2>1, <2>3, <3>1
        DEF ConfinedAt, ImportAt, UpdateAt, OtherAt, Rerouting, Uncovered
    <2> QED
      BY <2>2, <2>3
  <1> QED
    BY <1>1, <1>2, <1>3, <1>4 DEF Import

LEMMA ConfinedUndo ==
    ASSUME Undisturbed, SerialInv, RevokedInv, AddrInv, ConfinedInv, NoFault,
           ~ Fault, NEW t \in Threads, Undo(t)
    PROVE  /\ Tidy(db', lastId')
           /\ ConfinedAt(job'[t], pc'[t], db', kernel', fw')
  <1>0. /\ TypeInv /\ kernel \in KernelType
        /\ db \in SUBSET Row /\ fw \in Firewall
        /\ ~ Spend("iptables") /\ ~ Spend("rollback")
    BY NoSpend DEF SerialInv, TypeInv, Stores
  <1>a. Tidy(db, lastId) /\ ConfinedAt(job[t], pc[t], db, kernel, fw)
    BY DEF ConfinedInv
  <1>1. pc[t] = "undo" /\ NextUndo(t) /\ lastId' = lastId
    BY DEF Undo, UndoFirewall, UndoDB, UndoKernel, UndoKey, UndoPsk, UndoOld,
       Unwinding
  <1>2. /\ job[t].op \in {"create", "batch"}
        /\ job[t].undo \in {<<"fw", "kernel">>, <<"kernel">>}
    BY <1>1 DEF Revoking, RevokedInv, ConfinedInv
  <1>3. Head(job[t].undo) \in {"fw", "kernel"}
    BY <1>2, RollbackTails
  <1>4. UndoFirewall(t) \/ UndoKernel(t)
    BY <1>3 DEF Undo, UndoDB, UndoKey, UndoPsk, UndoOld, Unwinding
  <1>5. /\ NewRows(t) \in SUBSET Row
        /\ KeysOf(job[t].new) = {r.key : r \in NewRows(t)}
    BY <1>2, FreshJob DEF AddrInv, RowRead
  <1>6. /\ KeysOf(job[t].new) \cap TableKeys(db) = {}
        /\ \A r \in db : Fits(kernel, r) /\ Covered(fw, r)
    BY <1>a, <1>1, <1>2 DEF ConfinedAt, ImportAt, Rerouting, Uncovered
  <1>7. \A r \in db : r.key \in Keys /\ r.key \in TableKeys(db)
    BY <1>0 DEF Row, TableKeys
  <1>8. \/ pc'[t] = "undo" /\ SameLocals(t)
        \/ pc'[t] = "idle" /\ job'[t] = NoJob /\ NoJob.op = "none"
    BY <1>0, <1>1, StepLocals DEF NoJob, Locals
  <1>9. ASSUME db' = db, \A r \in db : Fits(kernel', r) /\ Covered(fw', r)
        PROVE  /\ Tidy(db', lastId')
               /\ ConfinedAt(job'[t], pc'[t], db', kernel', fw')
    BY <1>a, <1>1, <1>2, <1>6, <1>8, <1>9
    DEF ConfinedAt, ImportAt, UpdateAt, OtherAt, SameLocals
  <1>10. CASE UndoFirewall(t)
    <2>1. fw' = FwRemoveNew(fw, NewRows(t)) /\ UNCHANGED <<db, kernel>>
      BY <1>0, <1>10 DEF UndoFirewall, Try
    <2>2. fw' \in Firewall
      BY <1>0, <1>5, <2>1, FwRemoveNewType
    <2>3. ASSUME NEW r \in db PROVE Covered(fw', r)
      <3>1. ~ HasKey(NewRows(t), r.key) /\ r.key \in Keys
        BY <1>5, <1>6, <1>7 DEF HasKey
      <3>2. SameRules(fw, fw', r.key) /\ r \in Row
        BY <1>0, <1>5, <2>1, <3>1, NewUnruled
      <3> QED
        BY <1>0, <1>6, <2>2, <3>2, CoveredSame
    <2> QED
      BY <1>6, <1>9, <2>1, <2>3
  <1>11. CASE UndoKernel(t)
    <2>1. kernel' = RemovePeers(kernel, NewKeys(t)) /\ UNCHANGED <<db, fw>>
      BY <1>0, <1>11 DEF UndoKernel, Try
    <2>2. \A r \in db : Fits(kernel', r)
      BY <1>0, <1>6, <2>1, FitsRemoved
    <2> QED
      BY <1>6, <1>9, <2>1, <2>2
  <1> QED
    BY <1>4, <1>10, <1>11

LEMMA UpdatedRow ==
    ASSUME NEW D, NEW k, NEW set, NEW r \in UpdateRows(D, k, set)
    PROVE  \/ r \in D /\ r.key # k
           \/ \E q \in D : q.key = k /\ r = set[q]
  BY DEF UpdateRows

LEMMA TidyUpdated ==
    ASSUME NEW D, NEW last, Tidy(D, last), NEW k, NEW set,
           \A r \in D : /\ set[r].id = r.id
                        /\ r.key = k /\ set[r].addr = None => set[r].ips = None
    PROVE  Tidy(UpdateRows(D, k, set), last)
  <1> DEFINE to(r) == IF r.key = k THEN set[r] ELSE r
  <1>1. UpdateRows(D, k, set) = {to(r) : r \in D}
    BY DEF UpdateRows
  <1>2. \A r \in D : to(r).id = r.id /\ (to(r).addr = None => to(r).ips = None)
    BY DEF Tidy
  <1> HIDE DEF to
  <1> QED
    BY <1>1, <1>2 DEF Tidy

LEMMA ConfinedUpdate ==
    ASSUME Undisturbed, SerialInv, AddrInv, ConfinedInv, NoFault, ~ Fault,
           NEW t \in Threads, Update(t)
    PROVE  /\ Tidy(db', lastId')
           /\ ConfinedAt(job'[t], pc'[t], db', kernel', fw')
  <1> DEFINE j == job[t]
             k == job[t].row.key
             q == job[t].req
  <1>0. /\ TypeInv /\ Shape(j, pc[t]) /\ kernel \in KernelType
        /\ db \in SUBSET Row /\ fw \in Firewall
        /\ ~ Spend("iptables")
        /\ lastId' = lastId
    <2>1. lastId' = lastId
      BY DEF Update, UpdateKernel, UpdateTune, UpdateDB, UpdateFirewall, Reread,
         ApplyReread, stores
    <2> QED
      BY <2>1, NoSpend DEF SerialInv, TypeInv, Control, Stores
  <1>a. /\ Tidy(db, lastId) /\ ConfinedAt(j, pc[t], db, kernel, fw)
        /\ UniqueKeys(db) /\ Knows(j, pc[t], db)
    BY DEF ConfinedInv, AddrInv, SerialInv, TableInv
  <1>b. \A r \in db : r \in Row /\ r.key \in Keys
    BY <1>0 DEF Row
  <1>c. /\ j.op \in {"update", "approve"} /\ j.row \in Row /\ k \in Keys
        /\ j.req \in UpdateReq
    <2>1. j.op \in {"update", "approve"} /\ j.row \in Row /\ j.req \in UpdateReq
      BY <1>0 DEF Shape, Update, UpdateKernel, UpdateTune, UpdateDB,
         UpdateFirewall, Reread, ApplyReread
    <2> QED
      BY <2>1 DEF Row
  <1>d. NoJob.op = "none"
    BY DEF NoJob, Locals
  <1>1. CASE UpdateKernel(t)
    <2>1. /\ pc[t] = "ukernel" /\ pc'[t] = "utune" /\ job'[t] = j
          /\ kernel' = ConfigurePeer(kernel, k, {HostOf[q.addr]}, None, TRUE)
          /\ UNCHANGED <<db, fw>>
      BY <1>0, <1>1, StepLocals DEF UpdateKernel
    <2>2. /\ \A r \in db : Fits(kernel, r) /\ Covered(fw, r)
          /\ Shifts(j) /\ q \in UpdateReqs
          /\ q.addr # None => ~ ClientAddressTaken(db, q.addr, k)
      BY <1>a, <2>1 DEF ConfinedAt, UpdateAt, Rerouting, Uncovered
    <2>3. \A r \in db : r.key # k => Fits(kernel', r)
      BY <1>0, <1>b, <2>1, <2>2, FitsOther
    <2>4. kernel'[k].ips = {HostOf[q.addr]}
      BY <1>c, <2>1 DEF ConfigurePeer
    <2> QED
      BY <1>0, <1>a, <1>c, <2>1, <2>2, <2>3, <2>4
      DEF ConfinedAt, ImportAt, UpdateAt, OtherAt, Rerouting
  <1>2. CASE UpdateTune(t)
    <2>1. pc[t] = "utune" /\ UNCHANGED <<db, fw>>
      BY <1>2 DEF UpdateTune
    <2>2. /\ \A r \in db : Covered(fw, r) /\ (r.key # k => Fits(kernel, r))
          /\ ~ Shifts(j) => \A r \in db : Fits(kernel, r)
          /\ q.addr # None => ~ ClientAddressTaken(db, q.addr, k)
          /\ q \in UpdateReqs
          /\ Shifts(j) /\ kernel[k] # None => kernel[k].ips \subseteq {HostOf[q.addr]}
      BY <1>a, <2>1 DEF ConfinedAt, UpdateAt, Rerouting, Uncovered
    <2>3. CASE q.tune = "bad" /\ Return(t) /\ kernel' = kernel
      <3>1. ~ Shifts(j)
        BY <2>2, <2>3 DEF Undisturbed, Shifts
      <3>2. pc'[t] = "idle" /\ job'[t] = NoJob
        BY <1>0, <2>3, StepLocals
      <3> QED
        BY <1>0, <1>a, <1>d, <2>1, <2>2, <2>3, <3>1, <3>2
        DEF ConfinedAt, ImportAt, UpdateAt, OtherAt
    <2>4. CASE Goto(t, "udb") /\ kernel' = kernel
      <3>1. pc'[t] = "udb" /\ job'[t] = j
        BY <1>0, <2>4, StepLocals
      <3> QED
        BY <1>0, <1>a, <1>c, <2>1, <2>2, <2>4, <3>1
        DEF ConfinedAt, ImportAt, UpdateAt, OtherAt, Rerouting
    <2>5. CASE /\ Goto(t, "udb")
               /\ kernel' = ConfigurePeer(kernel, k, {}, None, FALSE)
      <3>1. pc'[t] = "udb" /\ job'[t] = j
        BY <1>0, <2>5, StepLocals
      <3>2. \A r \in db : r.key # k => Fits(kernel', r)
        BY <1>0, <1>b, <2>2, <2>5, FitsOther
      <3>3. /\ kernel[k] = None => kernel'[k].ips = {}
            /\ kernel[k] # None => kernel'[k].ips = kernel[k].ips
        BY <1>c, <2>5 DEF ConfigurePeer
      <3>4. ~ Shifts(j) => \A r \in db : Fits(kernel', r)
        BY <2>2, <3>2, <3>3 DEF Fits
      <3>5. Shifts(j) /\ kernel'[k] # None => kernel'[k].ips \subseteq {HostOf[q.addr]}
        BY <2>2, <3>3
      <3> QED
        BY <1>0, <1>a, <1>c, <2>1, <2>2, <3>1, <3>2, <3>4, <3>5
        DEF ConfinedAt, ImportAt, UpdateAt, OtherAt, Rerouting
    <2> QED
      BY <1>2, <2>3, <2>4, <2>5 DEF UpdateTune, Try, Fault
  <1>3. CASE UpdateDB(t)
    <2>1. pc[t] = "udb" /\ UNCHANGED <<kernel, fw>> /\ j.row \in db /\ HasKey(db, k)
      BY <1>3, <1>a DEF UpdateDB, Knows, HasKey
    <2>2. /\ \A r \in db : Covered(fw, r) /\ (r.key # k => Fits(kernel, r))
          /\ ~ Shifts(j) => \A r \in db : Fits(kernel, r)
          /\ q.addr # None => ~ ClientAddressTaken(db, q.addr, k)
          /\ Shifts(j) /\ kernel[k] # None => kernel[k].ips \subseteq {HostOf[q.addr]}
      BY <1>a, <2>1 DEF ConfinedAt, UpdateAt, Rerouting, Uncovered
    <2>3. PICK set : set = [r \in db |->
                     [r EXCEPT
                        !.addr    = IF q.addr = None THEN @ ELSE q.addr,
                        !.ips     = IF Moves(t) THEN HostOf[q.addr] ELSE @,
                        !.allow   = IF q.allow = None THEN @ ELSE q.allow,
                        !.enabled = IF q.enable = "keep" THEN @
                                                         ELSE q.enable = "on"]]
      OBVIOUS
    <2>4. /\ db' = UpdateRows(db, k, set)
          /\ IF ~ FirewallRelevant(q) THEN Return(t)
             ELSE Goto(t, IF Moves(t) THEN "ufw" ELSE "reread")
      BY <1>3, <2>1, <2>2, <2>3 DEF UpdateDB
    <2>5. Moves(t) <=> Shifts(j)
      BY DEF Moves, Shifts
    <2>6. \A r \in db : /\ set[r].key = r.key /\ set[r].id = r.id
                        /\ set[r].addr = IF q.addr = None THEN r.addr ELSE q.addr
                        /\ set[r].ips = IF Moves(t) THEN HostOf[q.addr] ELSE r.ips
                        /\ q.enable = "keep" => set[r].enabled = r.enabled
      BY <1>b, <2>3 DEF Row
    <2>7. \A r \in db : r.key = k => r = j.row
      BY <1>a, <2>1 DEF UniqueKeys
    <2>8. Tidy(db', lastId')
      <3>1. ASSUME NEW r \in db, r.key = k, set[r].addr = None
            PROVE  set[r].ips = None
        <4>1. q.addr = None /\ r.addr = None
          BY <2>6, <3>1
        <4>2. ~ Shifts(j)
          BY <4>1 DEF Shifts
        <4> QED
          BY <1>a, <2>5, <2>6, <4>1, <4>2 DEF Tidy
      <3> QED
        BY <1>0, <1>a, <2>4, <2>6, <3>1, TidyUpdated
    <2>9. Fits(kernel, set[j.row])
      <3>1. CASE Shifts(j)
        <4>1. set[j.row].ips = HostOf[q.addr] /\ set[j.row].key = k
          BY <2>1, <2>5, <2>6, <3>1
        <4>2. HostOf[q.addr] # None
          BY <1>c, <3>1, StoresAssumption DEF Shifts, UpdateReq
        <4> QED
          BY <2>2, <3>1, <4>1, <4>2 DEF Fits, IPsOf
      <3>2. CASE ~ Shifts(j)
        BY <2>1, <2>2, <2>5, <2>6, <3>2 DEF Fits, IPsOf
      <3> QED
        BY <3>1, <3>2
    <2>10. \A r \in db' : (r \in db /\ r.key # k) \/ r = set[j.row]
      BY <2>4, <2>7, UpdatedRow
    <2>11. \A r \in db' : Fits(kernel, r) /\ (r.key # k => Covered(fw, r))
      BY <2>1, <2>2, <2>6, <2>9, <2>10
    <2>12. CASE ~ FirewallRelevant(q)
      <3>1. pc'[t] = "idle" /\ job'[t] = NoJob
        BY <1>0, <2>4, <2>12, StepLocals
      <3>2. q.addr = None /\ q.enable = "keep"
        BY <2>12 DEF FirewallRelevant
      <3>3. Covered(fw, set[j.row])
        BY <2>1, <2>2, <2>6, <3>2 DEF Covered, Ruled
      <3>4. \A r \in db' : Covered(fw, r)
        BY <2>10, <2>11, <3>3
      <3> QED
        BY <1>d, <2>1, <2>8, <2>11, <3>1, <3>4
        DEF ConfinedAt, ImportAt, UpdateAt, OtherAt
    <2>13. CASE FirewallRelevant(q)
      <3>1. pc'[t] \in {"ufw", "reread"} /\ job'[t] = j
        BY <1>0, <2>4, <2>13, StepLocals
      <3>2. set[j.row] \in db' /\ SameRow(set[j.row], j.row)
        BY <2>1, <2>4, <2>6, RowUpdated DEF SameRow
      <3> QED
        BY <1>c, <2>1, <2>8, <2>11, <3>1, <3>2
        DEF ConfinedAt, ImportAt, UpdateAt, OtherAt, Uncovered
    <2> QED
      BY <2>12, <2>13
  <1>4. CASE UpdateFirewall(t)
    <2>1. /\ pc[t] = "ufw" /\ pc'[t] = "reread" /\ job'[t] = j
          /\ fw' = FwRemove(fw, j.row) /\ UNCHANGED <<db, kernel>>
      BY <1>0, <1>4, StepLocals DEF UpdateFirewall, Try
    <2>2. /\ \A r \in db : Fits(kernel, r) /\ (r.key # k => Covered(fw, r))
          /\ \E r \in db : SameRow(r, j.row)
      BY <1>a, <2>1 DEF ConfinedAt, UpdateAt, Rerouting, Uncovered
    <2>3. fw' \in Firewall
      BY <1>0, <1>c, <2>1, FwRemoveType
    <2>4. \A r \in db : r.key # k => Covered(fw', r)
      BY <1>0, <1>b, <1>c, <2>1, <2>2, <2>3, RemovedRules, CoveredSame
    <2> QED
      BY <1>0, <1>a, <1>c, <2>1, <2>2, <2>4
      DEF ConfinedAt, ImportAt, UpdateAt, OtherAt, Uncovered
  <1>5. CASE Reread(t)
    <2>1. pc[t] = "reread" /\ UNCHANGED <<db, kernel, fw>>
      BY <1>5 DEF Reread, stores
    <2>2. \A r \in db : Fits(kernel, r) /\ (r.key # k => Covered(fw, r))
      BY <1>a, <2>1 DEF ConfinedAt, UpdateAt, Rerouting, Uncovered
    <2>3. PICK x \in db : SameRow(x, j.row)
      BY <1>a, <2>1 DEF ConfinedAt, UpdateAt
    <2>4. PICK r \in db : /\ r.id = j.row.id /\ pc' = [pc EXCEPT ![t] = "apply"]
                          /\ job' = [job EXCEPT ![t].row = r]
      BY <1>5, <2>3 DEF Reread, SameRow
    <2>5. r = x /\ r.key = k
      BY <1>a, <2>3, <2>4 DEF Tidy, SameRow
    <2>6. pc'[t] = "apply" /\ job'[t].row = r /\ job'[t].op = j.op
      BY <1>0, <2>4 DEF TypeInv, Control, Job
    <2> QED
      BY <1>0, <1>a, <1>c, <2>1, <2>2, <2>5, <2>6
      DEF ConfinedAt, ImportAt, UpdateAt, OtherAt, Uncovered
  <1>6. CASE ApplyReread(t)
    <2>1. /\ pc[t] = "apply" /\ pc'[t] = "idle" /\ job'[t] = NoJob
          /\ fw' = FwApply(fw, j.row) /\ UNCHANGED <<db, kernel>>
      BY <1>0, <1>6, StepLocals DEF ApplyReread, Try
    <2>2. /\ \A r \in db : Fits(kernel, r) /\ (r.key # k => Covered(fw, r))
          /\ j.row \in db
      BY <1>a, <2>1 DEF ConfinedAt, UpdateAt, Rerouting, Uncovered
    <2>3. fw' \in Firewall
      BY <1>0, <1>c, <2>1, FwApplyType
    <2>4. \A r \in db : r.key # k => Covered(fw', r)
      BY <1>0, <1>b, <1>c, <2>1, <2>2, <2>3, AppliedRules, CoveredSame
    <2>5. Covered(fw', j.row) /\ \A r \in db : r.key = k => r = j.row
      BY <1>0, <1>a, <1>c, <2>1, <2>2, AppliedRules DEF UniqueKeys
    <2> QED
      BY <1>0, <1>a, <1>d, <2>1, <2>2, <2>4, <2>5
      DEF ConfinedAt, ImportAt, UpdateAt, OtherAt
  <1> QED
    BY <1>1, <1>2, <1>3, <1>4, <1>5, <1>6 DEF Update


LEMMA ConfinedApprove ==
    ASSUME Undisturbed, SerialInv, AddrInv, ConfinedInv, NoFault, ~ Fault,
           NEW t \in Threads, Approve(t)
    PROVE  /\ Tidy(db', lastId')
           /\ ConfinedAt(job'[t], pc'[t], db', kernel', fw')
  <1> DEFINE j == job[t]
             k == job[t].row.key
             q == job[t].req
  <1>0. /\ TypeInv /\ Shape(j, pc[t]) /\ kernel \in KernelType
        /\ db \in SUBSET Row /\ UNCHANGED <<lastId, fw>>
    <2>1. UNCHANGED <<lastId, fw>>
      BY DEF Approve, ApproveDB, ApproveFlag, ApproveKernel
    <2> QED
      BY <2>1 DEF SerialInv, TypeInv, Control, Stores
  <1>a. /\ Tidy(db, lastId) /\ ConfinedAt(j, pc[t], db, kernel, fw)
        /\ UniqueKeys(db) /\ Knows(j, pc[t], db)
    BY DEF ConfinedInv, AddrInv, SerialInv, TableInv
  <1>b. \A r \in db : r \in Row /\ r.key \in Keys
    BY <1>0 DEF Row
  <1>c. /\ j.op = "approve" /\ j.row \in Row /\ k \in Keys
        /\ HostOf[q.addr] # None /\ q.addr # None
    <2>1. j.op = "approve" /\ j.row \in Row /\ j.req.addr \in Addrs
      BY <1>0 DEF Shape, Approve, ApproveDB, ApproveFlag, ApproveKernel
    <2> QED
      BY <2>1, StoresAssumption DEF Row
  <1>d. NoJob.op = "none"
    BY DEF NoJob, Locals
  <1>1. CASE ApproveDB(t)
    <2>1. pc[t] = "adb" /\ kernel' = kernel
      BY <1>1 DEF ApproveDB
    <2>2. /\ \A r \in db : Fits(kernel, r) /\ Covered(fw, r)
          /\ j.row \in db
      BY <1>a, <2>1 DEF ConfinedAt, UpdateAt, Rerouting, Uncovered
    <2>3. PICK set : set = [r \in db |-> [r EXCEPT !.addr = q.addr,
                                                   !.ips = HostOf[q.addr],
                                                   !.allow = q.allow,
                                                   !.enabled = TRUE]]
      OBVIOUS
    <2>4. \/ db' = UpdateRows(db, k, set) /\ Goto(t, "aflag")
          \/ db' = db /\ Return(t)
      BY <1>1, <2>3 DEF ApproveDB
    <2>5. \A r \in db : /\ set[r].key = r.key /\ set[r].id = r.id
                        /\ set[r].addr = q.addr /\ set[r].ips = HostOf[q.addr]
      BY <1>b, <2>3 DEF Row
    <2>6. CASE db' = UpdateRows(db, k, set) /\ Goto(t, "aflag")
      <3>1. pc'[t] = "aflag" /\ job'[t] = j
        BY <1>0, <2>6, StepLocals
      <3>2. Tidy(db', lastId')
        BY <1>0, <1>a, <1>c, <2>5, <2>6, TidyUpdated
      <3>3. /\ set[j.row] \in db' /\ SameRow(set[j.row], j.row)
            /\ set[j.row].ips = HostOf[q.addr]
        BY <2>2, <2>5, <2>6, RowUpdated DEF SameRow
      <3>4. \A r \in db' : r.key # k => r \in db
        BY <2>5, <2>6, UpdatedRow
      <3> QED
        BY <1>0, <1>c, <2>1, <2>2, <3>1, <3>2, <3>3, <3>4
        DEF ConfinedAt, ImportAt, UpdateAt, OtherAt, Rerouting, Uncovered
    <2>7. CASE db' = db /\ Return(t)
      <3>1. pc'[t] = "idle" /\ job'[t] = NoJob
        BY <1>0, <2>7, StepLocals
      <3> QED
        BY <1>0, <1>a, <1>d, <2>1, <2>2, <2>7, <3>1
        DEF ConfinedAt, ImportAt, UpdateAt, OtherAt
    <2> QED
      BY <2>4, <2>6, <2>7
  <1>2. CASE ApproveFlag(t)
    <2>1. pc[t] = "aflag" /\ kernel' = kernel /\ HasKey(db, k)
      BY <1>2, <1>a DEF ApproveFlag, Knows
    <2>2. \A r \in db : r.key # k => Fits(kernel, r) /\ Covered(fw, r)
      BY <1>a, <2>1 DEF ConfinedAt, Rerouting, Uncovered
    <2>3. PICK x \in db : SameRow(x, j.row) /\ x.ips = HostOf[q.addr]
      BY <1>a, <2>1 DEF ConfinedAt, UpdateAt
    <2>4. PICK set : set = [r \in db |-> [r EXCEPT !.enabled = TRUE,
                                                   !.auto = FALSE]]
      OBVIOUS
    <2>5. db' = UpdateRows(db, k, set) /\ Goto(t, "akernel")
      BY <1>2, <2>1, <2>4 DEF ApproveFlag
    <2>6. \A r \in db : /\ set[r].key = r.key /\ set[r].id = r.id
                        /\ set[r].addr = r.addr /\ set[r].ips = r.ips
      BY <1>b, <2>4 DEF Row
    <2>7. pc'[t] = "akernel" /\ job'[t] = j
      BY <1>0, <2>5, StepLocals
    <2>8. Tidy(db', lastId')
      <3>1. \A r \in db : r.addr = None => r.ips = None
        BY <1>a DEF Tidy
      <3> QED
        BY <1>0, <1>a, <2>5, <2>6, <3>1, TidyUpdated
    <2>9. /\ set[x] \in db' /\ SameRow(set[x], j.row)
          /\ set[x].ips = HostOf[q.addr]
      <3>1. x.key = k
        BY <2>3 DEF SameRow
      <3> QED
        BY <2>3, <2>5, <2>6, <3>1, RowUpdated DEF SameRow
    <2>10. \A r \in db' : r.key # k => r \in db
      BY <2>5, <2>6, UpdatedRow
    <2> QED
      BY <1>0, <1>c, <2>1, <2>2, <2>7, <2>8, <2>9, <2>10
      DEF ConfinedAt, ImportAt, UpdateAt, OtherAt, Rerouting, Uncovered
  <1>3. CASE ApproveKernel(t)
    <2>1. /\ pc[t] = "akernel" /\ pc'[t] = "reread" /\ job'[t] = j /\ db' = db
          /\ kernel' = ConfigurePeer(kernel, k, {HostOf[q.addr]}, None, TRUE)
      BY <1>0, <1>3, StepLocals DEF ApproveKernel, Try, Fault
    <2>2. \A r \in db : r.key # k => Fits(kernel, r) /\ Covered(fw, r)
      BY <1>a, <2>1 DEF ConfinedAt, Rerouting, Uncovered
    <2>3. PICK x \in db : SameRow(x, j.row) /\ x.ips = HostOf[q.addr]
      BY <1>a, <2>1 DEF ConfinedAt, UpdateAt
    <2>4. \A r \in db : r.key # k => Fits(kernel', r)
      BY <1>0, <1>b, <2>1, <2>2, FitsOther
    <2>5. kernel'[k].ips = {HostOf[q.addr]}
      BY <1>c, <2>1 DEF ConfigurePeer
    <2>6. \A r \in db : r.key = k => r = x
      BY <1>a, <2>3 DEF UniqueKeys, SameRow
    <2>7. Fits(kernel', x)
      <3>1. x.key = k
        BY <2>3 DEF SameRow
      <3> QED
        BY <1>c, <2>3, <2>5, <3>1 DEF Fits, IPsOf
    <2>8. \A r \in db : Fits(kernel', r)
      BY <2>4, <2>6, <2>7
    <2> QED
      BY <1>0, <1>a, <1>c, <2>1, <2>2, <2>3, <2>8
      DEF ConfinedAt, ImportAt, UpdateAt, OtherAt, Uncovered
  <1> QED
    BY <1>1, <1>2, <1>3 DEF Approve

LEMMA ConfinedDelete ==
    ASSUME Undisturbed, SerialInv, ConfinedInv, NoFault, ~ Fault,
           NEW t \in Threads, Delete(t)
    PROVE  /\ Tidy(db', lastId')
           /\ ConfinedAt(job'[t], pc'[t], db', kernel', fw')
  <1> DEFINE j == job[t]
             k == job[t].row.key
  <1>0. /\ TypeInv /\ Shape(j, pc[t]) /\ kernel \in KernelType
        /\ db \in SUBSET Row /\ fw \in Firewall /\ ~ Spend("iptables")
        /\ lastId' = lastId
    <2>1. lastId' = lastId
      BY DEF Delete, DeleteKernel, DeleteDB, DeleteFirewall
    <2> QED
      BY <2>1, NoSpend DEF SerialInv, TypeInv, Control, Stores
  <1>a. /\ Tidy(db, lastId) /\ ConfinedAt(j, pc[t], db, kernel, fw)
    BY DEF ConfinedInv
  <1>b. \A r \in db : r \in Row /\ r.key \in Keys
    BY <1>0 DEF Row
  <1>c. j.op = "delete" /\ j.row \in Row /\ NoJob.op = "none"
    <2>1. j.op = "delete" /\ j.row \in Row
      BY <1>0 DEF Shape, Delete, DeleteKernel, DeleteDB, DeleteFirewall
    <2> QED
      BY <2>1 DEF NoJob, Locals
  <1>d. \A r \in db : Fits(kernel, r) /\ Covered(fw, r)
    BY <1>a, <1>c DEF ConfinedAt, Rerouting, Uncovered, Delete, DeleteKernel,
       DeleteDB, DeleteFirewall
  <1>1. CASE DeleteKernel(t)
    <2>1. /\ pc'[t] = "ddb" /\ job'[t] = j /\ UNCHANGED <<db, fw>>
          /\ kernel' = RemovePeers(kernel, {k})
      BY <1>0, <1>1, StepLocals DEF DeleteKernel, Try, Fault
    <2>2. \A r \in db : Fits(kernel', r)
      BY <1>0, <1>b, <1>d, <2>1, FitsRemoved
    <2> QED
      BY <1>0, <1>a, <1>c, <1>d, <2>1, <2>2
      DEF ConfinedAt, ImportAt, UpdateAt, OtherAt
  <1>2. CASE DeleteDB(t)
    <2>1. /\ UNCHANGED <<kernel, fw>>
          /\ \/ db' = DeleteRows(db, {k}) /\ Goto(t, "dfw")
             \/ db' = db /\ Return(t)
      BY <1>2 DEF DeleteDB
    <2>2. CASE db' = DeleteRows(db, {k}) /\ Goto(t, "dfw")
      <3>1. pc'[t] = "dfw" /\ job'[t] = j
        BY <1>0, <2>2, StepLocals
      <3>2. db' \subseteq db /\ ~ HasKey(db', k)
        BY <2>2 DEF DeleteRows, HasKey
      <3>3. Tidy(db', lastId')
        BY <1>0, <1>a, <3>2 DEF Tidy
      <3> QED
        BY <1>c, <1>d, <2>1, <3>1, <3>2, <3>3
        DEF ConfinedAt, ImportAt, UpdateAt, OtherAt
    <2>3. CASE db' = db /\ Return(t)
      <3>1. pc'[t] = "idle" /\ job'[t] = NoJob
        BY <1>0, <2>3, StepLocals
      <3> QED
        BY <1>0, <1>a, <1>c, <1>d, <2>1, <2>3, <3>1
        DEF ConfinedAt, ImportAt, UpdateAt, OtherAt
    <2> QED
      BY <2>1, <2>2, <2>3
  <1>3. CASE DeleteFirewall(t)
    <2>1. /\ pc[t] = "dfw" /\ pc'[t] = "idle" /\ job'[t] = NoJob
          /\ UNCHANGED <<db, kernel>> /\ fw' = FwRemove(fw, j.row)
      BY <1>0, <1>3, StepLocals DEF DeleteFirewall, Try
    <2>2. \A r \in db : r.key # k
      BY <1>a, <2>1 DEF ConfinedAt, OtherAt, HasKey
    <2>3. fw' \in Firewall
      BY <1>0, <1>c, <2>1, FwRemoveType
    <2>4. \A r \in db : Covered(fw', r)
      BY <1>0, <1>b, <1>c, <1>d, <2>1, <2>2, <2>3, RemovedRules, CoveredSame
    <2> QED
      BY <1>0, <1>a, <1>c, <1>d, <2>1, <2>4
      DEF ConfinedAt, ImportAt, UpdateAt, OtherAt
  <1> QED
    BY <1>1, <1>2, <1>3 DEF Delete

LEMMA ConfinedRotate ==
    ASSUME Undisturbed, SerialInv, AddrInv, ConfinedInv, NoFault, ~ Fault,
           NEW t \in Threads, Rotate(t)
    PROVE  /\ Tidy(db', lastId')
           /\ ConfinedAt(job'[t], pc'[t], db', kernel', fw')
  <1> DEFINE j == job[t]
             r == job[t].row
             n == job[t].new[1]
  <1>0. /\ TypeInv /\ Shape(j, pc[t]) /\ kernel \in KernelType
        /\ db \in SUBSET Row /\ fw \in Firewall /\ ~ Spend("iptables")
        /\ lastId' = lastId /\ j.new \in Seq(Row)
    <2>1. lastId' = lastId
      BY DEF Rotate, RotateFirewall, RotateRemove, RotateAdd, RotateKey,
         RotatePsk, RotateApply
    <2> QED
      BY <2>1, NoSpend, NewRowsType DEF SerialInv, TypeInv, Control, Stores
  <1>a. /\ Tidy(db, lastId) /\ ConfinedAt(j, pc[t], db, kernel, fw)
        /\ UniqueKeys(db) /\ Knows(j, pc[t], db)
    BY DEF ConfinedInv, AddrInv, SerialInv, TableInv
  <1>b. \A x \in db : x \in Row /\ x.key \in Keys
    BY <1>0 DEF Row
  <1>c. j.op = "rotate" /\ r \in Row /\ n \in Row /\ NoJob.op = "none"
    <2>1. j.op = "rotate"
      BY <1>0 DEF Shape, Rotate, RotateFirewall, RotateRemove, RotateAdd,
         RotateKey, RotatePsk, RotateApply
    <2>2. r \in Row /\ n \in Row
      BY <1>0, <2>1 DEF Shape
    <2> QED
      BY <2>1, <2>2 DEF NoJob, Locals
  <1>d. /\ RotJob(j) /\ RotRow(pc[t], r, n, j.undo, db)
        /\ KeysOf(j.new) = {n.key} /\ n.key # r.key
    BY <1>a, <1>c DEF Knows, RotJob, KeysOf
  <1>e. n.ips = r.ips /\ n.addr = r.addr /\ n.id = r.id
    BY <1>c, <1>d, RotatedRow DEF RotJob, Row
  <1>f. \A x \in db : x.addr = None => x.ips = None
    BY <1>a DEF Tidy
  <1>2. CASE RotateFirewall(t)
    <2>1. /\ pc[t] = "rfw" /\ pc'[t] = "rremove" /\ job'[t] = j
          /\ UNCHANGED <<db, kernel>> /\ fw' = FwRemove(fw, r)
      BY <1>0, <1>2, StepLocals DEF RotateFirewall, Try
    <2>2. \A x \in db : Fits(kernel, x) /\ Covered(fw, x)
      BY <1>a, <2>1 DEF ConfinedAt, Rerouting, Uncovered
    <2>3. fw' \in Firewall
      BY <1>0, <1>c, <2>1, FwRemoveType
    <2>4. \A x \in db : x.key # r.key => Covered(fw', x)
      BY <1>0, <1>b, <1>c, <2>1, <2>2, <2>3, RemovedRules, CoveredSame
    <2> QED
      BY <1>0, <1>a, <1>c, <2>1, <2>2, <2>4
      DEF ConfinedAt, ImportAt, UpdateAt, OtherAt, Uncovered
  <1>3. CASE RotateRemove(t)
    <2>1. /\ pc[t] = "rremove" /\ pc'[t] = "radd" /\ job'[t] = j
          /\ UNCHANGED <<db, fw>> /\ kernel' = RemovePeers(kernel, {r.key})
      BY <1>0, <1>3, StepLocals DEF RotateRemove, Try, Fault
    <2>2. \A x \in db : Fits(kernel, x) /\ (x.key # r.key => Covered(fw, x))
      BY <1>a, <2>1 DEF ConfinedAt, Rerouting, Uncovered
    <2>3. \A x \in db : Fits(kernel', x)
      BY <1>0, <1>b, <2>1, <2>2, FitsRemoved
    <2> QED
      BY <1>0, <1>a, <1>c, <2>1, <2>2, <2>3
      DEF ConfinedAt, ImportAt, UpdateAt, OtherAt, Uncovered
  <1>4. CASE RotateAdd(t)
    <2>1. /\ pc[t] = "radd" /\ pc'[t] = "rkey" /\ job'[t] = j
          /\ UNCHANGED <<db, fw>> /\ kernel' = ConfigureNew(kernel, j.new)
      BY <1>0, <1>4, StepLocals DEF RotateAdd
    <2>2. \A x \in db : Fits(kernel, x) /\ (x.key # r.key => Covered(fw, x))
      BY <1>a, <2>1 DEF ConfinedAt, Rerouting, Uncovered
    <2>3. 1 \in DOMAIN j.new /\ \A i, m \in DOMAIN j.new : i = m
      BY <1>d DEF RotJob
    <2>4. /\ Fits(kernel', n)
          /\ \A x \in Row : x.key \notin KeysOf(j.new) /\ Fits(kernel, x)
                               => Fits(kernel', x)
      BY <1>0, <2>1, <2>3, FitsNew
    <2>5. \A x \in db : x.key # n.key
      BY <1>d, <2>1 DEF RotRow, HasKey
    <2>6. \A x \in db : Fits(kernel', x)
      BY <1>b, <1>d, <2>2, <2>4, <2>5
    <2> QED
      BY <1>0, <1>a, <1>c, <2>1, <2>2, <2>4, <2>6
      DEF ConfinedAt, ImportAt, UpdateAt, OtherAt, Uncovered
  <1>5. CASE RotateKey(t)
    <2>1. /\ pc[t] = "rkey" /\ UNCHANGED <<kernel, fw>>
          /\ r \in db /\ ~ HasKey(db, n.key)
      BY <1>d, <1>5 DEF RotateKey, RotRow
    <2>2. HasKey(db, r.key)
      BY <2>1 DEF HasKey
    <2>3. PICK set : set = [x \in db |-> [x EXCEPT !.key = n.key]]
      OBVIOUS
    <2>4. /\ db' = UpdateRows(db, r.key, set)
          /\ Goto(t, IF r.psk = None THEN "conf" ELSE "rpsk")
      BY <1>5, <2>1, <2>2, <2>3 DEF RotateKey
    <2>5. pc'[t] \in {"conf", "rpsk"} /\ job'[t] = j
      BY <1>0, <2>4, StepLocals
    <2>6. /\ \A x \in db : Fits(kernel, x) /\ (x.key # r.key => Covered(fw, x))
          /\ Fits(kernel, n)
      BY <1>a, <2>1 DEF ConfinedAt, OtherAt, Rerouting, Uncovered
    <2>7. \A x \in db : /\ set[x].key = n.key /\ set[x].id = x.id
                        /\ set[x].addr = x.addr /\ set[x].ips = x.ips
      BY <1>b, <1>c, <2>3 DEF Row
    <2>8. Tidy(db', lastId')
      BY <1>0, <1>a, <1>f, <2>4, <2>7, TidyUpdated
    <2>9. \A x \in db' : (x \in db /\ x.key # r.key) \/ x = set[r]
      <3>1. \A x \in db : x.key = r.key => x = r
        BY <1>a, <2>1 DEF UniqueKeys
      <3> QED
        BY <2>4, <3>1, UpdatedRow
    <2>10. Fits(kernel, set[r]) /\ set[r].key = n.key
      BY <1>e, <2>1, <2>6, <2>7 DEF Fits, IPsOf
    <2>11. \A x \in db' : Fits(kernel, x) /\ (x.key # n.key => Covered(fw, x))
      BY <2>6, <2>9, <2>10
    <2> QED
      BY <1>c, <2>1, <2>5, <2>8, <2>11
      DEF ConfinedAt, ImportAt, UpdateAt, OtherAt, Uncovered
  <1>6. CASE RotatePsk(t)
    <2>1. pc[t] = "rpsk" /\ UNCHANGED <<kernel, fw>> /\ Moved(r, n.key) \in db
      BY <1>d, <1>6 DEF RotatePsk, RotRow
    <2>2. HasKey(db, n.key)
      <3>1. Moved(r, n.key).key = n.key
        BY <1>c DEF Moved, Row
      <3> QED
        BY <2>1, <3>1 DEF HasKey
    <2>3. PICK set : set = [x \in db |-> [x EXCEPT !.psk = n.psk]]
      OBVIOUS
    <2>4. db' = UpdateRows(db, n.key, set) /\ Goto(t, "conf")
      BY <1>6, <2>2, <2>3 DEF RotatePsk
    <2>5. pc'[t] = "conf" /\ job'[t] = j
      BY <1>0, <2>4, StepLocals
    <2>6. \A x \in db : Fits(kernel, x) /\ (x.key # n.key => Covered(fw, x))
      BY <1>a, <2>1 DEF ConfinedAt, Rerouting, Uncovered
    <2>7. \A x \in db : /\ set[x].key = x.key /\ set[x].id = x.id
                        /\ set[x].addr = x.addr /\ set[x].ips = x.ips
      BY <1>b, <2>3 DEF Row
    <2>8. Tidy(db', lastId')
      BY <1>0, <1>a, <1>f, <2>4, <2>7, TidyUpdated
    <2>9. \A x \in db : Fits(kernel, set[x])
      BY <2>6, <2>7 DEF Fits, IPsOf
    <2>10. \A x \in db' : Fits(kernel, x) /\ (x.key # n.key => Covered(fw, x))
      BY <2>4, <2>6, <2>7, <2>9, UpdatedRow
    <2> QED
      BY <1>c, <2>1, <2>5, <2>8, <2>10
      DEF ConfinedAt, ImportAt, UpdateAt, OtherAt, Uncovered
  <1>7. CASE RotateApply(t)
    <2>1. /\ pc[t] = "rapply" /\ pc'[t] = "idle" /\ job'[t] = NoJob
          /\ UNCHANGED <<db, kernel>> /\ fw' = FwApply(fw, n)
      BY <1>0, <1>7, StepLocals DEF RotateApply, Try
    <2>2. \A x \in db : Fits(kernel, x) /\ (x.key # n.key => Covered(fw, x))
      BY <1>a, <2>1 DEF ConfinedAt, Rerouting, Uncovered
    <2>3. fw' \in Firewall
      BY <1>0, <1>c, <2>1, FwApplyType
    <2>4. \A x \in db : x.key # n.key => Covered(fw', x)
      BY <1>0, <1>b, <1>c, <2>1, <2>2, <2>3, AppliedRules, CoveredSame
    <2>5. Covered(fw', n) /\ \A x \in db : x.key = n.key => x = n
      BY <1>0, <1>a, <1>c, <1>d, <2>1, AppliedRules DEF UniqueKeys, RotRow
    <2> QED
      BY <1>0, <1>a, <1>c, <2>1, <2>2, <2>4, <2>5
      DEF ConfinedAt, ImportAt, UpdateAt, OtherAt
  <1> QED
    BY <1>2, <1>3, <1>4, <1>5, <1>6, <1>7 DEF Rotate

LEMMA ConfinedRequest ==
    ASSUME SerialInv, ConfinedInv, NoFault, NEW t \in Threads,
           Request(t) \/ Pause(t)
    PROVE  /\ Tidy(db', lastId')
           /\ ConfinedAt(job'[t], pc'[t], db', kernel', fw')
  <1>0. /\ TypeInv /\ Shape(job[t], pc[t])
        /\ pc \in [Threads -> Steps] /\ job \in [Threads -> Job]
        /\ TableKeys(db) \subseteq used
    BY DEF SerialInv, TypeInv, Control, UsedInv
  <1>1. UNCHANGED <<db, lastId, kernel, fw>> /\ pc[t] \in {"idle", "pause"}
    BY DEF Request, CreatePeer, BatchCreatePeers, UpdatePeer, RotateKeys,
       ApprovePeer, DeletePeer, Accept, Pause, stores
  <1>2. /\ Tidy(db, lastId) /\ ConfinedAt(job[t], pc[t], db, kernel, fw)
        /\ \A r \in db : Fits(kernel, r) /\ Covered(fw, r)
    BY <1>1 DEF ConfinedInv, ConfinedAt, Rerouting, Uncovered
  <1>a. ASSUME ImportAt(job'[t], pc'[t], db, kernel, fw),
               UpdateAt(job'[t], pc'[t], db, kernel),
               OtherAt(job'[t], pc'[t], db, kernel)
        PROVE  /\ Tidy(db', lastId')
               /\ ConfinedAt(job'[t], pc'[t], db', kernel', fw')
    BY <1>1, <1>2, <1>a DEF ConfinedAt
  <1>b. ASSUME NEW op, NEW step \in {"fw", "pause"}, NEW new,
               ImportAccepted(t, op, step, new)
        PROVE  /\ Tidy(db', lastId')
               /\ ConfinedAt(job'[t], pc'[t], db', kernel', fw')
    <2>1. pc'[t] = step /\ job'[t] = Locals(op, None, new, None)
      BY <1>0, <1>b DEF ImportAccepted
    <2>2. job'[t].new = new /\ KeysOf(new) \cap TableKeys(db) = {}
      BY <1>0, <1>b, <2>1 DEF Locals, ImportAccepted
    <2> QED
      BY <1>a, <2>1, <2>2 DEF ImportAt, UpdateAt, OtherAt
  <1>3. CASE CreatePeer(t)
    <2>1. PICK new : ImportAccepted(t, "create", "fw", new)
      BY <1>0, <1>3, CreateRequest
    <2> QED
      BY <1>b, <2>1
  <1>4. CASE BatchCreatePeers(t)
    <2>1. PICK new : ImportAccepted(t, "batch", "pause", new)
      BY <1>0, <1>4, BatchRequest
    <2> QED
      BY <1>b, <2>1
  <1>5. CASE UpdatePeer(t)
    <2>1. PICK r \in db, q \in UpdateReqs :
             /\ q.addr # None => ~ ClientAddressTaken(db, q.addr, r.key)
             /\ Accept(t, Locals("update", r, <<>>, q),
                       IF q.addr \notin {None, r.addr} THEN "ukernel" ELSE "utune")
      BY <1>5 DEF UpdatePeer
    <2>2. /\ job'[t] = Locals("update", r, <<>>, q)
          /\ pc'[t] = IF q.addr \notin {None, r.addr} THEN "ukernel" ELSE "utune"
      BY <1>0, <2>1, StepLocals
    <2>3. job'[t].op = "update" /\ job'[t].row = r /\ job'[t].req = q
      BY <2>2 DEF Locals
    <2>4. pc'[t] = IF Shifts(job'[t]) THEN "ukernel" ELSE "utune"
      BY <2>2, <2>3 DEF Shifts
    <2> QED
      BY <1>a, <2>1, <2>3, <2>4 DEF ImportAt, UpdateAt, OtherAt
  <1>6. CASE RotateKeys(t) \/ DeletePeer(t)
    <2>1. job'[t].op \in {"rotate", "delete"} /\ pc'[t] \in {"rfw", "pause"}
      BY <1>0, <1>6 DEF RotateKeys, DeletePeer, Accept, Locals
    <2> QED
      BY <1>a, <2>1 DEF ImportAt, UpdateAt, OtherAt
  <1>7. CASE ApprovePeer(t)
    <2>0. PICK r \in db :
             \E j : Accept(t, j, "adb") /\ j.op = "approve" /\ j.row = r
      BY <1>7 DEF ApprovePeer, Locals
    <2>1. PICK j : Accept(t, j, "adb") /\ j.op = "approve" /\ j.row = r
      BY <2>0
    <2>2. pc'[t] = "adb" /\ job'[t] = j
      BY <1>0, <2>1, StepLocals
    <2> QED
      BY <1>a, <2>1, <2>2 DEF ImportAt, UpdateAt, OtherAt
  <1>8. CASE Pause(t)
    <2>1. /\ pc[t] = "pause" /\ job' = job
          /\ pc'[t] = IF job[t].op = "batch" THEN "fw" ELSE "dkernel"
      BY <1>0, <1>8 DEF Pause
    <2>2. job[t].op \in {"batch", "delete"}
      BY <1>0, <2>1 DEF Shape
    <2> QED
      BY <1>2, <1>a, <2>1, <2>2 DEF ConfinedAt, ImportAt, UpdateAt, OtherAt
  <1> QED
    BY <1>3, <1>4, <1>5, <1>6, <1>7, <1>8 DEF Request

LEMMA ConfinedStep ==
    ASSUME Undisturbed, SerialInv, RevokedInv, AddrInv, ConfinedInv, [Next]_vars
    PROVE  ConfinedInv'
  <1>0. /\ TypeInv /\ SerialEnv /\ BootAlone /\ Serial
        /\ \A t, s \in Threads : t = s
    BY DEF SerialInv, SerialEnv, BootInv, Undisturbed, Serial
  <1>1. phase = "up" /\ budget["crash"] = 0 /\ budget["iptables"] = 0
    BY DEF ConfinedInv
  <1>2. budget'["crash"] = 0 /\ budget'["iptables"] = 0
    <2>1. "crash" \in EnvKinds /\ "iptables" \in EnvKinds
      BY DEF EnvKinds
    <2>2. \A e \in EnvKinds : budget'[e] \in Nat /\ budget'[e] <= budget[e]
      BY <1>0, BudgetFalls
    <2> QED
      BY <1>1, <2>1, <2>2
  <1>3. \/ \E t \in Threads : Request(t) \/ Pause(t) \/ Handler(t)
        \/ UNCHANGED vars
    <2>1. ~ Reconcile /\ ~ FirewallSync
      BY <1>0, <1>1, NoPass
    <2>2. ~ Environment
      BY <1>0, NoSpend, NoRollbackFault
      DEF Environment, ForeignAdd, ForeignRemove, Crash
    <2> QED
      BY <2>1, <2>2 DEF Next
  <1>4. phase' = "up"
    BY <1>0, <1>1, <1>3, PhaseUp DEF vars
  <1>5. ASSUME NoFault'
        PROVE  /\ Tidy(db', lastId')
               /\ \A t \in Threads : ConfinedAt(job'[t], pc'[t], db', kernel', fw')
    <2>1. NoFault /\ ~ Fault
      BY <1>0, <1>5, NoFaultBefore
    <2>2. ASSUME NEW t \in Threads, Request(t) \/ Pause(t) \/ Handler(t)
          PROVE  /\ Tidy(db', lastId')
                 /\ ConfinedAt(job'[t], pc'[t], db', kernel', fw')
      BY <2>1, <2>2, ConfinedRequest, ConfinedImport, ConfinedUndo,
         ConfinedUpdate, ConfinedRotate, ConfinedApprove, ConfinedDelete
      DEF Handler
    <2>3. CASE UNCHANGED vars
      BY <2>1, <2>3 DEF vars, stores, ConfinedInv
    <2> QED
      BY <1>0, <1>3, <2>2, <2>3
  <1> QED
    BY <1>1, <1>2, <1>4, <1>5 DEF ConfinedInv

LEMMA ConfinedInit ==
    ASSUME Undisturbed, Init
    PROVE  ConfinedInv
  <1>0. /\ db = InitRows /\ lastId = Cardinality(InitRows)
        /\ InitRows \subseteq Row /\ UniqueKeys(InitRows)
    BY AgentAssumption DEF Init, UniqueKeys
  <1>1. budget["crash"] = 0 /\ budget["iptables"] = 0 /\ phase = "up"
    BY DEF Init, Undisturbed
  <1>2. Tidy(db, lastId)
    <2>1. Cardinality(InitRows) \in Nat
      BY AgentAssumption, FS_CardinalityType
    <2>2. \A r \in InitRows : r.id <= Cardinality(InitRows)
      BY <2>1, AgentAssumption
    <2>3. \A q, r \in InitRows : q.id = r.id => q = r
      BY AgentAssumption
    <2>4. \A r \in InitRows : r.addr = None => r.ips = None
      BY DEF Undisturbed
    <2> QED
      BY <1>0, <2>2, <2>3, <2>4 DEF Tidy
  <1>3. ASSUME NEW r \in db PROVE Fits(kernel, r)
    <2> SUFFICES ASSUME kernel[r.key] # None
                 PROVE  kernel[r.key].ips = IPsOf(r)
      BY DEF Fits
    <2>1. r \in InitRows /\ r.key \in Keys
      BY <1>0 DEF Row
    <2>2. RowOf(InitRows, r.key) = r
      BY <1>0, <2>1 DEF RowOf, UniqueKeys
    <2>3. kernel[r.key] = [ips |-> IPsOf(RowOf(InitRows, r.key)),
                           psk |-> RowOf(InitRows, r.key).psk]
      BY <2>1 DEF Init
    <2> QED
      BY <2>2, <2>3
  <1>4. ASSUME NEW r \in db PROVE Covered(fw, r)
    <2> SUFFICES ASSUME r.enabled, r.addr # None PROVE Ruled(fw, r)
      BY DEF Covered
    <2>1. /\ r \in InitRows /\ r.key \in Keys /\ r.addr \in Addrs
          /\ r.allow \in Allows \cup {None}
      BY <1>0 DEF Row
    <2> DEFINE of(k) == CHOOSE q \in InitRows : q.key = k
               E == [chain |-> [k \in Keys |-> None], jumps |-> {}]
    <2>2. of(r.key) = r
      BY <1>0, <2>1 DEF UniqueKeys
    <2>3. /\ fw.jumps = {<<HostOf[q.addr], q.key>> :
                            q \in {p \in InitRows : p.enabled /\ p.addr # None}}
          /\ fw.chain = [k \in Keys |->
                           IF ~ HasKey(InitRows, k) \/ ~ of(k).enabled THEN None
                           ELSE IF of(k).addr = None THEN E.chain[k]
                           ELSE [src |-> HostOf[of(k).addr],
                                 allow |-> of(k).allow]]
      BY DEF Init, FwSync
    <2>4. HasKey(InitRows, r.key)
      BY <2>1 DEF HasKey
    <2> HIDE DEF of, E
    <2>5. fw.chain[r.key] = [src |-> HostOf[r.addr], allow |-> r.allow]
      BY <2>1, <2>2, <2>3, <2>4
    <2>6. fw.chain[r.key] \notin {None, Flushed}
      BY <2>1, <2>5, RulesRuled
    <2>7. <<HostOf[r.addr], r.key>> \in fw.jumps
      BY <2>1, <2>3
    <2> QED
      BY <2>6, <2>7 DEF Ruled
  <1>5. ASSUME NEW t \in Threads
        PROVE  ConfinedAt(job[t], pc[t], db, kernel, fw)
    <2>1. pc[t] = "idle" /\ job[t].op = "none"
      BY DEF Init, NoJob, Locals
    <2> QED
      BY <1>3, <1>4, <2>1 DEF ConfinedAt, ImportAt, UpdateAt, OtherAt
  <1> QED
    BY <1>1, <1>2, <1>5 DEF ConfinedInv

-----------------------------------------------------------------------------
(* Nobody else decides.  A jump for a host is one of an enabled row with an *)
(* address of that host (Owned), except those of the handler that is at     *)
(* work (Passing): the rules of an import go in before its rows, those of a *)
(* peer that is moved, disabled or deleted go out after its row has changed.*)
(* Addresses are unique in the table, so that with no host shared by two    *)
(* addresses the jumps for the host of a peer lead to its chain only.       *)

UniqueAddrs(D) == \A q, r \in D : q.addr = r.addr /\ q.addr # None => q = r

Jump(r) == <<HostOf[r.addr], r.key>>

Owned(D, m) == \E x \in D : x.enabled /\ x.addr # None /\ m = Jump(x)

Passing(j, step, D, m) ==
    \/ /\ step \in {"kernel", "insert"} \/ (step = "undo" /\ Head(j.undo) = "fw")
       /\ \E i \in DOMAIN j.new : m = Jump(j.new[i])
    \/ /\ step \in {"ufw", "dfw"}
       /\ j.row.addr # None /\ m = Jump(j.row)
    \/ /\ step \in {"reread", "apply"}
       /\ \E x \in D : x.key = j.row.key /\ x.addr # None /\ m = Jump(x)

OwnedAt(j, step, D, F) ==
    /\ \A m \in F.jumps : Owned(D, m) \/ Passing(j, step, D, m)
    /\ step \in {"rremove", "radd", "rkey"} => \A m \in F.jumps : m[2] # j.row.key
    /\ step = "adb" => ~ j.row.enabled
    /\ step \in {"pause", "dkernel", "ddb"} /\ j.op = "delete" => j.row \in D

OwnedInv ==
    NoFault => /\ UniqueAddrs(db)
               /\ \A t \in Threads : OwnedAt(job[t], pc[t], db, fw)

\* When every jump is owned, so it is at a step without an exception.
LEMMA OwnedSimple ==
    ASSUME NEW j, NEW step, NEW D, NEW F, \A m \in F.jumps : Owned(D, m),
           step \notin {"rremove", "radd", "rkey", "adb"},
           step \in {"pause", "dkernel", "ddb"} => j.op # "delete"
    PROVE  OwnedAt(j, step, D, F)
  BY DEF OwnedAt

\* An UPDATE of rows that have no jump, or that keep what their jumps are for.
LEMMA OwnedUpdated ==
    ASSUME NEW D, NEW k, NEW set, NEW m, Owned(D, m),
           \A x \in D : x.key = k /\ m = Jump(x) =>
              /\ set[x].key = k /\ set[x].addr = x.addr
              /\ set[x].enabled = x.enabled
    PROVE  Owned(UpdateRows(D, k, set), m)
  <1>1. PICK x \in D : x.enabled /\ x.addr # None /\ m = Jump(x)
    BY DEF Owned
  <1>2. CASE x.key = k
    <2>1. set[x] \in UpdateRows(D, k, set)
      BY <1>2, RowUpdated
    <2>2. set[x].key = x.key /\ set[x].addr = x.addr /\ set[x].enabled = x.enabled
      BY <1>1, <1>2
    <2>3. Jump(set[x]) = Jump(x)
      BY <2>2 DEF Jump
    <2> QED
      BY <1>1, <2>1, <2>2, <2>3 DEF Owned
  <1>3. CASE x.key # k
    <2>1. x \in UpdateRows(D, k, set)
      BY <1>3 DEF UpdateRows
    <2> QED
      BY <1>1, <2>1 DEF Owned
  <1> QED
    BY <1>2, <1>3

\* An UPDATE that leaves addresses alone, or sets one that is free.
LEMMA AddrsUpdated ==
    ASSUME NEW D, NEW k, NEW set, UniqueKeys(D), UniqueAddrs(D),
           \A r \in D : r.key = k =>
              \/ set[r].addr = r.addr
              \/ ~ ClientAddressTaken(D, set[r].addr, k)
    PROVE  UniqueAddrs(UpdateRows(D, k, set))
  <1> DEFINE to(r) == IF r.key = k THEN set[r] ELSE r
  <1>1. UpdateRows(D, k, set) = {to(r) : r \in D}
    BY DEF UpdateRows
  <1>2. ASSUME NEW q \in D, NEW r \in D, to(q).addr = to(r).addr, to(q).addr # None
        PROVE  q = r
    <2>1. CASE q.key = k /\ r.key = k
      BY <2>1 DEF UniqueKeys
    <2>2. CASE q.key # k /\ r.key # k
      BY <1>2, <2>2 DEF UniqueAddrs
    <2>3. CASE q.key = k /\ r.key # k
      BY <1>2, <2>3 DEF UniqueAddrs, ClientAddressTaken
    <2>4. CASE q.key # k /\ r.key = k
      BY <1>2, <2>4 DEF UniqueAddrs, ClientAddressTaken
    <2> QED
      BY <2>1, <2>2, <2>3, <2>4
  <1> HIDE DEF to
  <1> QED
    BY <1>1, <1>2 DEF UniqueAddrs

\* The INSERT of an import that the unique indexes let pass.
LEMMA OwnedInserted ==
    ASSUME NEW D \in SUBSET Row, NEW last, NEW new, Fresh(new),
           ~ InsertConflict(D, new), UniqueAddrs(D)
    PROVE  /\ UniqueAddrs(InsertRows(D, last, new))
           /\ \A m : Owned(D, m) => Owned(InsertRows(D, last, new), m)
           /\ \A i \in DOMAIN new : Owned(InsertRows(D, last, new), Jump(new[i]))
  <1> DEFINE row(i) == [new[i] EXCEPT !.id = last + i]
  <1>1. ASSUME NEW i \in DOMAIN new
        PROVE  /\ row(i).key = new[i].key /\ row(i).addr = new[i].addr
               /\ row(i).enabled /\ row(i).addr # None
    <2>1. new[i] \in Row /\ new[i].addr # None /\ new[i].enabled
      BY StoresAssumption DEF Fresh
    <2>2. /\ row(i).key = new[i].key /\ row(i).addr = new[i].addr
          /\ row(i).enabled = new[i].enabled
      BY <2>1 DEF Row
    <2> QED
      BY <2>1, <2>2
  <1>2. InsertRows(D, last, new) = D \cup {row(i) : i \in DOMAIN new}
    BY DEF InsertRows
  <1> HIDE DEF row
  <1>3. UniqueAddrs(InsertRows(D, last, new))
    <2>1. ASSUME NEW i \in DOMAIN new, NEW r \in D PROVE r.addr # row(i).addr
      BY <1>1, <2>1 DEF InsertConflict
    <2>2. ASSUME NEW i \in DOMAIN new, NEW j \in DOMAIN new,
                 row(i).addr = row(j).addr
          PROVE  i = j
      BY <1>1, <2>2 DEF InsertConflict
    <2> QED
      BY <1>2, <2>1, <2>2 DEF UniqueAddrs
  <1>4. ASSUME NEW m, Owned(D, m) PROVE Owned(InsertRows(D, last, new), m)
    BY <1>2, <1>4 DEF Owned
  <1>5. ASSUME NEW i \in DOMAIN new
        PROVE  Owned(InsertRows(D, last, new), Jump(new[i]))
    <2>1. row(i) \in InsertRows(D, last, new) /\ Jump(row(i)) = Jump(new[i])
      BY <1>1, <1>2 DEF Jump
    <2> QED
      BY <1>1, <2>1 DEF Owned
  <1> QED
    BY <1>3, <1>4, <1>5

\* The jumps that RemovePeer and ApplyPeer leave.
LEMMA JumpsRemoved ==
    ASSUME NEW F \in Firewall, NEW r \in Row, NEW m \in FwRemove(F, r).jumps
    PROVE  /\ m \in F.jumps
           /\ m[2] # r.key \/ (r.addr # None /\ m # Jump(r))
  <1>1. /\ m \in F.jumps
        /\ ~ (m[2] = r.key /\ (r.addr = None \/ m[1] = HostOf[r.addr]))
    BY DEF FwRemove
  <1> QED
    BY <1>1 DEF Jump

LEMMA JumpsApplied ==
    ASSUME NEW F \in Firewall, NEW r \in Row, NEW m \in FwApply(F, r).jumps
    PROVE  \/ r.enabled /\ r.addr # None /\ m = Jump(r)
           \/ /\ m \in F.jumps
              /\ r.enabled \/ m[2] # r.key \/ (r.addr # None /\ m # Jump(r))
  <1>1. CASE ~ r.enabled
    BY <1>1, JumpsRemoved DEF FwApply
  <1>2. CASE r.enabled
    BY <1>2 DEF FwApply, Jump
  <1> QED
    BY <1>1, <1>2

\* CreatePeer and BatchCreatePeers.
LEMMA OwnedImport ==
    ASSUME Undisturbed, SerialInv, AddrInv, ConfinedInv, OwnedInv, NoFault,
           ~ Fault, NEW t \in Threads, Import(t)
    PROVE  UniqueAddrs(db') /\ OwnedAt(job'[t], pc'[t], db', fw')
  <1> DEFINE j == job[t]
  <1>0. /\ TypeInv /\ Shape(j, pc[t]) /\ db \in SUBSET Row
        /\ ~ Spend("iptables")
    BY NoSpend DEF SerialInv, TypeInv, Control, Stores
  <1>a. UniqueAddrs(db) /\ OwnedAt(j, pc[t], db, fw)
    BY DEF OwnedInv
  <1>1. CASE ImportFirewall(t)
    <2>1. /\ pc[t] = "fw" /\ pc'[t] = "kernel" /\ job'[t] = j /\ db' = db
          /\ fw' = FwApplyNew(fw, NewRows(t))
      BY <1>0, <1>1, StepLocals DEF ImportFirewall, Try
    <2>2. fw'.jumps = fw.jumps \cup {<<HostOf[r.addr], r.key>> : r \in NewRows(t)}
      BY <2>1 DEF FwApplyNew
    <2>3. \A m \in fw.jumps : Owned(db, m)
      BY <1>a, <2>1 DEF OwnedAt, Passing
    <2>4. ASSUME NEW m \in fw'.jumps, ~ Owned(db, m)
          PROVE  \E i \in DOMAIN j.new : m = Jump(j.new[i])
      BY <2>2, <2>3, <2>4 DEF NewRows, Jump
    <2> QED
      BY <1>a, <2>1, <2>4 DEF OwnedAt, Passing
  <1>2. CASE ImportKernel(t)
    <2>1. /\ pc[t] = "kernel" /\ pc'[t] = "insert" /\ job'[t] = j
          /\ UNCHANGED <<db, fw>>
      BY <1>0, <1>2, StepLocals DEF ImportKernel
    <2> QED
      BY <1>a, <2>1 DEF OwnedAt, Passing
  <1>3. CASE ImportInsert(t)
    <2>1. pc[t] = "insert" /\ fw' = fw
      BY <1>3 DEF ImportInsert
    <2>2. \A m \in fw.jumps : Owned(db, m) \/ \E i \in DOMAIN j.new : m = Jump(j.new[i])
      BY <1>a, <2>1 DEF OwnedAt, Passing
    <2>3. CASE /\ ~ InsertConflict(db, j.new) /\ Goto(t, "conf")
               /\ db' = InsertRows(db, lastId, j.new)
      <3>1. pc'[t] = "conf" /\ job'[t] = j
        BY <1>0, <2>3, StepLocals
      <3>2. Fresh(j.new)
        BY <1>0, <2>1 DEF AddrInv, RowRead, Shape
      <3>3. /\ UniqueAddrs(db')
            /\ \A m : Owned(db, m) => Owned(db', m)
            /\ \A i \in DOMAIN j.new : Owned(db', Jump(j.new[i]))
        BY <1>0, <1>a, <2>3, <3>2, OwnedInserted
      <3>4. \A m \in fw'.jumps : Owned(db', m)
        BY <2>1, <2>2, <3>3
      <3> QED
        BY <3>1, <3>3, <3>4, OwnedSimple
    <2>4. CASE Unwind(t, <<"fw", "kernel">>) /\ UNCHANGED <<db, lastId>>
      <3>1. pc'[t] = "undo" /\ job'[t].new = j.new /\ job'[t].undo = <<"fw", "kernel">>
        BY <1>0, <2>4, StepLocals DEF SameLocals
      <3>2. Head(job'[t].undo) = "fw"
        BY <3>1, RollbackTails
      <3> QED
        BY <1>a, <2>1, <2>2, <2>4, <3>1, <3>2 DEF OwnedAt, Passing
    <2> QED
      BY <1>3, <2>3, <2>4 DEF ImportInsert
  <1>4. CASE ConfWrite(t)
    <2>1. pc[t] = "conf" /\ UNCHANGED <<db, fw>>
      BY <1>4 DEF ConfWrite, stores
    <2>2. \A m \in fw'.jumps : Owned(db', m)
      BY <1>a, <2>1 DEF OwnedAt, Passing
    <2>3. pc'[t] \in {"rapply", "idle"}
      BY <1>0, <1>4, StepLocals DEF ConfWrite
    <2> QED
      BY <1>a, <2>1, <2>2, <2>3, OwnedSimple
  <1> QED
    BY <1>1, <1>2, <1>3, <1>4 DEF Import

\* The rollback of an import that the unique index has refused.
LEMMA OwnedUndo ==
    ASSUME Undisturbed, SerialInv, RevokedInv, ConfinedInv, OwnedInv, NoFault,
           ~ Fault, NEW t \in Threads, Undo(t)
    PROVE  UniqueAddrs(db') /\ OwnedAt(job'[t], pc'[t], db', fw')
  <1> DEFINE j == job[t]
  <1>0. TypeInv /\ ~ Spend("iptables")
    BY NoSpend DEF SerialInv
  <1>a. UniqueAddrs(db) /\ OwnedAt(j, pc[t], db, fw)
    BY DEF OwnedInv
  <1>1. pc[t] = "undo" /\ NextUndo(t)
    BY DEF Undo, UndoFirewall, UndoDB, UndoKernel, UndoKey, UndoPsk, UndoOld,
       Unwinding
  <1>2. j.undo \in {<<"fw", "kernel">>, <<"kernel">>}
    BY <1>1 DEF Revoking, RevokedInv, ConfinedInv
  <1>3. Head(j.undo) \in {"fw", "kernel"}
    BY <1>2, RollbackTails
  <1>4. UndoFirewall(t) \/ UndoKernel(t)
    BY <1>3 DEF Undo, UndoDB, UndoKey, UndoPsk, UndoOld, Unwinding
  <1>5. db' = db /\ pc'[t] \in {"undo", "idle"}
    BY <1>0, <1>1, <1>4, StepLocals DEF UndoFirewall, UndoKernel
  <1>6. \A m \in fw'.jumps : Owned(db, m)
    <2>1. CASE UndoFirewall(t)
      <3>1. fw' = FwRemoveNew(fw, NewRows(t))
        BY <1>0, <2>1 DEF UndoFirewall, Try
      <3>2. fw'.jumps = fw.jumps \ {<<HostOf[r.addr], r.key>> : r \in NewRows(t)}
        BY <3>1 DEF FwRemoveNew
      <3>3. \A m \in fw.jumps :
               Owned(db, m) \/ \E i \in DOMAIN j.new : m = Jump(j.new[i])
        BY <1>1, <1>a DEF OwnedAt, Passing
      <3> QED
        BY <3>2, <3>3 DEF NewRows, Jump
    <2>2. CASE UndoKernel(t)
      <3>1. Head(j.undo) # "fw" /\ fw' = fw
        BY <2>2 DEF UndoKernel, Unwinding
      <3> QED
        BY <1>1, <1>a, <3>1 DEF OwnedAt, Passing
    <2> QED
      BY <1>4, <2>1, <2>2
  <1> QED
    BY <1>5, <1>6, <1>a, OwnedSimple

\* UpdatePeer, and the end of ApprovePeer.
LEMMA OwnedUpdate ==
    ASSUME Undisturbed, SerialInv, AddrInv, ConfinedInv, OwnedInv, NoFault,
           ~ Fault, NEW t \in Threads, Update(t)
    PROVE  UniqueAddrs(db') /\ OwnedAt(job'[t], pc'[t], db', fw')
  <1> DEFINE j == job[t]
             k == job[t].row.key
             q == job[t].req
  <1>0. /\ TypeInv /\ Shape(j, pc[t]) /\ db \in SUBSET Row /\ fw \in Firewall
        /\ ~ Spend("iptables")
    BY NoSpend DEF SerialInv, TypeInv, Control, Stores
  <1>a. /\ UniqueAddrs(db) /\ OwnedAt(j, pc[t], db, fw)
        /\ Tidy(db, lastId) /\ ConfinedAt(j, pc[t], db, kernel, fw)
        /\ UniqueKeys(db) /\ Knows(j, pc[t], db)
    BY DEF OwnedInv, ConfinedInv, AddrInv, SerialInv, TableInv
  <1>b. j.op \in {"update", "approve"} /\ j.row \in Row /\ q \in UpdateReq
    BY <1>0 DEF Shape, Update, UpdateKernel, UpdateTune, UpdateDB,
       UpdateFirewall, Reread, ApplyReread
  <1>1. CASE UpdateKernel(t) \/ UpdateTune(t)
    <2>1. pc[t] \in {"ukernel", "utune"} /\ UNCHANGED <<db, fw>>
      BY <1>1 DEF UpdateKernel, UpdateTune
    <2>2. \A m \in fw.jumps : Owned(db, m)
      BY <1>a, <2>1 DEF OwnedAt, Passing
    <2>3. pc'[t] \in {"utune", "udb", "idle"}
      BY <1>0, <1>1, StepLocals DEF UpdateKernel, UpdateTune
    <2> QED
      BY <1>a, <2>1, <2>2, <2>3, OwnedSimple
  <1>2. CASE UpdateDB(t)
    <2>1. pc[t] = "udb" /\ fw' = fw /\ j.row \in db
      BY <1>2, <1>a DEF UpdateDB, Knows
    <2>2. \A m \in fw.jumps : Owned(db, m)
      BY <1>a, <2>1 DEF OwnedAt, Passing
    <2>3. CASE db' = db /\ Return(t)
      <3>1. pc'[t] = "idle"
        BY <1>0, <2>3, StepLocals
      <3> QED
        BY <1>a, <2>1, <2>2, <2>3, <3>1, OwnedSimple
    <2>4. PICK set : set = [r \in db |->
                     [r EXCEPT
                        !.addr    = IF q.addr = None THEN @ ELSE q.addr,
                        !.ips     = IF Moves(t) THEN HostOf[q.addr] ELSE @,
                        !.allow   = IF q.allow = None THEN @ ELSE q.allow,
                        !.enabled = IF q.enable = "keep" THEN @
                                                         ELSE q.enable = "on"]]
      OBVIOUS
    <2>5. CASE /\ q.addr # None => ~ ClientAddressTaken(db, q.addr, k)
               /\ db' = UpdateRows(db, k, set)
               /\ IF ~ FirewallRelevant(q) THEN Return(t)
                  ELSE Goto(t, IF Moves(t) THEN "ufw" ELSE "reread")
      <3>1. \A r \in db : /\ set[r].key = r.key
                          /\ set[r].addr = IF q.addr = None THEN r.addr ELSE q.addr
                          /\ q.enable = "keep" => set[r].enabled = r.enabled
        BY <1>0, <2>4 DEF Row
      <3>2. UniqueAddrs(db')
        BY <1>a, <2>5, <3>1, AddrsUpdated
      <3>3. \A r \in db : r.key = k => r = j.row
        BY <1>a, <2>1 DEF UniqueKeys
      <3>4. ASSUME NEW m \in fw.jumps, ~ Owned(db', m)
            PROVE  j.row.addr # None /\ m = Jump(j.row)
        <4>1. PICK x \in db : x.enabled /\ x.addr # None /\ m = Jump(x)
          BY <2>2 DEF Owned
        <4>2. CASE x.key = k
          BY <3>3, <4>1, <4>2
        <4>3. CASE x.key # k
          <5>1. \A y \in db : y.key = k => m # Jump(y)
            BY <4>1, <4>3 DEF Jump
          <5> QED
            BY <2>2, <2>5, <3>4, <5>1, OwnedUpdated
        <4> QED
          BY <4>2, <4>3
      <3>5. CASE ~ FirewallRelevant(q)
        <4>1. pc'[t] = "idle"
          BY <1>0, <2>5, <3>5, StepLocals
        <4>2. q.addr = None /\ q.enable = "keep"
          BY <3>5 DEF FirewallRelevant
        <4>3. \A m \in fw.jumps : Owned(db', m)
          BY <2>2, <2>5, <3>1, <4>2, OwnedUpdated
        <4> QED
          BY <2>1, <3>2, <4>1, <4>3, OwnedSimple
      <3>6. CASE FirewallRelevant(q) /\ Moves(t)
        <4>1. pc'[t] = "ufw" /\ job'[t] = j
          BY <1>0, <2>5, <3>6, StepLocals
        <4> QED
          BY <2>1, <3>2, <3>4, <4>1 DEF OwnedAt, Passing
      <3>7. CASE FirewallRelevant(q) /\ ~ Moves(t)
        <4>1. pc'[t] = "reread" /\ job'[t] = j
          BY <1>0, <2>5, <3>7, StepLocals
        <4>2. /\ set[j.row] \in db' /\ set[j.row].key = k
              /\ set[j.row].addr = j.row.addr
          BY <2>1, <2>5, <3>1, <3>7, RowUpdated DEF Moves
        <4>3. Jump(set[j.row]) = Jump(j.row)
          BY <4>2 DEF Jump
        <4> QED
          BY <2>1, <3>2, <3>4, <4>1, <4>2, <4>3 DEF OwnedAt, Passing
      <3> QED
        BY <3>5, <3>6, <3>7
    <2> QED
      BY <1>2, <2>3, <2>4, <2>5 DEF UpdateDB
  <1>3. CASE UpdateFirewall(t)
    <2>1. /\ pc[t] = "ufw" /\ pc'[t] = "reread" /\ db' = db
          /\ fw' = FwRemove(fw, j.row)
      BY <1>0, <1>3, StepLocals DEF UpdateFirewall, Try
    <2>2. ASSUME NEW m \in fw'.jumps PROVE Owned(db, m)
      <3>1. /\ m \in fw.jumps
            /\ m[2] # k \/ (j.row.addr # None /\ m # Jump(j.row))
        BY <1>0, <1>b, <2>1, JumpsRemoved
      <3> QED
        BY <1>a, <2>1, <3>1 DEF OwnedAt, Passing, Jump
    <2> QED
      BY <1>a, <2>1, <2>2, OwnedSimple
  <1>4. CASE Reread(t)
    <2>1. pc[t] = "reread" /\ UNCHANGED <<db, fw>>
      BY <1>4 DEF Reread, stores
    <2>2. PICK x \in db : SameRow(x, j.row)
      BY <1>a, <2>1 DEF ConfinedAt, UpdateAt
    <2>3. PICK r \in db : /\ r.id = j.row.id /\ pc' = [pc EXCEPT ![t] = "apply"]
                          /\ job' = [job EXCEPT ![t].row = r]
      BY <1>4, <2>2 DEF Reread, SameRow
    <2>4. r.key = k
      BY <1>a, <2>2, <2>3 DEF Tidy, SameRow
    <2>5. pc'[t] = "apply" /\ job'[t].row = r
      BY <1>0, <2>3 DEF TypeInv, Control, Job
    <2> QED
      BY <1>a, <2>1, <2>4, <2>5 DEF OwnedAt, Passing
  <1>5. CASE ApplyReread(t)
    <2>1. /\ pc[t] = "apply" /\ pc'[t] = "idle" /\ db' = db
          /\ fw' = FwApply(fw, j.row)
      BY <1>0, <1>5, StepLocals DEF ApplyReread, Try
    <2>2. j.row \in db /\ \A x \in db : x.key = k => x = j.row
      BY <1>a, <2>1 DEF ConfinedAt, UpdateAt, UniqueKeys
    <2>3. ASSUME NEW m \in fw'.jumps PROVE Owned(db, m)
      <3>1. \/ j.row.enabled /\ j.row.addr # None /\ m = Jump(j.row)
            \/ /\ m \in fw.jumps
               /\ \/ j.row.enabled \/ m[2] # k
                  \/ (j.row.addr # None /\ m # Jump(j.row))
        BY <1>0, <1>b, <2>1, JumpsApplied
      <3>2. CASE j.row.enabled /\ j.row.addr # None /\ m = Jump(j.row)
        BY <2>2, <3>2 DEF Owned
      <3>3. CASE /\ m \in fw.jumps
                 /\ \/ j.row.enabled \/ m[2] # k
                    \/ (j.row.addr # None /\ m # Jump(j.row))
        <4>1. \/ Owned(db, m)
              \/ j.row.addr # None /\ m = Jump(j.row)
          BY <1>a, <2>1, <2>2, <3>3 DEF OwnedAt, Passing
        <4>2. CASE j.row.addr # None /\ m = Jump(j.row)
          <5>1. j.row.enabled
            BY <3>3, <4>2 DEF Jump
          <5> QED
            BY <2>2, <4>2, <5>1 DEF Owned
        <4> QED
          BY <4>1, <4>2
      <3> QED
        BY <3>1, <3>2, <3>3
    <2> QED
      BY <1>a, <2>1, <2>3, OwnedSimple
  <1> QED
    BY <1>1, <1>2, <1>3, <1>4, <1>5 DEF Update

\* ApprovePeer: a row that waits for approval has no jump.
LEMMA OwnedApprove ==
    ASSUME Undisturbed, SerialInv, AddrInv, ConfinedInv, OwnedInv, NoFault,
           ~ Fault, NEW t \in Threads, Approve(t)
    PROVE  UniqueAddrs(db') /\ OwnedAt(job'[t], pc'[t], db', fw')
  <1> DEFINE j == job[t]
             k == job[t].row.key
             q == job[t].req
  <1>0. TypeInv /\ db \in SUBSET Row /\ fw' = fw
    BY DEF SerialInv, TypeInv, Stores, Approve, ApproveDB, ApproveFlag,
       ApproveKernel
  <1>a. /\ UniqueAddrs(db) /\ OwnedAt(j, pc[t], db, fw)
        /\ ConfinedAt(j, pc[t], db, kernel, fw) /\ UniqueKeys(db)
    BY DEF OwnedInv, ConfinedInv, AddrInv
  <1>b. \A m \in fw.jumps : Owned(db, m)
    BY <1>a DEF OwnedAt, Passing, Approve, ApproveDB, ApproveFlag, ApproveKernel
  <1>c. ASSUME db' = db, pc'[t] \in {"idle", "reread"}
        PROVE  UniqueAddrs(db') /\ OwnedAt(job'[t], pc'[t], db', fw')
    BY <1>0, <1>a, <1>b, <1>c, OwnedSimple
  <1>1. CASE ApproveDB(t)
    <2>1. pc[t] = "adb"
      BY <1>1 DEF ApproveDB
    <2>2. j.row \in db /\ ~ j.row.enabled
      BY <1>a, <2>1 DEF ConfinedAt, UpdateAt, OwnedAt
    <2>3. PICK set : set = [r \in db |-> [r EXCEPT !.addr = q.addr,
                                                   !.ips = HostOf[q.addr],
                                                   !.allow = q.allow,
                                                   !.enabled = TRUE]]
      OBVIOUS
    <2>4. CASE db' = db /\ Return(t)
      BY <1>0, <1>c, <2>4, StepLocals
    <2>5. CASE /\ ~ ClientAddressTaken(db, q.addr, k)
               /\ db' = UpdateRows(db, k, set) /\ Goto(t, "aflag")
      <3>1. pc'[t] = "aflag"
        BY <1>0, <2>5, StepLocals
      <3>2. \A r \in db : set[r].addr = q.addr
        BY <1>0, <2>3 DEF Row
      <3>3. UniqueAddrs(db')
        BY <1>a, <2>5, <3>2, AddrsUpdated
      <3>4. ASSUME NEW m \in fw.jumps PROVE Owned(db', m)
        <4>1. PICK x \in db : x.enabled /\ x.addr # None /\ m = Jump(x)
          BY <1>b DEF Owned
        <4>2. x.key # k
          BY <1>a, <2>2, <4>1 DEF UniqueKeys
        <4>3. \A y \in db : y.key = k => m # Jump(y)
          BY <4>1, <4>2 DEF Jump
        <4> QED
          BY <1>b, <2>5, <4>3, OwnedUpdated
      <3> QED
        BY <1>0, <3>1, <3>3, <3>4, OwnedSimple
    <2> QED
      BY <1>1, <2>3, <2>4, <2>5 DEF ApproveDB
  <1>2. CASE ApproveFlag(t)
    <2>1. CASE db' = db /\ Return(t)
      BY <1>0, <1>c, <2>1, StepLocals
    <2>2. PICK set : set = [r \in db |-> [r EXCEPT !.enabled = TRUE,
                                                   !.auto = FALSE]]
      OBVIOUS
    <2>3. CASE db' = UpdateRows(db, k, set) /\ Goto(t, "akernel")
      <3>1. pc'[t] = "akernel"
        BY <1>0, <2>3, StepLocals
      <3>2. \A r \in db : /\ set[r].addr = r.addr /\ set[r].key = r.key
                          /\ set[r].enabled
        BY <1>0, <2>2 DEF Row
      <3>3. UniqueAddrs(db')
        BY <1>a, <2>3, <3>2, AddrsUpdated
      <3>4. ASSUME NEW m \in fw.jumps PROVE Owned(db', m)
        <4>1. PICK x \in db : x.enabled /\ x.addr # None /\ m = Jump(x)
          BY <1>b DEF Owned
        <4>2. CASE x.key = k
          <5>1. set[x] \in db' /\ Jump(set[x]) = Jump(x)
            BY <2>3, <3>2, <4>2, RowUpdated DEF Jump
          <5> QED
            BY <3>2, <4>1, <5>1 DEF Owned
        <4>3. CASE x.key # k
          <5>1. x \in db'
            BY <2>3, <4>3 DEF UpdateRows
          <5> QED
            BY <4>1, <5>1 DEF Owned
        <4> QED
          BY <4>2, <4>3
      <3> QED
        BY <1>0, <3>1, <3>3, <3>4, OwnedSimple
    <2> QED
      BY <1>2, <2>1, <2>2, <2>3 DEF ApproveFlag
  <1>3. CASE ApproveKernel(t)
    <2>1. db' = db /\ pc'[t] = "reread"
      BY <1>0, <1>3, StepLocals DEF ApproveKernel
    <2> QED
      BY <1>c, <2>1
  <1> QED
    BY <1>1, <1>2, <1>3 DEF Approve

\* DeletePeer.
LEMMA OwnedDelete ==
    ASSUME Undisturbed, SerialInv, AddrInv, ConfinedInv, OwnedInv, NoFault,
           ~ Fault, NEW t \in Threads, Delete(t)
    PROVE  UniqueAddrs(db') /\ OwnedAt(job'[t], pc'[t], db', fw')
  <1> DEFINE j == job[t]
             k == job[t].row.key
  <1>0. /\ TypeInv /\ Shape(j, pc[t]) /\ fw \in Firewall /\ ~ Spend("iptables")
    BY NoSpend DEF SerialInv, TypeInv, Control, Stores
  <1>a. UniqueAddrs(db) /\ OwnedAt(j, pc[t], db, fw) /\ UniqueKeys(db)
    BY DEF OwnedInv, AddrInv
  <1>b. j.op = "delete" /\ j.row \in Row
    BY <1>0 DEF Shape, Delete, DeleteKernel, DeleteDB, DeleteFirewall
  <1>1. CASE DeleteKernel(t)
    <2>1. /\ pc[t] = "dkernel" /\ pc'[t] = "ddb" /\ job'[t] = j
          /\ UNCHANGED <<db, fw>>
      BY <1>0, <1>1, StepLocals DEF DeleteKernel
    <2> QED
      BY <1>a, <1>b, <2>1 DEF OwnedAt, Passing
  <1>2. CASE DeleteDB(t)
    <2>1. pc[t] = "ddb" /\ fw' = fw
      BY <1>2 DEF DeleteDB
    <2>2. j.row \in db /\ \A m \in fw.jumps : Owned(db, m)
      BY <1>a, <1>b, <2>1 DEF OwnedAt, Passing
    <2>3. CASE db' = db /\ Return(t)
      <3>1. pc'[t] = "idle"
        BY <1>0, <2>3, StepLocals
      <3> QED
        BY <1>a, <2>1, <2>2, <2>3, <3>1, OwnedSimple
    <2>4. CASE db' = DeleteRows(db, {k}) /\ Goto(t, "dfw")
      <3>1. pc'[t] = "dfw" /\ job'[t] = j
        BY <1>0, <2>4, StepLocals
      <3>2. db' \subseteq db
        BY <2>4 DEF DeleteRows
      <3>3. ASSUME NEW m \in fw.jumps, ~ Owned(db', m)
            PROVE  j.row.addr # None /\ m = Jump(j.row)
        <4>1. PICK x \in db : x.enabled /\ x.addr # None /\ m = Jump(x)
          BY <2>2 DEF Owned
        <4>2. x.key = k
          BY <2>4, <3>3, <4>1 DEF Owned, DeleteRows
        <4> QED
          BY <1>a, <2>2, <4>1, <4>2 DEF UniqueKeys
      <3> QED
        BY <1>a, <2>1, <3>1, <3>2, <3>3 DEF OwnedAt, Passing, UniqueAddrs
    <2> QED
      BY <1>2, <2>3, <2>4 DEF DeleteDB
  <1>3. CASE DeleteFirewall(t)
    <2>1. /\ pc[t] = "dfw" /\ pc'[t] = "idle" /\ db' = db
          /\ fw' = FwRemove(fw, j.row)
      BY <1>0, <1>3, StepLocals DEF DeleteFirewall, Try
    <2>2. ASSUME NEW m \in fw'.jumps PROVE Owned(db, m)
      <3>1. /\ m \in fw.jumps
            /\ m[2] # k \/ (j.row.addr # None /\ m # Jump(j.row))
        BY <1>0, <1>b, <2>1, JumpsRemoved
      <3> QED
        BY <1>a, <2>1, <3>1 DEF OwnedAt, Passing, Jump
    <2> QED
      BY <1>a, <2>1, <2>2, OwnedSimple
  <1> QED
    BY <1>1, <1>2, <1>3 DEF Delete

\* RotateKeys: the old key has lost its jumps before the row changes its key.
LEMMA OwnedRotate ==
    ASSUME Undisturbed, SerialInv, AddrInv, ConfinedInv, OwnedInv, NoFault,
           ~ Fault, NEW t \in Threads, Rotate(t)
    PROVE  UniqueAddrs(db') /\ OwnedAt(job'[t], pc'[t], db', fw')
  <1> DEFINE j == job[t]
             r == job[t].row
             n == job[t].new[1]
  <1>0. /\ TypeInv /\ Shape(j, pc[t]) /\ db \in SUBSET Row /\ fw \in Firewall
        /\ ~ Spend("iptables") /\ j.new \in Seq(Row)
    BY NoSpend, NewRowsType DEF SerialInv, TypeInv, Control, Stores
  <1>a. /\ UniqueAddrs(db) /\ OwnedAt(j, pc[t], db, fw) /\ UniqueKeys(db)
        /\ Knows(j, pc[t], db)
    BY DEF OwnedInv, AddrInv, SerialInv, TableInv
  <1>b. j.op = "rotate" /\ r \in Row /\ n \in Row
    BY <1>0 DEF Shape, Rotate, RotateFirewall, RotateRemove, RotateAdd,
       RotateKey, RotatePsk, RotateApply
  <1>c. RotRow(pc[t], r, n, j.undo, db)
    BY <1>a, <1>b DEF Knows
  <1>d. \A m \in fw.jumps : Owned(db, m)
    BY <1>a DEF OwnedAt, Passing, Rotate, RotateFirewall, RotateRemove,
       RotateAdd, RotateKey, RotatePsk, RotateApply
  <1>1. CASE RotateFirewall(t)
    <2>1. /\ pc[t] = "rfw" /\ pc'[t] = "rremove" /\ job'[t] = j
          /\ db' = db /\ fw' = FwRemove(fw, r)
      BY <1>0, <1>1, StepLocals DEF RotateFirewall, Try
    <2>2. \A x \in db : x.key = r.key => x = r
      BY <1>a, <1>c, <2>1 DEF RotRow, UniqueKeys
    <2>3. ASSUME NEW m \in fw'.jumps PROVE Owned(db, m) /\ m[2] # r.key
      <3>1. /\ m \in fw.jumps
            /\ m[2] # r.key \/ (r.addr # None /\ m # Jump(r))
        BY <1>0, <1>b, <2>1, JumpsRemoved
      <3>2. PICK x \in db : x.enabled /\ x.addr # None /\ m = Jump(x)
        BY <1>d, <3>1 DEF Owned
      <3>3. x = r \/ m[2] # r.key
        BY <2>2, <3>2 DEF Jump
      <3> QED
        BY <1>d, <3>1, <3>2, <3>3
    <2> QED
      BY <1>a, <2>1, <2>3 DEF OwnedAt
  <1>2. CASE RotateRemove(t) \/ RotateAdd(t)
    <2>1. /\ pc[t] \in {"rremove", "radd"} /\ pc'[t] \in {"radd", "rkey"}
          /\ job'[t] = j /\ UNCHANGED <<db, fw>>
      BY <1>0, <1>2, StepLocals DEF RotateRemove, RotateAdd
    <2> QED
      BY <1>a, <1>d, <2>1 DEF OwnedAt
  <1>3. CASE RotateKey(t)
    <2>1. /\ pc[t] = "rkey" /\ fw' = fw /\ r \in db /\ ~ HasKey(db, n.key)
      BY <1>c, <1>3 DEF RotateKey, RotRow
    <2>2. PICK set : set = [x \in db |-> [x EXCEPT !.key = n.key]]
      OBVIOUS
    <2>3. HasKey(db, r.key)
      BY <2>1 DEF HasKey
    <2>4. /\ db' = UpdateRows(db, r.key, set)
          /\ Goto(t, IF r.psk = None THEN "conf" ELSE "rpsk")
      BY <1>3, <2>1, <2>2, <2>3 DEF RotateKey
    <2>5. pc'[t] \in {"conf", "rpsk"}
      BY <1>0, <2>4, StepLocals
    <2>6. \A x \in db : set[x].addr = x.addr
      BY <1>0, <2>2 DEF Row
    <2>7. UniqueAddrs(db')
      BY <1>a, <2>4, <2>6, AddrsUpdated
    <2>8. ASSUME NEW m \in fw.jumps PROVE Owned(db', m)
      <3>1. m[2] # r.key
        BY <1>a, <2>1 DEF OwnedAt
      <3>2. \A x \in db : x.key = r.key => m # Jump(x)
        BY <3>1 DEF Jump
      <3> QED
        BY <1>d, <2>4, <3>2, OwnedUpdated
    <2> QED
      BY <2>1, <2>5, <2>7, <2>8, OwnedSimple
  <1>4. CASE RotatePsk(t)
    <2>1. pc[t] = "rpsk" /\ fw' = fw /\ Moved(r, n.key) \in db
      BY <1>c, <1>4 DEF RotatePsk, RotRow
    <2>2. HasKey(db, n.key)
      <3>1. Moved(r, n.key).key = n.key
        BY <1>b DEF Moved, Row
      <3> QED
        BY <2>1, <3>1 DEF HasKey
    <2>3. PICK set : set = [x \in db |-> [x EXCEPT !.psk = n.psk]]
      OBVIOUS
    <2>4. db' = UpdateRows(db, n.key, set) /\ Goto(t, "conf")
      BY <1>4, <2>2, <2>3 DEF RotatePsk
    <2>5. pc'[t] = "conf"
      BY <1>0, <2>4, StepLocals
    <2>6. \A x \in db : /\ set[x].addr = x.addr /\ set[x].key = x.key
                        /\ set[x].enabled = x.enabled
      BY <1>0, <2>3 DEF Row
    <2>7. UniqueAddrs(db')
      BY <1>a, <2>4, <2>6, AddrsUpdated
    <2>8. \A m \in fw.jumps : Owned(db', m)
      BY <1>d, <2>4, <2>6, OwnedUpdated
    <2> QED
      BY <2>1, <2>5, <2>7, <2>8, OwnedSimple
  <1>5. CASE RotateApply(t)
    <2>1. /\ pc[t] = "rapply" /\ pc'[t] = "idle" /\ db' = db
          /\ fw' = FwApply(fw, n)
      BY <1>0, <1>5, StepLocals DEF RotateApply, Try
    <2>2. n \in db
      BY <1>c, <2>1 DEF RotRow
    <2>3. ASSUME NEW m \in fw'.jumps PROVE Owned(db, m)
      <3>1. (n.enabled /\ n.addr # None /\ m = Jump(n)) \/ m \in fw.jumps
        BY <1>0, <1>b, <2>1, JumpsApplied
      <3> QED
        BY <1>d, <2>2, <3>1 DEF Owned
    <2> QED
      BY <1>a, <2>1, <2>3, OwnedSimple
  <1> QED
    BY <1>1, <1>2, <1>3, <1>4, <1>5 DEF Rotate

LEMMA OwnedRequest ==
    ASSUME SerialInv, OwnedInv, NoFault, NEW t \in Threads, Request(t) \/ Pause(t)
    PROVE  UniqueAddrs(db') /\ OwnedAt(job'[t], pc'[t], db', fw')
  <1>0. /\ TypeInv /\ Shape(job[t], pc[t])
        /\ pc \in [Threads -> Steps] /\ job \in [Threads -> Job]
    BY DEF SerialInv, TypeInv, Control
  <1>1. UNCHANGED <<db, fw>> /\ pc[t] \in {"idle", "pause"}
    BY DEF Request, CreatePeer, BatchCreatePeers, UpdatePeer, RotateKeys,
       ApprovePeer, DeletePeer, Accept, Pause, stores
  <1>2. /\ UniqueAddrs(db) /\ \A m \in fw.jumps : Owned(db, m)
        /\ OwnedAt(job[t], pc[t], db, fw)
    BY <1>1 DEF OwnedInv, OwnedAt, Passing
  <1>3. CASE CreatePeer(t) \/ BatchCreatePeers(t)
    <2>1. /\ pc'[t] \in {"fw", "pause"} /\ job'[t].op \in {"create", "batch"}
      BY <1>0, <1>3 DEF CreatePeer, BatchCreatePeers, Accept, Locals
    <2> QED
      BY <1>1, <1>2, <2>1, OwnedSimple
  <1>4. CASE UpdatePeer(t) \/ RotateKeys(t)
    <2>1. pc'[t] \in {"ukernel", "utune", "rfw"}
      BY <1>0, <1>4 DEF UpdatePeer, RotateKeys, Accept
    <2> QED
      BY <1>1, <1>2, <2>1, OwnedSimple
  <1>5. CASE ApprovePeer(t)
    <2>0. PICK r \in db : /\ ~ r.enabled
                          /\ \E j : Accept(t, j, "adb") /\ j.row = r
      BY <1>5 DEF ApprovePeer, Locals
    <2>1. PICK j : Accept(t, j, "adb") /\ j.row = r
      BY <2>0
    <2>2. pc'[t] = "adb" /\ job'[t] = j
      BY <1>0, <2>1, StepLocals
    <2> QED
      BY <1>1, <1>2, <2>0, <2>1, <2>2 DEF OwnedAt
  <1>6. CASE DeletePeer(t)
    <2>1. PICK r \in db : Accept(t, Locals("delete", r, <<>>, None), "pause")
      BY <1>6 DEF DeletePeer
    <2>2. pc'[t] = "pause" /\ job'[t].row = r
      BY <1>0, <2>1, StepLocals DEF Locals
    <2> QED
      BY <1>1, <1>2, <2>2 DEF OwnedAt
  <1>7. CASE Pause(t)
    <2>1. /\ pc[t] = "pause" /\ job' = job /\ pc'[t] \in {"fw", "dkernel"}
      BY <1>0, <1>7 DEF Pause
    <2> QED
      BY <1>1, <1>2, <2>1 DEF OwnedAt
  <1> QED
    BY <1>3, <1>4, <1>5, <1>6, <1>7 DEF Request

LEMMA OwnedStep ==
    ASSUME Undisturbed, SerialInv, RevokedInv, AddrInv, ConfinedInv, OwnedInv,
           [Next]_vars
    PROVE  OwnedInv'
  <1>0. /\ TypeInv /\ SerialEnv /\ BootAlone /\ Serial
        /\ \A t, s \in Threads : t = s
    BY DEF SerialInv, SerialEnv, BootInv, Undisturbed, Serial
  <1> SUFFICES ASSUME NoFault'
               PROVE  /\ UniqueAddrs(db')
                      /\ \A t \in Threads : OwnedAt(job'[t], pc'[t], db', fw')
    BY DEF OwnedInv
  <1>1. NoFault /\ ~ Fault
    BY <1>0, NoFaultBefore
  <1>2. \/ \E t \in Threads : Request(t) \/ Pause(t) \/ Handler(t)
        \/ UNCHANGED vars
    <2>1. ~ Reconcile /\ ~ FirewallSync
      BY <1>0, NoPass DEF ConfinedInv
    <2>2. ~ Environment
      BY <1>0, NoSpend, NoRollbackFault
      DEF Environment, ForeignAdd, ForeignRemove, Crash
    <2> QED
      BY <2>1, <2>2 DEF Next
  <1>3. ASSUME NEW t \in Threads, Request(t) \/ Pause(t) \/ Handler(t)
        PROVE  UniqueAddrs(db') /\ OwnedAt(job'[t], pc'[t], db', fw')
    BY <1>1, <1>3, OwnedRequest, OwnedImport, OwnedUndo, OwnedUpdate,
       OwnedRotate, OwnedApprove, OwnedDelete
    DEF Handler
  <1>4. CASE UNCHANGED vars
    BY <1>1, <1>4 DEF vars, stores, OwnedInv
  <1> QED
    BY <1>0, <1>2, <1>3, <1>4

LEMMA OwnedInit ==
    ASSUME Init
    PROVE  OwnedInv
  <1>1. db = InitRows /\ UniqueAddrs(db)
    BY AgentAssumption DEF Init, UniqueAddrs
  <1>2. fw.jumps = {<<HostOf[q.addr], q.key>> :
                       q \in {p \in InitRows : p.enabled /\ p.addr # None}}
    BY DEF Init, FwSync
  <1>3. \A m \in fw.jumps : Owned(db, m)
    BY <1>1, <1>2 DEF Owned, Jump
  <1>4. \A t \in Threads : pc[t] = "idle"
    BY DEF Init
  <1> QED
    BY <1>1, <1>3, <1>4, OwnedSimple DEF OwnedInv

(* For requests one at a time, of every kind and in every order, as long as  *)
(* no call has failed: between requests the traffic of each enabled peer of  *)
(* the kernel, for every address the kernel routes to it, is decided by its  *)
(* own chain and by no other.  No handler's end or early return leaves a peer*)
(* without rules, or a jump for its address to the chain of another, whether *)
(* it created, moved, enabled, disabled, rotated, approved or deleted one;   *)
(* and a refused import has taken no rules from a peer that was there.  A    *)
(* crash, an iptables call that fails, a malformed endpoint refused after the*)
(* move and two client addresses of one host are outside (Undisturbed), since*)
(* the code does not keep this then.                                         *)
THEOREM PeersStayConfined ==
    ASSUME Undisturbed
    PROVE  Spec => []Confined
  <1> DEFINE Inv == /\ SerialInv /\ RevokedInv /\ AddrInv
                /\ ConfinedInv /\ OwnedInv
  <1>0. Serial /\ OneAtATime
    <2>1. \A r \in InitRows : r.addr # None => r.ips = HostOf[r.addr]
      BY DEF Undisturbed
    <2> QED
      BY <2>1 DEF Undisturbed, Serial, OneAtATime
  <1>1. Init => Inv
    <2> SUFFICES ASSUME Init PROVE RevokedInv /\ AddrInv
      BY <1>0, SerialInit, ConfinedInit, OwnedInit
    <2>1. KernelKeys(kernel) \subseteq EnabledKeys(InitRows)
      BY DEF Init, KernelKeys
    <2>2. KernelKeys(kernel) \subseteq TableKeys(db)
      BY <2>1 DEF Init, EnabledKeys, TableKeys
    <2>3. RevokedInv
      BY <2>2 DEF RevokedInv, KeyRows, Revoking, Init
    <2>4. UniqueKeys(db) /\ AddressRoutes
      BY <1>0, AgentAssumption DEF Init, OneAtATime, UniqueKeys, AddressRoutes
    <2>5. RowRead
      BY DEF Init, RowRead, NoJob, Locals
    <2> QED
      BY <2>3, <2>4, <2>5 DEF AddrInv
  <1>2. Inv /\ [Next]_vars => Inv'
    <2> SUFFICES ASSUME Inv, [Next]_vars PROVE Inv'
      OBVIOUS
    <2>1. SerialInv' /\ RevokedInv' /\ AddrInv'
      BY <1>0, SerialStep, RevokedStep, AddrStep DEF SerialInv
    <2> QED
      BY <2>1, ConfinedStep, OwnedStep
  <1>3. Inv => Confined
    <2> SUFFICES ASSUME Inv, Calm,
                        NEW k \in KernelKeys(kernel) \cap EnabledKeys(db)
                 PROVE  Filtered(kernel, fw, k)
      BY DEF Confined
    <2>1. NoFault /\ \A t \in Threads : pc[t] = "idle"
      BY DEF Calm, Quiet, NoFault
    <2>2. PICK r \in db : r.enabled /\ r.key = k
      BY DEF EnabledKeys
    <2>3. kernel[k] # None
      BY DEF KernelKeys
    <2>4. Fits(kernel, r) /\ Covered(fw, r)
      <3>1. PICK t \in Threads : TRUE
        BY DEF Undisturbed
      <3>2. pc[t] = "idle" /\ ConfinedAt(job[t], pc[t], db, kernel, fw)
        BY <2>1 DEF ConfinedInv
      <3> QED
        BY <3>2 DEF ConfinedAt, Rerouting, Uncovered
    <2>5. kernel[k].ips \subseteq IPsOf(r)
      BY <2>2, <2>3, <2>4 DEF Fits
    <2>6. \A m \in fw.jumps : Owned(db, m)
      <3>1. PICK t \in Threads : TRUE
        BY DEF Undisturbed
      <3>2. pc[t] = "idle" /\ OwnedAt(job[t], pc[t], db, fw)
        BY <2>1 DEF OwnedInv
      <3> QED
        BY <3>2 DEF OwnedAt, Passing
    <2>7. db \in SUBSET Row
      BY DEF SerialInv, TypeInv, Stores
    <2>8. ASSUME NEW h \in kernel[k].ips
          PROVE  Deciders(fw, h) = {k} /\ Complete(fw, k)
      <3>1. r.ips # None /\ h = r.ips
        BY <2>5 DEF IPsOf
      <3>2. r.addr # None
        BY <2>1, <3>1 DEF ConfinedInv, Tidy
      <3>3. h = HostOf[r.addr]
        BY <3>1, <3>2 DEF AddrInv, AddressRoutes
      <3>4. <<h, k>> \in fw.jumps /\ Complete(fw, k)
        BY <2>2, <2>4, <3>2, <3>3 DEF Covered, Ruled, Complete
      <3>5. ASSUME NEW m \in fw.jumps, m[1] = h PROVE m[2] = k
        <4>1. PICK x \in db : x.addr # None /\ m = Jump(x)
          BY <2>6 DEF Owned
        <4>2. HostOf[x.addr] = HostOf[r.addr] /\ m[2] = x.key
          BY <3>3, <3>5, <4>1 DEF Jump
        <4>3. x.addr = r.addr
          BY <2>7, <3>2, <4>1, <4>2 DEF Undisturbed, Row
        <4>4. x = r
          BY <2>1, <3>2, <4>3 DEF OwnedInv, UniqueAddrs
        <4> QED
          BY <2>2, <4>2, <4>4
      <3> QED
        BY <3>4, <3>5 DEF Deciders
    <2> QED
      BY <2>8 DEF Filtered
  <1> HIDE DEF Inv
  <1> QED
    BY <1>1, <1>2, <1>3, PTL DEF Spec
=============================================================================
