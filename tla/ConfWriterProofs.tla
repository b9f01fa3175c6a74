-------------------------- MODULE ConfWriterProofs --------------------------
(***************************************************************************)
(* ConfWriter keeps its types, and forgets a change of the peers only in   *)
(* the ways it names, for any number of handlers and overlapping flushes.  *)
(***************************************************************************)
EXTENDS ConfWriter, TLAPS

-----------------------------------------------------------------------------
(* Type correctness.                                                        *)

LEMMA SpendType ==
    ASSUME NEW what \in EnvKinds, budget \in [EnvKinds -> Nat], Spend(what)
    PROVE  budget' \in [EnvKinds -> Nat]
  BY DEF Spend

LEMMA LocalTypes ==
    /\ NoJob \in [out : SUBSET Peers, in : SUBSET Peers, snap : SUBSET Peers]
    /\ Idle \in [pc : {"idle", "take", "read", "write"}, snap : SUBSET Peers]
    /\ Idle \in [pc : {"idle", "write"}, snap : SUBSET Peers]
  BY DEF NoJob, Idle

LEMMA TypeInit == Init => TypeOK
  BY ConfAssumption, LocalTypes DEF Init, TypeOK

LEMMA TypeChange ==
    ASSUME TypeOK, NEW t \in Threads, NEW out \in SUBSET Peers,
           NEW in \in SUBSET Peers, NEW step \in {"idle", "notify", "list"},
           Change(t, out, in, step)
    PROVE  TypeOK'
  <1>1. budget' \in [EnvKinds -> Nat]
    BY SpendType DEF TypeOK, Change, EnvKinds
  <1> QED
    BY <1>1 DEF TypeOK, Change, Goto, debouncer

LEMMA TypeHandler ==
    ASSUME TypeOK, NEW t \in Threads, Handler(t)
    PROVE  TypeOK'
  <1>1. budget' \in [EnvKinds -> Nat]
    BY SpendType
    DEF TypeOK, Handler, Notify, List, Cancel, DirectWrite, Rollback, EnvKinds
  <1>2. CASE Notify(t)
    BY <1>1, <1>2 DEF TypeOK, Notify, Goto
  <1>3. CASE List(t)
    <2>1. db \in SUBSET Peers
      BY DEF TypeOK
    <2>2. job' \in [Threads -> [out : SUBSET Peers, in : SUBSET Peers,
                                snap : SUBSET Peers]]
      BY <1>3, <2>1 DEF TypeOK, List
    <2> QED
      BY <1>1, <1>3, <2>2 DEF TypeOK, List, Goto, debouncer
  <1>4. CASE Cancel(t)
    BY <1>1, <1>4 DEF TypeOK, Cancel, Goto
  <1>5. CASE DirectWrite(t)
    BY <1>1, <1>5 DEF TypeOK, DirectWrite, Goto, debouncer
  <1>6. CASE Rollback(t)
    BY <1>1, <1>6 DEF TypeOK, Rollback, Goto, debouncer
  <1> QED
    BY <1>2, <1>3, <1>4, <1>5, <1>6 DEF Handler

LEMMA TypeFlush ==
    ASSUME TypeOK, NEW w \in Workers, Flush(w)
    PROVE  TypeOK'
  <1>1. budget' \in [EnvKinds -> Nat]
    BY SpendType DEF TypeOK, Flush, Fire, Take, Read, FlushWrite, EnvKinds
  <1>2. CASE Fire(w)
    BY <1>1, <1>2 DEF TypeOK, Fire
  <1>3. CASE Take(w)
    BY <1>1, <1>3 DEF TypeOK, Take
  <1>4. CASE Read(w)
    BY <1>1, <1>4 DEF TypeOK, Read, debouncer
  <1>5. CASE FlushWrite(w)
    BY <1>1, <1>5 DEF TypeOK, FlushWrite, debouncer, Idle
  <1> QED
    BY <1>2, <1>3, <1>4, <1>5 DEF Flush

LEMMA TypeProcess ==
    ASSUME TypeOK, Reconcile \/ Close \/ Stop \/ Crash \/ Start
    PROVE  TypeOK'
  <1>1. budget' \in [EnvKinds -> Nat]
    BY SpendType
    DEF TypeOK, Reconcile, RecRead, RecWrite, Close, Stop, Shutdown, Exit,
        Crash, Start, EnvKinds
  <1>2. CASE RecRead
    BY <1>1, <1>2 DEF TypeOK, RecRead, debouncer
  <1>3. CASE RecWrite
    BY <1>1, <1>3 DEF TypeOK, RecWrite, debouncer, Idle
  <1>4. CASE Close
    BY <1>1, <1>4 DEF TypeOK, Close, Workers
  <1>5. CASE Shutdown
    BY <1>1, <1>5 DEF TypeOK, Shutdown, debouncer
  <1>6. CASE Exit \/ Crash
    <2>1. PICK next \in {"stopped", "boot"} : EndProcess(next)
      BY <1>6 DEF Exit, Crash
    <2>2. /\ pending' \in BOOLEAN /\ armed' \in BOOLEAN /\ closed' \in BOOLEAN
          /\ phase' \in {"boot", "up", "closing", "draining", "stopped"}
          /\ db' = db /\ conf' = conf
      BY <2>1 DEF EndProcess
    <2>3. /\ hpc' = [t \in Threads |-> "idle"]
          /\ job' = [t \in Threads |-> NoJob]
          /\ flush' = [w \in Workers |-> Idle]
          /\ rec' = Idle
      BY <2>1 DEF EndProcess
    <2> QED
      BY <1>1, <2>2, <2>3, LocalTypes DEF TypeOK
  <1>7. CASE Start
    BY <1>1, <1>7 DEF TypeOK, Start, debouncer
  <1> QED
    BY <1>2, <1>3, <1>4, <1>5, <1>6, <1>7 DEF Reconcile, Stop

LEMMA TypeStep == TypeOK /\ [Next]_vars => TypeOK'
  <1> SUFFICES ASSUME TypeOK, [Next]_vars PROVE TypeOK'
    OBVIOUS
  <1>1. ASSUME NEW t \in Threads, Mutate(t) PROVE TypeOK'
    <2> PICK out \in AtMostOne(db), in \in AtMostOne(Peers \ db) :
           Change(t, out, in, "notify")
      BY <1>1 DEF Mutate
    <2>1. out \in SUBSET Peers /\ in \in SUBSET Peers
      BY DEF TypeOK, AtMostOne
    <2> QED
      BY <2>1, TypeChange
  <1>2. ASSUME NEW t \in Threads, Import(t) PROVE TypeOK'
    <2> PICK out \in AtMostOne(db), p \in Peers \ db :
           Change(t, out, {p}, "list")
      BY <1>2 DEF Import
    <2>1. out \in SUBSET Peers /\ {p} \in SUBSET Peers
      BY DEF TypeOK, AtMostOne
    <2> QED
      BY <2>1, TypeChange
  <1>3. ASSUME NEW t \in Threads, Toggle(t) PROVE TypeOK'
    <2> PICK p \in Peers : Change(t, {p} \cap db, {p} \ db, "idle")
      BY <1>3 DEF Toggle
    <2> QED
      BY TypeChange DEF TypeOK
  <1>4. CASE UNCHANGED vars
    BY <1>4 DEF TypeOK, vars, debouncer
  <1> QED
    BY <1>1, <1>2, <1>3, <1>4, TypeHandler, TypeFlush, TypeProcess DEF Next

\* Every writer of the conf file, the debouncer and the shutdown keep the types
\* of their state, for any number of peers, goroutines and flushes.
THEOREM TypeCorrect == Spec => []TypeOK
  BY TypeInit, TypeStep, PTL DEF Spec

-----------------------------------------------------------------------------
(* What a step may forget.  One fact about the past is needed: a debouncer   *)
(* that is closed, and so drops what Notify is told, is not the one of a     *)
(* running agent.                                                            *)

ClosedAtEnd == closed => phase \in {"closing", "draining"}

LEMMA ClosedStep == TypeOK /\ ClosedAtEnd /\ [Next]_vars => ClosedAtEnd'
  <1> SUFFICES ASSUME TypeOK, ClosedAtEnd, [Next]_vars PROVE ClosedAtEnd'
    OBVIOUS
  <1> USE DEF ClosedAtEnd, TypeOK
  <1>1. ASSUME NEW t \in Threads, Mutate(t) \/ Toggle(t) \/ Import(t)
        PROVE  ClosedAtEnd'
    BY <1>1 DEF Mutate, Toggle, Import, Change, debouncer
  <1>2. ASSUME NEW t \in Threads, Handler(t) PROVE ClosedAtEnd'
    BY <1>2
    DEF Handler, Notify, List, Cancel, DirectWrite, Rollback, debouncer
  <1>3. ASSUME NEW w \in Workers, Flush(w) PROVE ClosedAtEnd'
    BY <1>3 DEF Flush, Fire, Take, Read, FlushWrite, debouncer
  <1>4. CASE Reconcile
    BY <1>4 DEF Reconcile, RecRead, RecWrite, debouncer
  <1>5. CASE Close \/ Stop \/ Crash \/ Start
    BY <1>5 DEF Close, Stop, Shutdown, Exit, Crash, Start, EndProcess, debouncer
  <1>6. CASE UNCHANGED vars
    BY <1>6 DEF vars, debouncer
  <1> QED
    BY <1>1, <1>2, <1>3, <1>4, <1>5, <1>6 DEF Next

\* The four kinds of step that may forget a change.
Forgets == CancelsOwed \/ WritesOld \/ ChangesUnannounced \/ CallFails

LEMMA ForgetsStep ==
    ASSUME TypeOK, ClosedAtEnd, [Next]_vars,
           phase = "up", phase' = "up", Kept, ~ Kept'
    PROVE  Forgets
  <1> USE DEF TypeOK, Kept, Owed, Current
  <1>1. ASSUME NEW t \in Threads, Mutate(t) \/ Import(t) PROVE FALSE
    <2>1. hpc'[t] \in {"notify", "list"}
      BY <1>1 DEF Mutate, Import, Change, Goto
    <2> QED
      BY <2>1
  <1>2. ASSUME NEW t \in Threads, Toggle(t) PROVE ChangesUnannounced
    BY <1>2 DEF Toggle, Change, Goto, debouncer, ChangesUnannounced
  <1>3. ASSUME NEW t \in Threads, Handler(t) PROVE Forgets
    <2>1. CASE Notify(t)
      BY <2>1 DEF Notify, ClosedAtEnd
    <2>2. CASE List(t)
      <3>1. CASE Spend("read")
        BY <3>1 DEF Spend, EnvKinds, Forgets, CallFails
      <3>2. CASE job' = [job EXCEPT ![t].snap = db] /\ Goto(t, "cancel")
        <4>1. hpc'[t] = "cancel" /\ job'[t].snap = db'
          BY <2>2, <3>2 DEF List, Goto
        <4> QED
          BY <4>1
      <3> QED
        BY <2>2, <3>1, <3>2 DEF List
    <2>3. CASE Cancel(t)
      BY <2>3 DEF Cancel, Goto, Forgets, CancelsOwed
    <2>4. CASE DirectWrite(t)
      <3>1. CASE Spend("write")
        BY <3>1 DEF Spend, EnvKinds, Forgets, CallFails
      <3>2. CASE conf' = job[t].snap /\ Goto(t, "idle")
        BY <2>4, <3>2 DEF DirectWrite, Goto, debouncer, Forgets, WritesOld
      <3> QED
        BY <2>4, <3>1, <3>2 DEF DirectWrite
    <2>5. CASE Rollback(t)
      BY <2>5 DEF Rollback, Goto, debouncer, Forgets, ChangesUnannounced
    <2> QED
      BY <1>3, <2>1, <2>2, <2>3, <2>4, <2>5 DEF Handler
  <1>4. ASSUME NEW w \in Workers, Flush(w) PROVE Forgets
    <2>1. CASE Fire(w)
      BY <2>1 DEF Fire
    <2>2. CASE Take(w)
      BY <2>2 DEF Take
    <2>3. CASE Read(w)
      <3>1. CASE Spend("read")
        BY <3>1 DEF Spend, EnvKinds, Forgets, CallFails
      <3>2. CASE flush' = [flush EXCEPT ![w] = [pc |-> "write", snap |-> db]]
        BY <2>3, <3>2 DEF Read
      <3> QED
        BY <2>3, <3>1, <3>2 DEF Read
    <2>4. CASE FlushWrite(w)
      <3>1. CASE Spend("write")
        BY <3>1 DEF Spend, EnvKinds, Forgets, CallFails
      <3>2. CASE conf' = flush[w].snap
        BY <2>4, <3>2 DEF FlushWrite, debouncer, Idle, Forgets, WritesOld
      <3> QED
        BY <2>4, <3>1, <3>2 DEF FlushWrite
    <2> QED
      BY <1>4, <2>1, <2>2, <2>3, <2>4 DEF Flush
  <1>5. CASE RecRead
    BY <1>5 DEF RecRead, debouncer
  <1>6. CASE RecWrite
    <2>1. CASE Spend("write")
      BY <2>1 DEF Spend, EnvKinds, Forgets, CallFails
    <2>2. CASE conf' = rec.snap
      BY <1>6, <2>2 DEF RecWrite, debouncer, Forgets, WritesOld
    <2> QED
      BY <1>6, <2>1, <2>2 DEF RecWrite
  <1>7. CASE Close \/ Stop \/ Crash \/ Start
    BY <1>7 DEF Close, Stop, Shutdown, Exit, Crash, Start, EndProcess
  <1>8. CASE UNCHANGED vars
    BY <1>8 DEF vars, debouncer
  <1> QED
    BY <1>1, <1>2, <1>3, <1>4, <1>5, <1>6, <1>7, <1>8
    DEF Next, Reconcile, Forgets

\* While the agent runs, a change of the peers that is in the file, or that a
\* write owed or in progress will put there, is forgotten only by a DirectWrite
\* that cancels it, a write of an older read, an unannounced change or a failing
\* call: for any number of peers, handlers and overlapping flushes, with passes,
\* shutdowns, crashes and restarts, and nothing assumed of the instance.
THEOREM ForgottenOnlyBySteps == Spec => ForgottenOnlyBy
  <1>1. Init => TypeOK /\ ClosedAtEnd
    BY TypeInit DEF Init, ClosedAtEnd
  <1>2. TypeOK /\ ClosedAtEnd /\ [Next]_vars => (TypeOK /\ ClosedAtEnd)'
    BY TypeStep, ClosedStep
  <1>3. TypeOK /\ ClosedAtEnd /\ [Next]_vars
          => [phase = "up" /\ phase' = "up" /\ Kept /\ ~ Kept'
                 => CancelsOwed \/ WritesOld \/ ChangesUnannounced
                    \/ CallFails]_vars
    BY ForgetsStep DEF Forgets
  <1> QED
    BY <1>1, <1>2, <1>3, PTL DEF Spec, ForgottenOnlyBy
=============================================================================
