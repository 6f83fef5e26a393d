---------------------------- MODULE RWLockProofs ----------------------------
(***************************************************************************)
(* Proofs about RWLock for any finite sets of readers and writers.         *)
(*                                                                         *)
(* Mutual exclusion is not inductive on its own: the code decides from the *)
(* counters, so the induction carries CountersExact along.  That no waiter *)
(* is stranded needs one more fact, WritersAwake: a writer asleep on the   *)
(* condition always has a holder to wait for, so that a count of waiting   *)
(* writers above zero with nobody inside means a writer is being resumed.  *)
(***************************************************************************)
EXTENDS RWLock, FiniteSetTheorems, TLAPS

LockInv == TypeOK /\ CountersExact /\ MutualExclusion

\* A writer sleeps only while the lock is held.
WritersAwake == In({"waiting"}, Writer) # {} => Held

-----------------------------------------------------------------------------

\* The sets that the counters count are finite.
LEMMA PartsFinite ==
  ASSUME NEW states
  PROVE  /\ IsFiniteSet(In(states, Reader))
         /\ IsFiniteSet(In(states, Writer))
  <1>1. In(states, Reader) \in SUBSET Reader /\ In(states, Writer) \in SUBSET Writer
    BY DEF In
  <1> QED  BY <1>1, TaskAssumption, FS_Subset

\* Taking one member out of a finite set.
LEMMA RemoveMember ==
  ASSUME NEW S, IsFiniteSet(S), NEW x \in S
  PROVE  /\ Cardinality(S \ {x}) = Cardinality(S) - 1
         /\ Cardinality(S) - 1 \in Nat
  <1>1. IsFiniteSet(S \ {x}) /\ Cardinality(S \ {x}) = Cardinality(S) - 1
    BY FS_RemoveElement
  <1>2. Cardinality(S \ {x}) \in Nat
    BY <1>1, FS_CardinalityType
  <1> QED  BY <1>1, <1>2

\* What notify_all() changes: sleepers are resumed and nobody else moves.
LEMMA NotifyAllEffect ==
  ASSUME NEW f \in [Task -> {"idle", "waiting", "notified", "holding", "done"}]
  PROVE  /\ NotifyAll(f) \in [Task -> {"idle", "notified", "holding", "done"}]
         /\ \A u \in Task : /\ NotifyAll(f)[u] = "holding" <=> f[u] = "holding"
                            /\ NotifyAll(f)[u] \in {"waiting", "notified"}
                                 <=> f[u] \in {"waiting", "notified"}
  BY DEF NotifyAll

\* The effect of one step on the sets behind the counters, action by action.
LEMMA ReaderEnters ==
  ASSUME LockInv, NEW t \in Reader, AcquireReader(t)
  PROVE  LockInv'
  <1> USE DEF LockInv
  <1>0. t \in Task /\ t \notin Writer
    BY TaskAssumption DEF Task
  <1>1. CASE writer_active \/ waiting_writers > 0
    <2>1. pc' = [pc EXCEPT ![t] = "waiting"] /\ UNCHANGED <<readers, writer_active, waiting_writers>>
      BY <1>1 DEF AcquireReader
    <2>2. /\ In({"holding"}, Reader)' = In({"holding"}, Reader)
          /\ In({"holding"}, Writer)' = In({"holding"}, Writer)
          /\ In({"holding"}, Task)' = In({"holding"}, Task)
          /\ In({"waiting", "notified"}, Writer)' = In({"waiting", "notified"}, Writer)
      BY <1>0, <2>1 DEF AcquireReader, In, TypeOK, Task
    <2>3. TypeOK'
      BY <1>0, <2>1 DEF TypeOK
    <2> QED  BY <2>1, <2>2, <2>3 DEF CountersExact, MutualExclusion
  <1>2. CASE ~(writer_active \/ waiting_writers > 0)
    <2>1. /\ pc' = [pc EXCEPT ![t] = "holding"] /\ readers' = readers + 1
          /\ UNCHANGED <<writer_active, waiting_writers>>
      BY <1>2 DEF AcquireReader
    <2>2. /\ t \notin In({"holding"}, Reader)
          /\ In({"holding"}, Reader)' = In({"holding"}, Reader) \cup {t}
          /\ In({"holding"}, Writer)' = In({"holding"}, Writer)
          /\ In({"waiting", "notified"}, Writer)' = In({"waiting", "notified"}, Writer)
      BY <1>0, <2>1 DEF AcquireReader, In, TypeOK, Task
    <2>3. Cardinality(In({"holding"}, Reader))' = readers + 1
      BY <2>2, PartsFinite, FS_AddElement DEF CountersExact
    <2>4. TypeOK'
      BY <1>0, <2>1 DEF TypeOK
    <2>5. In({"holding"}, Writer)' = {}
      BY <1>2, <2>2 DEF CountersExact
    <2> QED  BY <2>1, <2>2, <2>3, <2>4, <2>5 DEF CountersExact, MutualExclusion
  <1> QED  BY <1>1, <1>2

\* release_reader keeps the lock invariant.
LEMMA ReaderLeaves ==
  ASSUME LockInv, NEW t \in Reader, ReleaseReader(t)
  PROVE  LockInv'
  <1> USE DEF LockInv
  <1> DEFINE f == [pc EXCEPT ![t] = "done"]
  <1>0. t \in Task /\ t \notin Writer
    BY TaskAssumption DEF Task
  <1>1. f \in [Task -> {"idle", "waiting", "notified", "holding", "done"}]
    BY DEF TypeOK
  <1>2. /\ pc' \in [Task -> {"idle", "waiting", "notified", "holding", "done"}]
        /\ \A u \in Task : /\ pc'[u] = "holding" <=> f[u] = "holding"
                           /\ pc'[u] \in {"waiting", "notified"}
                                <=> f[u] \in {"waiting", "notified"}
    <2>1. pc' = NotifyAll(f) \/ pc' = f
      BY DEF ReleaseReader
    <2> HIDE DEF f
    <2> QED  BY <1>1, <2>1, NotifyAllEffect
  <1>3. /\ t \in In({"holding"}, Reader)
        /\ In({"holding"}, Reader)' = In({"holding"}, Reader) \ {t}
        /\ In({"holding"}, Writer)' = In({"holding"}, Writer)
        /\ In({"waiting", "notified"}, Writer)' = In({"waiting", "notified"}, Writer)
    BY <1>0, <1>2 DEF ReleaseReader, In, TypeOK, Task
  <1>4. /\ Cardinality(In({"holding"}, Reader))' = readers - 1
        /\ readers - 1 \in Nat
    BY <1>3, PartsFinite, RemoveMember DEF CountersExact
  <1>5. In({"holding"}, Writer) = {}
    BY <1>0, <1>3 DEF MutualExclusion, In, Task
  <1>6. readers' = readers - 1 /\ UNCHANGED <<writer_active, waiting_writers>>
    BY DEF ReleaseReader
  <1> QED  BY <1>2, <1>3, <1>4, <1>5, <1>6 DEF CountersExact, MutualExclusion, TypeOK

\* A step of acquire_writer keeps the lock invariant.
LEMMA WriterEnters ==
  ASSUME LockInv, NEW t \in Writer, AcquireWriter(t)
  PROVE  LockInv'
  <1> USE DEF LockInv
  <1> DEFINE entered == waiting_writers + (IF pc[t] = "idle" THEN 1 ELSE 0)
  <1>0. t \in Task /\ t \notin Reader
    BY TaskAssumption DEF Task
  <1>1. /\ In({"waiting", "notified"}, Writer) \cup {t} =
             IF pc[t] = "idle" THEN In({"waiting", "notified"}, Writer) \cup {t}
                               ELSE In({"waiting", "notified"}, Writer)
        /\ t \in In({"waiting", "notified"}, Writer) <=> pc[t] # "idle"
    BY DEF AcquireWriter, In
  <1>2. /\ IsFiniteSet(In({"waiting", "notified"}, Writer) \cup {t})
        /\ Cardinality(In({"waiting", "notified"}, Writer) \cup {t}) = entered
    BY <1>1, PartsFinite, FS_AddElement DEF CountersExact, TypeOK
  <1>3. CASE Held
    <2>1. /\ pc' = [pc EXCEPT ![t] = "waiting"] /\ waiting_writers' = entered
          /\ UNCHANGED <<readers, writer_active>>
      BY <1>3 DEF AcquireWriter
    <2>2. /\ In({"holding"}, Reader)' = In({"holding"}, Reader)
          /\ In({"holding"}, Writer)' = In({"holding"}, Writer)
          /\ In({"holding"}, Task)' = In({"holding"}, Task)
          /\ In({"waiting", "notified"}, Writer)' = In({"waiting", "notified"}, Writer) \cup {t}
      BY <1>0, <2>1 DEF AcquireWriter, In, TypeOK, Task
    <2>3. TypeOK'
      BY <1>0, <2>1 DEF TypeOK
    <2> QED  BY <1>2, <2>1, <2>2, <2>3 DEF CountersExact, MutualExclusion
  <1>4. CASE ~Held
    <2>1. /\ pc' = [pc EXCEPT ![t] = "holding"] /\ waiting_writers' = entered - 1
          /\ writer_active' = TRUE /\ UNCHANGED readers
      BY <1>4 DEF AcquireWriter
    <2>2. /\ In({"holding"}, Reader) = {} /\ In({"holding"}, Writer) = {}
      BY <1>4, PartsFinite, FS_EmptySet DEF CountersExact, Held, TypeOK
    <2>3. /\ In({"holding"}, Reader)' = {}
          /\ In({"holding"}, Writer)' = {t}
          /\ In({"holding"}, Task)' = {t}
          /\ In({"waiting", "notified"}, Writer)' =
               (In({"waiting", "notified"}, Writer) \cup {t}) \ {t}
      BY <1>0, <2>1, <2>2 DEF AcquireWriter, In, TypeOK, Task
    <2>4. /\ Cardinality(In({"waiting", "notified"}, Writer))' = entered - 1
          /\ entered - 1 \in Nat
      <3>1. t \in In({"waiting", "notified"}, Writer) \cup {t}
        OBVIOUS
      <3> HIDE DEF entered
      <3> QED  BY <1>2, <2>3, <3>1, RemoveMember
    <2>5. readers' = Cardinality(In({"holding"}, Reader))'
      BY <2>1, <2>2, <2>3 DEF CountersExact
    <2>6. TypeOK'
      BY <1>0, <2>1, <2>4 DEF TypeOK
    <2> QED  BY <2>1, <2>3, <2>4, <2>5, <2>6 DEF CountersExact, MutualExclusion
  <1> QED  BY <1>3, <1>4

\* release_writer keeps the lock invariant.
LEMMA WriterLeaves ==
  ASSUME LockInv, NEW t \in Writer, ReleaseWriter(t)
  PROVE  LockInv'
  <1> USE DEF LockInv
  <1> DEFINE f == [pc EXCEPT ![t] = "done"]
  <1>0. t \in Task /\ t \notin Reader
    BY TaskAssumption DEF Task
  <1>1. f \in [Task -> {"idle", "waiting", "notified", "holding", "done"}]
    BY DEF TypeOK
  <1>2. /\ pc' \in [Task -> {"idle", "waiting", "notified", "holding", "done"}]
        /\ \A u \in Task : /\ pc'[u] = "holding" <=> f[u] = "holding"
                           /\ pc'[u] \in {"waiting", "notified"}
                                <=> f[u] \in {"waiting", "notified"}
    <2>1. pc' = NotifyAll(f)
      BY DEF ReleaseWriter
    <2> HIDE DEF f
    <2> QED  BY <1>1, <2>1, NotifyAllEffect
  <1>3. In({"holding"}, Task) = {t}
    BY <1>0 DEF MutualExclusion, In, ReleaseWriter
  <1>4. /\ In({"holding"}, Reader)' = In({"holding"}, Reader)
        /\ In({"holding"}, Writer)' = {}
        /\ In({"waiting", "notified"}, Writer)' = In({"waiting", "notified"}, Writer)
    BY <1>0, <1>2, <1>3, ZenonT(60) DEF ReleaseWriter, In, TypeOK, Task
  <1>5. writer_active' = FALSE /\ UNCHANGED <<readers, waiting_writers>>
    BY DEF ReleaseWriter
  <1> QED  BY <1>2, <1>4, <1>5 DEF CountersExact, MutualExclusion, TypeOK

\* A cancelled wait keeps the lock invariant: the finally clause counts a writer out.
LEMMA WaiterCancelled ==
  ASSUME LockInv, NEW t \in Task, Cancel(t)
  PROVE  LockInv'
  <1> USE DEF LockInv
  <1> DEFINE f == [pc EXCEPT ![t] = "done"]
  <1>1. f \in [Task -> {"idle", "waiting", "notified", "holding", "done"}]
    BY DEF TypeOK
  <1>2. /\ pc' \in [Task -> {"idle", "waiting", "notified", "holding", "done"}]
        /\ \A u \in Task : /\ pc'[u] = "holding" <=> f[u] = "holding"
                           /\ pc'[u] \in {"waiting", "notified"}
                                <=> f[u] \in {"waiting", "notified"}
    <2>1. pc' = f \/ \E u \in Task : f[u] = "waiting" /\ pc' = [f EXCEPT ![u] = "notified"]
      BY DEF Cancel
    <2> HIDE DEF f
    <2> QED  BY <1>1, <2>1
  <1>3. /\ In({"holding"}, Reader)' = In({"holding"}, Reader)
        /\ In({"holding"}, Writer)' = In({"holding"}, Writer)
        /\ In({"holding"}, Task)' = In({"holding"}, Task)
        /\ In({"waiting", "notified"}, Writer)' =
             In({"waiting", "notified"}, Writer) \ {t}
        /\ t \in Writer <=> t \in In({"waiting", "notified"}, Writer)
    BY <1>2 DEF Cancel, In, TypeOK, Task
  <1>4. /\ Cardinality(In({"waiting", "notified"}, Writer))'
             = waiting_writers - (IF t \in Writer THEN 1 ELSE 0)
        /\ Cardinality(In({"waiting", "notified"}, Writer))' \in Nat
    BY <1>3, PartsFinite, FS_RemoveElement, FS_CardinalityType DEF CountersExact, TypeOK
  <1>5. /\ waiting_writers' = waiting_writers - (IF t \in Writer THEN 1 ELSE 0)
        /\ UNCHANGED <<readers, writer_active>>
    BY DEF Cancel
  <1> QED  BY <1>2, <1>3, <1>4, <1>5 DEF CountersExact, MutualExclusion, TypeOK

-----------------------------------------------------------------------------

\* LockInv holds in the initial state and every step preserves it.
THEOREM LockInvariant == Spec => []LockInv
  <1>1. Init => LockInv
    <2> SUFFICES ASSUME Init PROVE LockInv  OBVIOUS
    <2>1. /\ In({"holding"}, Reader) = {} /\ In({"holding"}, Writer) = {}
          /\ In({"waiting", "notified"}, Writer) = {}
      BY DEF Init, In, Task
    <2>2. TypeOK
      BY DEF Init, TypeOK
    <2> QED  BY <2>1, <2>2, FS_EmptySet DEF Init, LockInv, CountersExact, MutualExclusion
  <1>2. LockInv /\ [Next]_vars => LockInv'
    <2> SUFFICES ASSUME LockInv, [Next]_vars PROVE LockInv'  OBVIOUS
    <2>1. CASE ReaderStep
      BY <2>1, ReaderEnters, ReaderLeaves DEF ReaderStep
    <2>2. CASE WriterStep
      BY <2>2, WriterEnters, WriterLeaves DEF WriterStep
    <2>3. CASE CancelStep
      BY <2>3, WaiterCancelled DEF CancelStep
    <2>4. CASE UNCHANGED vars
      BY <2>4 DEF vars, LockInv, TypeOK, CountersExact, MutualExclusion, In
    <2> QED  BY <2>1, <2>2, <2>3, <2>4 DEF Next, Done
  <1> QED  BY <1>1, <1>2, PTL DEF Spec

\* No variable of the lock leaves its range; no counter goes below zero.
THEOREM TypeCorrect == Spec => []TypeOK
  <1>1. LockInv => TypeOK  BY DEF LockInv
  <1> QED  BY <1>1, LockInvariant, PTL

\* A writer inside the lock is alone there, whatever was cancelled before.
THEOREM Exclusion == Spec => []MutualExclusion
  <1>1. LockInv => MutualExclusion  BY DEF LockInv
  <1> QED  BY <1>1, LockInvariant, PTL

\* The counters count the holders and the waiting writers exactly.
THEOREM Counters == Spec => []CountersExact
  <1>1. LockInv => CountersExact  BY DEF LockInv
  <1> QED  BY <1>1, LockInvariant, PTL

-----------------------------------------------------------------------------

\* No reader enters while a writer waits.
THEOREM NotOvertaken == Spec => WritersNotOvertaken
  <1> DEFINE A == In({"waiting", "notified"}, Writer) # {}
                    => \A r \in Reader : pc'[r] = "holding" => pc[r] = "holding"
  <1>1. LockInv /\ [Next]_vars => [A]_vars
    <2> SUFFICES ASSUME LockInv, Next, In({"waiting", "notified"}, Writer) # {},
                        NEW r \in Reader, pc'[r] = "holding"
                 PROVE  pc[r] = "holding"
      OBVIOUS
    <2>0. r \in Task /\ r \notin Writer
      BY TaskAssumption DEF Task
    <2>1. waiting_writers > 0
      BY PartsFinite, FS_EmptySet, FS_CardinalityType DEF LockInv, CountersExact, TypeOK
    <2>2. ASSUME NEW t \in Reader, AcquireReader(t) PROVE pc[r] = "holding"
      BY <2>0, <2>1, <2>2 DEF AcquireReader, LockInv, TypeOK
    <2>3. ASSUME NEW t \in Reader, ReleaseReader(t) PROVE pc[r] = "holding"
      BY <2>0, <2>3 DEF ReleaseReader, NotifyAll, LockInv, TypeOK
    <2>4. ASSUME NEW t \in Writer, AcquireWriter(t) PROVE pc[r] = "holding"
      BY <2>0, <2>4 DEF AcquireWriter, LockInv, TypeOK
    <2>5. ASSUME NEW t \in Writer, ReleaseWriter(t) PROVE pc[r] = "holding"
      BY <2>0, <2>5 DEF ReleaseWriter, NotifyAll, LockInv, TypeOK
    <2>6. ASSUME NEW t \in Task, Cancel(t) PROVE pc[r] = "holding"
      <3>1. pc' = [pc EXCEPT ![t] = "done"]
              \/ \E u \in Task : pc' = [[pc EXCEPT ![t] = "done"] EXCEPT ![u] = "notified"]
        BY <2>6 DEF Cancel
      <3> QED  BY <2>0, <3>1 DEF LockInv, TypeOK
    <2> QED  BY <2>2, <2>3, <2>4, <2>5, <2>6
             DEF Next, ReaderStep, WriterStep, CancelStep, Done, vars
  <1> QED  BY <1>1, LockInvariant, PTL DEF Spec, WritersNotOvertaken

\* With a condition variable that hands a cancelled wake-up on, no task is
\* left asleep with nobody to wake it.
THEOREM NobodyStranded ==
  ASSUME PassOnNotify
  PROVE  Spec => []NoStrandedWaiter
  <1> DEFINE WakeInv == LockInv /\ WritersAwake /\ NoStrandedWaiter
  <1>1. Init => WritersAwake /\ NoStrandedWaiter
    BY DEF Init, WritersAwake, NoStrandedWaiter, In, Task
  <1>2. LockInv /\ LockInv' /\ WritersAwake /\ NoStrandedWaiter /\ [Next]_vars
          => WritersAwake' /\ NoStrandedWaiter'
    <2> SUFFICES ASSUME LockInv, LockInv', WritersAwake, NoStrandedWaiter, [Next]_vars
                 PROVE  WritersAwake' /\ NoStrandedWaiter'
      OBVIOUS
    <2> USE DEF LockInv, TypeOK
    <2>0. Reader \subseteq Task /\ Writer \subseteq Task /\ Reader \cap Writer = {}
      BY TaskAssumption DEF Task
    <2>1. ASSUME NEW t \in Reader, AcquireReader(t)
          PROVE  WritersAwake' /\ NoStrandedWaiter'
      <3>1. CASE writer_active \/ waiting_writers > 0
        <4>1. /\ pc' = [pc EXCEPT ![t] = "waiting"]
              /\ UNCHANGED <<readers, writer_active, waiting_writers>>
          BY <2>1, <3>1 DEF AcquireReader
        <4>2. WritersAwake'
          BY <2>0, <4>1 DEF WritersAwake, In, Held
        <4>3. ASSUME ~Held PROVE \E w \in Writer : pc[w] = "notified"
          <5>1. waiting_writers # 0
            BY <3>1, <4>3 DEF Held
          <5>2. In({"waiting", "notified"}, Writer) # {}
            BY <5>1, FS_EmptySet DEF CountersExact
          <5> QED  BY <4>3, <5>2 DEF WritersAwake, In
        <4> QED  BY <2>0, <4>1, <4>2, <4>3 DEF NoStrandedWaiter, In, Held
      <3>2. CASE ~(writer_active \/ waiting_writers > 0)
        BY <2>0, <2>1, <3>2 DEF AcquireReader, WritersAwake, NoStrandedWaiter, In, Held
      <3> QED  BY <3>1, <3>2
    <2>2. ASSUME NEW t \in Reader, ReleaseReader(t)
          PROVE  WritersAwake' /\ NoStrandedWaiter'
      <3>1. CASE readers' = 0
        <4>1. \A u \in Task : pc'[u] # "waiting"
          BY <2>2, <3>1 DEF ReleaseReader, NotifyAll
        <4> QED  BY <2>0, <4>1 DEF WritersAwake, NoStrandedWaiter, In
      <3>2. CASE readers' # 0
        BY <3>2 DEF WritersAwake, NoStrandedWaiter, Held
      <3> QED  BY <3>1, <3>2
    <2>3. ASSUME NEW t \in Writer, AcquireWriter(t)
          PROVE  WritersAwake' /\ NoStrandedWaiter'
      BY <2>3 DEF AcquireWriter, WritersAwake, NoStrandedWaiter, Held
    <2>4. ASSUME NEW t \in Writer, ReleaseWriter(t)
          PROVE  WritersAwake' /\ NoStrandedWaiter'
      <3>1. \A u \in Task : pc'[u] # "waiting"
        BY <2>4 DEF ReleaseWriter, NotifyAll
      <3> QED  BY <2>0, <3>1 DEF WritersAwake, NoStrandedWaiter, In
    <2>5. ASSUME NEW t \in Task, Cancel(t)
          PROVE  WritersAwake' /\ NoStrandedWaiter'
      <3> DEFINE f == [pc EXCEPT ![t] = "done"]
      <3>1. Held' = Held
        BY <2>5 DEF Cancel, Held
      <3>2. \A u \in Task : pc'[u] = "waiting" => pc[u] = "waiting"
        <4>1. pc' = f \/ \E u \in Task : pc' = [f EXCEPT ![u] = "notified"]
          BY <2>5 DEF Cancel
        <4> QED  BY <4>1
      <3>3. WritersAwake'
        BY <2>0, <3>1, <3>2 DEF WritersAwake, In
      <3>4. (\E u \in Task : pc'[u] = "waiting") => \E u \in Task : pc'[u] = "notified"
        <4>1. CASE {u \in Task : f[u] = "waiting"} = {}
          BY <2>5, <4>1 DEF Cancel
        <4>2. CASE {u \in Task : f[u] = "waiting"} # {}
          <5>1. PICK u \in Task : pc' = [f EXCEPT ![u] = "notified"]
            BY <2>5, <4>2 DEF Cancel
          <5> QED  BY <5>1
        <4> QED  BY <4>1, <4>2
      <3> QED  BY <3>3, <3>4 DEF NoStrandedWaiter, In
    <2>6. CASE UNCHANGED vars
      BY <2>6 DEF vars, WritersAwake, NoStrandedWaiter, In, Held
    <2> QED  BY <2>1, <2>2, <2>3, <2>4, <2>5, <2>6
             DEF Next, ReaderStep, WriterStep, CancelStep, Done
  <1> QED  BY <1>1, <1>2, LockInvariant, PTL DEF Spec
=============================================================================
