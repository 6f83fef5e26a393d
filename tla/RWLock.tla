------------------------------- MODULE RWLock -------------------------------
(***************************************************************************)
(* The asyncio reader-writer lock of srt/utils/aio_rwlock.py, which guards *)
(* weight updates against running requests (TokenizerManager's             *)
(* model_update_lock) and the LoRA registry.                               *)
(*                                                                         *)
(* Each method body runs under `async with self._lock`, and the only       *)
(* suspension inside one is `await self._cond.wait()`, which gives _lock   *)
(* back; so _lock is never held across a suspension and every stretch of   *)
(* code between two suspensions is one step here.  A task is one use of    *)
(* the lock.  "waiting" is a task whose future is in the condition's       *)
(* waiter list, "notified" one whose future notify_all() has resolved and  *)
(* which the event loop has yet to resume.                                 *)
(***************************************************************************)
EXTENDS Naturals, FiniteSets

CONSTANTS
    Reader,         \* tasks that use reader_lock
    Writer,         \* tasks that use writer_lock
    Cancellable,    \* tasks whose wait may be cancelled
    PassOnNotify    \* asyncio.Condition.wait() hands its wake-up to another
                    \* waiter when it ends with an exception (Python >= 3.13)

ASSUME TaskAssumption ==
    /\ IsFiniteSet(Reader) /\ IsFiniteSet(Writer)
    /\ Reader \cap Writer = {}
    /\ Cancellable \subseteq Reader \cup Writer
    /\ PassOnNotify \in BOOLEAN

Task == Reader \cup Writer

VARIABLES
    pc,              \* where each task is
    readers,         \* _readers
    writer_active,   \* _writer_active
    waiting_writers  \* _waiting_writers

vars == <<pc, readers, writer_active, waiting_writers>>

In(states, S) == {t \in S : pc[t] \in states}
Held == readers > 0 \/ writer_active

Init ==
    /\ pc = [t \in Task |-> "idle"]
    /\ readers = 0
    /\ writer_active = FALSE
    /\ waiting_writers = 0

\* _cond.notify_all(): every pending future is resolved.  f is the program
\* counter map as the caller has already changed it.
NotifyAll(f) == [t \in Task |-> IF f[t] = "waiting" THEN "notified" ELSE f[t]]

\* Mutant: a reader looks only at the writer that holds the lock now.
AcquireReaderUnfair(t) ==
    /\ pc[t] \in {"idle", "notified"}
    /\ IF writer_active
         THEN /\ pc' = [pc EXCEPT ![t] = "waiting"]
              /\ UNCHANGED readers
         ELSE /\ pc' = [pc EXCEPT ![t] = "holding"]
              /\ readers' = readers + 1
    /\ UNCHANGED <<writer_active, waiting_writers>>

\* Mutant: a woken reader lets the other waiting readers go first.
AcquireReaderYields(t) ==
    /\ pc[t] \in {"idle", "notified"}
    /\ IF writer_active \/ waiting_writers > 0
         THEN /\ pc' = [pc EXCEPT ![t] = "waiting"]
              /\ UNCHANGED readers
         ELSE IF pc[t] = "notified" /\ In({"waiting", "notified"}, Reader) # {t}
         THEN /\ pc' = [NotifyAll(pc) EXCEPT ![t] = "waiting"]
              /\ UNCHANGED readers
         ELSE /\ pc' = [pc EXCEPT ![t] = "holding"]
              /\ readers' = readers + 1
    /\ UNCHANGED <<writer_active, waiting_writers>>

\* A step of acquire_reader up to its next suspension or its end: entering it,
\* or being resumed inside the while loop.
AcquireReader(t) ==
    /\ pc[t] \in {"idle", "notified"}
    /\ IF writer_active \/ waiting_writers > 0
         THEN /\ pc' = [pc EXCEPT ![t] = "waiting"]
              /\ UNCHANGED readers
         ELSE /\ pc' = [pc EXCEPT ![t] = "holding"]
              /\ readers' = readers + 1
    /\ UNCHANGED <<writer_active, waiting_writers>>

\* Mutant: the last reader wakes nobody.
ReleaseReaderSilent(t) ==
    /\ pc[t] = "holding"
    /\ readers' = readers - 1
    /\ pc' = [pc EXCEPT ![t] = "done"]
    /\ UNCHANGED <<writer_active, waiting_writers>>

ReleaseReader(t) ==
    /\ pc[t] = "holding"
    /\ readers' = readers - 1
    /\ pc' = LET f == [pc EXCEPT ![t] = "done"] IN
             IF readers' = 0 THEN NotifyAll(f) ELSE f
    /\ UNCHANGED <<writer_active, waiting_writers>>

\* Mutant: the writer's wait loop was an `if`: once woken it takes the lock.
AcquireWriterOnce(t) ==
    \/ /\ pc[t] = "idle"
       /\ IF Held
            THEN /\ pc' = [pc EXCEPT ![t] = "waiting"]
                 /\ waiting_writers' = waiting_writers + 1
                 /\ UNCHANGED writer_active
            ELSE /\ pc' = [pc EXCEPT ![t] = "holding"]
                 /\ writer_active' = TRUE
                 /\ UNCHANGED waiting_writers
       /\ UNCHANGED readers
    \/ /\ pc[t] = "notified"
       /\ pc' = [pc EXCEPT ![t] = "holding"]
       /\ writer_active' = TRUE
       /\ waiting_writers' = waiting_writers - 1
       /\ UNCHANGED readers

\* A step of acquire_writer: the count of waiting writers goes up on entry and
\* down, in the finally clause, on success.
AcquireWriter(t) ==
    /\ pc[t] \in {"idle", "notified"}
    /\ LET entered == waiting_writers + (IF pc[t] = "idle" THEN 1 ELSE 0) IN
       IF Held
         THEN /\ pc' = [pc EXCEPT ![t] = "waiting"]
              /\ waiting_writers' = entered
              /\ UNCHANGED writer_active
         ELSE /\ pc' = [pc EXCEPT ![t] = "holding"]
              /\ writer_active' = TRUE
              /\ waiting_writers' = entered - 1
    /\ UNCHANGED readers

ReleaseWriter(t) ==
    /\ pc[t] = "holding"
    /\ writer_active' = FALSE
    /\ pc' = NotifyAll([pc EXCEPT ![t] = "done"])
    /\ UNCHANGED <<readers, waiting_writers>>

\* Mutant: cancellation skips the finally clause of acquire_writer.
CancelLeaksWaiter(t) ==
    /\ t \in Cancellable
    /\ pc[t] \in {"waiting", "notified"}
    /\ pc' = [pc EXCEPT ![t] = "done"]
    /\ UNCHANGED <<readers, writer_active, waiting_writers>>

\* The event loop resumes a waiting task with CancelledError.  acquire_writer's
\* finally clause lowers the count but notifies nobody; whether another waiter
\* is woken is up to asyncio.Condition.wait().
Cancel(t) ==
    /\ t \in Cancellable
    /\ pc[t] \in {"waiting", "notified"}
    /\ LET f == [pc EXCEPT ![t] = "done"]
           asleep == {u \in Task : f[u] = "waiting"}
       IN IF PassOnNotify /\ asleep # {}
            THEN \E u \in asleep : pc' = [f EXCEPT ![u] = "notified"]
            ELSE pc' = f
    /\ waiting_writers' = waiting_writers - (IF t \in Writer THEN 1 ELSE 0)
    /\ UNCHANGED <<readers, writer_active>>

ReaderStep == \E t \in Reader : AcquireReader(t) \/ ReleaseReader(t)
WriterStep == \E t \in Writer : AcquireWriter(t) \/ ReleaseWriter(t)
CancelStep == \E t \in Task : Cancel(t)

\* Every task may have ended; the lock then stays as it is.
Done == (\A t \in Task : pc[t] = "done") /\ UNCHANGED vars

Next == ReaderStep \/ WriterStep \/ CancelStep \/ Done

Spec == Init /\ [][Next]_vars

\* The event loop resumes every task that is ready, and a holder's body ends;
\* no task has to start, and none has to be cancelled.
Resume(t) ==
    /\ pc[t] = "notified"
    /\ (t \in Reader /\ AcquireReader(t)) \/ (t \in Writer /\ AcquireWriter(t))
Leave(t) ==
    (t \in Reader /\ ReleaseReader(t)) \/ (t \in Writer /\ ReleaseWriter(t))

FairSpec ==
    /\ Spec
    /\ \A t \in Task : WF_vars(Resume(t)) /\ WF_vars(Leave(t))

-----------------------------------------------------------------------------

\* Every variable stays in its range; in particular the counters of
\* release_reader and acquire_writer's finally clause never go below zero.
TypeOK ==
    /\ pc \in [Task -> {"idle", "waiting", "notified", "holding", "done"}]
    /\ readers \in Nat
    /\ writer_active \in BOOLEAN
    /\ waiting_writers \in Nat

\* What reader_lock and writer_lock promise ("shared", "exclusive"): while a
\* writer is inside, no other writer and no reader is.
MutualExclusion ==
    \A w \in In({"holding"}, Writer) : In({"holding"}, Task) = {w}

\* The three fields say exactly who holds and who waits, also after a waiting
\* writer was cancelled: a count left behind would shut every reader out.
CountersExact ==
    /\ readers = Cardinality(In({"holding"}, Reader))
    /\ writer_active <=> In({"holding"}, Writer) # {}
    /\ waiting_writers = Cardinality(In({"waiting", "notified"}, Writer))

\* No wake-up is lost: a task asleep on the condition has somebody who will
\* notify it, a holder or a task already resumed by notify_all().
NoStrandedWaiter ==
    In({"waiting"}, Task) # {} => Held \/ In({"notified"}, Task) # {}

\* Writers are not overtaken: while a writer waits its turn no reader gets in,
\* not even one that was waiting before it ("to ensure fairness").
WritersNotOvertaken ==
    [][In({"waiting", "notified"}, Writer) # {}
         => \A r \in Reader : pc'[r] = "holding" => pc[r] = "holding"]_vars

\* acquire_reader and acquire_writer return in the end, unless cancelled, as
\* long as every holder leaves.
EventuallyServed ==
    \A t \in Task : pc[t] = "waiting" ~> pc[t] \in {"holding", "done"}
=============================================================================
