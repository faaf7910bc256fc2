-------------------------- MODULE ProcessChildProofs --------------------------
(***************************************************************************)
(* Proofs about one call of a process plugin, for every set of heirs and   *)
(* every choice of the three durations: how long it may take, what it may  *)
(* call an answer, and what it may leave running.                          *)
(*                                                                         *)
(* The inductive invariant adds to the types, for each place the driver    *)
(* can be in, what it waits for and until when (Clock), what is known of   *)
(* the child's end (Course), and what has been killed (Containment).       *)
(***************************************************************************)
EXTENDS ProcessChild, TLAPS

Bound == Timeout + Grace + 2 * TreeWait

\* Each wait starts where the one before it ended at the latest.
Clock ==
  /\ pc = "spawn" => now = 0
  /\ pc = "wait" => deadline <= Timeout
  /\ pc = "settle" => deadline <= Timeout + Grace
  /\ pc = "reap" => deadline <= Timeout + Grace + TreeWait
  /\ pc = "join" => deadline <= Bound
  /\ pc \notin {"spawn", "done"} => now <= deadline
  /\ now <= Bound

\* The line was taken, and a child that failed did so after its grace.
InGrace ==
  /\ lineAt \in Nat
  /\ failedAt # NoTime => failedAt >= lineAt + Grace
  /\ exit = "none" => now >= lineAt + Grace

Course ==
  /\ pc = "spawn" => live = {}
  /\ pc \in {"spawn", "wait", "settle"} => /\ verdict = "line" /\ known = "none"
                                           /\ failedAt # NoTime => exit = "failure"
  /\ pc = "settle" => lineAt \in Nat /\ deadline = lineAt + Grace
  /\ exit # "none" => pc # "spawn" /\ Child \notin live
  /\ pc \in {"reap", "join"} /\ verdict = "line" => InGrace
  /\ verdict = "answered" => InGrace

Contained ==
  containment = "group" /\ (pc = "reap" \/ (pc \in {"join", "done"} /\ Hung)) => group \subseteq doomed

IInv == TypeOK /\ Clock /\ Course /\ Contained

USE ChildAssumption

LEMMA InitIInv == Init => IInv
<1> SUFFICES ASSUME Init PROVE IInv
  OBVIOUS
<1>1. TypeOK
  BY SMT DEF Init, TypeOK, Verdict, Line, Process
<1>2. Clock
  BY SMT DEF Init, Clock, Bound
<1>3. Course
  BY SMT DEF Init, Course, InGrace
<1>4. Contained
  BY SMT DEF Init, Contained
<1> QED BY <1>1, <1>2, <1>3, <1>4 DEF IInv

\* Types.
LEMMA TypeStep == ASSUME TypeOK, Course, [Next]_vars PROVE TypeOK'
<1> USE DEF TypeOK, Course, InGrace, Process, Willing, Line, Verdict, driver, threads, tree, pipes, status
<1>1. CASE \E p \in Process : TakeRequest(p)
  BY <1>1, SMT DEF TakeRequest
<1>2. CASE \E p \in Process, line \in Line, end \in {"open", "newline"} : Say(p, line, end)
  BY <1>2, SMT DEF Say
<1>3. CASE \E p \in Process : Close(p)
  BY <1>3, SMT DEF Close
<1>4. CASE \E p \in Process, h \in Heir : Fork(p, h)
  BY <1>4, SMT DEF Fork, With
<1>5. CASE \E p \in Process : Leave(p)
  BY <1>5, SMT DEF Leave
<1>6. CASE \E p \in Process, outcome \in {"success", "failure"} : Exit(p, outcome)
  BY <1>6, SMT DEF Exit
<1>7. CASE Threads
  BY <1>7, SMT DEF Threads, WriteRequest, ReadLine
<1>8. CASE SpawnFails
  BY <1>8, SMT DEF SpawnFails
<1>9. CASE Spawn
  BY <1>9, SMT DEF Spawn
<1>10. CASE RecvLine
  BY <1>10, SMT DEF RecvLine
<1>11. CASE RecvUnusable
  BY <1>11, SMT DEF RecvUnusable, Terminate
<1>12. CASE RecvTimeout
  BY <1>12, SMT DEF RecvTimeout, Terminate
<1>13. CASE Settle
  BY <1>13, SMT DEF Settle
<1>14. CASE SettleLingering
  BY <1>14, SMT DEF SettleLingering, Terminate
<1>15. CASE SettleFails
  BY <1>15, SMT DEF SettleFails, Terminate
<1>16. CASE Reap
  BY <1>16, SMT DEF Reap
<1>17. CASE FinishThreads
  BY <1>17, SMT DEF FinishThreads, Decoded
<1>18. CASE Tick
  BY <1>18, SMT DEF Tick
<1>19. CASE UNCHANGED vars
  BY <1>19, SMT DEF vars
<1> QED
  BY <1>1, <1>2, <1>3, <1>4, <1>5, <1>6, <1>7, <1>8, <1>9, <1>10, <1>11,
     <1>12, <1>13, <1>14, <1>15, <1>16, <1>17, <1>18, <1>19
     DEF Next, Plugin, RunChild

\* Deadlines: only the driver sets one, and only time passes.
LEMMA ClockStep == ASSUME TypeOK, Clock, Course, [Next]_vars PROVE Clock'
<1> USE DEF TypeOK, Clock, Bound, Course, driver, threads, tree, pipes, status
<1>1. CASE \E p \in Process : TakeRequest(p)
  BY <1>1, SMT DEF TakeRequest
<1>2. CASE \E p \in Process, line \in Line, end \in {"open", "newline"} : Say(p, line, end)
  BY <1>2, SMT DEF Say
<1>3. CASE \E p \in Process : Close(p)
  BY <1>3, SMT DEF Close
<1>4. CASE \E p \in Process, h \in Heir : Fork(p, h)
  BY <1>4, SMT DEF Fork, With
<1>5. CASE \E p \in Process : Leave(p)
  BY <1>5, SMT DEF Leave
<1>6. CASE \E p \in Process, outcome \in {"success", "failure"} : Exit(p, outcome)
  BY <1>6, SMT DEF Exit
<1>7. CASE Threads
  BY <1>7, SMT DEF Threads, WriteRequest, ReadLine
<1>8. CASE SpawnFails
  BY <1>8, SMT DEF SpawnFails
<1>9. CASE Spawn
  BY <1>9, SMT DEF Spawn
<1>10. CASE RecvLine
  BY <1>10, SMT DEF RecvLine
<1>11. CASE RecvUnusable
  BY <1>11, SMT DEF RecvUnusable, Terminate
<1>12. CASE RecvTimeout
  BY <1>12, SMT DEF RecvTimeout, Terminate
<1>13. CASE Settle
  BY <1>13, SMT DEF Settle
<1>14. CASE SettleLingering
  BY <1>14, SMT DEF SettleLingering, Terminate
<1>15. CASE SettleFails
  BY <1>15, SMT DEF SettleFails, Terminate
<1>16. CASE Reap
  BY <1>16, SMT DEF Reap
<1>17. CASE FinishThreads
  BY <1>17, SMT DEF FinishThreads, Decoded
<1>18. CASE Tick
  BY <1>18, SMT DEF Tick
<1>19. CASE UNCHANGED vars
  BY <1>19, SMT DEF vars
<1> QED
  BY <1>1, <1>2, <1>3, <1>4, <1>5, <1>6, <1>7, <1>8, <1>9, <1>10, <1>11,
     <1>12, <1>13, <1>14, <1>15, <1>16, <1>17, <1>18, <1>19
     DEF Next, Plugin, RunChild

\* The child's end: it is final, and until the driver knows of it or gives up,
\* a child that failed says so by its status.
LEMMA CourseStep == ASSUME TypeOK, Clock, Course, [Next]_vars PROVE Course'
<1> USE DEF TypeOK, Clock, Course, InGrace, Willing, Process, Verdict, Line, driver, threads, tree, pipes, status
<1>1. CASE \E p \in Process : TakeRequest(p)
  BY <1>1, SMT DEF TakeRequest
<1>2. CASE \E p \in Process, line \in Line, end \in {"open", "newline"} : Say(p, line, end)
  BY <1>2, SMT DEF Say
<1>3. CASE \E p \in Process : Close(p)
  BY <1>3, SMT DEF Close
<1>4. CASE \E p \in Process, h \in Heir : Fork(p, h)
  BY <1>4, SMT DEF Fork, With
<1>5. CASE \E p \in Process : Leave(p)
  BY <1>5, SMT DEF Leave
<1>6. CASE \E p \in Process, outcome \in {"success", "failure"} : Exit(p, outcome)
  BY <1>6, SMT DEF Exit
<1>7. CASE Threads
  BY <1>7, SMT DEF Threads, WriteRequest, ReadLine
<1>8. CASE SpawnFails
  BY <1>8, SMT DEF SpawnFails
<1>9. CASE Spawn
  BY <1>9, SMT DEF Spawn
<1>10. CASE RecvLine
  BY <1>10, SMT DEF RecvLine
<1>11. CASE RecvUnusable
  BY <1>11, SMT DEF RecvUnusable, Terminate
<1>12. CASE RecvTimeout
  BY <1>12, SMT DEF RecvTimeout, Terminate
<1>13. CASE Settle
  BY <1>13, SMT DEF Settle
<1>14. CASE SettleLingering
  BY <1>14, SMT DEF SettleLingering, Terminate
<1>15. CASE SettleFails
  BY <1>15, SMT DEF SettleFails, Terminate
<1>16. CASE Reap
  BY <1>16, SMT DEF Reap
<1>17. CASE FinishThreads
  BY <1>17, SMT DEF FinishThreads, Decoded
<1>18. CASE Tick
  BY <1>18, SMT DEF Tick
<1>19. CASE UNCHANGED vars
  BY <1>19, SMT DEF vars
<1> QED
  BY <1>1, <1>2, <1>3, <1>4, <1>5, <1>6, <1>7, <1>8, <1>9, <1>10, <1>11,
     <1>12, <1>13, <1>14, <1>15, <1>16, <1>17, <1>18, <1>19
     DEF Next, Plugin, RunChild

\* A killed group gains no member that is not killed: a doomed process forks
\* no more.
LEMMA ContainedStep == ASSUME TypeOK, Course, Contained, [Next]_vars PROVE Contained'
<1> USE DEF TypeOK, Course, InGrace, Contained, Hung, Willing, Process, Verdict, Line, driver, threads, tree, pipes, status
<1>1. CASE \E p \in Process : TakeRequest(p)
  BY <1>1, SMT DEF TakeRequest
<1>2. CASE \E p \in Process, line \in Line, end \in {"open", "newline"} : Say(p, line, end)
  BY <1>2, SMT DEF Say
<1>3. CASE \E p \in Process : Close(p)
  BY <1>3, SMT DEF Close
<1>4. CASE \E p \in Process, h \in Heir : Fork(p, h)
  BY <1>4, SMT DEF Fork, With
<1>5. CASE \E p \in Process : Leave(p)
  BY <1>5, SMT DEF Leave
<1>6. CASE \E p \in Process, outcome \in {"success", "failure"} : Exit(p, outcome)
  BY <1>6, SMT DEF Exit
<1>7. CASE Threads
  BY <1>7, SMT DEF Threads, WriteRequest, ReadLine
<1>8. CASE SpawnFails
  BY <1>8, SMT DEF SpawnFails
<1>9. CASE Spawn
  BY <1>9, SMT DEF Spawn
<1>10. CASE RecvLine
  BY <1>10, SMT DEF RecvLine
<1>11. CASE RecvUnusable
  BY <1>11, SMT DEF RecvUnusable, Terminate
<1>12. CASE RecvTimeout
  BY <1>12, SMT DEF RecvTimeout, Terminate
<1>13. CASE Settle
  BY <1>13, SMT DEF Settle
<1>14. CASE SettleLingering
  BY <1>14, SMT DEF SettleLingering, Terminate
<1>15. CASE SettleFails
  BY <1>15, SMT DEF SettleFails, Terminate
<1>16. CASE Reap
  BY <1>16, SMT DEF Reap
<1>17. CASE FinishThreads
  BY <1>17, SMT DEF FinishThreads, Decoded
<1>18. CASE Tick
  BY <1>18, SMT DEF Tick
<1>19. CASE UNCHANGED vars
  BY <1>19, SMT DEF vars
<1> QED
  BY <1>1, <1>2, <1>3, <1>4, <1>5, <1>6, <1>7, <1>8, <1>9, <1>10, <1>11,
     <1>12, <1>13, <1>14, <1>15, <1>16, <1>17, <1>18, <1>19
     DEF Next, Plugin, RunChild

LEMMA Invariance == Spec => []IInv
<1>1. Init => IInv
  BY InitIInv
<1>2. IInv /\ [Next]_vars => IInv'
  BY TypeStep, ClockStep, CourseStep, ContainedStep DEF IInv
<1> QED BY <1>1, <1>2, PTL DEF Spec

-----------------------------------------------------------------------------
\* The driver, its threads, the plugin's processes and the pipes between them
\* are well formed throughout a call.
THEOREM TypeCorrect == Spec => []TypeOK
<1>1. IInv => TypeOK
  BY DEF IInv
<1> QED BY <1>1, Invariance, PTL

\* run_child never takes longer than its timeout, the grace and two tree waits.
THEOREM CallsAreBounded == Spec => []CallIsBounded
<1>1. IInv => CallIsBounded
  BY DEF IInv, Clock, Bound, CallIsBounded
<1> QED BY <1>1, Invariance, PTL

\* A child that failed within its grace (settle) is never taken for one that
\* answered.
THEOREM FailuresAreReported == Spec => []FailedExitIsReported
<1>1. IInv => FailedExitIsReported
  BY DEF IInv, Course, InGrace, FailedExitIsReported
<1> QED BY <1>1, Invariance, PTL

\* The group of a child that did not end in time (terminate) is killed, all of
\* it.
THEOREM LingerersAreKilled == Spec => []LingererIsKilled
<1>1. IInv => LingererIsKilled
  BY DEF IInv, Contained, LingererIsKilled
<1> QED BY <1>1, Invariance, PTL

\* No signal is sent to a process id that was given back (terminate).
THEOREM SignalsStayInTheTree == Spec => SignalsOnlyItsTree
<1>1. IInv /\ [Next]_vars => [pc # "reap" /\ pc' = "reap" => known' = "none"]_vars
  <2> SUFFICES ASSUME IInv, Next, pc # "reap", pc' = "reap" PROVE known' = "none"
    OBVIOUS
  <2>1. CASE Plugin \/ Threads \/ Tick
    BY <2>1 DEF Plugin, TakeRequest, Say, Close, Fork, Leave, Exit, Threads, WriteRequest, ReadLine,
                Tick, driver
  <2>2. CASE RunChild
    BY <2>2 DEF RunChild, SpawnFails, Spawn, RecvLine, RecvUnusable, RecvTimeout, Settle,
                SettleLingering, SettleFails, Reap, FinishThreads, Terminate, status, IInv, Course
  <2> QED BY <2>1, <2>2 DEF Next
<1> QED BY <1>1, Invariance, PTL DEF Spec, SignalsOnlyItsTree

=============================================================================
