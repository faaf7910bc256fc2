----------------------------- MODULE ProcessChild -----------------------------
(***************************************************************************)
(* One call of a process plugin (crates/plugin-process/src/protocol.rs):   *)
(* run_child starts the configured program, a writer thread hands it the   *)
(* request, a reader thread waits for one line, the driver waits for that  *)
(* line, for the exit status and for the threads, each within a deadline;  *)
(* decode then accepts the line or not.                                    *)
(*                                                                         *)
(* The program and whatever it starts, on Unix, are arbitrary: they read,  *)
(* write, close, fork, leave the process group, exit or hang as they like, *)
(* and not even a killed process need die.  Time is counted in ticks; a    *)
(* driver that polls acts no later than the deadline it polls for.         *)
(***************************************************************************)
EXTENDS Integers

CONSTANTS
  Child,     \* the process the driver starts
  Heir,      \* the processes the child and its heirs may start
  Timeout,   \* ProcessConfig.timeout, in ticks
  Grace,     \* EXIT_GRACE
  TreeWait,  \* TREE_WAIT
  NoTime

ASSUME ChildAssumption ==
  /\ Timeout \in Nat /\ Grace \in Nat /\ TreeWait \in Nat
  /\ NoTime \notin Nat /\ Child \notin Heir

Process == Heir \cup {Child}

\* What the first line of the answer amounts to: JSON of the expected type,
\* white space, anything else, bytes that are not UTF-8, or too many bytes.
Line == {"answer", "blank", "noise", "garbled", "oversized"}

\* What the call returns: only "answered" is an Ok.
Verdict == {"answered", "not_started", "timed_out", "unreadable", "oversized", "exited",
            "status_unknown", "undelivered", "empty", "invalid"}

VARIABLES
  pc,        \* where the driver is
  deadline,  \* what it waits until
  verdict,   \* what it will return; "line" while the line decides
  now,
  writer,    \* the thread that writes the request
  reader,    \* the thread that reads a line: "reading", or the line it sent
  live,      \* running processes, the killed ones that have not died included
  doomed,    \* live processes that were sent SIGKILL
  group,     \* live members of the child's process group
  stdin,     \* live processes that hold the reading end of the request pipe
  stdout,    \* live processes that hold the writing end of the answer pipe
  backlog,   \* "fits" once the rest of the request fits in its pipe
  said,      \* what is in the answer pipe
  line_end,  \* "newline" once that line is complete
  exit,      \* the child's exit status, once it has one
  known,     \* the status as collected by the driver: from then on the child's
             \* pid may be another process's
  containment, \* what terminate reaches: the "group", or the "child" alone
  lineAt,    \* history: when the driver took the line
  failedAt   \* history: when the child failed or was killed by the driver

driver  == <<pc, deadline, verdict>>
threads == <<writer, reader>>
tree    == <<live, doomed, group, stdin, stdout>>
pipes   == <<backlog, said, line_end>>
status  == <<exit, known>>
vars    == <<driver, now, threads, tree, pipes, status, containment, lineAt, failedAt>>

Init ==
  /\ pc = "spawn" /\ deadline = 0 /\ verdict = "line" /\ now = 0
  /\ writer = "writing" /\ reader = "reading"
  /\ live = {} /\ doomed = {} /\ group = {} /\ stdin = {} /\ stdout = {}
  /\ backlog \in {"fits", "blocks"} /\ said = "nothing" /\ line_end = "open"
  /\ exit = "none" /\ known = "none" /\ containment \in {"group", "child"}
  /\ lineAt = NoTime /\ failedAt = NoTime

(***************************************************************************)
(* The plugin and its heirs.                                               *)
(***************************************************************************)
Willing == live \ doomed

TakeRequest(p) ==
  /\ p \in Willing \cap stdin /\ backlog = "blocks"
  /\ backlog' = "fits"
  /\ UNCHANGED <<driver, now, threads, tree, said, line_end, status, containment, lineAt, failedAt>>

Say(p, line, end) ==
  /\ p \in Willing \cap stdout /\ line_end = "open" /\ said # "oversized"
  /\ said' = line /\ line_end' = end
  /\ UNCHANGED <<driver, now, threads, tree, backlog, status, containment, lineAt, failedAt>>

Close(p) ==
  /\ p \in Willing
  /\ \/ /\ p \in stdin /\ stdin' = stdin \ {p} /\ UNCHANGED stdout
     \/ /\ p \in stdout /\ stdout' = stdout \ {p} /\ UNCHANGED stdin
  /\ UNCHANGED <<driver, now, threads, live, doomed, group, pipes, status, containment,
                 lineAt, failedAt>>

With(S, p, h) == IF p \in S THEN S \cup {h} ELSE S

Fork(p, h) ==
  /\ p \in Willing /\ h \in Heir \ live
  /\ live' = live \cup {h}
  /\ group' = With(group, p, h) /\ stdin' = With(stdin, p, h) /\ stdout' = With(stdout, p, h)
  /\ UNCHANGED <<driver, now, threads, doomed, pipes, status, containment, lineAt, failedAt>>

\* A group leader cannot start a session of its own, its heirs can.
Leave(h) ==
  /\ h \in Heir \cap Willing \cap group
  /\ group' = group \ {h}
  /\ UNCHANGED <<driver, now, threads, live, doomed, stdin, stdout, pipes, status, containment,
                 lineAt, failedAt>>

Exit(p, outcome) ==
  /\ p \in live
  /\ p \in doomed => outcome = "failure"
  /\ live' = live \ {p} /\ doomed' = doomed \ {p} /\ group' = group \ {p}
  /\ stdin' = stdin \ {p} /\ stdout' = stdout \ {p}
  /\ exit' = IF p = Child THEN outcome ELSE exit
  /\ failedAt' = IF p = Child /\ outcome = "failure" /\ p \notin doomed THEN now ELSE failedAt
  /\ UNCHANGED <<driver, now, threads, pipes, known, containment, lineAt>>

Plugin ==
  \E p \in Process :
    \/ TakeRequest(p) \/ Close(p) \/ Leave(p)
    \/ \E line \in Line, end \in {"open", "newline"} : Say(p, line, end)
    \/ \E h \in Heir : Fork(p, h)
    \/ \E outcome \in {"success", "failure"} : Exit(p, outcome)

(***************************************************************************)
(* The helper threads.  A write into a pipe nobody reads any more fails; a *)
(* line ends with a newline, at the limit, or when nobody can write on.    *)
(***************************************************************************)
WriteRequest ==
  /\ pc # "spawn" /\ writer = "writing"
  /\ \/ stdin # {} /\ backlog = "fits" /\ writer' = "sent"
     \/ stdin = {} /\ writer' = "broken"
  /\ UNCHANGED <<driver, now, reader, tree, pipes, status, containment, lineAt, failedAt>>

ReadLine ==
  /\ pc # "spawn" /\ reader = "reading"
  /\ line_end = "newline" \/ said = "oversized" \/ stdout = {}
  /\ reader' = IF said = "nothing" THEN "blank" ELSE said
  /\ UNCHANGED <<driver, now, writer, tree, pipes, status, containment, lineAt, failedAt>>

Threads == WriteRequest \/ ReadLine

(***************************************************************************)
(* The driver.                                                             *)
(***************************************************************************)
SpawnFails ==
  /\ pc = "spawn"
  /\ pc' = "done" /\ verdict' = "not_started"
  /\ UNCHANGED <<deadline, now, threads, tree, pipes, status, containment, lineAt, failedAt>>

Spawn ==
  /\ pc = "spawn"
  /\ live' = {Child} /\ group' = {Child} /\ stdin' = {Child} /\ stdout' = {Child}
  /\ pc' = "wait" /\ deadline' = now + Timeout
  /\ UNCHANGED <<verdict, now, threads, doomed, pipes, status, containment, lineAt, failedAt>>

\* Mistake: Child::kill alone.
TerminateChildOnly ==
  /\ doomed' = doomed \cup (live \cap {Child})
  /\ pc' = "reap" /\ deadline' = now + TreeWait
  /\ failedAt' = IF exit = "none" THEN now ELSE failedAt
  /\ UNCHANGED <<live, group, stdin, stdout, status>>

\* Containment::terminate: kill the group where there is one, and the child,
\* then wait for the child's status for a while.
Terminate ==
  /\ doomed' = doomed \cup (live \cap {Child}) \cup (IF containment = "group" THEN group ELSE {})
  /\ pc' = "reap" /\ deadline' = now + TreeWait
  /\ failedAt' = IF exit = "none" THEN now ELSE failedAt
  /\ UNCHANGED <<live, group, stdin, stdout, status>>

RecvLine ==
  /\ pc = "wait" /\ reader \in {"answer", "blank", "noise"}
  /\ pc' = "settle" /\ deadline' = now + Grace /\ lineAt' = now
  /\ UNCHANGED <<verdict, now, threads, tree, pipes, status, containment, failedAt>>

RecvUnusable ==
  /\ pc = "wait" /\ reader \in {"garbled", "oversized"}
  /\ Terminate
  /\ verdict' = IF reader = "garbled" THEN "unreadable" ELSE "oversized"
  /\ UNCHANGED <<now, threads, pipes, containment, lineAt>>

\* The reader always sends, so the channel is never found disconnected.
RecvTimeout ==
  /\ pc = "wait" /\ reader = "reading" /\ now >= deadline
  /\ Terminate
  /\ verdict' = "timed_out"
  /\ UNCHANGED <<now, threads, pipes, containment, lineAt>>

\* Mistake: the tree of a child that exited is terminated after its status was
\* collected.
SettleThenTerminate ==
  /\ pc = "settle" /\ exit # "none"
  /\ doomed' = doomed \cup (IF containment = "group" THEN group ELSE {})
  /\ known' = exit
  /\ verdict' = IF exit = "success" THEN "line" ELSE "exited"
  /\ pc' = "reap" /\ deadline' = now + TreeWait
  /\ UNCHANGED <<now, threads, live, group, stdin, stdout, pipes, exit, containment, lineAt,
                 failedAt>>

Settle ==
  /\ pc = "settle" /\ exit # "none"
  /\ known' = exit
  /\ verdict' = IF exit = "success" THEN "line" ELSE "exited"
  /\ pc' = "join" /\ deadline' = now + TreeWait
  /\ UNCHANGED <<now, threads, tree, pipes, exit, containment, lineAt, failedAt>>

\* Mistake: no grace, a single look at the status.
SettleAtOnce ==
  /\ pc = "settle" /\ exit = "none"
  /\ Terminate
  /\ UNCHANGED <<verdict, now, threads, pipes, containment, lineAt>>

SettleLingering ==
  /\ pc = "settle" /\ exit = "none" /\ now >= deadline
  /\ Terminate
  /\ UNCHANGED <<verdict, now, threads, pipes, containment, lineAt>>

SettleFails ==
  /\ pc = "settle"
  /\ Terminate
  /\ verdict' = "status_unknown"
  /\ UNCHANGED <<now, threads, pipes, containment, lineAt>>

\* Mistake: a deadline per thread in finish_threads.
ReapThenJoinEach ==
  /\ pc = "reap"
  /\ \/ exit # "none" /\ known' = exit
     \/ UNCHANGED known
  /\ pc' = IF verdict = "status_unknown" THEN "done" ELSE "join"
  /\ deadline' = now + 2 * TreeWait
  /\ UNCHANGED <<verdict, now, threads, tree, pipes, exit, containment, lineAt, failedAt>>

\* reap_bounded: the status, or the deadline or an error, which may come at any
\* time.  Where settle failed the call returns at once, its threads left to
\* themselves.
Reap ==
  /\ pc = "reap"
  /\ \/ exit # "none" /\ known' = exit
     \/ UNCHANGED known
  /\ pc' = IF verdict = "status_unknown" THEN "done" ELSE "join"
  /\ deadline' = now + TreeWait
  /\ UNCHANGED <<verdict, now, threads, tree, pipes, exit, containment, lineAt, failedAt>>

\* decode, and run_child's choice of what to blame for an empty line.
Decoded ==
  CASE reader = "answer" -> "answered"
    [] reader = "blank"  -> IF writer = "broken" THEN "undelivered" ELSE "empty"
    [] OTHER             -> "invalid"

Joined == writer # "writing" /\ reader # "reading"

\* Mistake: JoinHandle::join, which waits for as long as the thread runs.
FinishThreadsUnbounded ==
  /\ pc = "join" /\ Joined
  /\ pc' = "done"
  /\ verdict' = IF verdict = "line" THEN Decoded ELSE verdict
  /\ UNCHANGED <<deadline, now, threads, tree, pipes, status, containment, lineAt, failedAt>>

FinishThreads ==
  /\ pc = "join" /\ (Joined \/ now >= deadline)
  /\ pc' = "done"
  /\ verdict' = IF verdict = "line" THEN Decoded ELSE verdict
  /\ UNCHANGED <<deadline, now, threads, tree, pipes, status, containment, lineAt, failedAt>>

RunChild ==
  \/ SpawnFails \/ Spawn \/ RecvLine \/ RecvUnusable \/ RecvTimeout
  \/ Settle \/ SettleLingering \/ SettleFails \/ Reap \/ FinishThreads

Tick ==
  /\ pc \notin {"spawn", "done"} /\ now < deadline
  /\ now' = now + 1
  /\ UNCHANGED <<driver, threads, tree, pipes, status, containment, lineAt, failedAt>>

Next == Plugin \/ Threads \/ RunChild \/ Tick

Spec == Init /\ [][Next]_vars

\* The driver's thread runs and time goes on; nothing else need ever move.
FairSpec == Spec /\ WF_vars(RunChild) /\ WF_vars(Tick)

(***************************************************************************)
(* Properties.                                                             *)
(***************************************************************************)
TypeOK ==
  /\ pc \in {"spawn", "wait", "settle", "reap", "join", "done"}
  /\ deadline \in Nat /\ now \in Nat
  /\ verdict \in Verdict \cup {"line"}
  /\ writer \in {"writing", "sent", "broken"}
  /\ reader \in Line \cup {"reading"}
  /\ live \subseteq Process /\ doomed \subseteq live /\ group \subseteq live
  /\ stdin \subseteq live /\ stdout \subseteq live
  /\ backlog \in {"fits", "blocks"} /\ said \in Line \cup {"nothing"}
  /\ line_end \in {"open", "newline"} /\ containment \in {"group", "child"}
  /\ exit \in {"none", "success", "failure"} /\ known \in {"none", exit}
  /\ lineAt \in Nat \cup {NoTime} /\ failedAt \in Nat \cup {NoTime}

\* A non-zero exit fails even when a line was printed (docs/process-plugin.md):
\* a child that failed before its grace was over (settle) is never reported as
\* an answer, whoever printed the line and in whatever order the line and the
\* status became visible, nor is it killed before it had its grace.
FailedExitIsReported ==
  verdict = "answered" /\ failedAt # NoTime => failedAt >= lineAt + Grace

\* Whatever the plugin does, and even if what was killed will not die, the
\* call is over within its timeout, the grace and two tree waits: one in
\* reap_bounded and one in finish_threads.
CallIsBounded == now <= Timeout + Grace + 2 * TreeWait

\* terminate signals a process group by number: never after the status of the
\* group's leader was collected, when the number may be somebody else's.
SignalsOnlyItsTree == [][pc # "reap" /\ pc' = "reap" => known' = "none"]_vars

\* The call ends without the child having exited by itself within its grace.
Hung ==
  \/ verdict \in {"timed_out", "unreadable", "oversized", "status_unknown"}
  \/ verdict # "exited" /\ exit # "success"

\* When the child did not exit by itself in time, not one process of its group
\* goes on undisturbed after the call (terminate): the heirs it started while
\* the driver was about to give up on it included.
LingererIsKilled == containment = "group" /\ pc = "done" /\ Hung => group \subseteq doomed

\* run_child: "leave no process behind"; docs/process-plugin.md: "after the
\* child has answered, the whole process tree is terminated".
LeavesNoProcess == containment = "group" /\ pc = "done" => group \subseteq doomed

\* run_child returns, though a process may hold its pipes for ever.
CallReturns == <>(pc = "done")
=============================================================================
