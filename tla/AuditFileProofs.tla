--------------------------- MODULE AuditFileProofs ---------------------------
(* What holds of the audit file for every set of processes, inodes, events, *)
(* line lengths and retention bounds.                                       *)
EXTENDS AuditFile, WellFoundedInduction, SequenceTheorems, TLAPS

USE AuditAssumption, LengthAssumption

-----------------------------------------------------------------------------
(* The inductive invariants.                                                *)

(* Who holds what: a call that is past its lock holds the lock of the file  *)
(* it opened, and one that is about to write or to rename that file found   *)
(* the path naming it.                                                      *)
Locked == {"open", "record", "append", "rotate", "create", "lock_fresh", "write_fresh"}

HeldBy(p) ==
  /\ pc[p] \in Opening \cup Calling => fd[p] \in Inode
  /\ pc[p] \notin Opening \cup Calling => fd[p] = NoInode
  /\ pc[p] \in Locked => holder[fd[p]] = p
  /\ pc[p] \notin {"lock_fresh", "write_fresh", "sync"} => fresh[p] = NoInode
  /\ pc[p] \in {"lock_fresh", "write_fresh"} => fresh[p] \in Inode
  /\ pc[p] = "write_fresh" => holder[fresh[p]] = p
  /\ pc[p] \in {"append", "rotate"} => fd[p] = path /\ fd[p] = sink[p]

LockInv ==
  /\ path \in Inode \cup {NoInode} /\ rotated \in Inode \cup {NoInode}
  /\ path = rotated => path = NoInode
  /\ pc \in [Process -> {"closed", "idle"} \cup Opening \cup Calling]
  /\ holder \in [Inode -> Process \cup {NoProcess}]
  /\ fd \in [Process -> Inode \cup {NoInode}] /\ fresh \in [Process -> Inode \cup {NoInode}]
  /\ sink \in [Process -> Inode \cup {NoInode}]
  /\ \A i \in Inode, p \in Process : holder[i] = p => i \in {fd[p], fresh[p]}
  /\ \A p \in Process : HeldBy(p)

(* The window of a rotation, in which the file of that name has no lock     *)
(* that keeps others out: nobody else may write, and no sink takes that     *)
(* file for its own.                                                        *)
Window == {"create", "lock_fresh", "write_fresh"}

Alone(p) ==
  /\ \A q \in Process \ {p} : pc[q] \notin Window \cup {"append", "rotate", "sync"}
  /\ path # NoInode =>
       \A q \in Process : sink[q] # path /\ (pc[q] \in Opening => fd[q] # path)

Target(p) == IF fresh[p] = NoInode THEN fd[p] ELSE fresh[p]

InWindow(p) ==
  /\ pc[p] \in Window => Alone(p)
  /\ pc[p] \in {"lock_fresh", "write_fresh"} => path = fresh[p]
  /\ pc[p] = "sync" => path = Target(p) /\ path # NoInode /\ holder[path] = p

WindowInv == \A p \in Process : InWindow(p)

(* What the files hold.                                                     *)
IsLines(lines) ==
  /\ lines \in Seq(Range(lines))
  /\ \A n \in DOMAIN lines :
       LineError(lines, n) = "none" /\ lines[n].event \in Event

IsFile(f) == f = [lines |-> f.lines, torn |-> f.torn] /\ f.torn \in BOOLEAN

Content(p) ==
  /\ pc[p] \in Calling => event[p] \in Event
  /\ pc[p] \in {"append", "rotate"} =>
       LET f == file[fd[p]]
       IN /\ TailOf(f) /\ line[p] = NextLine(f.lines, event[p])
          /\ pc[p] = "append" <=> (f.lines # <<>> => ~ShouldRotate(retention[p], f.lines, line[p]))
  /\ pc[p] \in {"lock_fresh", "write_fresh"} =>
       file[fresh[p]] = EmptyFile /\ line[p] = NextLine(<<>>, event[p])

Bound == [max_records : (Nat \ {0}) \cup {Unbounded}, max_bytes : (Nat \ {0}) \cup {Unbounded}]

ContentInv ==
  /\ file = [i \in Inode |-> file[i]] /\ \A i \in Inode : IsFile(file[i])
  /\ \A i \in Named : IsLines(file[i].lines)
  /\ retention \in [Process -> Bound]
  /\ DOMAIN event = Process /\ DOMAIN line = Process
  /\ \A p \in Process : Content(p)

(* Where the events are.                                                    *)
In(e, i) == e \in EventsOf(file[i].lines)

EventInv ==
  /\ offered \subseteq Event
  /\ \A i \in Named : EventsOf(file[i].lines) \subseteq offered
  /\ \A p \in Process : pc[p] \in Calling => event[p] \in offered
  /\ \A p, q \in Process :
       p # q /\ pc[p] \in Calling /\ pc[q] \in Calling => event[p] # event[q]
  /\ \A p \in Process, i \in Named : pc[p] \in Calling \ {"sync"} => ~In(event[p], i)
  /\ \A p \in Process : pc[p] = "sync" => In(event[p], path)
  /\ RecordedOnce

-----------------------------------------------------------------------------
(* Locks and descriptors.                                                   *)

(* What the steps of one process leave to another.                          *)
LEMMA OthersHold ==
  ASSUME NEW q \in Process, HeldBy(q), LockInv,
         pc'[q] = pc[q], fd'[q] = fd[q], fresh'[q] = fresh[q], sink'[q] = sink[q],
         \A i \in Inode : holder[i] = q => holder'[i] = q,
         path' = path \/ pc[q] \notin {"append", "rotate"}
  PROVE  HeldBy(q)'
  BY DEF HeldBy, LockInv, Calling, Opening, Locked

LEMMA ReleaseLocks ==
  ASSUME LockInv, NEW p \in Process, Release(p)
  PROVE  /\ holder' \in [Inode -> Process \cup {NoProcess}]
         /\ fd' \in [Process -> Inode \cup {NoInode}] /\ fresh' \in [Process -> Inode \cup {NoInode}]
         /\ fresh'[p] = NoInode
         /\ \A q \in Process \ {p} :
              /\ fd'[q] = fd[q] /\ fresh'[q] = fresh[q]
              /\ \A i \in Inode : holder[i] = q <=> holder'[i] = q
         /\ \A i \in Inode : holder'[i] # p
  BY DEF LockInv, Release

LEMMA LockStep ==
  ASSUME LockInv, NEW p \in Process, NEW from, NEW to, NEW i,
         <<from, to, i>> \in {<<"lock_open", "open", fd[p]>>, <<"lock_record", "record", fd[p]>>,
                              <<"lock_fresh", "write_fresh", fresh[p]>>},
         i \in Inode, Lock(p, from, to, i)
  PROVE  LockInv'
  <1>1. /\ pc[p] = from /\ pc' = [pc EXCEPT ![p] = to]
        /\ holder[i] = NoProcess /\ holder' = [holder EXCEPT ![i] = p]
        /\ UNCHANGED <<path, rotated, fd, fresh, sink>>
    BY DEF Lock, Transition, names
  <1>2. HeldBy(p)'
    BY <1>1 DEF LockInv, HeldBy, Calling, Opening, Locked
  <1>3. ASSUME NEW q \in Process, q # p PROVE HeldBy(q)'
    BY <1>1, <1>3, OthersHold DEF LockInv
  <1> QED BY <1>1, <1>2, <1>3 DEF LockInv, Calling, Opening

LEMMA OpenStep ==
  ASSUME LockInv, NEW p \in Process, OpenPath(p), UNCHANGED <<rotated, holder, fresh, sink>>,
         Transition(p, "closed", "lock_open") \/ Transition(p, "idle", "lock_record")
  PROVE  LockInv'
  <1>1. /\ path' \in Inode /\ path' # rotated
        /\ fd' = [fd EXCEPT ![p] = path'] /\ (path # NoInode => path' = path)
    BY DEF OpenPath, Create, Free, LockInv
  <1>2. PICK to \in Opening \cup Calling : to \notin Locked /\ pc' = [pc EXCEPT ![p] = to]
                                        /\ to \notin {"lock_fresh", "write_fresh", "sync"}
    BY DEF Transition, Opening, Calling, Locked
  <1>3. pc[p] \in {"closed", "idle"} /\ fd[p] = NoInode /\ fresh[p] = NoInode
    BY DEF Transition, LockInv, HeldBy, Opening, Calling
  <1>4. HeldBy(p)'
    BY <1>1, <1>2, <1>3 DEF LockInv, HeldBy, Locked
  <1>5. ASSUME NEW q \in Process, q # p PROVE HeldBy(q)'
    <2>1. path' = path \/ pc[q] \notin {"append", "rotate"}
      BY <1>1 DEF LockInv, HeldBy, Opening, Calling
    <2>2. pc'[q] = pc[q] /\ fd'[q] = fd[q]
      BY <1>1, <1>2, <1>5 DEF LockInv
    <2> QED BY <2>1, <2>2, OthersHold DEF LockInv
  <1>6. \A j \in Inode, q \in Process : holder'[j] = q => j \in {fd'[q], fresh'[q]}
    BY <1>1, <1>3 DEF LockInv
  <1>7. pc' \in [Process -> {"closed", "idle"} \cup Opening \cup Calling]
    BY <1>2 DEF LockInv
  <1> QED BY <1>1, <1>4, <1>5, <1>6, <1>7 DEF LockInv

LEMMA ReleaseStep ==
  ASSUME LockInv, NEW p \in Process, Release(p), UNCHANGED names,
         NEW to \in {"closed", "idle"}, pc' = [pc EXCEPT ![p] = to],
         NEW i \in Inode \cup {NoInode}, sink' = sink \/ sink' = [sink EXCEPT ![p] = i]
  PROVE  LockInv'
  <1>1. HeldBy(p)'
    BY ReleaseLocks DEF LockInv, HeldBy, Calling, Opening, Locked, Release
  <1>2. ASSUME NEW q \in Process, q # p PROVE HeldBy(q)'
    BY <1>2, ReleaseLocks, OthersHold DEF LockInv, names
  <1>3. \A j \in Inode, q \in Process : holder'[j] = q => j \in {fd'[q], fresh'[q]}
    BY ReleaseLocks DEF LockInv
  <1>4. /\ sink' \in [Process -> Inode \cup {NoInode}]
        /\ pc' \in [Process -> {"closed", "idle"} \cup Opening \cup Calling]
    BY DEF LockInv
  <1>5. /\ holder' \in [Inode -> Process \cup {NoProcess}]
        /\ fd' \in [Process -> Inode \cup {NoInode}] /\ fresh' \in [Process -> Inode \cup {NoInode}]
    BY ReleaseLocks
  <1>6. \A q \in Process : HeldBy(q)'
    BY <1>1, <1>2
  <1>7. /\ path' \in Inode \cup {NoInode} /\ rotated' \in Inode \cup {NoInode}
        /\ path' = rotated' => path' = NoInode
    BY DEF LockInv, names
  <1> QED BY <1>3, <1>4, <1>5, <1>6, <1>7 DEF LockInv

LEMMA LocksHeld == Spec => []LockInv
  <1>1. Init => LockInv
    BY DEF Init, LockInv, HeldBy, Calling, Opening, Locked
  <1>2. LockInv /\ [Next]_vars => LockInv'
    <2> SUFFICES ASSUME LockInv, [Next]_vars PROVE LockInv'
      OBVIOUS
    <2>1. CASE UNCHANGED vars
      BY <2>1 DEF vars, names, procs, LockInv, HeldBy
    <2>2. ASSUME NEW p \in Process, NEW r, Open(p, r) PROVE LockInv'
      BY <2>2, OpenStep DEF Open
    <2>3. ASSUME NEW p \in Process, NEW e, Record(p, e) PROVE LockInv'
      BY <2>3, OpenStep DEF Record
    <2>4. ASSUME NEW p \in Process,
                 \/ Lock(p, "lock_open", "open", fd[p])
                 \/ Lock(p, "lock_record", "record", fd[p])
                 \/ Lock(p, "lock_fresh", "write_fresh", fresh[p])
          PROVE  LockInv'
      <3>1. CASE Lock(p, "lock_open", "open", fd[p])
        <4>1. fd[p] \in Inode
          BY <3>1 DEF Lock, Transition, LockInv, HeldBy, Opening
        <4> QED BY <3>1, <4>1, LockStep
      <3>2. CASE Lock(p, "lock_record", "record", fd[p])
        <4>1. fd[p] \in Inode
          BY <3>2 DEF Lock, Transition, LockInv, HeldBy, Calling
        <4> QED BY <3>2, <4>1, LockStep
      <3>3. CASE Lock(p, "lock_fresh", "write_fresh", fresh[p])
        <4>1. fresh[p] \in Inode
          BY <3>3 DEF Lock, Transition, LockInv, HeldBy
        <4> QED BY <3>3, <4>1, LockStep
      <3> QED BY <2>4, <3>1, <3>2, <3>3
    <2>5. ASSUME NEW p \in Process, VerifyOpen(p) PROVE LockInv'
      <3>1. fd[p] \in Inode \cup {NoInode} /\ pc' = [pc EXCEPT ![p] = "idle"]
        BY <2>5 DEF LockInv, VerifyOpen, Transition
      <3> QED BY <2>5, <3>1, ReleaseStep DEF VerifyOpen
    <2>6. ASSUME NEW p \in Process, Check(p) PROVE LockInv'
      <3>1. pc'[p] \in {"append", "rotate"} /\ UNCHANGED <<names, holder, fd, fresh, sink>>
            /\ pc' \in [Process -> {"closed", "idle"} \cup Opening \cup Calling]
            /\ \A q \in Process \ {p} : pc'[q] = pc[q]
        BY <2>6 DEF Check, LockInv, Calling
      <3>2. HeldBy(p)'
        BY <2>6, <3>1 DEF Check, OurFile, LockInv, HeldBy, names, Locked, Calling, Opening
      <3>3. ASSUME NEW q \in Process, q # p PROVE HeldBy(q)'
        BY <3>1, <3>3, OthersHold DEF LockInv, names
      <3> QED BY <3>1, <3>2, <3>3 DEF LockInv, names
    <2>7. ASSUME NEW p \in Process, Append1(p) \/ WriteFresh(p) PROVE LockInv'
      <3>1. pc[p] \in {"append", "write_fresh"} /\ pc' = [pc EXCEPT ![p] = "sync"]
            /\ UNCHANGED <<names, holder, fd, fresh, sink>>
        BY <2>7 DEF Append1, WriteFresh, Transition
      <3>2. HeldBy(p)'
        BY <3>1 DEF LockInv, HeldBy, names, Locked, Calling, Opening
      <3>3. ASSUME NEW q \in Process, q # p PROVE HeldBy(q)'
        BY <3>1, <3>3, OthersHold DEF LockInv, names
      <3> QED BY <3>1, <3>2, <3>3 DEF LockInv, names, Calling
    <2>8. ASSUME NEW p \in Process, Rotate(p) PROVE LockInv'
      <3>1. pc[p] = "rotate" /\ pc' = [pc EXCEPT ![p] = "create"]
            /\ path' = NoInode /\ rotated' = path /\ path # NoInode
            /\ UNCHANGED <<holder, fd, fresh, sink>>
        BY <2>8 DEF Rotate, Transition
      <3>2. HeldBy(p)'
        BY <3>1 DEF LockInv, HeldBy, Locked, Calling, Opening
      <3>3. ASSUME NEW q \in Process, q # p PROVE HeldBy(q)'
        <4>1. pc[q] \notin {"append", "rotate"}
          BY <3>1, <3>3 DEF LockInv, HeldBy, Locked
        <4> QED BY <3>1, <3>3, <4>1, OthersHold DEF LockInv
      <3> QED BY <3>1, <3>2, <3>3 DEF LockInv, Calling
    <2>9. ASSUME NEW p \in Process, CreateFresh(p) PROVE LockInv'
      <3>1. PICK i \in Inode : Create(i) /\ fresh' = [fresh EXCEPT ![p] = i]
        BY <2>9 DEF CreateFresh
      <3>2. pc[p] = "create" /\ pc' = [pc EXCEPT ![p] = "lock_fresh"] /\ path = NoInode
            /\ path' = i /\ i # rotated /\ UNCHANGED <<rotated, holder, fd, sink>>
        BY <2>9, <3>1 DEF CreateFresh, Transition, Create, Free
      <3>3. HeldBy(p)'
        BY <3>1, <3>2 DEF LockInv, HeldBy, Locked, Calling, Opening
      <3>4. ASSUME NEW q \in Process, q # p PROVE HeldBy(q)'
        <4>1. pc[q] \notin {"append", "rotate"}
          BY <3>2 DEF LockInv, HeldBy, Opening, Calling
        <4> QED BY <3>1, <3>2, <3>4, <4>1, OthersHold DEF LockInv
      <3>5. \A j \in Inode, q \in Process : holder'[j] = q => j \in {fd'[q], fresh'[q]}
        BY <3>1, <3>2 DEF LockInv, HeldBy
      <3> QED BY <3>1, <3>2, <3>3, <3>4, <3>5 DEF LockInv, Calling
    <2>10. ASSUME NEW p \in Process, ShortWrite(p) \/ Fail(p) PROVE LockInv'
      <3>1. \E to \in {"closed", "idle"} : pc' = [pc EXCEPT ![p] = to]
        BY <2>10 DEF ShortWrite, Fail
      <3> QED BY <2>10, <3>1, ReleaseStep DEF ShortWrite, Fail
    <2>11. ASSUME NEW p \in Process, Sync(p) PROVE LockInv'
      <3>1. pc' = [pc EXCEPT ![p] = "idle"]
            /\ \E i \in Inode \cup {NoInode} : sink' = [sink EXCEPT ![p] = i]
        BY <2>11 DEF Sync, Transition, LockInv
      <3> QED BY <2>11, <3>1, ReleaseStep DEF Sync
    <2>12. ASSUME NEW p \in Process, Exit(p) PROVE LockInv'
      BY <2>12, ReleaseStep DEF Exit
    <2> QED BY <2>1, <2>2, <2>3, <2>4, <2>5, <2>6, <2>7, <2>8, <2>9, <2>10, <2>11, <2>12 DEF Next
  <1> QED BY <1>1, <1>2, PTL DEF Spec

(* A sink never writes to a file another one put in the place of its own.   *)
THEOREM SinksWriteTheirFile == Spec => WritesItsFile
  <1>1. LockInv /\ [Next]_vars =>
          [\A p \in Process : pc[p] = "append" /\ pc'[p] = "sync" =>
             fd[p] = sink[p] /\ fd[p] = path]_vars
    BY DEF LockInv, HeldBy
  <1> QED BY <1>1, LocksHeld, PTL DEF Spec, WritesItsFile

-----------------------------------------------------------------------------
(* The window of a rotation, when no sink is opened in it and no remembered *)
(* inode comes back.                                                        *)

LEMMA OthersInWindow ==
  ASSUME LockInv, NEW p \in Process, InWindow(p),
         pc'[p] = pc[p], fd'[p] = fd[p], fresh'[p] = fresh[p],
         \A i \in Inode : holder[i] = p => holder'[i] = p,
         path' = path \/ pc[p] \notin {"lock_fresh", "write_fresh", "sync"},
         pc[p] \in Window => Alone(p)'
  PROVE  InWindow(p)'
  BY DEF InWindow, Target, LockInv

(* The path is created only where nobody remembers or holds what it names.  *)
LEMMA OpenedPath ==
  ASSUME LockInv, ~Recycling, NEW p \in Process, OpenPath(p)
  PROVE  /\ fd' = [fd EXCEPT ![p] = path']
         /\ \/ path' = path /\ path # NoInode
            \/ /\ path = NoInode
               /\ \A q \in Process : sink[q] # path' /\ fd[q] # path'
  BY DEF OpenPath, Create, Free

LEMMA WindowRelease ==
  ASSUME LockInv, WindowInv, NEW a \in Process, Release(a), UNCHANGED names,
         pc' = [pc EXCEPT ![a] = "closed"] \/ pc' = [pc EXCEPT ![a] = "idle"],
         \A q \in Process \ {a} : sink'[q] = sink[q],
         sink'[a] \in {sink[a], NoInode} \/ \A p \in Process : pc[p] \notin Window \/ p = a
  PROVE  WindowInv'
  <1> SUFFICES ASSUME NEW p \in Process PROVE InWindow(p)'
    BY DEF WindowInv
  <1>1. CASE p = a
    BY <1>1 DEF InWindow, Window, LockInv
  <1>2. CASE p # a
    <2>1. ASSUME pc[p] \in Window PROVE Alone(p)'
      <3>1. Alone(p)
        BY <2>1 DEF WindowInv, InWindow
      <3>2. \A q \in Process : sink'[q] \in {sink[q], NoInode}
        BY <1>2, <2>1
      <3>3. \A q \in Process \ {a} : pc'[q] = pc[q] /\ fd'[q] = fd[q]
        BY ReleaseLocks DEF LockInv
      <3>4. pc'[a] \notin Window \cup {"append", "rotate", "sync"} \cup Opening
        BY DEF LockInv, Window, Opening
      <3>5. path' = path
        BY DEF names
      <3> QED BY <3>1, <3>2, <3>3, <3>4, <3>5 DEF Alone
    <2>2. pc'[p] = pc[p] /\ path' = path
      BY <1>2 DEF LockInv, names
    <2>3. /\ fd'[p] = fd[p] /\ fresh'[p] = fresh[p]
          /\ \A i \in Inode : holder[i] = p => holder'[i] = p
      BY <1>2, ReleaseLocks
    <2> QED BY <2>1, <2>2, <2>3, OthersInWindow DEF WindowInv
  <1> QED BY <1>1, <1>2

LEMMA WindowOpen ==
  ASSUME LockInv, WindowInv, ~OpensRace, ~Recycling, NEW a \in Process,
         (\E r : Open(a, r)) \/ (\E e : Record(a, e))
  PROVE  WindowInv'
  <1>1. /\ OpenPath(a) /\ UNCHANGED <<holder, fresh, sink>>
        /\ \/ pc' = [pc EXCEPT ![a] = "lock_record"]
           \/ /\ pc' = [pc EXCEPT ![a] = "lock_open"]
              /\ \A q \in Process : pc[q] \notin Window
    BY DEF Open, Record, Transition, Window
  <1>2. /\ fd' = [fd EXCEPT ![a] = path']
        /\ \/ path' = path /\ path # NoInode
           \/ /\ path = NoInode
              /\ \A q \in Process : sink[q] # path' /\ fd[q] # path'
    BY <1>1, OpenedPath
  <1> SUFFICES ASSUME NEW p \in Process PROVE InWindow(p)'
    BY DEF WindowInv
  <1>3. CASE p = a
    BY <1>1, <1>3 DEF InWindow, Window, LockInv
  <1>4. CASE p # a
    <2>1. ASSUME pc[p] \in Window PROVE Alone(p)'
      <3>1. Alone(p) /\ pc' = [pc EXCEPT ![a] = "lock_record"]
        BY <1>1, <2>1 DEF WindowInv, InWindow
      <3>2. pc'[a] \notin Window \cup {"append", "rotate", "sync"} \cup Opening
            /\ \A q \in Process \ {a} : pc'[q] = pc[q] /\ fd'[q] = fd[q]
        BY <1>2, <3>1 DEF LockInv, Window, Opening
      <3> QED BY <1>1, <1>2, <3>1, <3>2 DEF Alone
    <2>2. path' = path \/ pc[p] \notin {"lock_fresh", "write_fresh", "sync"}
      BY <1>2 DEF WindowInv, InWindow, LockInv, HeldBy
    <2>3. pc'[p] = pc[p] /\ fd'[p] = fd[p]
      BY <1>1, <1>2, <1>4 DEF LockInv
    <2> QED BY <1>1, <2>1, <2>2, <2>3, OthersInWindow DEF WindowInv
  <1> QED BY <1>3, <1>4

LEMMA WindowLock ==
  ASSUME LockInv, WindowInv, NEW a \in Process, NEW from, NEW to, NEW i,
         <<from, to>> \in {<<"lock_open", "open">>, <<"lock_record", "record">>,
                           <<"lock_fresh", "write_fresh">>},
         Lock(a, from, to, i)
  PROVE  WindowInv'
  <1>1. /\ pc[a] = from /\ pc' = [pc EXCEPT ![a] = to]
        /\ holder[i] = NoProcess /\ holder' = [holder EXCEPT ![i] = a]
        /\ UNCHANGED <<path, fd, fresh, sink>>
    BY DEF Lock, Transition, names
  <1>2. \A q \in Process : /\ pc'[q] \in Window => pc[q] \in Window
                           /\ pc'[q] \in Opening => pc[q] \in Opening
                           /\ pc'[q] \in {"append", "rotate", "sync"} => pc'[q] = pc[q]
                           /\ pc'[q] \in {"lock_fresh", "write_fresh"}
                                => pc[q] \in {"lock_fresh", "write_fresh"}
    BY <1>1 DEF LockInv, Window, Opening
  <1> SUFFICES ASSUME NEW p \in Process PROVE InWindow(p)'
    BY DEF WindowInv
  <1>3. pc'[p] \in Window => Alone(p)'
    <2> SUFFICES ASSUME pc'[p] \in Window PROVE Alone(p)'
      OBVIOUS
    <2>1. Alone(p)
      BY <1>2 DEF WindowInv, InWindow
    <2> QED BY <1>1, <1>2, <2>1 DEF Alone
  <1>4. pc'[p] = "sync" => path' = Target(p)' /\ path' # NoInode /\ holder'[path'] = p
    BY <1>1, <1>2 DEF WindowInv, InWindow, Target, LockInv
  <1> QED BY <1>1, <1>2, <1>3, <1>4 DEF WindowInv, InWindow

LEMMA NobodyInWindow ==
  ASSUME LockInv, WindowInv, NEW a \in Process,
         path # NoInode,
         sink[a] = path \/ (pc[a] \in Opening /\ fd[a] = path) \/ pc[a] \in {"append", "rotate"}
  PROVE  \A p \in Process : pc[p] \notin Window
  <1>1. pc[a] \notin Window \/ sink[a] = path
    BY DEF Window, Opening
  <1> QED BY <1>1 DEF WindowInv, InWindow, Alone, Window

LEMMA WindowCheck ==
  ASSUME LockInv, WindowInv, NEW a \in Process,
         \/ Check(a)
         \/ Append1(a)
  PROVE  WindowInv'
  <1>1. /\ UNCHANGED <<path, holder, fd, fresh, sink>>
        /\ \A q \in Process \ {a} : pc'[q] = pc[q]
    BY DEF Check, Append1, Transition, names, LockInv
  <1>2. /\ path # NoInode /\ \A p \in Process : pc[p] \notin Window
        /\ \/ pc'[a] \in {"append", "rotate"}
           \/ pc'[a] = "sync" /\ pc[a] = "append"
    <2>1. CASE Check(a)
      <3>1. fd[a] \in Inode /\ sink[a] = path /\ fd[a] = path
        BY <2>1 DEF Check, OurFile, LockInv, HeldBy, Calling
      <3> QED BY <2>1, <3>1, NobodyInWindow DEF Check, LockInv
    <2>2. CASE Append1(a)
      <3>1. fd[a] \in Inode /\ fd[a] = path /\ pc[a] = "append" /\ pc' = [pc EXCEPT ![a] = "sync"]
        BY <2>2 DEF Append1, Transition, LockInv, HeldBy, Calling
      <3> QED BY <3>1, NobodyInWindow DEF LockInv
    <2> QED BY <2>1, <2>2
  <1>3. ASSUME NEW p \in Process PROVE InWindow(p)'
    <2>1. pc'[p] \notin Window
      BY <1>1, <1>2 DEF Window
    <2>2. pc'[p] = "sync" => path' = Target(p)' /\ path' # NoInode /\ holder'[path'] = p
      <3>1. CASE p = a
        BY <1>1, <1>2, <3>1 DEF LockInv, HeldBy, Target, Locked
      <3>2. CASE p # a
        BY <1>1, <3>2 DEF WindowInv, InWindow, Target
      <3> QED BY <3>1, <3>2
    <2> QED BY <2>1, <2>2 DEF InWindow, Window
  <1> QED BY <1>3 DEF WindowInv

LEMMA WindowRotate ==
  ASSUME LockInv, WindowInv, NEW a \in Process, Rotate(a)
  PROVE  WindowInv'
  <1>1. /\ pc[a] = "rotate" /\ pc' = [pc EXCEPT ![a] = "create"]
        /\ path' = NoInode /\ path # NoInode /\ fd[a] = path /\ holder[path] = a
    BY DEF Rotate, Transition, LockInv, HeldBy, Locked
  <1>2. \A q \in Process \ {a} : pc'[q] \notin Window \cup {"append", "rotate", "sync"}
    <2>1. \A q \in Process : pc[q] \notin Window
      BY <1>1, NobodyInWindow
    <2>2. \A q \in Process \ {a} : pc[q] \notin {"append", "rotate", "sync"}
      BY <1>1 DEF LockInv, HeldBy, Locked, WindowInv, InWindow
    <2> QED BY <1>1, <2>1, <2>2 DEF LockInv
  <1>3. pc'[a] = "create"
    BY <1>1 DEF LockInv
  <1> QED BY <1>1, <1>2, <1>3 DEF WindowInv, InWindow, Alone, Window

LEMMA WindowCreate ==
  ASSUME LockInv, WindowInv, ~Recycling, NEW a \in Process, CreateFresh(a)
  PROVE  WindowInv'
  <1>1. PICK i \in Inode : Create(i) /\ fresh' = [fresh EXCEPT ![a] = i]
    BY DEF CreateFresh
  <1>2. /\ pc[a] = "create" /\ pc' = [pc EXCEPT ![a] = "lock_fresh"]
        /\ path' = i /\ UNCHANGED <<fd, sink>>
        /\ \A q \in Process : sink[q] # i /\ fd[q] # i
    BY <1>1 DEF CreateFresh, Transition, Create, Free
  <1>3. \A q \in Process \ {a} : pc'[q] \notin Window \cup {"append", "rotate", "sync"}
    BY <1>2 DEF WindowInv, InWindow, Window, Alone, LockInv
  <1>4. pc'[a] = "lock_fresh" /\ fresh'[a] = i
    BY <1>1, <1>2 DEF LockInv
  <1> QED BY <1>1, <1>2, <1>3, <1>4 DEF WindowInv, InWindow, Alone, Window

LEMMA WindowWrite ==
  ASSUME LockInv, WindowInv, NEW a \in Process, WriteFresh(a)
  PROVE  WindowInv'
  <1>1. /\ pc[a] = "write_fresh" /\ pc' = [pc EXCEPT ![a] = "sync"]
        /\ UNCHANGED <<path, holder, fd, fresh, sink>>
    BY DEF WriteFresh, Transition, names
  <1>2. \A q \in Process \ {a} : pc'[q] \notin Window \cup {"append", "rotate", "sync"}
    BY <1>1 DEF WindowInv, InWindow, Window, Alone, LockInv
  <1>3. path = Target(a) /\ path # NoInode /\ holder[path] = a
    BY <1>1 DEF LockInv, HeldBy, WindowInv, InWindow, Target
  <1>4. pc'[a] = "sync"
    BY <1>1 DEF LockInv
  <1>5. path' = Target(a)' /\ path' # NoInode /\ holder'[path'] = a
    BY <1>1, <1>3 DEF Target
  <1> QED BY <1>2, <1>4, <1>5 DEF WindowInv, InWindow, Window

LEMMA WindowVerify ==
  ASSUME LockInv, WindowInv, NEW a \in Process, VerifyOpen(a)
  PROVE  WindowInv'
  <1>1. pc[a] \in Opening /\ fd[a] = path /\ path # NoInode /\ pc' = [pc EXCEPT ![a] = "idle"]
    BY DEF VerifyOpen, Transition, LockInv, HeldBy, Opening
  <1>2. Release(a) /\ UNCHANGED names /\ \A q \in Process \ {a} : sink'[q] = sink[q]
    BY DEF VerifyOpen, LockInv
  <1> QED BY <1>1, <1>2, NobodyInWindow, WindowRelease

LEMMA WindowEnd ==
  ASSUME LockInv, WindowInv, NEW a \in Process,
         ShortWrite(a) \/ Sync(a) \/ Fail(a) \/ Exit(a)
  PROVE  WindowInv'
  <1>1. /\ Release(a) /\ UNCHANGED names
        /\ pc' = [pc EXCEPT ![a] = "closed"] \/ pc' = [pc EXCEPT ![a] = "idle"]
    BY DEF ShortWrite, Sync, Fail, Exit, Transition
  <1>2. \A q \in Process \ {a} : sink'[q] = sink[q]
    BY DEF ShortWrite, Sync, Fail, Exit, LockInv
  <1>3. sink'[a] \in {sink[a], NoInode} \/ \A p \in Process : pc[p] \notin Window \/ p = a
    <2>1. CASE Sync(a)
      BY <2>1 DEF Sync, Transition, WindowInv, InWindow, Alone
    <2>2. CASE ShortWrite(a) \/ Fail(a) \/ Exit(a)
      BY <2>2 DEF ShortWrite, Fail, Exit, LockInv
    <2> QED BY <2>1, <2>2
  <1> QED BY <1>1, <1>2, <1>3, WindowRelease

LEMMA OneInTheWindow == ASSUME ~OpensRace, ~Recycling PROVE Spec => []WindowInv
  <1>1. Init => WindowInv
    BY DEF Init, WindowInv, InWindow, Window
  <1>2. LockInv /\ WindowInv /\ [Next]_vars => WindowInv'
    <2> SUFFICES ASSUME LockInv, WindowInv, [Next]_vars PROVE WindowInv'
      OBVIOUS
    <2>1. CASE UNCHANGED vars
      BY <2>1 DEF vars, names, procs, WindowInv, InWindow, Alone, Target
    <2>2. ASSUME NEW p \in Process,
                 \/ Lock(p, "lock_open", "open", fd[p])
                 \/ Lock(p, "lock_record", "record", fd[p])
                 \/ Lock(p, "lock_fresh", "write_fresh", fresh[p])
          PROVE  WindowInv'
      BY <2>2, WindowLock
    <2> QED BY <2>1, <2>2, WindowOpen, WindowCheck, WindowRotate, WindowCreate, WindowWrite,
               WindowVerify, WindowEnd DEF Next
  <1> QED BY <1>1, <1>2, LocksHeld, PTL DEF Spec

-----------------------------------------------------------------------------
(* Chains.                                                                  *)

LEMMA AppendLines ==
  ASSUME NEW lines, lines \in Seq(Range(lines)), NEW x
  PROVE  /\ Append(lines, x) \in Seq(Range(Append(lines, x)))
         /\ Len(lines) \in Nat /\ DOMAIN lines = 1 .. Len(lines)
         /\ Len(Append(lines, x)) = Len(lines) + 1
         /\ DOMAIN Append(lines, x) = 1 .. Len(lines) + 1
         /\ \A n \in 1 .. Len(lines) : Append(lines, x)[n] = lines[n]
         /\ Append(lines, x)[Len(lines) + 1] = x
  <1> DEFINE S == Range(lines) \cup {x}
  <1>1. lines \in Seq(S) /\ x \in S
    BY SeqMonotonic
  <1>2. /\ Append(lines, x) \in Seq(S) /\ Len(Append(lines, x)) = Len(lines) + 1
        /\ \A n \in 1 .. Len(lines) : Append(lines, x)[n] = lines[n]
        /\ Append(lines, x)[Len(lines) + 1] = x
    BY <1>1, AppendProperties
  <1>3. Append(lines, x) \in Seq(Range(Append(lines, x)))
    BY <1>2, SeqOfRange
  <1> QED BY <1>1, <1>2, <1>3, LenProperties

LEMMA NoLines == IsLines(<<>>)
  <1>1. <<>> \in Seq(Range(<<>>)) /\ DOMAIN <<>> = {}
    BY EmptySeq
  <1> QED BY <1>1 DEF IsLines

(* A record that extends an accepted chain at its last line is accepted     *)
(* there: the check of the last line alone suffices.                        *)
LEMMA NextIsSound ==
  ASSUME NEW lines, IsLines(lines), lines # <<>> => Extendable(Last(lines)),
         NEW e \in Event
  PROVE  IsLines(Append(lines, NextLine(lines, e)))
  <1> DEFINE new  == NextLine(lines, e)
             N    == Len(lines)
             more == Append(lines, new)
  <1>1. /\ more \in Seq(Range(more)) /\ N \in Nat /\ DOMAIN lines = 1 .. N
        /\ DOMAIN more = 1 .. N + 1
        /\ \A n \in 1 .. N : more[n] = lines[n]
        /\ more[N + 1] = new
    BY AppendLines DEF IsLines
  <1>2. new.form = "envelope" /\ new.event = e
        /\ new.record_hash = Hash(new.previous_hash, new.sequence, e)
    BY DEF NextLine, Envelope
  <1>3. /\ new.sequence = N + 1
        /\ new.previous_hash = IF N + 1 = 1 THEN Genesis ELSE lines[N].record_hash
        /\ N + 1 > 1 => lines[1].form = "envelope"
    <2>1. CASE lines = <<>>
      <3>1. N = 0
        BY <2>1, EmptySeq
      <3> QED BY <2>1, <3>1 DEF NextLine, Envelope
    <2>2. CASE lines # <<>>
      <3>1. N \in 1 .. N /\ N # 0
        BY <1>1, <2>2, EmptySeq DEF IsLines
      <3>2. Last(lines) = lines[N] /\ lines[N].form = "envelope" /\ LineError(lines, N) = "none"
        BY <1>1, <2>2, <3>1 DEF Last, Extendable, IsLines
      <3>3. lines[1].form = "envelope" /\ EnvelopeError(lines, N) = "none"
        BY <3>1, <3>2 DEF LineError
      <3>4. lines[N].sequence = N
        BY <3>3 DEF EnvelopeError
      <3> QED BY <1>1, <2>2, <3>1, <3>2, <3>3, <3>4 DEF NextLine, Envelope
    <2> QED BY <2>1, <2>2
  <1> HIDE DEF new, more
  <1>4. LineError(more, N + 1) = "none"
    <2>1. N + 1 > 1 => more[1] = lines[1]
      BY <1>1
    <2>2. EnvelopeError(more, N + 1) = "none"
      <3>1. N + 1 # 1 => more[(N + 1) - 1] = lines[N]
        BY <1>1
      <3> HIDE DEF N
      <3> QED BY <1>1, <1>2, <1>3, <3>1 DEF EnvelopeError
    <2> QED BY <1>1, <1>2, <1>3, <2>1, <2>2 DEF LineError
  <1>5. ASSUME NEW n \in 1 .. N PROVE LineError(more, n) = "none" /\ more[n].event \in Event
    <2>1. LineError(lines, n) = "none" /\ lines[n].event \in Event
      BY <1>1 DEF IsLines
    <2>2. more[n] = lines[n] /\ more[1] = lines[1] /\ (n # 1 => more[n - 1] = lines[n - 1])
      BY <1>1
    <2>3. EnvelopeError(more, n) = EnvelopeError(lines, n)
      BY <2>2 DEF EnvelopeError
    <2> QED BY <2>1, <2>2, <2>3 DEF LineError
  <1>6. ASSUME NEW n \in DOMAIN more PROVE LineError(more, n) = "none" /\ more[n].event \in Event
    BY <1>1, <1>2, <1>4, <1>5
  <1> QED BY <1>1, <1>6 DEF IsLines, more, new

LEMMA SoundVerifies ==
  ASSUME NEW f, IsFile(f), IsLines(f.lines)
  PROVE  /\ Verify(Whole(f)) # "failure"
         /\ TailOf(f) => Verify(f) \in {"empty", "verified"}
  <1>1. Rejected(f.lines) = {}
    BY LenProperties DEF Rejected, IsLines
  <1>2. Whole(f).lines = f.lines /\ Whole(f).torn = FALSE
    BY DEF Whole, IsFile
  <1>3. Verify(Whole(f)) # "failure"
    BY <1>1, <1>2 DEF Verify
  <1>4. ASSUME TailOf(f), ~IsEmpty(f) PROVE Verify(f) = "verified"
    <2>1. f.torn = FALSE /\ f.lines # <<>>
      BY <1>4 DEF TailOf, IsEmpty, EmptyFile, IsFile
    <2>2. Last(f.lines).form = "envelope"
      BY <1>4, <2>1 DEF TailOf, Extendable
    <2>3. Len(f.lines) \in DOMAIN f.lines
      BY <2>1, EmptySeq, LenProperties DEF IsLines
    <2>4. LineError(f.lines, Len(f.lines)) = "none"
      BY <2>3 DEF IsLines
    <2>5. f.lines[1].form = "envelope"
      <3>1. Len(f.lines) \in Nat \ {0}
        BY <2>1, EmptySeq DEF IsLines
      <3> QED BY <2>2, <2>4, <3>1 DEF LineError, Last
    <2> QED BY <1>1, <1>4, <2>1, <2>5 DEF Verify
  <1> QED BY <1>3, <1>4 DEF Verify

(* On an empty file a write from the start is an append.                    *)
LEMMA OverwrittenEmpty == ASSUME NEW new PROVE Overwritten(<<>>, new) = Append(<<>>, new)
  <1> DEFINE covers(n) == n = 0 \/ Bytes(SubSeq(<<>>, 1, n)) <= LineLength(new)
             whole == CHOOSE n \in 0 .. 0 : covers(n) /\ (n = 0 \/ ~covers(n + 1))
  <1>1. whole = 0
    OBVIOUS
  <1>2. Len(<<>>) = 0 /\ SubSeq(<<>>, 1, 0) = <<>>
    BY EmptySeq, SubSeqEmpty
  <1>3. Overwritten(<<>>, new)
          = IF SubSeq(<<>>, whole + 1, 0) = <<>>
               \/ Bytes(SubSeq(<<>>, 1, whole)) = LineLength(new)
            THEN <<new>> \o SubSeq(<<>>, whole + 1, 0)
            ELSE <<new, Junk>> \o Tail(SubSeq(<<>>, whole + 1, 0))
    BY <1>2 DEF Overwritten
  <1>4. Overwritten(<<>>, new) = <<new>> \o <<>>
    BY <1>1, <1>2, <1>3
  <1>5. <<new>> \o <<>> = <<new>> /\ Append(<<>>, new) = <<new>>
    <2>1. <<new>> \in Seq({new}) /\ <<>> \in Seq({new})
      BY EmptySeq
    <2>2. Append(<<>>, new) = <<>> \o <<new>>
      BY <2>1, AppendIsConcat
    <2> QED BY <2>1, <2>2, ConcatEmptySeq
  <1> QED BY <1>4, <1>5

-----------------------------------------------------------------------------
(* What the files hold.                                                     *)

(* What a step of one process leaves to another.                            *)
LEMMA OthersContent ==
  ASSUME NEW p \in Process, Content(p),
         pc'[p] = pc[p], fd'[p] = fd[p], fresh'[p] = fresh[p],
         event'[p] = event[p], line'[p] = line[p], retention'[p] = retention[p],
         pc[p] \in {"append", "rotate"} => file'[fd[p]] = file[fd[p]],
         pc[p] \in {"lock_fresh", "write_fresh"} => file'[fresh[p]] = file[fresh[p]]
  PROVE  Content(p)'
  BY DEF Content

(* Only one process at a time may touch the file that the path names.       *)
LEMMA OnlyWriter ==
  ASSUME LockInv, WindowInv, NEW a \in Process, pc[a] \in {"append", "write_fresh"},
         NEW p \in Process \ {a}
  PROVE  pc[p] \notin Window \cup {"append", "rotate", "sync"}
  <1>1. CASE pc[a] = "append"
    <2>1. path # NoInode /\ fd[a] = path /\ holder[path] = a
      BY <1>1 DEF LockInv, HeldBy, Calling, Locked
    <2>2. pc[p] \notin Window
      BY <1>1, <2>1, NobodyInWindow
    <2>3. pc[p] \notin {"append", "rotate", "sync"}
      BY <2>1 DEF LockInv, HeldBy, Locked, WindowInv, InWindow
    <2> QED BY <2>2, <2>3
  <1>2. CASE pc[a] = "write_fresh"
    BY <1>2 DEF WindowInv, InWindow, Window, Alone
  <1> QED BY <1>1, <1>2

LEMMA EmptyFileIsOne == IsFile(EmptyFile) /\ IsLines(EmptyFile.lines)
  BY NoLines DEF IsFile, EmptyFile

(* A new file is empty, and nobody writes to it yet.                        *)
LEMMA CreateContent ==
  ASSUME LockInv, ContentInv, NEW i \in Inode, Create(i), rotated' = rotated
  PROVE  /\ file' = [j \in Inode |-> file'[j]] /\ \A j \in Inode : IsFile(file'[j])
         /\ \A j \in Named' : IsLines(file'[j].lines)
         /\ file'[i] = EmptyFile
         /\ \A p \in Process : /\ pc[p] \in {"append", "rotate"} => file'[fd[p]] = file[fd[p]]
                               /\ pc[p] \in {"lock_fresh", "write_fresh"}
                                    => file'[fresh[p]] = file[fresh[p]]
  <1>1. file' = [file EXCEPT ![i] = EmptyFile] /\ path' = i /\ i \in Free
    BY DEF Create
  <1>2. file'[i] = EmptyFile /\ \A j \in Inode : j # i => file'[j] = file[j]
    BY <1>1 DEF ContentInv
  <1>3. file' = [j \in Inode |-> file'[j]]
    BY <1>1 DEF ContentInv
  <1>4. \A j \in Named' : j = i \/ (j \in Named /\ j \in Inode)
    BY <1>1 DEF Named, LockInv
  <1>5. \A p \in Process : /\ pc[p] \in {"append", "rotate"} => fd[p] # i /\ fd[p] \in Inode
                           /\ pc[p] \in {"lock_fresh", "write_fresh"}
                                => fresh[p] # i /\ fresh[p] \in Inode
    BY <1>1 DEF Free, LockInv, HeldBy, Calling
  <1> QED BY <1>2, <1>3, <1>4, <1>5, EmptyFileIsOne DEF ContentInv

LEMMA OpenedContent ==
  ASSUME LockInv, ContentInv, NEW a \in Process, OpenPath(a), rotated' = rotated
  PROVE  /\ file' = [j \in Inode |-> file'[j]] /\ \A j \in Inode : IsFile(file'[j])
         /\ \A j \in Named' : IsLines(file'[j].lines)
         /\ \A p \in Process : /\ pc[p] \in {"append", "rotate"} => file'[fd[p]] = file[fd[p]]
                               /\ pc[p] \in {"lock_fresh", "write_fresh"}
                                    => file'[fresh[p]] = file[fresh[p]]
         /\ \A p \in Process \ {a} : fd'[p] = fd[p]
  <1>1. CASE path' = path /\ file' = file
    BY <1>1 DEF ContentInv, Named, OpenPath, LockInv
  <1>2. CASE \E i \in Inode : Create(i)
    BY <1>2, CreateContent DEF OpenPath, LockInv
  <1> QED BY <1>1, <1>2 DEF OpenPath

LEMMA SanitizedIsBound == ASSUME NEW r \in Retentions PROVE Sanitized(r) \in Bound
  BY DEF Sanitized, Bound

(* A record of a sink goes after a sound last line, or to an empty file.    *)
LEMMA AppendContent ==
  ASSUME LockInv, WindowInv, ContentInv, NEW a \in Process, Append1(a)
  PROVE  /\ fd[a] = path /\ path \in Inode /\ event[a] \in Event
         /\ IsLines(file[path].lines) /\ TailOf(file[path])
         /\ file[path].lines # <<>> => ~ShouldRotate(retention[a], file[path].lines, line[a])
         /\ line[a] = NextLine(file[path].lines, event[a])
         /\ file' = [file EXCEPT ![path] = [lines |-> Append(file[path].lines, line[a]),
                                            torn  |-> file[path].torn]]
  <1>1. pc[a] = "append" /\ fd[a] = path /\ path \in Inode
    BY DEF Append1, Transition, LockInv, HeldBy, Calling
  <1>2. file' = [file EXCEPT ![path] = [file[path] EXCEPT !.lines = Append(file[path].lines, line[a])]]
    BY <1>1 DEF Append1
  <1>3. \A l, t, m : [[lines |-> l, torn |-> t] EXCEPT !.lines = m] = [lines |-> m, torn |-> t]
    OBVIOUS
  <1>4. file[path] = [lines |-> file[path].lines, torn |-> file[path].torn]
    BY <1>1 DEF ContentInv, IsFile
  <1>5. [file[path] EXCEPT !.lines = Append(file[path].lines, line[a])]
          = [lines |-> Append(file[path].lines, line[a]), torn |-> file[path].torn]
    BY <1>3, <1>4
  <1>6. Content(a) /\ path \in Named
    BY <1>1 DEF ContentInv, Named
  <1> QED BY <1>1, <1>2, <1>5, <1>6 DEF ContentInv, Content, Calling

LEMMA FreshContent ==
  ASSUME LockInv, WindowInv, ContentInv, NEW a \in Process, WriteFresh(a)
  PROVE  /\ fresh[a] = path /\ path \in Inode /\ event[a] \in Event
         /\ file[path] = EmptyFile /\ line[a] = NextLine(<<>>, event[a])
         /\ file' = [file EXCEPT ![path] = [lines |-> Append(<<>>, line[a]), torn |-> file[path].torn]]
  <1>1. pc[a] = "write_fresh" /\ fresh[a] = path /\ path \in Inode
    BY DEF WriteFresh, Transition, LockInv, HeldBy, WindowInv, InWindow
  <1>2. file[path] = EmptyFile /\ line[a] = NextLine(<<>>, event[a]) /\ event[a] \in Event
    BY <1>1 DEF ContentInv, Content, Calling
  <1>3. file' = [file EXCEPT ![path] = [file[path] EXCEPT
                                          !.lines = Overwritten(file[path].lines, line[a])]]
    BY <1>1 DEF WriteFresh
  <1>4. Overwritten(file[path].lines, line[a]) = Append(<<>>, line[a])
    BY <1>2, OverwrittenEmpty DEF EmptyFile
  <1>5. [file[path] EXCEPT !.lines = Append(<<>>, line[a])]
          = [lines |-> Append(<<>>, line[a]), torn |-> file[path].torn]
    <2>1. \A l, t, m : [[lines |-> l, torn |-> t] EXCEPT !.lines = m] = [lines |-> m, torn |-> t]
      OBVIOUS
    <2>2. file[path] = [lines |-> file[path].lines, torn |-> file[path].torn]
      BY <1>1 DEF ContentInv, IsFile
    <2> QED BY <2>1, <2>2
  <1> QED BY <1>1, <1>2, <1>3, <1>4, <1>5

LEMMA WriteContent ==
  ASSUME LockInv, WindowInv, ContentInv, NEW a \in Process, Append1(a) \/ WriteFresh(a)
  PROVE  ContentInv'
  <1>1. PICK f : /\ file' = [file EXCEPT ![path] = f] /\ IsFile(f) /\ IsLines(f.lines)
                 /\ path \in Inode
    <2>1. CASE Append1(a)
      <3>1. IsLines(Append(file[path].lines, line[a]))
        BY <2>1, AppendContent, NextIsSound DEF TailOf
      <3>2. file[path].torn \in BOOLEAN
        BY <2>1, AppendContent DEF ContentInv, IsFile
      <3> DEFINE f == [lines |-> Append(file[path].lines, line[a]), torn |-> file[path].torn]
      <3>3. f.lines = Append(file[path].lines, line[a]) /\ IsFile(f)
        BY <3>2 DEF IsFile
      <3>4. file' = [file EXCEPT ![path] = f] /\ path \in Inode
        BY <2>1, AppendContent
      <3> HIDE DEF f
      <3> QED BY <3>1, <3>3, <3>4
    <2>2. CASE WriteFresh(a)
      <3>1. IsLines(Append(<<>>, line[a]))
        BY <2>2, FreshContent, NextIsSound, NoLines
      <3> DEFINE f == [lines |-> Append(<<>>, line[a]), torn |-> file[path].torn]
      <3>2. f.lines = Append(<<>>, line[a]) /\ IsFile(f)
        BY <2>2, FreshContent DEF ContentInv, IsFile
      <3>3. file' = [file EXCEPT ![path] = f] /\ path \in Inode
        BY <2>2, FreshContent
      <3> HIDE DEF f
      <3> QED BY <3>1, <3>2, <3>3
    <2> QED BY <2>1, <2>2
  <1>2. /\ pc[a] \in {"append", "write_fresh"} /\ pc' = [pc EXCEPT ![a] = "sync"]
        /\ UNCHANGED <<path, rotated, fd, fresh, retention, event, line>>
    BY DEF Append1, WriteFresh, Transition, names
  <1>3. file'[path] = f /\ \A j \in Inode : j # path => file'[j] = file[j]
    BY <1>1 DEF ContentInv
  <1>4. file' = [j \in Inode |-> file'[j]] /\ \A j \in Inode : IsFile(file'[j])
    BY <1>1, <1>3 DEF ContentInv
  <1>5. \A j \in Named' : IsLines(file'[j].lines)
    BY <1>1, <1>2, <1>3 DEF ContentInv, Named, LockInv
  <1>6. Content(a)'
    BY <1>2 DEF LockInv, ContentInv, Content, Calling
  <1>7. ASSUME NEW p \in Process \ {a} PROVE Content(p)'
    <2>1. pc[p] \notin Window \cup {"append", "rotate", "sync"} /\ pc'[p] = pc[p]
      BY <1>2, OnlyWriter DEF LockInv
    <2> QED BY <1>2, <2>1, OthersContent DEF ContentInv, Window
  <1> QED BY <1>2, <1>4, <1>5, <1>6, <1>7 DEF ContentInv

LEMMA OpenContent ==
  ASSUME LockInv, ContentInv, NEW a \in Process,
         (\E r \in Retentions : Open(a, r)) \/ (\E e \in Event : Record(a, e))
  PROVE  ContentInv'
  <1>1. /\ OpenPath(a) /\ UNCHANGED <<rotated, fresh, line>>
        /\ retention' \in [Process -> Bound] /\ \A q \in Process \ {a} : retention'[q] = retention[q]
        /\ DOMAIN event' = Process /\ \A q \in Process \ {a} : event'[q] = event[q]
        /\ \/ pc' = [pc EXCEPT ![a] = "lock_open"]
           \/ pc' = [pc EXCEPT ![a] = "lock_record"] /\ event'[a] \in Event
    <2>1. ASSUME NEW r \in Retentions, Open(a, r) PROVE <1>1
      BY <2>1, SanitizedIsBound DEF Open, Transition, ContentInv
    <2>2. ASSUME NEW e \in Event, Record(a, e) PROVE <1>1
      BY <2>2 DEF Record, Transition, ContentInv
    <2> QED BY <2>1, <2>2
  <1>2. Content(a)'
    BY <1>1 DEF LockInv, Content, Calling
  <1>3. ASSUME NEW p \in Process \ {a} PROVE Content(p)'
    <2>1. pc'[p] = pc[p]
      BY <1>1 DEF LockInv
    <2> QED BY <1>1, <2>1, OpenedContent, OthersContent DEF ContentInv
  <1> QED BY <1>1, <1>2, <1>3, OpenedContent DEF ContentInv

LEMMA CreateFreshContent ==
  ASSUME LockInv, ContentInv, NEW a \in Process, CreateFresh(a)
  PROVE  ContentInv'
  <1>1. PICK i \in Inode : Create(i) /\ fresh' = [fresh EXCEPT ![a] = i]
    BY DEF CreateFresh
  <1>2. /\ pc[a] = "create" /\ pc' = [pc EXCEPT ![a] = "lock_fresh"]
        /\ line' = [line EXCEPT ![a] = NextLine(<<>>, event[a])]
        /\ UNCHANGED <<rotated, fd, event, retention>>
    BY DEF CreateFresh, Transition
  <1>3. Content(a)'
    BY <1>1, <1>2, CreateContent DEF LockInv, ContentInv, Content, Calling
  <1>4. ASSUME NEW p \in Process \ {a} PROVE Content(p)'
    <2>1. pc'[p] = pc[p] /\ fresh'[p] = fresh[p] /\ line'[p] = line[p]
      BY <1>1, <1>2 DEF LockInv, ContentInv
    <2> QED BY <1>1, <1>2, <2>1, CreateContent, OthersContent DEF ContentInv
  <1> QED BY <1>1, <1>2, <1>3, <1>4, CreateContent DEF ContentInv

(* Steps that leave the files alone.                                        *)
LEMMA AsideContent ==
  ASSUME LockInv, ContentInv, NEW a \in Process, UNCHANGED file,
         \A i \in Named' : i \in Named,
         retention' \in [Process -> Bound], DOMAIN event' = Process, DOMAIN line' = Process,
         \A p \in Process \ {a} :
           /\ pc'[p] = pc[p] /\ fd'[p] = fd[p] /\ fresh'[p] = fresh[p]
           /\ event'[p] = event[p] /\ line'[p] = line[p] /\ retention'[p] = retention[p],
         Content(a)'
  PROVE  ContentInv'
  <1>1. \A p \in Process : Content(p)'
    BY OthersContent DEF ContentInv
  <1> QED BY <1>1 DEF ContentInv

LEMMA CheckContent ==
  ASSUME LockInv, ContentInv, NEW a \in Process, Check(a)
  PROVE  ContentInv'
  <1> DEFINE lines == file[fd[a]].lines
             new   == NextLine(lines, event[a])
  <1>1. /\ pc[a] = "record" /\ TailOf(file[fd[a]])
        /\ line' = [line EXCEPT ![a] = new]
        /\ pc' = [pc EXCEPT ![a] = IF lines # <<>> /\ ShouldRotate(retention[a], lines, new)
                                   THEN "rotate" ELSE "append"]
        /\ UNCHANGED <<names, file, fd, fresh, retention, event>>
    BY DEF Check
  <1>2. Content(a)'
    <2>1. line'[a] = new /\ event'[a] \in Event
      BY <1>1 DEF ContentInv, Content, Calling
    <2>2. pc'[a] \in {"append", "rotate"}
          /\ (pc'[a] = "append" <=> ~(lines # <<>> /\ ShouldRotate(retention[a], lines, new)))
      BY <1>1 DEF LockInv
    <2> HIDE DEF new
    <2>3. file'[fd'[a]] = file[fd[a]] /\ retention'[a] = retention[a] /\ event'[a] = event[a]
      BY <1>1
    <2> QED BY <1>1, <2>1, <2>2, <2>3 DEF Content, new
  <1>3. ASSUME NEW p \in Process \ {a} PROVE pc'[p] = pc[p] /\ line'[p] = line[p]
    BY <1>1 DEF LockInv, ContentInv
  <1>4. Named' = Named
    BY <1>1 DEF Named, names
  <1>5. DOMAIN line' = Process
    BY <1>1 DEF ContentInv
  <1> QED BY <1>1, <1>2, <1>3, <1>4, <1>5, AsideContent DEF ContentInv

(* The end of a call, by whichever way, without a write.                    *)
LEMMA ReleasedProcess ==
  ASSUME LockInv, ContentInv, NEW a \in Process, Release(a),
         pc' = [pc EXCEPT ![a] = "closed"] \/ pc' = [pc EXCEPT ![a] = "idle"],
         retention' = retention \/ retention' = [retention EXCEPT ![a] = NoRetention]
  PROVE  /\ retention' \in [Process -> Bound]
         /\ DOMAIN event' = Process /\ DOMAIN line' = Process
         /\ \A p \in Process \ {a} :
              /\ pc'[p] = pc[p] /\ fd'[p] = fd[p] /\ fresh'[p] = fresh[p]
              /\ event'[p] = event[p] /\ line'[p] = line[p] /\ retention'[p] = retention[p]
         /\ Content(a)'
  <1>1. NoRetention \in Bound
    BY DEF NoRetention, Bound
  <1>2. pc'[a] \notin Calling
    BY DEF LockInv, Calling
  <1>3. Content(a)'
    BY <1>2 DEF Content, Calling
  <1>4. \A p \in Process \ {a} : pc'[p] = pc[p] /\ fd'[p] = fd[p] /\ fresh'[p] = fresh[p]
    BY ReleaseLocks DEF LockInv
  <1>5. /\ DOMAIN event' = Process /\ DOMAIN line' = Process
        /\ \A p \in Process \ {a} : event'[p] = event[p] /\ line'[p] = line[p]
    BY DEF Release, ContentInv
  <1>6. /\ retention' \in [Process -> Bound]
        /\ \A p \in Process \ {a} : retention'[p] = retention[p]
    BY <1>1 DEF ContentInv
  <1> QED BY <1>3, <1>4, <1>5, <1>6

LEMMA ShortContent ==
  ASSUME LockInv, WindowInv, ContentInv, NEW a \in Process, ShortWrite(a)
  PROVE  /\ ContentInv'
         /\ \E i \in Inode : /\ \A j \in Inode : j # i => file'[j] = file[j]
                             /\ file'[i].lines = file[i].lines
  <1>1. PICK i \in Inode :
          /\ \/ pc[a] = "append" /\ i = fd[a]
             \/ pc[a] = "write_fresh" /\ i = fresh[a]
          /\ file' = [file EXCEPT ![i] = [file[i] EXCEPT !.torn = TRUE]]
    <2>1. CASE pc[a] = "append"
      BY <2>1 DEF ShortWrite, LockInv, HeldBy, Calling
    <2>2. CASE pc[a] = "write_fresh"
      <3>1. fresh[a] \in Inode /\ file[fresh[a]].lines = <<>>
        <4>1. fresh[a] \in Inode
          BY <2>2 DEF LockInv, HeldBy
        <4>2. file[fresh[a]] = EmptyFile
          BY <2>2 DEF ContentInv, Content
        <4> QED BY <4>1, <4>2 DEF EmptyFile
      <3>2. file' = [file EXCEPT ![fresh[a]] = [file[fresh[a]] EXCEPT !.torn = TRUE]]
        BY <2>2, <3>1 DEF ShortWrite
      <3> QED BY <2>2, <3>1, <3>2
    <2> QED BY <2>1, <2>2 DEF ShortWrite
  <1>2. /\ file'[i].lines = file[i].lines /\ IsFile(file'[i])
        /\ \A j \in Inode : j # i => file'[j] = file[j]
    <2>1. file'[i] = [file[i] EXCEPT !.torn = TRUE] /\ \A j \in Inode : j # i => file'[j] = file[j]
      BY <1>1 DEF ContentInv
    <2>2. file'[i].lines = file[i].lines /\ file'[i].torn = TRUE
          /\ file'[i] = [lines |-> file'[i].lines, torn |-> file'[i].torn]
      BY <2>1 DEF ContentInv, IsFile
    <2> QED BY <2>1, <2>2 DEF IsFile
  <1>3. file' = [j \in Inode |-> file'[j]] /\ \A j \in Inode : IsFile(file'[j])
    BY <1>1, <1>2 DEF ContentInv
  <1>4. Named' = Named /\ \A j \in Named : j \in Inode
    BY DEF ShortWrite, Named, names, LockInv
  <1>5. \A j \in Named' : IsLines(file'[j].lines)
    <2>1. \A j \in Inode : file'[j].lines = file[j].lines
      BY <1>2
    <2> QED BY <1>4, <2>1 DEF ContentInv
  <1>6. Release(a) /\ pc' = [pc EXCEPT ![a] = "idle"] /\ retention' = retention
    BY DEF ShortWrite
  <1>7. ASSUME NEW p \in Process \ {a} PROVE Content(p)'
    <2>1. pc[p] \notin Window \cup {"append", "rotate", "sync"}
      BY <1>1, OnlyWriter
    <2> QED BY <1>6, <2>1, ReleasedProcess, OthersContent DEF ContentInv, Window
  <1> QED BY <1>2, <1>3, <1>5, <1>6, <1>7, ReleasedProcess DEF ContentInv

LEMMA EndContent ==
  ASSUME LockInv, ContentInv, NEW a \in Process,
         VerifyOpen(a) \/ Sync(a) \/ Fail(a) \/ Exit(a)
  PROVE  ContentInv'
  <1>1. /\ Release(a) /\ UNCHANGED <<file, names>>
        /\ pc' = [pc EXCEPT ![a] = "closed"] \/ pc' = [pc EXCEPT ![a] = "idle"]
        /\ retention' = retention \/ retention' = [retention EXCEPT ![a] = NoRetention]
    BY DEF VerifyOpen, Sync, Fail, Exit, Transition
  <1>2. Named' = Named
    BY <1>1 DEF Named, names
  <1> QED BY <1>1, <1>2, ReleasedProcess, AsideContent

LEMMA LockContent ==
  ASSUME LockInv, ContentInv, NEW a \in Process, NEW from, NEW to, NEW i,
         <<from, to>> \in {<<"lock_open", "open">>, <<"lock_record", "record">>,
                           <<"lock_fresh", "write_fresh">>},
         Lock(a, from, to, i)
  PROVE  ContentInv'
  <1>1. /\ pc[a] = from /\ pc' = [pc EXCEPT ![a] = to]
        /\ UNCHANGED <<names, file, fd, fresh, retention, event, line>>
    BY DEF Lock, Transition
  <1>2. Content(a)'
    <2>1. pc'[a] = to /\ file'[fresh'[a]] = file[fresh[a]] /\ event'[a] = event[a]
          /\ line'[a] = line[a]
      BY <1>1 DEF LockInv
    <2> QED BY <1>1, <2>1 DEF ContentInv, Content, Calling
  <1>3. Named' = Named /\ \A p \in Process \ {a} : pc'[p] = pc[p]
    BY <1>1 DEF Named, names, LockInv
  <1> QED BY <1>1, <1>2, <1>3, AsideContent DEF ContentInv

LEMMA RotateContent ==
  ASSUME LockInv, ContentInv, NEW a \in Process, Rotate(a)
  PROVE  ContentInv'
  <1>1. /\ pc[a] = "rotate" /\ pc' = [pc EXCEPT ![a] = "create"]
        /\ path' = NoInode /\ rotated' = path
        /\ UNCHANGED <<file, fd, fresh, retention, event, line>>
    BY DEF Rotate, Transition
  <1>2. Content(a)'
    BY <1>1 DEF LockInv, ContentInv, Content, Calling
  <1>3. (\A i \in Named' : i \in Named) /\ \A p \in Process \ {a} : pc'[p] = pc[p]
    BY <1>1 DEF Named, LockInv
  <1> QED BY <1>1, <1>2, <1>3, AsideContent DEF ContentInv

LEMMA ContentSound == ASSUME ~OpensRace, ~Recycling PROVE Spec => []ContentInv
  <1>1. Init => ContentInv
    <2> SUFFICES ASSUME Init PROVE ContentInv
      OBVIOUS
    <2>1. \A p \in Process : Content(p)
      BY DEF Init, Content, Calling
    <2>2. retention \in [Process -> Bound] /\ DOMAIN event = Process /\ DOMAIN line = Process
      BY DEF Init, Bound, NoRetention
    <2>3. CASE path = NoInode /\ file = [i \in Inode |-> EmptyFile]
      BY <2>1, <2>2, <2>3, EmptyFileIsOne DEF Init, ContentInv, Named
    <2>4. ASSUME NEW i \in Inode, NEW e \in Event, path = i,
                 file = [[j \in Inode |-> EmptyFile] EXCEPT ![i].lines = <<Bare(e)>>]
          PROVE  ContentInv
      <3>1. file[i] = [lines |-> <<Bare(e)>>, torn |-> FALSE]
            /\ \A j \in Inode : j # i => file[j] = EmptyFile
        BY <2>4 DEF EmptyFile
      <3>2. IsLines(<<Bare(e)>>)
        BY DEF IsLines, Bare, LineError, Range
      <3>3. IsFile(file[i])
        BY <3>1 DEF IsFile
      <3>4. \A j \in Inode : IsFile(file[j])
        BY <3>1, <3>3, EmptyFileIsOne
      <3>5. \A j \in Named : IsLines(file[j].lines)
        <4>1. \A j \in Named : j = i
          BY <2>4 DEF Init, Named
        <4>2. file[i].lines = <<Bare(e)>>
          BY <3>1
        <4> QED BY <3>2, <4>1, <4>2
      <3>6. file = [j \in Inode |-> file[j]]
        BY <2>4
      <3> QED BY <2>1, <2>2, <3>4, <3>5, <3>6 DEF ContentInv
    <2> QED BY <2>3, <2>4 DEF Init
  <1>2. LockInv /\ WindowInv /\ ContentInv /\ [Next]_vars => ContentInv'
    <2> SUFFICES ASSUME LockInv, WindowInv, ContentInv, [Next]_vars PROVE ContentInv'
      OBVIOUS
    <2>1. CASE UNCHANGED vars
      BY <2>1 DEF vars, names, procs, ContentInv, Content, Named
    <2>2. ASSUME NEW p \in Process,
                 \/ Lock(p, "lock_open", "open", fd[p])
                 \/ Lock(p, "lock_record", "record", fd[p])
                 \/ Lock(p, "lock_fresh", "write_fresh", fresh[p])
          PROVE  ContentInv'
      BY <2>2, LockContent
    <2> QED BY <2>1, <2>2, OpenContent, CheckContent, RotateContent, CreateFreshContent,
               WriteContent, ShortContent, EndContent DEF Next
  <1> QED BY <1>1, <1>2, LocksHeld, OneInTheWindow, PTL DEF Spec

(* However many sinks append to one path, rotate it, die on the way and     *)
(* come back, the log and its rotation hold unbroken chains.                *)
THEOREM ChainStaysUnbroken == ASSUME ~OpensRace, ~Recycling PROVE Spec => []ChainUnbroken
  <1>1. LockInv /\ ContentInv => ChainUnbroken
    BY SoundVerifies DEF ContentInv, ChainUnbroken, Named, LockInv
  <1> QED BY <1>1, LocksHeld, ContentSound, PTL

-----------------------------------------------------------------------------
(* What a step does to the files that keep their name.                      *)

LEMMA PrefixOfAppend ==
  ASSUME NEW lines, lines \in Seq(Range(lines))
  PROVE  IsPrefix(lines, lines) /\ \A x : IsPrefix(lines, Append(lines, x))
  <1>1. SubSeq(lines, 1, Len(lines)) = lines
    BY SubSeqFull
  <1>2. Len(lines) \in Nat
    BY LenProperties
  <1>3. ASSUME NEW x PROVE IsPrefix(lines, Append(lines, x))
    <2>1. /\ Len(Append(lines, x)) = Len(lines) + 1
          /\ \A n \in 1 .. Len(lines) : Append(lines, x)[n] = lines[n]
      BY AppendLines
    <2>2. \A n \in 1 .. Len(lines) : lines[n] \in Range(lines)
      BY ElementOfSeq
    <2>3. /\ SubSeq(Append(lines, x), 1, Len(lines)) \in Seq(Range(lines))
          /\ Len(SubSeq(Append(lines, x), 1, Len(lines))) = Len(lines)
          /\ \A n \in 1 .. Len(lines) :
               SubSeq(Append(lines, x), 1, Len(lines))[n] = Append(lines, x)[n]
      BY <1>2, <2>1, <2>2, SubSeqProperties
    <2>4. SubSeq(Append(lines, x), 1, Len(lines)) = lines
      BY <2>1, <2>3, SeqEqual
    <2> QED BY <1>1, <1>2, <2>1, <2>4 DEF IsPrefix
  <1> QED BY <1>1, <1>2, <1>3 DEF IsPrefix

(* The two writes of record extend the file that the path names.            *)
LEMMA WrittenFile ==
  ASSUME LockInv, WindowInv, ContentInv, NEW a \in Process, Append1(a) \/ WriteFresh(a)
  PROVE  /\ path \in Inode /\ event[a] \in Event /\ TailOf(file[path])
         /\ line[a] = NextLine(file[path].lines, event[a])
         /\ file'[path].lines = Append(file[path].lines, line[a])
         /\ \A j \in Inode : j # path => file'[j] = file[j]
  <1>1. PICK f : /\ path \in Inode /\ file' = [file EXCEPT ![path] = f]
                 /\ f.lines = Append(file[path].lines, line[a])
                 /\ event[a] \in Event /\ TailOf(file[path])
                 /\ line[a] = NextLine(file[path].lines, event[a])
    <2>1. CASE Append1(a)
      BY <2>1, AppendContent
    <2>2. CASE WriteFresh(a)
      <3>1. file[path].lines = <<>> /\ TailOf(file[path])
        BY <2>2, FreshContent DEF TailOf, EmptyFile
      <3> QED BY <2>2, <3>1, FreshContent
    <2> QED BY <2>1, <2>2
  <1>2. file'[path] = f /\ \A j \in Inode : j # path => file'[j] = file[j]
    BY <1>1 DEF ContentInv
  <1> QED BY <1>1, <1>2

(* A named file changes in the two writes of record only; what else happens *)
(* leaves its lines as they are.                                            *)
LEMMA FileSteps ==
  ASSUME LockInv, WindowInv, ContentInv, [Next]_vars,
         \A a \in Process : ~Append1(a) /\ ~WriteFresh(a)
  PROVE  \A i \in Inode :
           \/ file'[i].lines = file[i].lines
           \/ i \notin Named /\ file'[i].lines = <<>>
              /\ \A p \in Process : i # fd[p] /\ i # fresh[p]
  <1>1. ASSUME NEW i \in Inode, Create(i)
        PROVE  \A j \in Inode : \/ file'[j].lines = file[j].lines
                                \/ j \notin Named /\ file'[j].lines = <<>>
                                   /\ \A p \in Process : j # fd[p] /\ j # fresh[p]
    BY <1>1 DEF Create, Free, Named, ContentInv, EmptyFile
  <1>2. CASE UNCHANGED file
    BY <1>2
  <1>3. CASE \E p \in Process : OpenPath(p)
    BY <1>1, <1>3 DEF OpenPath
  <1>4. CASE \E p \in Process : CreateFresh(p)
    BY <1>1, <1>4 DEF CreateFresh
  <1>5. CASE \E p \in Process : ShortWrite(p)
    BY <1>5, ShortContent
  <1>6. \/ UNCHANGED file
        \/ \E p \in Process : OpenPath(p) \/ CreateFresh(p) \/ ShortWrite(p)
    BY DEF Next, vars, Open, Record, Lock, VerifyOpen, Check, Rotate, Sync, Fail, Exit
  <1> QED BY <1>2, <1>3, <1>4, <1>5, <1>6

(* Nothing on a named file is ever changed: it only grows, and only after   *)
(* a sound last line.                                                       *)
THEOREM NamedFilesOnlyGrow == ASSUME ~OpensRace, ~Recycling PROVE Spec => AppendOnly
  <1>1. LockInv /\ WindowInv /\ ContentInv /\ [Next]_vars =>
          [\A i \in Named \cap Named' :
             /\ IsPrefix(file[i].lines, file'[i].lines)
             /\ file'[i].lines # file[i].lines
                  => Verify(file[i]) \in {"empty", "verified"}]_vars
    <2> SUFFICES ASSUME LockInv, WindowInv, ContentInv, [Next]_vars, NEW i \in Named
                 PROVE  /\ IsPrefix(file[i].lines, file'[i].lines)
                        /\ file'[i].lines # file[i].lines
                             => Verify(file[i]) \in {"empty", "verified"}
      OBVIOUS
    <2>1. i \in Inode /\ IsFile(file[i]) /\ IsLines(file[i].lines)
      BY DEF Named, LockInv, ContentInv
    <2>2. IsPrefix(file[i].lines, file[i].lines)
          /\ \A x : IsPrefix(file[i].lines, Append(file[i].lines, x))
      BY <2>1, PrefixOfAppend DEF IsLines
    <2>3. ASSUME NEW a \in Process, Append1(a) \/ WriteFresh(a)
          PROVE  \/ file'[i].lines = file[i].lines
                 \/ /\ file'[i].lines = Append(file[i].lines, line[a])
                    /\ TailOf(file[i])
      BY <2>1, <2>3, WrittenFile
    <2>4. CASE \A a \in Process : ~Append1(a) /\ ~WriteFresh(a)
      BY <2>1, <2>2, <2>4, FileSteps
    <2> QED BY <2>1, <2>2, <2>3, <2>4, SoundVerifies
  <1> QED BY <1>1, LocksHeld, OneInTheWindow, ContentSound, PTL DEF Spec, AppendOnly

-----------------------------------------------------------------------------
(* Where the events are.                                                    *)

LEMMA EventsOfAppend ==
  ASSUME NEW lines, lines \in Seq(Range(lines)), NEW x, x.form = "envelope"
  PROVE  EventsOf(Append(lines, x)) = EventsOf(lines) \cup {x.event}
  <1>1. /\ Len(lines) \in Nat /\ Len(Append(lines, x)) = Len(lines) + 1
        /\ \A n \in 1 .. Len(lines) : Append(lines, x)[n] = lines[n]
        /\ Append(lines, x)[Len(lines) + 1] = x
    BY AppendLines
  <1> DEFINE more == Append(lines, x)
  <1> HIDE DEF more
  <1>2. \A e : e \in EventsOf(more) <=>
               \E n \in 1 .. Len(lines) + 1 : more[n].form = "envelope" /\ more[n].event = e
    BY <1>1 DEF EventsOf, more
  <1>3. \A e : e \in EventsOf(lines) <=>
               \E n \in 1 .. Len(lines) : lines[n].form = "envelope" /\ lines[n].event = e
    BY DEF EventsOf
  <1>4. \A n \in 1 .. Len(lines) + 1 : n \in 1 .. Len(lines) \/ n = Len(lines) + 1
    BY <1>1
  <1>5. \A n \in 1 .. Len(lines) : n \in 1 .. Len(lines) + 1
    BY <1>1
  <1>6. Len(lines) + 1 \in 1 .. Len(lines) + 1
    BY <1>1
  <1>7. (\A n \in 1 .. Len(lines) : more[n] = lines[n]) /\ more[Len(lines) + 1] = x
    BY <1>1 DEF more
  <1>8. \A e : e \in EventsOf(more) <=> e \in EventsOf(lines) \/ e = x.event
    BY <1>2, <1>3, <1>4, <1>5, <1>6, <1>7
  <1> QED BY <1>8 DEF more

LEMMA NewNames ==
  ASSUME LockInv, ContentInv, [Next]_vars
  PROVE  \A i \in Named' : i \in Inode /\ (i \in Named \/ file'[i].lines = <<>>)
  <1>1. ASSUME NEW i \in Inode, Create(i), rotated' = rotated
        PROVE  \A j \in Named' : j \in Inode /\ (j \in Named \/ file'[j].lines = <<>>)
    <2>1. file'[i].lines = <<>> /\ path' = i
      BY <1>1, CreateContent DEF Create, EmptyFile
    <2> QED BY <1>1, <2>1 DEF Named, LockInv
  <1>2. CASE \E p \in Process : OpenPath(p) /\ rotated' = rotated
    BY <1>1, <1>2 DEF OpenPath, Named, LockInv
  <1>3. CASE \E p \in Process : CreateFresh(p)
    BY <1>1, <1>3 DEF CreateFresh
  <1>4. CASE \E p \in Process : Rotate(p)
    BY <1>4 DEF Rotate, Named, LockInv
  <1>5. CASE UNCHANGED names
    BY <1>5 DEF names, Named, LockInv
  <1>6. \/ UNCHANGED names
        \/ \E p \in Process : (OpenPath(p) /\ rotated' = rotated) \/ CreateFresh(p) \/ Rotate(p)
    BY DEF Next, vars, Open, Record, Lock, VerifyOpen, Check, Append1, WriteFresh, ShortWrite,
           Sync, Fail, Exit
  <1> QED BY <1>2, <1>3, <1>4, <1>5, <1>6

(* No name is lost but in a rotation.                                       *)
LEMMA NamesStay ==
  ASSUME LockInv, [Next]_vars, \A a \in Process : ~Rotate(a)
  PROVE  /\ \A i \in Named : i \in Named'
         /\ path # NoInode => path' = path
  BY DEF Next, vars, names, Named, LockInv, Open, Record, OpenPath, CreateFresh, Create, Free, Lock,
         VerifyOpen, Check, Append1, WriteFresh, ShortWrite, Sync, Fail, Exit

(* A call keeps its event, and passes a write on its way to the sync.       *)
LEMMA CallSteps ==
  ASSUME LockInv, ContentInv, [Next]_vars, NEW p \in Process, pc'[p] \in Calling
  PROVE  \/ /\ pc[p] \in Calling /\ event'[p] = event[p]
            /\ pc[p] = "sync" <=> pc'[p] = "sync"
         \/ pc[p] \in Calling \ {"sync"} /\ event'[p] = event[p] /\ pc'[p] = "sync"
            /\ (Append1(p) \/ WriteFresh(p))
         \/ \E e \in Event : Record(p, e)
  <1> USE DEF Calling
  <1>1. CASE UNCHANGED vars
    BY <1>1 DEF vars, procs
  <1>2. ASSUME NEW a \in Process, NEW from, NEW to, pc[a] = from, pc' = [pc EXCEPT ![a] = to],
               UNCHANGED event, from \notin Calling => to \notin Calling, from # "sync", to # "sync"
        PROVE  pc[p] \in Calling /\ event'[p] = event[p] /\ (pc[p] = "sync" <=> pc'[p] = "sync")
    BY <1>2 DEF LockInv
  <1>3. ASSUME NEW a \in Process, pc' = [pc EXCEPT ![a] = "closed"] \/ pc' = [pc EXCEPT ![a] = "idle"],
               Release(a)
        PROVE  pc[p] \in Calling /\ event'[p] = event[p] /\ (pc[p] = "sync" <=> pc'[p] = "sync")
    <2>1. p # a /\ pc'[p] = pc[p]
      BY <1>3 DEF LockInv
    <2>2. event'[p] = event[p]
      BY <1>3, <2>1 DEF Release, ContentInv
    <2> QED BY <2>1, <2>2
  <1>4. ASSUME NEW a \in Process, \/ \E r \in Retentions : Open(a, r)
                                  \/ Lock(a, "lock_open", "open", fd[a])
                                  \/ Lock(a, "lock_record", "record", fd[a])
                                  \/ Lock(a, "lock_fresh", "write_fresh", fresh[a])
                                  \/ Rotate(a) \/ CreateFresh(a)
        PROVE  pc[p] \in Calling /\ event'[p] = event[p] /\ (pc[p] = "sync" <=> pc'[p] = "sync")
    <2>1. PICK from, to : /\ pc[a] = from /\ pc' = [pc EXCEPT ![a] = to] /\ event' = event
                          /\ from \notin Calling => to \notin Calling
                          /\ from # "sync" /\ to # "sync"
      <3>1. CASE \E r \in Retentions : Open(a, r)
        <4>1. pc[a] = "closed" /\ pc' = [pc EXCEPT ![a] = "lock_open"] /\ event' = event
          BY <3>1 DEF Open, Transition
        <4>2. "lock_open" \notin Calling
          OBVIOUS
        <4> QED BY <4>1, <4>2
      <3>2. CASE Rotate(a) \/ CreateFresh(a)
        BY <3>2 DEF Rotate, CreateFresh, Transition
      <3>3. CASE \/ Lock(a, "lock_open", "open", fd[a])
                 \/ Lock(a, "lock_record", "record", fd[a])
                 \/ Lock(a, "lock_fresh", "write_fresh", fresh[a])
        BY <3>3 DEF Lock, Transition
      <3> QED BY <1>4, <3>1, <3>2, <3>3
    <2> QED BY <2>1, <1>2
  <1>5. ASSUME NEW a \in Process, Check(a)
        PROVE  pc[p] \in Calling /\ event'[p] = event[p] /\ (pc[p] = "sync" <=> pc'[p] = "sync")
    BY <1>5, <1>2 DEF Check
  <1>6. ASSUME NEW a \in Process, VerifyOpen(a) \/ ShortWrite(a) \/ Sync(a) \/ Fail(a) \/ Exit(a)
        PROVE  pc[p] \in Calling /\ event'[p] = event[p] /\ (pc[p] = "sync" <=> pc'[p] = "sync")
    BY <1>6, <1>3 DEF VerifyOpen, ShortWrite, Sync, Fail, Exit, Transition
  <1>7. ASSUME NEW a \in Process, NEW e \in Event, Record(a, e), a # p
        PROVE  pc[p] \in Calling /\ event'[p] = event[p] /\ (pc[p] = "sync" <=> pc'[p] = "sync")
    BY <1>7 DEF Record, Transition, LockInv, ContentInv
  <1>8. ASSUME NEW a \in Process, Append1(a) \/ WriteFresh(a)
        PROVE  \/ pc[p] \in Calling /\ event'[p] = event[p] /\ (pc[p] = "sync" <=> pc'[p] = "sync")
               \/ a = p /\ pc[p] \in Calling \ {"sync"} /\ event'[p] = event[p] /\ pc'[p] = "sync"
    BY <1>8 DEF Append1, WriteFresh, Transition, LockInv
  <1> QED BY <1>1, <1>4, <1>5, <1>6, <1>7, <1>8 DEF Next

(* What happens to the names and the lines of the files apart from a write  *)
(* and a rotation, and what of an event in them.                            *)
LEMMA EventsAside ==
  ASSUME LockInv, WindowInv, ContentInv, [Next]_vars,
         \A a \in Process : ~Append1(a) /\ ~WriteFresh(a)
  PROVE  \A i \in Named' : \/ i \in Named /\ file'[i].lines = file[i].lines
                           \/ file'[i].lines = <<>>
  BY FileSteps, NewNames

LEMMA NothingInNoLines == EventsOf(<<>>) = {}
  <1>1. Len(<<>>) = 0
    BY EmptySeq
  <1> QED BY <1>1 DEF EventsOf

(* Where a record may be, once the step has been taken.                     *)
LEMMA EventsAfter ==
  ASSUME LockInv, WindowInv, ContentInv, EventInv, [Next]_vars
  PROVE  /\ \A i \in Named' : \A e \in EventsOf(file'[i].lines) :
              \/ i \in Named /\ In(e, i)
              \/ \E a \in Process : e = event[a] /\ (Append1(a) \/ WriteFresh(a))
         /\ \A i \in Named \cap Named' : \A e : In(e, i) => In(e, i)'
  <1>1. ASSUME NEW a \in Process, Append1(a) \/ WriteFresh(a)
        PROVE  /\ \A i \in Named' : \A e \in EventsOf(file'[i].lines) :
                     (i \in Named /\ In(e, i)) \/ e = event[a]
               /\ \A i \in Named \cap Named' : \A e : In(e, i) => In(e, i)'
    <2>1. /\ path \in Inode /\ line[a] = NextLine(file[path].lines, event[a])
          /\ file'[path].lines = Append(file[path].lines, line[a])
          /\ \A j \in Inode : j # path => file'[j] = file[j]
      BY <1>1, WrittenFile
    <2>2. Named' = Named /\ path \in Named /\ Named \subseteq Inode
      BY <1>1, <2>1 DEF Append1, WriteFresh, names, Named, LockInv
    <2>3. line[a].form = "envelope" /\ line[a].event = event[a]
      BY <2>1 DEF NextLine, Envelope
    <2>4. file[path].lines \in Seq(Range(file[path].lines))
      BY <2>2 DEF ContentInv, IsLines
    <2>5. EventsOf(file'[path].lines) = EventsOf(file[path].lines) \cup {event[a]}
      BY <2>1, <2>3, <2>4, EventsOfAppend
    <2> QED BY <2>1, <2>2, <2>5 DEF In
  <1>2. CASE \A a \in Process : ~Append1(a) /\ ~WriteFresh(a)
    <2>1. \A i \in Named' : \A e \in EventsOf(file'[i].lines) : i \in Named /\ In(e, i)
      BY <1>2, EventsAside, NothingInNoLines DEF In
    <2>2. ASSUME NEW i \in Named, NEW e, In(e, i) PROVE In(e, i)'
      <3>1. i \in Inode
        BY DEF Named, LockInv
      <3> QED BY <1>2, <2>2, <3>1, FileSteps DEF In
    <2> QED BY <2>1, <2>2
  <1> QED BY <1>1, <1>2

(* The one step that offers an event, and the one that makes it acked.      *)
LEMMA HistorySteps ==
  ASSUME [Next]_vars
  PROVE  /\ \/ offered' = offered
            \/ \E p \in Process, e \in Event :
                 Record(p, e) /\ e \notin offered /\ offered' = offered \cup {e}
         /\ acked' = acked \/ \E p \in Process : Sync(p) /\ acked' = acked \cup {event[p]}
         /\ discarded' = discarded \/ \E p \in Process : Rotate(p)
  BY DEF Next, vars, history, Open, Record, Lock, VerifyOpen, Check, Append1, Rotate, CreateFresh,
         WriteFresh, ShortWrite, Sync, Fail, Exit

(* An event is in no file twice: it is written by the one call that has it. *)
LEMMA NoneTwice ==
  ASSUME LockInv, WindowInv, ContentInv, EventInv, [Next]_vars
  PROVE  \A i, j \in Named' : \A m \in DOMAIN file'[i].lines, n \in DOMAIN file'[j].lines :
           LET a == file'[i].lines[m]  b == file'[j].lines[n]
           IN a.form = "envelope" /\ b.form = "envelope" /\ a.event = b.event => i = j /\ m = n
  <1>1. CASE \A a \in Process : ~Append1(a) /\ ~WriteFresh(a)
    <2>1. DOMAIN <<>> = {}
      OBVIOUS
    <2> QED BY <1>1, <2>1, EventsAside DEF EventInv, RecordedOnce
  <1>2. ASSUME NEW c \in Process, Append1(c) \/ WriteFresh(c),
               NEW i \in Named', NEW j \in Named',
               NEW m \in DOMAIN file'[i].lines, NEW n \in DOMAIN file'[j].lines,
               file'[i].lines[m].form = "envelope", file'[j].lines[n].form = "envelope",
               file'[i].lines[m].event = file'[j].lines[n].event
        PROVE  i = j /\ m = n
    <2> DEFINE old == file[path].lines
    <2>1. /\ path \in Inode /\ line[c].event = event[c]
          /\ file'[path].lines = Append(old, line[c])
          /\ \A k \in Inode : k # path => file'[k] = file[k]
      <3>1. \A lines, e : NextLine(lines, e).event = e
        BY DEF NextLine, Envelope
      <3>2. line[c] = NextLine(file[path].lines, event[c])
        BY <1>2, WrittenFile
      <3>3. line[c].event = event[c]
        BY <3>1, <3>2
      <3> QED BY <1>2, <3>3, WrittenFile
    <2>2. Named' = Named /\ path \in Named /\ Named \subseteq Inode
      BY <1>2, <2>1 DEF Append1, WriteFresh, names, Named, LockInv
    <2>3. /\ Len(old) \in Nat /\ DOMAIN old = 1 .. Len(old)
          /\ DOMAIN Append(old, line[c]) = 1 .. Len(old) + 1
          /\ \A k \in 1 .. Len(old) : Append(old, line[c])[k] = old[k]
          /\ Append(old, line[c])[Len(old) + 1] = line[c]
      BY <2>2, AppendLines DEF ContentInv, IsLines
    <2>4. ASSUME NEW k \in Named, NEW l \in DOMAIN file[k].lines, file[k].lines[l].form = "envelope"
          PROVE  file[k].lines[l].event # event[c]
      <3>1. pc[c] \in Calling \ {"sync"}
        BY <1>2 DEF Append1, WriteFresh, Transition, Calling
      <3>2. event[c] \notin EventsOf(file[k].lines)
        BY <3>1 DEF EventInv, In
      <3>3. DOMAIN file[k].lines = 1 .. Len(file[k].lines)
        BY LenProperties DEF ContentInv, IsLines
      <3> QED BY <2>4, <3>2, <3>3 DEF EventsOf
    <2>5. ASSUME NEW k \in Named', NEW l \in DOMAIN file'[k].lines
          PROVE  \/ l \in DOMAIN file[k].lines /\ file'[k].lines[l] = file[k].lines[l]
                 \/ k = path /\ l = Len(old) + 1 /\ file'[k].lines[l].event = event[c]
      <3>1. CASE k # path
        BY <2>1, <2>2, <3>1
      <3>2. CASE k = path
        <4>1. l \in 1 .. Len(old) + 1
          BY <2>1, <2>3, <3>2
        <4>2. l \in 1 .. Len(old) \/ l = Len(old) + 1
          BY <2>3, <4>1
        <4> QED BY <2>1, <2>3, <3>2, <4>2
      <3> QED BY <3>1, <3>2
    <2>6. i \in Named /\ j \in Named
      BY <2>2
    <2> HIDE DEF old
    <2> QED BY <1>2, <2>4, <2>5, <2>6 DEF EventInv, RecordedOnce
  <1> QED BY <1>1, <1>2

LEMMA EventStep ==
  ASSUME LockInv, WindowInv, ContentInv, EventInv, [Next]_vars
  PROVE  EventInv'
  <1>1. offered' \subseteq Event /\ offered \subseteq offered'
    BY HistorySteps DEF EventInv
  <1>2. ASSUME NEW a \in Process, Append1(a) \/ WriteFresh(a)
        PROVE  /\ pc[a] \in Calling \ {"sync"} /\ pc'[a] = "sync" /\ event'[a] = event[a]
               /\ path' = path /\ path \in Named /\ In(event[a], path)'
    <2>1. /\ pc[a] \in Calling \ {"sync"} /\ pc'[a] = "sync" /\ event'[a] = event[a]
          /\ UNCHANGED names
      BY <1>2 DEF Append1, WriteFresh, Transition, LockInv, Calling
    <2>2. /\ path \in Inode /\ line[a] = NextLine(file[path].lines, event[a])
          /\ file'[path].lines = Append(file[path].lines, line[a])
      BY <1>2, WrittenFile
    <2>3. path' = path /\ path \in Named
      BY <2>1, <2>2 DEF names, Named
    <2>4. line[a].form = "envelope" /\ line[a].event = event[a]
      BY <2>2 DEF NextLine, Envelope
    <2>5. EventsOf(file'[path].lines) = EventsOf(file[path].lines) \cup {event[a]}
      <3>1. file[path].lines \in Seq(Range(file[path].lines))
        BY <2>3 DEF ContentInv, IsLines
      <3> QED BY <2>2, <2>4, <3>1, EventsOfAppend
    <2> QED BY <2>1, <2>3, <2>5 DEF In
  <1>3. ASSUME NEW i \in Named' PROVE EventsOf(file'[i].lines) \subseteq offered
    BY <1>2, EventsAfter DEF EventInv, In
  <1>4. ASSUME NEW p \in Process, NEW e, Record(p, e)
        PROVE  /\ e \notin offered /\ e \in offered' /\ event'[p] = e
               /\ \A q \in Process \ {p} : pc'[q] = pc[q] /\ event'[q] = event[q]
    BY <1>4 DEF Record, Transition, LockInv, ContentInv
  <1>5. ASSUME NEW p \in Process, NEW e, Record(p, e), NEW q \in Process \ {p},
               pc'[q] \in Calling
        PROVE  pc[q] \in Calling /\ event'[q] # event'[p]
    BY <1>4, <1>5 DEF EventInv
  <1>6. ASSUME NEW p \in Process, pc'[p] \in Calling PROVE event'[p] \in offered'
    BY <1>1, <1>4, <1>6, CallSteps DEF EventInv
  <1>7. ASSUME NEW p \in Process, NEW q \in Process, p # q,
               pc'[p] \in Calling, pc'[q] \in Calling
        PROVE  event'[p] # event'[q]
    <2>1. CASE \E e \in Event : Record(p, e) \/ Record(q, e)
      BY <1>5, <1>7, <2>1
    <2>2. CASE ~ \E e \in Event : Record(p, e) \/ Record(q, e)
      BY <1>7, <2>2, CallSteps DEF EventInv
    <2> QED BY <2>1, <2>2
  <1>8. ASSUME NEW p \in Process, NEW i \in Named', pc'[p] \in Calling \ {"sync"}
        PROVE  ~In(event[p], i)'
    <2> SUFFICES ASSUME event'[p] \in EventsOf(file'[i].lines) PROVE FALSE
      BY DEF In
    <2>1. CASE \E e \in Event : Record(p, e)
      BY <1>3, <1>4, <2>1
    <2>2. CASE pc[p] \in Calling \ {"sync"} /\ event'[p] = event[p]
      <3>1. \/ i \in Named /\ In(event[p], i)
            \/ \E a \in Process : event[p] = event[a] /\ (Append1(a) \/ WriteFresh(a))
        BY <2>2, EventsAfter
      <3>2. PICK a \in Process : event[p] = event[a] /\ (Append1(a) \/ WriteFresh(a))
        BY <2>2, <3>1 DEF EventInv
      <3>3. a # p
        BY <1>2, <1>8, <3>2
      <3> QED BY <1>2, <2>2, <3>2, <3>3 DEF EventInv
    <2> QED BY <1>8, <2>1, <2>2, CallSteps
  <1>9. ASSUME NEW p \in Process, pc'[p] = "sync" PROVE In(event[p], path)'
    <2>1. pc'[p] \in Calling
      BY <1>9 DEF Calling
    <2>2. CASE Append1(p) \/ WriteFresh(p)
      BY <1>2, <2>2 DEF In
    <2>3. CASE pc[p] = "sync" /\ event'[p] = event[p]
      <3>1. In(event[p], path) /\ path \in Inode /\ path \in Named /\ holder[path] = p
        BY <2>3 DEF EventInv, WindowInv, InWindow, LockInv, Named
      <3>2. \A a \in Process : ~Rotate(a)
        BY <2>3, <3>1 DEF Rotate, Transition, LockInv, HeldBy, Locked
      <3>3. path' = path /\ path \in Named'
        BY <3>1, <3>2, NamesStay DEF Named
      <3>4. event[p] \in EventsOf(file'[path].lines)
        BY <3>1, <3>3, EventsAfter DEF In
      <3> QED BY <2>3, <3>3, <3>4 DEF In
    <2>4. CASE \E e \in Event : Record(p, e)
      BY <1>9, <2>4 DEF Record, Transition, LockInv
    <2> QED BY <1>9, <2>1, <2>2, <2>3, <2>4, CallSteps
  <1>10. ASSUME NEW e \in acked' \ discarded'
         PROVE  \E i \in Named' : e \in EventsOf(file'[i].lines)
    <2>1. CASE e \in acked \ discarded
      <3>1. PICK i \in Named : In(e, i)
        BY <2>1 DEF EventInv, RecordedOnce, In
      <3>2. CASE i \in Named'
        BY <3>1, <3>2, EventsAfter DEF In
      <3>3. CASE i \notin Named'
        <4>1. PICK a \in Process : Rotate(a)
          BY <3>3, NamesStay
        <4>2. i = rotated /\ rotated # NoInode
          BY <3>3, <4>1 DEF Rotate, Named
        <4>3. e \in discarded'
          BY <3>1, <4>1, <4>2 DEF Rotate, In
        <4> QED BY <1>10, <4>3
      <3> QED BY <3>2, <3>3
    <2>2. CASE e \notin acked \ discarded
      <3>1. discarded \subseteq discarded'
        BY HistorySteps DEF Rotate
      <3>2. PICK p \in Process : Sync(p) /\ e = event[p]
        BY <1>10, <2>2, <3>1, HistorySteps
      <3>3. In(e, path) /\ path \in Named /\ Named' = Named /\ file' = file
        BY <3>2 DEF Sync, Transition, EventInv, WindowInv, InWindow, Named, names
      <3> QED BY <3>3 DEF In
    <2> QED BY <2>1, <2>2
  <1>11. RecordedOnce'
    BY <1>10, NoneTwice DEF RecordedOnce
  <1> QED BY <1>1, <1>3, <1>6, <1>7, <1>8, <1>9, <1>11 DEF EventInv

LEMMA EventsTracked == ASSUME ~OpensRace, ~Recycling PROVE Spec => []EventInv
  <1>1. LockInv /\ ContentInv /\ Init => EventInv
    <2> SUFFICES ASSUME LockInv, ContentInv, Init PROVE EventInv
      OBVIOUS
    <2>1. \A i \in Named : \A n \in DOMAIN file[i].lines : file[i].lines[n].form # "envelope"
      <3>1. CASE path = NoInode
        BY <3>1 DEF Init, Named
      <3>2. ASSUME NEW i \in Inode, NEW e \in Event, path = i,
                   file = [[j \in Inode |-> EmptyFile] EXCEPT ![i].lines = <<Bare(e)>>]
            PROVE  \A n \in DOMAIN file[i].lines : file[i].lines[n].form # "envelope"
        <4>1. file[i].lines = <<Bare(e)>>
          BY <3>2 DEF EmptyFile
        <4> QED BY <4>1 DEF Bare
      <3> QED BY <3>1, <3>2 DEF Init, Named
    <2>2. \A i \in Named : EventsOf(file[i].lines) = {}
      <3> SUFFICES ASSUME NEW i \in Named PROVE EventsOf(file[i].lines) = {}
        OBVIOUS
      <3>1. DOMAIN file[i].lines = 1 .. Len(file[i].lines)
        BY LenProperties DEF ContentInv, IsLines
      <3> QED BY <2>1, <3>1 DEF EventsOf
    <2>3. RecordedOnce
      BY <2>1 DEF RecordedOnce, Init
    <2>4. offered = {} /\ \A p \in Process : pc[p] \notin Calling /\ pc[p] # "sync"
      BY DEF Init, Calling
    <2> QED BY <2>2, <2>3, <2>4 DEF EventInv
  <1> QED BY <1>1, EventStep, LocksHeld, OneInTheWindow, ContentSound, PTL DEF Spec

(* An acknowledged record is in the log or its rotation, and no event is    *)
(* there twice.                                                             *)
THEOREM EveryRecordOnce == ASSUME ~OpensRace, ~Recycling PROVE Spec => []RecordedOnce
  <1>1. EventInv => RecordedOnce
    BY DEF EventInv
  <1> QED BY <1>1, EventsTracked, PTL

-----------------------------------------------------------------------------
(* The bytes of a file.                                                     *)

LEMMA LeastNatural ==
  ASSUME NEW S \in SUBSET Nat, S # {}
  PROVE  \E m \in S : \A n \in S : m <= n
  <1>1. PICK m \in S : ~ \E n \in S : <<n, m>> \in OpToRel(<, Nat)
    BY WFMin, NatLessThanWellFounded
  <1>2. \A n \in S : ~(n < m)
    BY <1>1 DEF OpToRel
  <1> QED BY <1>2

Sums(f, lines, N) ==
  f = [n \in 0 .. N |-> IF n = 0 THEN 0 ELSE f[n - 1] + LineLength(lines[n])]

LEMMA SumsExist == ASSUME NEW lines, NEW N \in Nat PROVE \E f : Sums(f, lines, N)
  <1> DEFINE Bad == {k \in Nat : ~ \E f : Sums(f, lines, k)}
  <1>1. CASE Bad = {}
    BY <1>1
  <1>2. CASE Bad # {}
    <2>1. PICK m \in Bad : \A k \in Bad : m <= k
      <3>1. Bad \in SUBSET Nat
        OBVIOUS
      <3> HIDE DEF Bad
      <3> QED BY <1>2, <3>1, LeastNatural
    <2>2. m \in Nat /\ ~ \E f : Sums(f, lines, m)
      OBVIOUS
    <2>3. CASE m = 0
      <3> DEFINE f == [n \in 0 .. 0 |-> 0]
      <3>1. Sums(f, lines, 0)
        BY DEF Sums
      <3> QED BY <2>2, <2>3, <3>1
    <2>4. CASE m # 0
      <3>1. m - 1 \in Nat /\ m - 1 \notin Bad
        BY <2>1, <2>2, <2>4
      <3>2. PICK f : Sums(f, lines, m - 1)
        BY <3>1
      <3> DEFINE h == [n \in 0 .. m |-> IF n = m THEN f[m - 1] + LineLength(lines[m]) ELSE f[n]]
      <3>3. ASSUME NEW n \in 0 .. m
            PROVE  h[n] = IF n = 0 THEN 0 ELSE h[n - 1] + LineLength(lines[n])
        <4>1. CASE n = m
          <5>1. m - 1 \in 0 .. m /\ m - 1 # m
            BY <2>2, <2>4
          <5> QED BY <2>4, <4>1, <5>1
        <4>2. CASE n # m
          <5>1. n \in 0 .. m - 1 /\ (n # 0 => n - 1 \in 0 .. m /\ n - 1 # m)
            BY <2>2, <4>2
          <5>2. f[n] = IF n = 0 THEN 0 ELSE f[n - 1] + LineLength(lines[n])
            BY <3>2, <5>1 DEF Sums
          <5> QED BY <4>2, <5>1, <5>2
        <4> QED BY <4>1, <4>2
      <3>4. h = [n \in 0 .. m |-> h[n]]
        OBVIOUS
      <3> HIDE DEF h
      <3>5. Sums(h, lines, m)
        BY <3>3, <3>4 DEF Sums
      <3> QED BY <2>2, <3>5
    <2> QED BY <2>3, <2>4
  <1> QED BY <1>1, <1>2

LEMMA SumsAgree ==
  ASSUME NEW lines, NEW more, NEW N \in Nat, NEW M \in Nat, N <= M,
         \A n \in 1 .. N : more[n] = lines[n] /\ LineLength(lines[n]) \in Nat,
         NEW f, Sums(f, lines, N), NEW h, Sums(h, more, M)
  PROVE  \A n \in 0 .. N : f[n] \in Nat /\ h[n] = f[n]
  <1> DEFINE Bad == {n \in 0 .. N : ~(f[n] \in Nat /\ h[n] = f[n])}
  <1>1. CASE Bad = {}
    BY <1>1
  <1>2. CASE Bad # {}
    <2>1. PICK m \in Bad : \A k \in Bad : m <= k
      <3>1. Bad \in SUBSET Nat
        OBVIOUS
      <3> HIDE DEF Bad
      <3> QED BY <1>2, <3>1, LeastNatural
    <2>2. m \in 0 .. N /\ m \in 0 .. M /\ ~(f[m] \in Nat /\ h[m] = f[m])
      OBVIOUS
    <2>3. /\ f[m] = IF m = 0 THEN 0 ELSE f[m - 1] + LineLength(lines[m])
          /\ h[m] = IF m = 0 THEN 0 ELSE h[m - 1] + LineLength(more[m])
      BY <2>2 DEF Sums
    <2>4. CASE m = 0
      BY <2>2, <2>3, <2>4
    <2>5. CASE m # 0
      <3>1. m - 1 \in 0 .. N /\ m - 1 \notin Bad /\ m \in 1 .. N
        BY <2>1, <2>2, <2>5
      <3>2. f[m - 1] \in Nat /\ h[m - 1] = f[m - 1]
        BY <3>1
      <3> QED BY <2>2, <2>3, <2>5, <3>1, <3>2
    <2> QED BY <2>4, <2>5
  <1> QED BY <1>1, <1>2

LEMMA TotalsIsSums ==
  ASSUME NEW lines, Len(lines) \in Nat
  PROVE  Sums(Totals(lines), lines, Len(lines))
  <1>1. \E f : Sums(f, lines, Len(lines))
    BY SumsExist
  <1>2. Totals(lines) = CHOOSE f : f = [n \in 0 .. Len(lines) |->
                                          IF n = 0 THEN 0 ELSE f[n - 1] + LineLength(lines[n])]
    BY DEF Totals
  <1> QED BY <1>1, <1>2 DEF Sums

LEMMA BytesOfAppend ==
  ASSUME NEW lines, lines \in Seq(Range(lines)), NEW x, LineLength(x) \in Nat,
         \A n \in DOMAIN lines : LineLength(lines[n]) \in Nat
  PROVE  /\ Bytes(lines) \in Nat
         /\ Bytes(Append(lines, x)) = Bytes(lines) + LineLength(x)
  <1> DEFINE N == Len(lines)
             more == Append(lines, x)
  <1>1. /\ N \in Nat /\ DOMAIN lines = 1 .. N /\ Len(more) = N + 1
        /\ \A n \in 1 .. N : more[n] = lines[n]
        /\ more[N + 1] = x
    BY AppendLines
  <1> HIDE DEF more
  <1>2. Sums(Totals(lines), lines, N) /\ Sums(Totals(more), more, N + 1)
    BY <1>1, TotalsIsSums
  <1> HIDE DEF N
  <1>3. N <= N + 1 /\ N + 1 \in Nat /\ N \in 0 .. N /\ N + 1 \in 0 .. N + 1 /\ N + 1 # 0
        /\ (N + 1) - 1 = N
    BY <1>1
  <1>4. Totals(lines)[N] \in Nat /\ Totals(more)[N] = Totals(lines)[N]
    <2>1. \A n \in 1 .. N : more[n] = lines[n] /\ LineLength(lines[n]) \in Nat
      BY <1>1
    <2> DEFINE f == Totals(lines)
               h == Totals(more)
    <2>2. Sums(f, lines, N) /\ Sums(h, more, N + 1)
      BY <1>2
    <2> HIDE DEF f, h
    <2>3. N \in Nat /\ N + 1 \in Nat /\ N <= N + 1
      BY <1>1, <1>3
    <2>4. \A n \in 0 .. N : f[n] \in Nat /\ h[n] = f[n]
      BY ONLY <2>1, <2>2, <2>3, SumsAgree
    <2>5. \A n \in 0 .. N : Totals(lines)[n] \in Nat /\ Totals(more)[n] = Totals(lines)[n]
      BY <2>4 DEF f, h
    <2> QED BY <1>3, <2>5
  <1>5. Totals(more)[N + 1] = Totals(more)[N] + LineLength(more[N + 1])
    BY <1>2, <1>3 DEF Sums
  <1> QED BY <1>1, <1>4, <1>5 DEF Bytes, N, more

LEMMA LineLengths ==
  ASSUME NEW lines, IsLines(lines)
  PROVE  \A n \in DOMAIN lines : LineLength(lines[n]) \in Nat
  BY DEF IsLines, LineError, LineLength

(* The number of the last record counts the records of an accepted file.    *)
LEMMA RecordsCount ==
  ASSUME NEW lines, IsLines(lines), lines # <<>>, Extendable(Last(lines))
  PROVE  Records(lines) = Len(lines)
  <1>1. Len(lines) \in Nat \ {0} /\ DOMAIN lines = 1 .. Len(lines)
    BY EmptySeq, LenProperties DEF IsLines
  <1>2. LineError(lines, Len(lines)) = "none" /\ lines[Len(lines)].form = "envelope"
    BY <1>1 DEF IsLines, Last, Extendable
  <1>3. EnvelopeError(lines, Len(lines)) = "none"
    BY <1>2 DEF LineError
  <1> QED BY <1>3 DEF EnvelopeError, Records, Last

(* Asking for the number in the last record and the length of the file is   *)
(* counting the lines and bytes there would be.                             *)
LEMMA RoomIsCounted ==
  ASSUME NEW r \in Bound, NEW lines, NEW f, lines = f.lines, IsLines(lines), TailOf(f),
         lines # <<>>, NEW e \in Event, NEW new, new = NextLine(lines, e)
  PROVE  Within(r, Append(lines, new)) <=> ~ShouldRotate(r, lines, new)
  <1>1. Records(lines) = Len(lines) /\ Len(lines) \in Nat
        /\ Len(Append(lines, new)) = Len(lines) + 1
    <2>1. Extendable(Last(lines)) /\ lines \in Seq(Range(lines))
      BY DEF TailOf, IsLines
    <2> QED BY <2>1, RecordsCount, AppendLines
  <1>2. LineLength(new) \in Nat
    BY DEF NextLine, Envelope, LineLength
  <1>3. Bytes(lines) \in Nat /\ Bytes(Append(lines, new)) = Bytes(lines) + LineLength(new)
    <2>1. lines \in Seq(Range(lines)) /\ \A n \in DOMAIN lines : LineLength(lines[n]) \in Nat
      BY LineLengths DEF IsLines
    <2> QED BY <1>2, <2>1, BytesOfAppend
  <1> DEFINE all == Append(lines, new)
  <1>4. /\ Records(lines) + 1 = Len(all) /\ Bytes(lines) + LineLength(new) = Bytes(all)
        /\ Len(all) \in Nat /\ Bytes(all) \in Nat
    BY <1>1, <1>2, <1>3
  <1> HIDE DEF all
  <1>5. /\ Unbounded \notin Nat
        /\ r.max_records \in (Nat \ {0}) \cup {Unbounded}
        /\ r.max_bytes \in (Nat \ {0}) \cup {Unbounded}
    BY AuditAssumption DEF Bound
  <1>6. /\ r.max_records \notin {Unbounded, 0} <=> r.max_records # Unbounded
        /\ r.max_bytes \notin {Unbounded, 0} <=> r.max_bytes # Unbounded
    BY <1>5
  <1>7. /\ r.max_records # Unbounded => (Len(all) > r.max_records <=> ~(Len(all) <= r.max_records))
        /\ r.max_bytes # Unbounded => (Bytes(all) > r.max_bytes <=> ~(Bytes(all) <= r.max_bytes))
    BY <1>4, <1>5
  <1> QED BY <1>4, <1>6, <1>7 DEF Within, ShouldRotate, all

(* A record that joins others leaves the file within the bounds of the sink *)
(* that wrote it.                                                           *)
THEOREM RetentionIsKept == ASSUME ~OpensRace, ~Recycling PROVE Spec => WithinRetention
  <1>1. LockInv /\ WindowInv /\ ContentInv /\ [Next]_vars =>
          [\A p \in Process, i \in Inode :
             holder[i] = p /\ Len(file[i].lines) > 0 /\ file'[i].lines # file[i].lines
               => Within(retention[p], file'[i].lines)]_vars
    <2> SUFFICES ASSUME LockInv, WindowInv, ContentInv, [Next]_vars,
                        NEW p \in Process, NEW i \in Inode,
                        holder[i] = p, Len(file[i].lines) > 0, file'[i].lines # file[i].lines
                 PROVE  Within(retention[p], file'[i].lines)
      OBVIOUS
    <2>1. PICK a \in Process : Append1(a) \/ WriteFresh(a)
      BY FileSteps DEF LockInv
    <2>2. path \in Inode /\ i = path
      BY <2>1, WrittenFile
    <2>3. CASE WriteFresh(a)
      <3>1. file[path].lines = <<>>
        BY <2>3, FreshContent DEF EmptyFile
      <3>2. Len(<<>>) = 0
        BY EmptySeq
      <3> QED BY <2>2, <3>1, <3>2
    <2>4. CASE Append1(a)
      <3>1. p = a
        BY <2>2, <2>4 DEF Append1, Transition, LockInv, HeldBy, Locked
      <3>2. /\ IsLines(file[path].lines) /\ TailOf(file[path])
            /\ file'[i].lines = Append(file[path].lines, line[a])
            /\ line[a] = NextLine(file[path].lines, event[a]) /\ event[a] \in Event
        BY <2>1, <2>2, <2>4, AppendContent, WrittenFile
      <3>3. file[path].lines # <<>>
        BY <2>2, EmptySeq
      <3>4. ~ShouldRotate(retention[p], file[path].lines, line[a])
        BY <2>4, <3>1, <3>3, AppendContent
      <3>5. retention[p] \in Bound
        BY DEF ContentInv
      <3> QED BY <3>2, <3>3, <3>4, <3>5, RoomIsCounted
    <2> QED BY <2>1, <2>3, <2>4
  <1> QED BY <1>1, LocksHeld, OneInTheWindow, ContentSound, PTL DEF Spec, WithinRetention

(* The log is moved aside only when the record at hand has no room in it.   *)
THEOREM LogsMoveForRoom == ASSUME ~OpensRace, ~Recycling PROVE Spec => RotatesForRoom
  <1>1. ASSUME LockInv, ContentInv, [Next]_vars, path # NoInode, path' = NoInode
        PROVE  \E p \in Process :
                 /\ holder[path] = p /\ file[path].lines # <<>>
                 /\ ~Within(retention[p],
                            Append(file[path].lines, NextLine(file[path].lines, event[p])))
    <2>1. PICK a \in Process : Rotate(a)
      <3>1. ASSUME NEW p \in Process, NEW i \in Inode, Create(i) PROVE FALSE
        BY <1>1, <3>1, AuditAssumption DEF Create
      <3>2. ASSUME NEW p \in Process, OpenPath(p) PROVE FALSE
        BY <1>1, <3>1, <3>2 DEF OpenPath
      <3> QED BY <1>1, <3>1, <3>2 DEF Next, Open, Record, Lock, VerifyOpen, Check, Append1,
              CreateFresh, WriteFresh, ShortWrite, Sync, Fail, Exit, names, vars
    <2>2. pc[a] = "rotate" /\ fd[a] = path /\ path \in Inode /\ holder[path] = a
      BY <1>1, <2>1 DEF Rotate, Transition, LockInv, HeldBy, Calling, Locked
    <2>3. Content(a) /\ path \in Named /\ retention[a] \in Bound
      BY <1>1, <2>2 DEF ContentInv, Named
    <2>4. /\ IsLines(file[path].lines) /\ TailOf(file[path]) /\ event[a] \in Event
          /\ line[a] = NextLine(file[path].lines, event[a])
          /\ file[path].lines # <<>>
          /\ ShouldRotate(retention[a], file[path].lines, line[a])
      BY <1>1, <2>2, <2>3 DEF Content, ContentInv, Calling
    <2> QED BY <2>2, <2>3, <2>4, RoomIsCounted
  <1> QED BY <1>1, LocksHeld, ContentSound, PTL DEF Spec, RotatesForRoom
=============================================================================
