------------------------------ MODULE AuditFile ------------------------------
(***************************************************************************)
(* The audit sink of crates/audit-file: any number of processes append     *)
(* hash-chained records to one file.  Every call reopens the path, locks   *)
(* the file it got (the lock belongs to that file, not to the path), checks*)
(* that the path still names it and that it is the file the sink opened,   *)
(* reads the last record, and appends; a record that exceeds the retention *)
(* renames the file to `<name>.1` and starts a new one.                    *)
(*                                                                         *)
(* A file is an inode: the path and `<name>.1` name at most one each, and  *)
(* a process holds descriptors of others.  An inode nobody names or holds  *)
(* may be allocated again, as filesystems do; a sink that remembers its    *)
(* number (the identity is the device and the inode number) holds no       *)
(* descriptor between its calls.                                           *)
(***************************************************************************)
EXTENDS AuditChain

CONSTANTS
  Process,      \* processes (and sinks within them) that share the path
  Inode,        \* bound: files that exist at one time
  Retentions,   \* the bounds a sink is opened with
  LegacyFile,   \* TRUE: the path may hold a version-1 log
  OpensRace,    \* TRUE: a sink may be opened while another one is rotating
  Recycling,    \* TRUE: a new file may get the number a sink remembers of a deleted one
  Unbounded,    \* the Option::None of a retention bound
  NoInode, NoProcess, NoEvent, NoLine

ASSUME AuditAssumption ==
  /\ NoInode \notin Inode /\ NoProcess \notin Process /\ NoEvent \notin Event
  /\ Unbounded \notin Nat
  /\ Retentions \subseteq [max_records : Nat \cup {Unbounded}, max_bytes : Nat \cup {Unbounded}]
  /\ LegacyFile \in BOOLEAN /\ OpensRace \in BOOLEAN /\ Recycling \in BOOLEAN

VARIABLES
  path,      \* the file the destination names, or NoInode
  rotated,   \* the file `<name>.1` names, or NoInode
  file,      \* the contents of every inode
  holder,    \* the process that holds the exclusive lock of each inode
  pc,        \* where each process is
  fd,        \* the file its call reopened
  fresh,     \* the file its rotation created
  sink,      \* FileAuditSink.identity
  retention, \* FileAuditSink.retention
  event,     \* the event its call records
  line       \* the envelope it is about to write

VARIABLES    \* history
  offered,   \* events handed to a sink so far
  acked,     \* events whose record returned Ok
  discarded  \* events of files that a second rotation replaced

names   == <<path, rotated>>
procs   == <<pc, fd, fresh, sink, retention, event, line>>
history == <<offered, acked, discarded>>
vars    == <<names, file, holder, procs, history>>

\* Retention::sanitized
Sanitized(r) ==
  [max_records |-> IF r.max_records = 0 THEN Unbounded ELSE r.max_records,
   max_bytes   |-> IF r.max_bytes = 0 THEN Unbounded ELSE r.max_bytes]
NoRetention == [max_records |-> Unbounded, max_bytes |-> Unbounded]

Init ==
  /\ \/ path = NoInode /\ file = [i \in Inode |-> EmptyFile]
     \/ /\ LegacyFile
        /\ \E i \in Inode, e \in Event :
             /\ path = i
             /\ file = [[j \in Inode |-> EmptyFile] EXCEPT ![i].lines = <<Bare(e)>>]
  /\ rotated = NoInode
  /\ holder = [i \in Inode |-> NoProcess]
  /\ pc = [p \in Process |-> "closed"]
  /\ fd = [p \in Process |-> NoInode] /\ fresh = [p \in Process |-> NoInode]
  /\ sink = [p \in Process |-> NoInode]
  /\ retention = [p \in Process |-> NoRetention]
  /\ event = [p \in Process |-> NoEvent] /\ line = [p \in Process |-> NoLine]
  /\ offered = {} /\ acked = {} /\ discarded = {}

-----------------------------------------------------------------------------
(* Opening the destination (O_CREAT).                                      *)

Transition(p, from, to) == pc[p] = from /\ pc' = [pc EXCEPT ![p] = to]

\* Neither named nor held by a descriptor; remembered, only with Recycling.
Free == {i \in Inode \ {path, rotated} :
           \A p \in Process : i # fd[p] /\ i # fresh[p] /\ (Recycling \/ i # sink[p])}

Create(i) == i \in Free /\ path' = i /\ file' = [file EXCEPT ![i] = EmptyFile]

OpenPath(p) ==
  \/ /\ path # NoInode
     /\ fd' = [fd EXCEPT ![p] = path]
     /\ UNCHANGED <<path, file>>
  \/ /\ path = NoInode
     /\ \E i \in Inode : Create(i) /\ fd' = [fd EXCEPT ![p] = i]

\* FileAuditSink::open_with, up to the lock.  The code does nothing to keep it
\* out of the window in which a rotation has no lock on the file of that name.
Open(p, r) ==
  /\ Transition(p, "closed", "lock_open")
  /\ OpensRace \/ \A q \in Process : pc[q] \notin {"create", "lock_fresh", "write_fresh"}
  /\ OpenPath(p)
  /\ retention' = [retention EXCEPT ![p] = Sanitized(r)]
  /\ UNCHANGED <<rotated, holder, fresh, sink, event, line, history>>

\* FileAuditSink::record, up to the lock.  Every event is offered once.
Record(p, e) ==
  /\ Transition(p, "idle", "lock_record")
  /\ e \notin offered /\ offered' = offered \cup {e}
  /\ OpenPath(p)
  /\ event' = [event EXCEPT ![p] = e]
  /\ UNCHANGED <<rotated, holder, fresh, sink, retention, line, acked, discarded>>

-----------------------------------------------------------------------------
(* The lock of the opened file (flock).                                    *)

\* Mistake: do not lock.
LockNothing(p, from, to, i) ==
  /\ Transition(p, from, to)
  /\ UNCHANGED <<names, file, holder, fd, fresh, sink, retention, event, line, history>>

Lock(p, from, to, i) ==
  /\ Transition(p, from, to)
  /\ holder[i] = NoProcess /\ holder' = [holder EXCEPT ![i] = p]
  /\ UNCHANGED <<names, file, fd, fresh, sink, retention, event, line, history>>

\* Everything a call holds goes when it returns: descriptors, locks, locals.
Release(p) ==
  /\ holder' = [i \in Inode |-> IF holder[i] = p THEN NoProcess ELSE holder[i]]
  /\ fd' = [fd EXCEPT ![p] = NoInode] /\ fresh' = [fresh EXCEPT ![p] = NoInode]
  /\ event' = [event EXCEPT ![p] = NoEvent] /\ line' = [line EXCEPT ![p] = NoLine]

\* open: the path still names the locked file, and its whole chain verifies.
VerifyOpen(p) ==
  /\ Transition(p, "open", "idle")
  /\ fd[p] = path
  /\ Verify(file[fd[p]]) \in {"empty", "verified"}
  /\ sink' = [sink EXCEPT ![p] = fd[p]]
  /\ Release(p)
  /\ UNCHANGED <<names, file, retention, history>>

-----------------------------------------------------------------------------
(* Recording.                                                              *)

\* Mistake: extend the tail whatever it is.
TailOfAny(f) == TRUE

\* tail_of: an empty file, or a terminated one whose last record is sound.
TailOf(f) == ~f.torn /\ (f.lines # <<>> => Extendable(Last(f.lines)))

\* Mistake: off by one.
RotatesLate(r, lines, new) ==
  \/ r.max_records # Unbounded /\ Records(lines) > r.max_records
  \/ r.max_bytes # Unbounded /\ Bytes(lines) > r.max_bytes

\* Mistake: a record that exactly fills a bound starts a new file.
RotatesEarly(r, lines, new) ==
  \/ r.max_records # Unbounded /\ Records(lines) + 1 >= r.max_records
  \/ r.max_bytes # Unbounded /\ Bytes(lines) + LineLength(new) >= r.max_bytes

ShouldRotate(r, lines, new) ==
  \/ r.max_records # Unbounded /\ Records(lines) + 1 > r.max_records
  \/ r.max_bytes # Unbounded /\ Bytes(lines) + LineLength(new) > r.max_bytes

\* Mistake: any file the path names will do.
OurFileByPath(p) == fd[p] = path

\* The path still names the locked file, and it is the one the sink opened.
OurFile(p) == fd[p] = sink[p] /\ fd[p] = path

\* record: everything up to the write, under the lock of the reopened file.
Check(p) ==
  LET lines == file[fd[p]].lines
      new   == NextLine(lines, event[p])
  IN /\ pc[p] = "record"
     /\ OurFile(p) /\ TailOf(file[fd[p]])
     /\ line' = [line EXCEPT ![p] = new]
     /\ pc' = [pc EXCEPT ![p] =
                 IF lines # <<>> /\ ShouldRotate(retention[p], lines, new)
                 THEN "rotate" ELSE "append"]
     /\ UNCHANGED <<names, file, holder, fd, fresh, sink, retention, event, history>>

\* write_line on a descriptor opened with O_APPEND.
Append1(p) ==
  /\ Transition(p, "append", "sync")
  /\ file' = [file EXCEPT ![fd[p]].lines = Append(@, line[p])]
  /\ UNCHANGED <<names, holder, fd, fresh, sink, retention, event, line, history>>

\* Mistake: replace the log instead of keeping it.
RotateAway(p) ==
  /\ Transition(p, "rotate", "create")
  /\ path # NoInode /\ path' = NoInode
  /\ UNCHANGED <<rotated, file, holder, fd, fresh, sink, retention, event, line, history>>

\* rotate: rename the path to `<name>.1`, replacing what that named.
Rotate(p) ==
  /\ Transition(p, "rotate", "create")
  /\ path # NoInode /\ path' = NoInode /\ rotated' = path
  /\ discarded' = IF rotated = NoInode THEN discarded
                  ELSE discarded \cup EventsOf(file[rotated].lines)
  /\ UNCHANGED <<file, holder, fd, fresh, sink, retention, event, line, offered, acked>>

\* create_fresh (O_EXCL): fails when the path reappeared.  The new file is not
\* locked yet, and its descriptor does not append: it writes from offset 0.
CreateFresh(p) ==
  /\ Transition(p, "create", "lock_fresh")
  /\ path = NoInode
  /\ \E i \in Inode : Create(i) /\ fresh' = [fresh EXCEPT ![p] = i]
  /\ line' = [line EXCEPT ![p] = NextLine(<<>>, event[p])]
  /\ UNCHANGED <<rotated, holder, fd, sink, retention, event, history>>

\* `new` over the first bytes of a file: it replaces the lines it covers whole
\* and leaves the rest of the line it ends in as junk.
Overwritten(lines, new) ==
  LET covers(n) == n = 0 \/ Bytes(SubSeq(lines, 1, n)) <= LineLength(new)
      whole == CHOOSE n \in 0 .. Len(lines) :
                 covers(n) /\ (n = Len(lines) \/ ~covers(n + 1))
      rest  == SubSeq(lines, whole + 1, Len(lines))
  IN IF rest = <<>> \/ Bytes(SubSeq(lines, 1, whole)) = LineLength(new)
     THEN <<new>> \o rest
     ELSE <<new, Junk>> \o Tail(rest)

\* write_line on the fresh file, once its lock is held.
WriteFresh(p) ==
  /\ Transition(p, "write_fresh", "sync")
  /\ file' = [file EXCEPT ![fresh[p]].lines = Overwritten(@, line[p])]
  /\ UNCHANGED <<names, holder, fd, fresh, sink, retention, event, line, history>>

\* A write that ends early (a full disk, a crash): the line has no end.
ShortWrite(p) ==
  /\ \/ /\ pc[p] = "append"
        /\ file' = [file EXCEPT ![fd[p]].torn = TRUE]
     \/ /\ pc[p] = "write_fresh"
        /\ file' = [file EXCEPT ![fresh[p]] =
                      IF @.lines = <<>> THEN [@ EXCEPT !.torn = TRUE]
                      ELSE [@ EXCEPT !.lines[1] = Junk]]
  /\ pc' = [pc EXCEPT ![p] = "idle"]
  /\ Release(p)
  /\ UNCHANGED <<names, sink, retention, history>>

\* The line is synced and the call returns Ok; the sink follows its rotation.
Sync(p) ==
  /\ Transition(p, "sync", "idle")
  /\ sink' = [sink EXCEPT ![p] = IF fresh[p] = NoInode THEN fd[p] ELSE fresh[p]]
  /\ acked' = acked \cup {event[p]}
  /\ Release(p)
  /\ UNCHANGED <<names, file, retention, offered, discarded>>

-----------------------------------------------------------------------------
Opening == {"lock_open", "open"}
Calling == {"lock_record", "record", "append", "rotate", "create", "lock_fresh",
            "write_fresh", "sync"}

\* The call returns an error: a check above refuses, or an operation fails.
\* The sink keeps the identity it had, rotated away or not.
Fail(p) ==
  /\ pc[p] \in Opening \cup Calling
  /\ pc' = [pc EXCEPT ![p] = IF pc[p] \in Opening THEN "closed" ELSE "idle"]
  /\ Release(p)
  /\ UNCHANGED <<names, file, sink, retention, history>>

\* The process exits or dies, whatever it was doing.
Exit(p) ==
  /\ pc[p] # "closed"
  /\ pc' = [pc EXCEPT ![p] = "closed"]
  /\ sink' = [sink EXCEPT ![p] = NoInode]
  /\ retention' = [retention EXCEPT ![p] = NoRetention]
  /\ Release(p)
  /\ UNCHANGED <<names, file, history>>

Next ==
  \E p \in Process :
    \/ \E r \in Retentions : Open(p, r)
    \/ \E e \in Event : Record(p, e)
    \/ Lock(p, "lock_open", "open", fd[p])
    \/ Lock(p, "lock_record", "record", fd[p])
    \/ Lock(p, "lock_fresh", "write_fresh", fresh[p])
    \/ VerifyOpen(p) \/ Check(p) \/ Append1(p) \/ Rotate(p) \/ CreateFresh(p)
    \/ WriteFresh(p) \/ ShortWrite(p) \/ Sync(p) \/ Fail(p) \/ Exit(p)

Spec == Init /\ [][Next]_vars
-----------------------------------------------------------------------------
(* Correctness. *)

Named == {path, rotated} \ {NoInode}
Whole(f) == [f EXCEPT !.torn = FALSE]

(* Sinks cannot fork the chain: up to a torn last line, both files are      *)
(* empty, one unbroken chain, or an untouched version-1 log (record,        *)
(* tail_of, append_point; unix.rs:107).                                     *)
ChainUnbroken == \A i \in Named : Verify(Whole(file[i])) # "failure"

(* An acknowledged record is in the log or its rotation until the rotation  *)
(* after that replaces it, and no event is ever recorded twice (record,     *)
(* write_line, rotate).                                                     *)
RecordedOnce ==
  /\ \A e \in acked \ discarded : \E i \in Named : e \in EventsOf(file[i].lines)
  /\ \A i, j \in Named : \A m \in DOMAIN file[i].lines, n \in DOMAIN file[j].lines :
       LET a == file[i].lines[m]  b == file[j].lines[n]
       IN a.form = "envelope" /\ b.form = "envelope" /\ a.event = b.event => i = j /\ m = n

(* Nothing on a named file is ever changed: it only grows, a version-1 log  *)
(* or one with a torn tail not at all (open, record, tail_of).              *)
AppendOnly ==
  [][\A i \in Named \cap Named' :
       /\ IsPrefix(file[i].lines, file'[i].lines)
       /\ file'[i].lines # file[i].lines
            => Verify(file[i]) \in {"empty", "verified"}]_vars

(* A sink never writes to a file another one put in the place of its own    *)
(* (record: expected_identity, validate_path_identity).                     *)
WritesItsFile ==
  [][\A p \in Process : pc[p] = "append" /\ pc'[p] = "sync" =>
       fd[p] = sink[p] /\ fd[p] = path]_vars

(* A bound of zero is none.                                                 *)
Within(r, lines) ==
  /\ r.max_records \notin {Unbounded, 0} => Len(lines) <= r.max_records
  /\ r.max_bytes \notin {Unbounded, 0} => Bytes(lines) <= r.max_bytes

(* A record that joins others in a file leaves it within the bounds of the  *)
(* sink that wrote it, whoever wrote the others and under which bounds      *)
(* (should_rotate, sanitized, tail_of).                                     *)
WithinRetention ==
  [][\A p \in Process, i \in Inode :
       holder[i] = p /\ Len(file[i].lines) > 0 /\ file'[i].lines # file[i].lines
         => Within(retention[p], file'[i].lines)]_vars

(* The log moves aside only under a sink that holds its lock and whose      *)
(* record, counted by the lines that are there and not by the number in the *)
(* last of them, would have broken a bound of its own: one that exactly     *)
(* fills a bound still joins the others, a bound of zero and an empty log   *)
(* move nothing (should_rotate, sanitized, record).                         *)
RotatesForRoom ==
  [][path # NoInode /\ path' = NoInode =>
       \E p \in Process :
         /\ holder[path] = p /\ file[path].lines # <<>>
         /\ ~Within(retention[p],
                    Append(file[path].lines, NextLine(file[path].lines, event[p])))]_vars
=============================================================================
