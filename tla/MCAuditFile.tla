----------------------------- MODULE MCAuditFile -----------------------------
(* Instances of AuditFile for TLC: events 1 and 2 have short lines.         *)
EXTENDS AuditFile, TLC

Lengths == [e \in Event |-> IF e <= 2 THEN 1 ELSE 2]

\* No bound, one spelt as zero, a bound on records and a bound on bytes.
Bounds == {[max_records |-> 0, max_bytes |-> Unbounded],
           [max_records |-> 2, max_bytes |-> 0],
           [max_records |-> Unbounded, max_bytes |-> 3]}
OneRecord == {[max_records |-> 1, max_bytes |-> Unbounded]}

Symmetry == Permutations(Process) \cup Permutations(Inode)
=============================================================================
