----------------------------- MODULE AuditChain -----------------------------
(***************************************************************************)
(* The record chain of crates/audit-file/src/chain.rs: what a writer puts  *)
(* on a line, what the scan of a whole file accepts, and what an append    *)
(* checks of the last line only.                                           *)
(*                                                                         *)
(* SHA-256 is abstracted to the tuple it digests (no collisions); a line   *)
(* is the record serde parses, or the reason it does not.                  *)
(***************************************************************************)
EXTENDS Integers, Sequences, SequencesExt

CONSTANTS Event,     \* audit events (structure only)
          Length,    \* bytes of the line of an event, its newline included
          Genesis    \* the previous_hash of a first record

ASSUME LengthAssumption == Length \in [Event -> Nat \ {0}]

\* compute_record_hash
Hash(previous, sequence, event) == <<previous, sequence, event>>

\* Envelope, as the sink encodes it.
Envelope(previous, sequence, event) ==
  [form |-> "envelope", sequence |-> sequence, previous_hash |-> previous,
   record_hash |-> Hash(previous, sequence, event), event |-> event]

\* A bare AuditEvent (format version 1), and a line no reader accepts.
Bare(event) == [form |-> "bare", event |-> event]
Junk        == [form |-> "junk"]

\* A file: its newline-terminated lines, and whether bytes follow the last one.
EmptyFile == [lines |-> <<>>, torn |-> FALSE]
IsEmpty(f) == f = EmptyFile

\* The first check of verify_envelope_line that line i fails.
EnvelopeError(lines, i) ==
  LET previous == IF i = 1 THEN Genesis ELSE lines[i - 1].record_hash
  IN IF lines[i].sequence # i THEN "sequence_gap"
     ELSE IF lines[i].previous_hash # previous THEN "previous_hash_mismatch"
     ELSE IF lines[i].record_hash # Hash(previous, i, lines[i].event)
     THEN "record_hash_mismatch"
     ELSE "none"

\* The verdict of one round of scan's loop; all earlier lines were accepted, so
\* they are all envelopes or all bare events.
LineError(lines, i) ==
  IF lines[i].form = "junk" THEN "malformed"
  ELSE IF i > 1 /\ lines[i].form # lines[1].form THEN "not_envelope"
  ELSE IF lines[i].form = "bare" THEN "none"
  ELSE EnvelopeError(lines, i)

Rejected(lines) == {i \in 1 .. Len(lines) :
                      /\ LineError(lines, i) # "none"
                      /\ \A j \in 1 .. i - 1 : LineError(lines, j) = "none"}

\* verify: the report on a whole file, by its kind (indices are left out).
Verify(f) ==
  IF IsEmpty(f) THEN "empty"
  ELSE IF f.torn \/ Rejected(f.lines) # {} THEN "failure"
  ELSE IF f.lines[1].form = "bare" THEN "legacy"
  ELSE "verified"

\* append_point: the last line alone, its own hash included.
Extendable(line) ==
  /\ line.form = "envelope"
  /\ line.record_hash = Hash(line.previous_hash, line.sequence, line.event)

NextLine(lines, event) ==
  IF lines = <<>> THEN Envelope(Genesis, 1, event)
  ELSE Envelope(Last(lines).record_hash, Last(lines).sequence + 1, event)

\* ChainTail.records
Records(lines) == IF lines = <<>> THEN 0 ELSE Last(lines).sequence

\* Bytes of a file that is not torn (what is left of a line counts as one byte).
LineLength(line) == IF line.form = "junk" THEN 1 ELSE Length[line.event]
Totals(lines) ==
  LET upto[n \in 0 .. Len(lines)] == IF n = 0 THEN 0 ELSE upto[n - 1] + LineLength(lines[n])
  IN upto
Bytes(lines) == Totals(lines)[Len(lines)]

EventsOf(lines) == {lines[i].event : i \in {j \in 1 .. Len(lines) : lines[j].form = "envelope"}}
=============================================================================
