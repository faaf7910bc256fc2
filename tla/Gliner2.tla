------------------------------- MODULE Gliner2 -------------------------------
(***************************************************************************)
(* The local model detector (crates/detector-gliner2): a detector thread   *)
(* routes each call by what the export directory holds now, hands the text *)
(* over a channel to a worker thread spawned on first use, and waits; the  *)
(* worker loads the export on first use and scans the text window by       *)
(* window.  `probe` is the readiness check of `doctor`.  Hybrid adds only  *)
(* that its caller fails when this detector fails.                         *)
(*                                                                         *)
(* A text is its length and where its characters start; a token carries    *)
(* the gap before it; what the model says of a chunk is left out.          *)
(***************************************************************************)
EXTENDS Integers

CONSTANTS Text,           \* the texts callers pass
          Export,         \* what the export directory may hold
          TokenCount,     \* how many tokens a slice may turn into
          TokenLimit,     \* max_tokens as configured
          MinTokens,      \* MIN_MAX_TOKENS
          DefaultTokens,  \* DEFAULT_MAX_TOKENS
          BytesPerToken, MinByteWindow,  \* sizing of a byte window
          OverlapPart,    \* an overlap is this part of its window (8)
          Feature,        \* built with the `gliner2` feature
          NoLimit,        \* no --model-max-tokens
          MaxCalls, MaxInstalls          \* bounds

ASSUME Gliner2Assumption ==
  /\ \A t \in Text : /\ t.length \in Nat /\ t.boundary \subseteq 0 .. t.length
                     /\ {0, t.length} \subseteq t.boundary
  /\ TokenCount \subseteq Nat /\ TokenLimit \subseteq Nat /\ NoLimit \notin TokenLimit
  /\ \A e \in Export : e.specials \in Nat
  /\ MinTokens \in Nat \ {0} /\ DefaultTokens \in Nat \ {0}
  /\ BytesPerToken \in Nat \ {0} /\ MinByteWindow \in Nat \ {0}
  /\ OverlapPart \in Nat \ {0} /\ MaxCalls \in Nat /\ MaxInstalls \in Nat

AtLeast(x, y) == IF x < y THEN y ELSE x
AtMost(x, y) == IF x < y THEN x ELSE y

Route == {"single", "fragments"}

VARIABLES
  export,    \* what model_dir holds, looked at first when the detector is opened
  installs,  \* how often that changed
  ready,     \* `doctor` last said ready, of what model_dir still holds
  detector,  \* Unopened, or [configured, tokens, calls]: the detector and calls it has left
  call,      \* the detector's thread: "idle", "routed" or "waiting"
  route,     \* the engine it talks to
  text,      \* what it passed
  begun,     \* `ready` when the call began, and the directory was left alone since
  outcome,   \* how the last call ended
  worker,    \* per engine: "unspawned", "idle", "asked", "slicing", "scanning",
             \* "unwinding", "gone"
  queued,    \* per engine: a request waits in the channel of a worker that unwinds
  budget,    \* per engine: tokens of a chunk once the export is loaded, 0 before
  scan,      \* the single-file worker: its slice, and the slices behind it
  reply      \* what the reply channel holds

engineVars == <<export, installs, ready, detector, call, route, text, begun, outcome,
                worker, queued, budget, scan, reply>>

Empty == [length |-> 0, boundary |-> {0}]
NoExport == [dir |-> FALSE, boundary |-> FALSE, encoder |-> FALSE, families |-> FALSE,
             model |-> FALSE, tokenizer |-> FALSE, labels |-> FALSE, runtime |-> FALSE,
             wraps |-> FALSE, specials |-> 0]
NoScan == [from |-> 0, upto |-> 0, tokens |-> 0, next |-> 0, chunks |-> {}, done |-> {}]
NoDetector == [open |-> FALSE, configured |-> FALSE, tokens |-> 0, calls |-> 0]

EngineInit ==
  /\ export = NoExport /\ installs = 0 /\ ready = FALSE
  /\ detector = NoDetector
  /\ call = "idle" /\ route = "single" /\ text = Empty /\ begun = FALSE /\ outcome = "none"
  /\ worker = [r \in Route |-> "unspawned"] /\ queued = [r \in Route |-> FALSE]
  /\ budget = [r \in Route |-> 0]
  /\ scan = NoScan /\ reply = "none"

-----------------------------------------------------------------------------
(* Construction, and the preflight. *)

\* Gliner2Config, with_limits: no limit keeps the default, a small one is raised.
Tokens(limit) == IF limit = NoLimit THEN DefaultTokens ELSE AtLeast(limit, MinTokens)

Open(configured, limit, calls) ==
  /\ ~detector.open
  /\ detector' = [open |-> TRUE, configured |-> configured, tokens |-> Tokens(limit),
                  calls |-> calls]
  /\ export' \in Export
  /\ UNCHANGED <<installs, ready, call, route, text, begun, outcome, worker,
                 queued, budget, scan, reply>>

RouteOf(e) == IF e.encoder THEN "fragments" ELSE "single"

\* onnx.rs probe, and SpanEngine::new.
ProbeLoads(r, e) ==
  /\ e.runtime
  /\ IF r = "single" THEN e.labels /\ e.tokenizer /\ e.model ELSE e.families

\* Loaded::load also has the tokenizer wrap an empty text, which the probe does not.
Loads(r, e) == ProbeLoads(r, e) /\ (r = "single" => e.wraps)

\* Mistake: the files that must be there are the only thing looked at.
ProbeFiles(configured, e) ==
  /\ configured /\ e.dir /\ ~e.boundary
  /\ IF e.encoder THEN e.families ELSE e.model /\ e.tokenizer /\ e.labels

\* probe, in its order: directory, layout, files, feature, then a load.
Probe(configured, e) ==
  /\ configured /\ e.dir /\ ~e.boundary
  /\ IF e.encoder THEN e.families ELSE e.model /\ e.tokenizer /\ e.labels
  /\ Feature /\ ProbeLoads(RouteOf(e), e)

\* `doctor`, a process of its own.
Preflight ==
  /\ detector.open
  /\ ready' = Probe(detector.configured, export)
  /\ UNCHANGED <<export, installs, detector, call, route, text, begun, outcome, worker,
                 queued, budget, scan, reply>>

\* Somebody changes what the directory holds, at any time.
Install(e) ==
  /\ installs < MaxInstalls /\ e # export
  /\ installs' = installs + 1 /\ export' = e /\ ready' = FALSE /\ begun' = FALSE
  /\ UNCHANGED <<detector, call, route, text, outcome, worker, queued, budget, scan, reply>>

-----------------------------------------------------------------------------
(* The detector's thread: detect. *)

Unavailable(e) == ~detector.configured \/ ~e.dir \/ e.boundary \/ ~Feature

Detect(t) ==
  /\ call = "idle" /\ detector.open /\ detector.calls > 0
  /\ detector' = [detector EXCEPT !.calls = @ - 1]
  /\ text' = t /\ begun' = ready /\ reply' = "none"
  /\ \/ /\ Unavailable(export)
        /\ outcome' = "unavailable" /\ UNCHANGED <<call, route>>
     \/ /\ ~Unavailable(export)
        /\ route' = RouteOf(export) /\ call' = "routed" /\ outcome' = "none"
  /\ UNCHANGED <<export, installs, ready, worker, queued, budget, scan>>

CallEnds(o) == call' = "idle" /\ outcome' = o

\* The worker is spawned on first use; the thread may not start.
SpawnFails ==
  /\ call = "routed" /\ worker[route] = "unspawned"
  /\ CallEnds("failed")
  /\ UNCHANGED <<export, installs, ready, detector, route, text, begun, worker, queued,
                 budget, scan, reply>>

\* The request is sent; a worker that is gone took its end of the channel with it.
Request ==
  /\ call = "routed"
  /\ \/ /\ worker[route] \in {"unspawned", "idle"}
        /\ worker' = [worker EXCEPT ![route] = "asked"] /\ call' = "waiting"
        /\ UNCHANGED <<queued, outcome>>
     \/ /\ worker[route] = "unwinding"
        /\ queued' = [queued EXCEPT ![route] = TRUE] /\ call' = "waiting"
        /\ UNCHANGED <<worker, outcome>>
     \/ /\ worker[route] = "gone"
        /\ CallEnds("stopped") /\ UNCHANGED <<worker, queued>>
  /\ UNCHANGED <<export, installs, ready, detector, route, text, begun, budget, scan, reply>>

Await ==
  /\ call = "waiting" /\ reply # "none"
  /\ CallEnds(reply)
  /\ text' = Empty /\ scan' = NoScan
  /\ UNCHANGED <<export, installs, ready, detector, route, begun, worker, queued, budget,
                 reply>>

\* The detector is dropped, and each worker told to stop.
Close ==
  /\ detector.open /\ call = "idle"
  /\ detector' = [detector EXCEPT !.calls = 0]
  /\ worker' = [r \in Route |-> IF worker[r] = "idle" THEN "gone" ELSE worker[r]]
  /\ UNCHANGED <<export, installs, ready, call, route, text, begun, outcome, queued, budget,
                 scan, reply>>

-----------------------------------------------------------------------------
(* The workers: serve. *)

Becomes(r, w) == worker' = [worker EXCEPT ![r] = w]
Answers(r, what) == Becomes(r, "idle") /\ reply' = what

\* The export is loaded once; one that did not load is tried again next time.
LoadExport(r) ==
  /\ worker[r] = "asked" /\ budget[r] = 0
  /\ \/ /\ ~Loads(r, export)
        /\ Answers(r, "unloaded") /\ UNCHANGED budget
     \/ /\ Loads(r, export)
        /\ budget' = [budget EXCEPT ![r] =
                        AtLeast(detector.tokens - (IF r = "single" THEN export.specials ELSE 0), 1)]
        /\ UNCHANGED <<worker, reply>>
  /\ UNCHANGED <<export, installs, ready, detector, call, route, text, begun, outcome,
                 queued, scan>>

\* A fragment export is scanned by its engine (external).
Extract ==
  /\ worker["fragments"] = "asked" /\ budget["fragments"] # 0
  /\ Answers("fragments", "ok")
  /\ UNCHANGED <<export, installs, ready, detector, call, route, text, begun, outcome,
                 queued, budget, scan>>

ByteWindow == AtLeast(detector.tokens * BytesPerToken, MinByteWindow)
ByteOverlap == AtMost(ByteWindow \div OverlapPart, ByteWindow - 1)
TokenOverlap == AtMost(budget["single"] \div OverlapPart, budget["single"] \div 2)

\* The first character boundary at or after a place.
Aligned(b, place) ==
  /\ b \in text.boundary /\ place <= b
  /\ \A c \in text.boundary : place <= c => b <= c

StartScan ==
  /\ worker["single"] = "asked" /\ budget["single"] # 0
  /\ scan' = NoScan
  /\ IF text.length = 0 THEN Answers("single", "ok")
     ELSE Becomes("single", "slicing") /\ UNCHANGED reply
  /\ UNCHANGED <<export, installs, ready, detector, call, route, text, begun, outcome,
                 queued, budget>>

\* The next byte window is cut off and tokenized.
CutSlice ==
  /\ worker["single"] = "slicing"
  /\ \E upto \in text.boundary, n \in TokenCount :
       /\ Aligned(upto, AtMost(scan.from + ByteWindow, text.length))
       /\ scan' = [scan EXCEPT !.upto = upto, !.tokens = n, !.next = 0, !.chunks = {}]
  /\ Becomes("single", "scanning")
  /\ UNCHANGED <<export, installs, ready, detector, call, route, text, begun, outcome,
                 queued, budget, reply>>

Slice == [from |-> scan.from, upto |-> scan.upto, tokens |-> scan.tokens,
          chunks |-> scan.chunks]
ChunkEnd == AtMost(scan.next + budget["single"], scan.tokens)

\* Mistake: the next window of tokens starts where this one ends.
RunChunkAbutting ==
  /\ worker["single"] = "scanning" /\ scan.next < scan.tokens
  /\ scan' = [scan EXCEPT !.chunks = @ \cup {[first |-> scan.next, last |-> ChunkEnd]},
                          !.next = ChunkEnd]
  /\ UNCHANGED <<export, installs, ready, detector, call, route, text, begun, outcome,
                 worker, queued, budget, reply>>

RunChunk ==
  /\ worker["single"] = "scanning" /\ scan.next < scan.tokens
  /\ scan' = [scan EXCEPT !.chunks = @ \cup {[first |-> scan.next, last |-> ChunkEnd]},
                          !.next = IF ChunkEnd = scan.tokens THEN scan.tokens
                                   ELSE @ + (budget["single"] - TokenOverlap)]
  /\ UNCHANGED <<export, installs, ready, detector, call, route, text, begun, outcome,
                 worker, queued, budget, reply>>

\* Every token window of the slice is behind; the last slice reaches the end (a
\* plan that did not advance would stop too, but a step is never 0).
EndSlice ==
  /\ worker["single"] = "scanning" /\ scan.next = scan.tokens
  /\ \/ /\ scan.upto = text.length
        /\ scan' = [scan EXCEPT !.done = @ \cup {Slice}] /\ Answers("single", "ok")
     \/ /\ scan.upto # text.length
        /\ \E next \in text.boundary :
             /\ Aligned(next, AtMost(scan.from + (ByteWindow - ByteOverlap), text.length))
             /\ scan' = [scan EXCEPT !.done = @ \cup {Slice}, !.from = next]
        /\ Becomes("single", "slicing") /\ UNCHANGED reply
  /\ UNCHANGED <<export, installs, ready, detector, call, route, text, begun, outcome,
                 queued, budget>>

Busy == {"asked", "slicing", "scanning"}

\* Tokenization, inference, or the shape of what the model returns fails the call.
ScanFails(r) ==
  /\ worker[r] \in Busy /\ budget[r] # 0
  /\ Answers(r, "failed")
  /\ UNCHANGED <<export, installs, ready, detector, call, route, text, begun, outcome,
                 queued, budget, scan>>

\* Mistake: a worker that panics leaves its caller without a word.
PanicSilent(r) ==
  /\ worker[r] \in Busy
  /\ Becomes(r, "unwinding") /\ UNCHANGED reply
  /\ UNCHANGED <<export, installs, ready, detector, call, route, text, begun, outcome,
                 queued, budget, scan>>

\* The request goes first, and its end of the reply channel with it.
Panic(r) ==
  /\ worker[r] \in Busy
  /\ Becomes(r, "unwinding") /\ reply' = "stopped"
  /\ UNCHANGED <<export, installs, ready, detector, call, route, text, begun, outcome,
                 queued, budget, scan>>

\* The receiver goes last, and what is queued in it.
Unwound(r) ==
  /\ worker[r] = "unwinding"
  /\ Becomes(r, "gone")
  /\ queued' = [queued EXCEPT ![r] = FALSE]
  /\ reply' = IF queued[r] THEN "stopped" ELSE reply
  /\ UNCHANGED <<export, installs, ready, detector, call, route, text, begun, outcome,
                 budget, scan>>

Caller == SpawnFails \/ Request \/ Await
SingleWorker == StartScan \/ CutSlice \/ RunChunk \/ EndSlice
Worker == \/ SingleWorker \/ Extract
          \/ \E r \in Route : LoadExport(r) \/ ScanFails(r) \/ Panic(r) \/ Unwound(r)

EngineStep ==
  \/ Preflight \/ Close \/ Caller \/ Worker
  \/ \E e \in Export : Install(e)
  \/ \E t \in Text : Detect(t)

EngineNext ==
  \/ EngineStep
  \/ \E configured \in BOOLEAN, limit \in TokenLimit \cup {NoLimit}, calls \in 0 .. MaxCalls :
       Open(configured, limit, calls)

EngineFairness == WF_engineVars(Caller) /\ WF_engineVars(Worker)
EngineSpec == EngineInit /\ [][EngineNext]_engineVars /\ EngineFairness
-----------------------------------------------------------------------------
(* Correctness. *)

(* A scan that succeeds left nothing out: every stretch of characters no    *)
(* longer than the byte overlap allows lies whole in a slice, and every run *)
(* of tokens no longer than the token overlap allows whole in a chunk of    *)
(* each slice (byte_windows, token_windows: "an entity that straddles a     *)
(* window edge [is] visible in a neighbouring window").                     *)
Sliced(a, b) == \E s \in scan.done : s.from <= a /\ b <= s.upto
Chunked(s, i, j) == \E c \in s.chunks : c.first <= i /\ j <= c.last

NothingUnscanned ==
  call = "waiting" /\ route = "single" /\ reply = "ok" =>
    /\ \A a \in text.boundary, b \in text.boundary :
         a < b /\ b - a <= ByteOverlap + 1 => Sliced(a, b)
    /\ \A s \in scan.done : \A i, j \in 0 .. s.tokens :
         i < j /\ j - i <= TokenOverlap + 1 => Chunked(s, i, j)

(* What `doctor` calls ready can be scanned: a call begun under a verdict   *)
(* that still holds is not turned away, and its export loads, unless it is  *)
(* a single file whose tokenizer cannot say what its special tokens are,    *)
(* the one thing the worker tries and the probe does not (readiness.rs      *)
(* probe, onnx.rs probe, lib.rs detect, onnx.rs Loaded::load).              *)
DoctorAgrees ==
  begun => /\ outcome # "unavailable"
           /\ outcome = "unloaded" => RouteOf(export) = "single" /\ ~export.wraps

(* A call comes back, whatever becomes of the worker: both ends of a reply  *)
(* channel and of the request channel are dropped when it unwinds (onnx.rs  *)
(* detect, serve).                                                          *)
DetectReturns == call # "idle" ~> call = "idle"
=============================================================================
