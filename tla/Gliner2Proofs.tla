---------------------------- MODULE Gliner2Proofs ----------------------------
(* The local model detector for any texts, exports, limits and window sizes: *)
(* what a scan covers, and what a readiness verdict is worth.                *)
EXTENDS Gliner2, TLAPS

-----------------------------------------------------------------------------
(* Windows.  Both plans cut a line into pieces that overlap: the step from   *)
(* one piece to the next leaves every short enough stretch whole in a piece. *)

Chunk == [first : Int, last : Int]
SliceType == [from : Int, upto : Int, tokens : Int, chunks : SUBSET Chunk]
ScanType == [from : Int, upto : Int, tokens : Int, next : Int, chunks : SUBSET Chunk,
             done : SUBSET SliceType]

LEMMA MinMax ==
  ASSUME NEW x \in Int, NEW y \in Int
  PROVE  /\ AtLeast(x, y) \in Int /\ AtLeast(x, y) >= x /\ AtLeast(x, y) >= y
         /\ AtLeast(x, y) \in {x, y}
         /\ AtMost(x, y) \in Int /\ AtMost(x, y) <= x /\ AtMost(x, y) <= y
         /\ AtMost(x, y) \in {x, y}
  BY DEF AtLeast, AtMost

\* From one chunk to the next.
LEMMA ChunkStep ==
  ASSUME NEW next \in Int, NEW budget0 \in Int, NEW overlap \in Int, NEW tokens \in Int,
         NEW i \in 0 .. tokens, NEW j \in 0 .. tokens, i < j, j - i <= overlap + 1,
         next <= i,
         i < (IF AtMost(next + budget0, tokens) = tokens THEN tokens
              ELSE next + (budget0 - overlap))
  PROVE  j <= AtMost(next + budget0, tokens)
  BY MinMax DEF AtMost

\* From one slice to the next: `to` is the first boundary from the place on.
LEMMA SliceStep ==
  ASSUME NEW length \in Int, NEW window \in Int, NEW overlap \in Int,
         NEW from \in Int, NEW upto \in Int, NEW to \in Int,
         NEW a \in Int, NEW b \in Int, b <= length, b - a <= overlap + 1,
         AtMost(from + window, length) <= upto,
         a < AtMost(from + (window - overlap), length)
  PROVE  b <= upto
  BY DEF AtMost

-----------------------------------------------------------------------------
(* The inductive invariant. *)

WorkerState == {"unspawned", "idle", "asked", "slicing", "scanning", "unwinding", "gone"}

DetectorType == [open : BOOLEAN, configured : BOOLEAN, tokens : Int, calls : Int]

Typed ==
  /\ detector \in DetectorType
  /\ export \in Export \cup {NoExport} /\ text \in Text \cup {Empty}
  /\ route \in Route /\ worker \in [Route -> WorkerState] /\ queued \in [Route -> BOOLEAN]
  /\ budget \in [Route -> Int] /\ scan \in ScanType
  /\ begun \in BOOLEAN /\ ready \in BOOLEAN
  /\ reply \in {"none", "ok", "failed", "stopped", "unloaded"}

\* A worker that is at it, or will find a request, works for the call that waits.
OneCall ==
  /\ \A r \in Route : worker[r] \in Busy \/ queued[r] =>
       call = "waiting" /\ r = route /\ reply = "none"
  /\ \A r \in Route : queued[r] => worker[r] = "unwinding"
  /\ call = "routed" => reply = "none"
  /\ call # "idle" => detector.open

\* A single-file export whose tokenizer cannot say what its special tokens are.
Unwrapped == RouteOf(export) = "single" /\ ~export.wraps

\* A verdict that holds, and a call begun under it.
Verdict ==
  /\ ready \/ begun => detector.open /\ Probe(detector.configured, export)
  /\ begun => /\ outcome # "unavailable"
              /\ "unloaded" \in {outcome, reply} => Unwrapped
              /\ call # "idle" => route = RouteOf(export)

\* Of the slice being scanned, what lies behind the next chunk is in a chunk.
ChunksBehind(upto) ==
  \A i, j \in 0 .. scan.tokens :
    i < j /\ j - i <= TokenOverlap + 1 /\ i < upto => Chunked(Slice, i, j)
SliceWhole(s) ==
  \A i, j \in 0 .. s.tokens : i < j /\ j - i <= TokenOverlap + 1 => Chunked(s, i, j)
SlicesBehind(upto) ==
  \A a, b \in text.boundary : a < b /\ b - a <= ByteOverlap + 1 /\ a < upto => Sliced(a, b)

Scanned ==
  /\ worker["single"] \in {"slicing", "scanning"} =>
       /\ scan.from \in text.boundary
       /\ SlicesBehind(scan.from) /\ \A s \in scan.done : SliceWhole(s)
  /\ worker["single"] = "scanning" =>
       /\ AtMost(scan.from + ByteWindow, text.length) <= scan.upto
       /\ ChunksBehind(scan.next)

EInv == Typed /\ OneCall /\ Verdict /\ Scanned /\ NothingUnscanned

LEMMA Sizes ==
  ASSUME Typed
  PROVE  /\ ByteWindow \in Int /\ ByteOverlap \in Int /\ TokenOverlap \in Int
         /\ text.length \in Int /\ text.boundary \subseteq 0 .. text.length
         /\ {0, text.length} \subseteq text.boundary
  <1>1. detector.tokens * BytesPerToken \in Int
    BY Gliner2Assumption DEF Typed, DetectorType
  <1>2. ByteWindow \in Int
    <2>1. MinByteWindow \in Int
      BY Gliner2Assumption
    <2>2. QED BY <1>1, <2>1, MinMax DEF ByteWindow
  <1>3. ByteWindow \div OverlapPart \in Int /\ ByteWindow - 1 \in Int
    BY <1>2, Gliner2Assumption
  <1>4. ByteOverlap \in Int
    BY <1>3, MinMax DEF ByteOverlap
  <1>5. budget["single"] \in Int
    BY DEF Typed, Route
  <1>6. budget["single"] \div OverlapPart \in Int /\ budget["single"] \div 2 \in Int
    BY <1>5, Gliner2Assumption
  <1>7. TokenOverlap \in Int
    BY <1>6, MinMax DEF TokenOverlap
  <1>8. CASE text \in Text
    BY <1>2, <1>4, <1>7, <1>8, Gliner2Assumption
  <1>9. CASE text = Empty
    BY <1>2, <1>4, <1>7, <1>9 DEF Empty
  <1>10. QED BY <1>8, <1>9 DEF Typed

LEMMA EInvInit == EngineInit => EInv
  <1> SUFFICES ASSUME EngineInit PROVE EInv
    OBVIOUS
  <1>1. NoScan \in ScanType
    BY DEF NoScan, ScanType, Chunk, SliceType
  <1>2. Typed
    <2>1. detector \in DetectorType
      BY DEF EngineInit, NoDetector, DetectorType
    <2>2. worker \in [Route -> WorkerState] /\ budget \in [Route -> Int]
      BY DEF EngineInit, WorkerState
    <2>3. QED BY <1>1, <2>1, <2>2 DEF EngineInit, Typed, Route
  <1>3. OneCall /\ Verdict /\ Scanned /\ NothingUnscanned
    BY DEF EngineInit, OneCall, Verdict, Scanned, NothingUnscanned, Busy, Route
  <1>4. QED BY <1>2, <1>3 DEF EInv

-----------------------------------------------------------------------------
(* Steps that leave the scan alone. *)

\* The sizes and the scan are as they were.
SameScan == UNCHANGED <<text, scan, budget>> /\ detector'.tokens = detector.tokens

LEMMA ScannedKept ==
  ASSUME Scanned, SameScan,
         worker'["single"] \in {"slicing", "scanning"} => worker'["single"] = worker["single"]
  PROVE  Scanned'
  <1>1. /\ ByteWindow' = ByteWindow /\ ByteOverlap' = ByteOverlap
        /\ TokenOverlap' = TokenOverlap /\ Slice' = Slice
    BY DEF SameScan, ByteWindow, ByteOverlap, TokenOverlap, Slice
  <1>2. ChunksBehind(scan.next)' <=> ChunksBehind(scan.next)
    BY <1>1 DEF SameScan, ChunksBehind, Chunked
  <1>3. SlicesBehind(scan.from)' <=> SlicesBehind(scan.from)
    BY <1>1 DEF SameScan, SlicesBehind, Sliced
  <1>4. (\A s \in scan.done : SliceWhole(s))' <=> \A s \in scan.done : SliceWhole(s)
    BY <1>1 DEF SameScan, SliceWhole, Chunked
  <1>5. QED BY <1>1, <1>2, <1>3, <1>4 DEF Scanned, SameScan

LEMMA CoverageKept ==
  ASSUME NothingUnscanned, SameScan,
         call' = "waiting" /\ route' = "single" /\ reply' = "ok" =>
           call = "waiting" /\ route = "single" /\ reply = "ok"
  PROVE  NothingUnscanned'
  <1>1. /\ ByteOverlap' = ByteOverlap /\ TokenOverlap' = TokenOverlap
    BY DEF SameScan, ByteWindow, ByteOverlap, TokenOverlap
  <1>2. QED BY <1>1 DEF NothingUnscanned, SameScan, Sliced, Chunked

LEMMA NobodyBusy ==
  ASSUME OneCall, call # "waiting" \/ reply # "none"
  PROVE  \A r \in Route : worker[r] \notin Busy /\ ~queued[r]
  BY DEF OneCall

LEMMA TokensType == \A limit \in TokenLimit \cup {NoLimit} : Tokens(limit) \in Int
  <1>1. MinTokens \in Int /\ DefaultTokens \in Int /\ TokenLimit \subseteq Int
    BY Gliner2Assumption
  <1>2. QED BY <1>1, MinMax DEF Tokens

LEMMA EInvOpen ==
  ASSUME EInv, NEW configured \in BOOLEAN, NEW limit \in TokenLimit \cup {NoLimit},
         NEW calls \in Int, Open(configured, limit, calls)
  PROVE  EInv'
  <1>1. call = "idle" /\ ~ready /\ ~begun
    BY DEF EInv, OneCall, Verdict, Open, Unwrapped
  <1>2. \A r \in Route : worker[r] \notin Busy /\ ~queued[r]
    BY <1>1, NobodyBusy DEF EInv
  <1>3. Typed'
    <2>1. detector' \in DetectorType
      BY TokensType DEF Open, DetectorType
    <2>2. QED BY <2>1 DEF EInv, Typed, Open
  <1>4. OneCall' /\ Verdict'
    BY <1>1, <1>2 DEF Open, OneCall, Verdict
  <1>5. Scanned' /\ NothingUnscanned'
    BY <1>1, <1>2 DEF Open, Scanned, NothingUnscanned, Route, Busy
  <1>6. QED BY <1>3, <1>4, <1>5 DEF EInv

LEMMA EInvPreflight == EInv /\ Preflight => EInv'
  <1> SUFFICES ASSUME EInv, Preflight PROVE EInv'
    OBVIOUS
  <1>1. SameScan /\ UNCHANGED <<call, route, reply, worker, queued, detector, export, begun,
                                outcome>>
    BY DEF Preflight, SameScan
  <1>2. Scanned' /\ NothingUnscanned'
    BY <1>1, ScannedKept, CoverageKept DEF EInv
  <1>3. OneCall'
    BY <1>1 DEF EInv, OneCall
  <1>4. ready' = Probe(detector.configured, export) /\ detector.open
    BY DEF Preflight
  <1>5. ready' \in BOOLEAN
    <2>1. Probe(detector.configured, export) \in BOOLEAN
      BY ZenonT(30) DEF Probe
    <2>2. QED BY <1>4, <2>1
  <1>6. Typed'
    BY <1>1, <1>5 DEF EInv, Typed, SameScan
  <1>7. Verdict'
    BY <1>1, <1>4 DEF EInv, Verdict, Unwrapped
  <1>8. QED BY <1>2, <1>3, <1>6, <1>7 DEF EInv

LEMMA EInvInstall ==
  ASSUME EInv, NEW e \in Export, Install(e)
  PROVE  EInv'
  <1>1. SameScan /\ UNCHANGED <<call, route, reply, worker, queued, detector>>
    BY DEF Install, SameScan
  <1>2. Scanned' /\ NothingUnscanned'
    BY <1>1, ScannedKept, CoverageKept DEF EInv
  <1>3. OneCall'
    BY <1>1 DEF EInv, OneCall
  <1>4. Typed' /\ Verdict'
    BY <1>1 DEF Install, EInv, Typed, Verdict, SameScan, Unwrapped
  <1>5. QED BY <1>2, <1>3, <1>4 DEF EInv

-----------------------------------------------------------------------------
(* The caller. *)

LEMMA ReadyIsAvailable ==
  ASSUME Probe(detector.configured, export)
  PROVE  ~Unavailable(export) /\ (Loads(RouteOf(export), export) \/ Unwrapped)
  BY DEF Probe, Unavailable, Loads, Unwrapped

LEMMA EInvDetect ==
  ASSUME EInv, NEW t \in Text, Detect(t)
  PROVE  EInv'
  <1>1. \A r \in Route : worker[r] \notin Busy /\ ~queued[r]
    BY NobodyBusy DEF EInv, Detect
  <1>2. Typed'
    <2>1. detector' \in DetectorType
      BY DEF Detect, EInv, Typed, DetectorType
    <2>2. route' \in Route
      BY DEF Detect, EInv, Typed, Route, RouteOf
    <2>3. QED BY <2>1, <2>2 DEF Detect, EInv, Typed
  <1>3. OneCall'
    BY <1>1 DEF Detect, OneCall
  <1>4. Verdict'
    BY ReadyIsAvailable DEF Detect, EInv, Verdict, Probe
  <1>5. Scanned' /\ NothingUnscanned'
    BY <1>1 DEF Detect, Scanned, NothingUnscanned, Route, Busy
  <1>6. QED BY <1>2, <1>3, <1>4, <1>5 DEF EInv

LEMMA EInvSpawnFails == EInv /\ SpawnFails => EInv'
  <1> SUFFICES ASSUME EInv, SpawnFails PROVE EInv'
    OBVIOUS
  <1>1. SameScan /\ call = "routed" /\ call' = "idle" /\ outcome' = "failed"
        /\ UNCHANGED <<worker, queued, reply, route, detector, export, ready, begun>>
    BY DEF SpawnFails, CallEnds, SameScan
  <1>2. Scanned' /\ NothingUnscanned'
    BY <1>1, ScannedKept, CoverageKept DEF EInv
  <1>3. OneCall'
    BY <1>1 DEF EInv, OneCall
  <1>4. Typed' /\ Verdict'
    BY <1>1 DEF EInv, Typed, Verdict, SameScan, Unwrapped
  <1>5. QED BY <1>2, <1>3, <1>4 DEF EInv

LEMMA EInvRequest == EInv /\ Request => EInv'
  <1> SUFFICES ASSUME EInv, Request PROVE EInv'
    OBVIOUS
  <1>1. SameScan /\ call = "routed" /\ reply = "none" /\ reply' = "none" /\ detector.open
        /\ UNCHANGED <<route, detector, export, ready, begun>>
    BY DEF Request, SameScan, EInv, OneCall
  <1>2. \A r \in Route : worker[r] \notin Busy /\ ~queued[r]
    BY <1>1, NobodyBusy DEF EInv
  <1>3. \/ worker' = [worker EXCEPT ![route] = "asked"] /\ call' = "waiting"
           /\ UNCHANGED <<queued, outcome>>
        \/ /\ worker[route] = "unwinding" /\ queued' = [queued EXCEPT ![route] = TRUE]
           /\ call' = "waiting" /\ UNCHANGED <<worker, outcome>>
        \/ call' = "idle" /\ outcome' = "stopped" /\ UNCHANGED <<worker, queued>>
    BY DEF Request, CallEnds
  <1>4. Typed'
    BY <1>1, <1>3 DEF EInv, Typed, SameScan, WorkerState
  <1>5. Scanned' /\ NothingUnscanned'
    <2>1. worker'["single"] \in {"slicing", "scanning"} => worker'["single"] = worker["single"]
      BY <1>3 DEF EInv, Typed, Route
    <2>2. QED BY <1>1, <2>1, ScannedKept, CoverageKept DEF EInv
  <1>6. OneCall'
    BY <1>1, <1>2, <1>3 DEF EInv, OneCall, Typed, Busy
  <1>7. Verdict'
    BY <1>1, <1>3 DEF EInv, Verdict, Unwrapped
  <1>8. QED BY <1>4, <1>5, <1>6, <1>7 DEF EInv

LEMMA EInvAwait == EInv /\ Await => EInv'
  <1> SUFFICES ASSUME EInv, Await PROVE EInv'
    OBVIOUS
  <1>1. \A r \in Route : worker[r] \notin Busy /\ ~queued[r]
    BY NobodyBusy DEF EInv, Await
  <1>2. NoScan \in ScanType
    BY DEF NoScan, ScanType, Chunk, SliceType
  <1>3. Typed'
    BY <1>2 DEF Await, EInv, Typed
  <1>4. OneCall' /\ Verdict'
    BY <1>1 DEF Await, CallEnds, EInv, Typed, OneCall, Verdict, Unwrapped
  <1>5. Scanned' /\ NothingUnscanned'
    BY <1>1 DEF Await, CallEnds, Scanned, NothingUnscanned, Route, Busy
  <1>6. QED BY <1>3, <1>4, <1>5 DEF EInv

LEMMA EInvClose == EInv /\ Close => EInv'
  <1> SUFFICES ASSUME EInv, Close PROVE EInv'
    OBVIOUS
  <1>1. \A r \in Route : worker[r] \notin Busy /\ ~queued[r]
    BY NobodyBusy DEF EInv, Close
  <1>2. detector' = [detector EXCEPT !.calls = 0] /\ call = "idle"
        /\ UNCHANGED <<export, ready, call, route, text, begun, outcome, queued, budget, scan,
                       reply>>
    BY DEF Close
  <1>3. Typed'
    <2>1. detector' \in DetectorType
      BY <1>2 DEF EInv, Typed, DetectorType
    <2>2. worker' \in [Route -> WorkerState]
      BY DEF Close, EInv, Typed, WorkerState
    <2>3. QED BY <1>2, <2>1, <2>2 DEF EInv, Typed
  <1>4. OneCall'
    BY <1>1, <1>2 DEF Close, EInv, OneCall, Busy
  <1>5. Verdict'
    BY <1>2 DEF EInv, Verdict, Unwrapped
  <1>6. Scanned' /\ NothingUnscanned'
    BY <1>1, <1>2 DEF Close, Scanned, NothingUnscanned, Route, Busy
  <1>7. QED BY <1>3, <1>4, <1>5, <1>6 DEF EInv

-----------------------------------------------------------------------------
(* The workers. *)

\* Somebody is at it: the caller waits for it and for nobody else.
LEMMA AtWork ==
  ASSUME EInv, NEW r \in Route, worker[r] \in Busy
  PROVE  /\ call = "waiting" /\ r = route /\ reply = "none"
         /\ \A q \in Route : worker[q] \in Busy \/ queued[q] => q = r
         /\ ~queued[r]
  BY DEF EInv, OneCall, Busy

\* The scan is left alone, and the worker answers anything but "ok" or works on.
LEMMA EInvLeavesScan ==
  ASSUME EInv, NEW r \in Route, NEW w \in WorkerState, worker[r] \in Busy,
         Becomes(r, w), SameScan, UNCHANGED <<call, route, queued, detector, export, ready,
                                              begun, outcome>>,
         reply' \in {"failed", "stopped", "unloaded", "none"},
         w \in {"idle", "unwinding"},
         reply' = "unloaded" => (begun => Unwrapped)
  PROVE  EInv'
  <1>1. call = "waiting" /\ r = route /\ reply = "none" /\ ~queued[r]
        /\ \A q \in Route : worker[q] \in Busy \/ queued[q] => q = r
    BY AtWork
  <1>2. worker' = [worker EXCEPT ![r] = w] /\ worker \in [Route -> WorkerState]
    BY DEF Becomes, EInv, Typed
  <1>3. Typed'
    BY <1>2 DEF EInv, Typed, SameScan
  <1>4. OneCall'
    BY <1>1, <1>2 DEF EInv, OneCall, Busy
  <1>5. Verdict'
    BY DEF EInv, Verdict, Unwrapped
  <1>6. Scanned' /\ NothingUnscanned'
    <2>1. worker'["single"] \in {"slicing", "scanning"} => worker'["single"] = worker["single"]
      BY <1>2 DEF Route
    <2>2. QED BY <2>1, ScannedKept, CoverageKept DEF EInv
  <1>7. QED BY <1>3, <1>4, <1>5, <1>6 DEF EInv

LEMMA EInvScanFails ==
  ASSUME EInv, NEW r \in Route, ScanFails(r)
  PROVE  EInv'
  <1>1. worker[r] \in Busy /\ Becomes(r, "idle") /\ reply' = "failed" /\ SameScan
        /\ UNCHANGED <<call, route, queued, detector, export, ready, begun, outcome>>
    BY DEF ScanFails, Answers, SameScan
  <1>2. "idle" \in WorkerState
    BY DEF WorkerState
  <1>3. QED BY <1>1, <1>2, EInvLeavesScan

LEMMA EInvPanic ==
  ASSUME EInv, NEW r \in Route, Panic(r)
  PROVE  EInv'
  <1>1. worker[r] \in Busy /\ Becomes(r, "unwinding") /\ reply' = "stopped" /\ SameScan
        /\ UNCHANGED <<call, route, queued, detector, export, ready, begun, outcome>>
    BY DEF Panic, SameScan
  <1>2. "unwinding" \in WorkerState
    BY DEF WorkerState
  <1>3. QED BY <1>1, <1>2, EInvLeavesScan

LEMMA EInvUnwound ==
  ASSUME EInv, NEW r \in Route, Unwound(r)
  PROVE  EInv'
  <1>1. worker' = [worker EXCEPT ![r] = "gone"] /\ worker \in [Route -> WorkerState]
        /\ queued' = [queued EXCEPT ![r] = FALSE] /\ queued \in [Route -> BOOLEAN]
        /\ worker[r] = "unwinding"
        /\ reply' = (IF queued[r] THEN "stopped" ELSE reply) /\ SameScan
        /\ UNCHANGED <<call, route, text, detector, export, ready, begun, outcome, scan, budget>>
    BY DEF Unwound, Becomes, SameScan, EInv, Typed
  <1>2. Typed'
    BY <1>1 DEF EInv, Typed, WorkerState
  <1>3. OneCall'
    BY <1>1 DEF EInv, OneCall, Busy
  <1>4. Verdict'
    BY <1>1 DEF EInv, Verdict, Unwrapped
  <1>5. Scanned' /\ NothingUnscanned'
    <2>1. worker'["single"] \in {"slicing", "scanning"} => worker'["single"] = worker["single"]
      BY <1>1 DEF Route
    <2>2. QED BY <1>1, <2>1, ScannedKept, CoverageKept DEF EInv
  <1>6. QED BY <1>2, <1>3, <1>4, <1>5 DEF EInv

LEMMA EInvExtract == EInv /\ Extract => EInv'
  <1> SUFFICES ASSUME EInv, Extract PROVE EInv'
    OBVIOUS
  <1>1. worker["fragments"] \in Busy /\ "fragments" \in Route
    BY DEF Extract, Busy, Route
  <1>2. call = "waiting" /\ route = "fragments" /\ reply = "none" /\ ~queued["fragments"]
        /\ \A q \in Route : worker[q] \in Busy \/ queued[q] => q = "fragments"
    BY <1>1, AtWork
  <1>3. worker' = [worker EXCEPT !["fragments"] = "idle"] /\ worker \in [Route -> WorkerState]
        /\ reply' = "ok" /\ SameScan
        /\ UNCHANGED <<call, route, text, queued, detector, export, ready, begun, outcome>>
    BY DEF Extract, Answers, Becomes, SameScan, EInv, Typed
  <1>4. Typed'
    BY <1>3 DEF EInv, Typed, WorkerState, SameScan
  <1>5. OneCall'
    BY <1>1, <1>2, <1>3 DEF EInv, OneCall, Busy
  <1>6. Verdict'
    BY <1>3 DEF EInv, Verdict, Unwrapped
  <1>7. Scanned' /\ NothingUnscanned'
    <2>1. worker'["single"] \in {"slicing", "scanning"} => worker'["single"] = worker["single"]
      BY <1>3 DEF Route
    <2>2. route' # "single"
      BY <1>2, <1>3
    <2>3. QED BY <1>3, <2>1, <2>2, ScannedKept, CoverageKept DEF EInv
  <1>8. QED BY <1>4, <1>5, <1>6, <1>7 DEF EInv

LEMMA EInvLoadExport ==
  ASSUME EInv, NEW r \in Route, LoadExport(r)
  PROVE  EInv'
  <1>1. worker[r] = "asked" /\ worker[r] \in Busy
    BY DEF LoadExport, Busy
  <1>2. call = "waiting" /\ r = route /\ reply = "none"
    BY <1>1, AtWork
  <1>3. CASE /\ ~Loads(r, export) /\ Answers(r, "unloaded") /\ UNCHANGED budget
    <2>1. begun => Unwrapped
      BY <1>2, <1>3, ReadyIsAvailable DEF EInv, Verdict, Unwrapped
    <2>2. Becomes(r, "idle") /\ reply' = "unloaded" /\ SameScan
          /\ UNCHANGED <<call, route, queued, detector, export, ready, begun, outcome>>
      BY <1>3 DEF LoadExport, Answers, SameScan
    <2>3. "idle" \in WorkerState
      BY DEF WorkerState
    <2>4. QED BY <1>1, <2>1, <2>2, <2>3, EInvLeavesScan
  <1>4. CASE Loads(r, export) /\ UNCHANGED <<worker, reply>>
    <2>1. /\ budget' = [budget EXCEPT ![r] = AtLeast(detector.tokens -
                          (IF r = "single" THEN export.specials ELSE 0), 1)]
          /\ UNCHANGED <<export, ready, detector, call, route, text, begun, outcome, queued,
                         scan, worker, reply>>
      BY <1>3, <1>4 DEF LoadExport
    <2>2. budget' \in [Route -> Int]
      <3>1. export.specials \in Int
        BY Gliner2Assumption DEF EInv, Typed, NoExport
      <3>2. detector.tokens - (IF r = "single" THEN export.specials ELSE 0) \in Int
        BY <3>1 DEF EInv, Typed, DetectorType
      <3>3. QED BY <2>1, <3>2, MinMax DEF EInv, Typed
    <2>3. Typed'
      BY <2>1, <2>2 DEF EInv, Typed
    <2>4. OneCall' /\ Verdict'
      BY <2>1 DEF EInv, OneCall, Verdict, Unwrapped
    <2>5. Scanned' /\ NothingUnscanned'
      <3>1. worker["single"] \notin {"slicing", "scanning"}
        BY <1>1, <1>2, AtWork DEF Route, Busy
      <3>2. QED BY <1>2, <2>1, <3>1 DEF Scanned, NothingUnscanned
    <2>6. QED BY <2>3, <2>4, <2>5 DEF EInv
  <1>5. QED BY <1>3, <1>4 DEF LoadExport

-----------------------------------------------------------------------------
(* The scan of the single-file worker. *)

\* What every step of the scan starts from, and leaves alone.
LEMMA AtScan ==
  ASSUME EInv, worker["single"] \in Busy
  PROVE  /\ call = "waiting" /\ route = "single" /\ reply = "none"
         /\ \A q \in Route : worker[q] \in Busy \/ queued[q] => q = "single"
         /\ ~queued["single"]
         /\ worker \in [Route -> WorkerState] /\ scan \in ScanType
  <1>1. "single" \in Route
    BY DEF Route
  <1>2. QED BY <1>1, AtWork DEF EInv, Typed

\* What such a step has to show once it is known not to touch the rest.
LEMMA EInvScans ==
  ASSUME EInv, worker["single"] \in Busy,
         NEW w \in WorkerState, Becomes("single", w), w \in {"idle", "slicing", "scanning"},
         reply' = (IF w = "idle" THEN "ok" ELSE "none"), scan' \in ScanType,
         UNCHANGED <<export, ready, detector, call, route, text, begun, outcome, queued, budget>>,
         Scanned', NothingUnscanned'
  PROVE  EInv'
  <1>1. /\ call = "waiting" /\ route = "single" /\ reply = "none"
        /\ \A q \in Route : worker[q] \in Busy \/ queued[q] => q = "single"
        /\ ~queued["single"] /\ worker \in [Route -> WorkerState]
    BY AtScan
  <1>2. worker' = [worker EXCEPT !["single"] = w]
    BY DEF Becomes
  <1>3. Typed'
    BY <1>1, <1>2 DEF EInv, Typed
  <1>4. OneCall'
    BY <1>1, <1>2 DEF EInv, OneCall, Busy
  <1>5. Verdict'
    BY DEF EInv, Verdict, Unwrapped
  <1>6. QED BY <1>3, <1>4, <1>5 DEF EInv

LEMMA EInvStartScan == EInv /\ StartScan => EInv'
  <1> SUFFICES ASSUME EInv, StartScan PROVE EInv'
    OBVIOUS
  <1>1. worker["single"] \in Busy
    BY DEF StartScan, Busy
  <1>2. /\ reply = "none" /\ worker \in [Route -> WorkerState] /\ "single" \in Route
        /\ route = "single"
    BY <1>1, AtScan DEF Route
  <1>3. /\ text.length \in Int /\ text.boundary \subseteq 0 .. text.length
        /\ {0, text.length} \subseteq text.boundary
    BY Sizes DEF EInv
  <1>4. scan' = NoScan /\ NoScan \in ScanType
    BY DEF StartScan, NoScan, ScanType, Chunk, SliceType
  <1>5. UNCHANGED <<export, ready, detector, call, route, text, begun, outcome, queued, budget>>
    BY DEF StartScan
  <1>6. CASE text.length = 0 /\ Answers("single", "ok")
    <2>1. worker' = [worker EXCEPT !["single"] = "idle"] /\ reply' = "ok"
      BY <1>6 DEF Answers, Becomes
    <2>2. Scanned'
      BY <1>2, <2>1 DEF Scanned
    <2>3. NothingUnscanned'
      <3>1. \A a \in text'.boundary, b \in text'.boundary : ~(a < b)
        BY <1>3, <1>5, <1>6
      <3>2. scan'.done = {}
        BY <1>4 DEF NoScan
      <3>3. QED BY <3>1, <3>2 DEF NothingUnscanned
    <2>4. "idle" \in WorkerState /\ Becomes("single", "idle")
      BY <1>6 DEF WorkerState, Answers
    <2>5. QED BY <1>1, <1>4, <1>5, <2>1, <2>2, <2>3, <2>4, EInvScans
  <1>7. CASE Becomes("single", "slicing") /\ UNCHANGED reply
    <2>1. worker' = [worker EXCEPT !["single"] = "slicing"] /\ reply' = "none"
      BY <1>2, <1>7 DEF Becomes
    <2>2. Scanned'
      <3>1. scan'.from = 0 /\ scan'.done = {}
        BY <1>4 DEF NoScan
      <3>2. SlicesBehind(scan.from)'
        BY <1>3, <1>5, <3>1 DEF SlicesBehind
      <3>3. QED BY <1>2, <1>3, <1>5, <2>1, <3>1, <3>2 DEF Scanned
    <2>3. NothingUnscanned'
      BY <2>1 DEF NothingUnscanned
    <2>4. "slicing" \in WorkerState
      BY DEF WorkerState
    <2>5. QED BY <1>1, <1>4, <1>5, <1>7, <2>1, <2>2, <2>3, <2>4, EInvScans
  <1>8. QED BY <1>6, <1>7 DEF StartScan

LEMMA EInvCutSlice == EInv /\ CutSlice => EInv'
  <1> SUFFICES ASSUME EInv, CutSlice PROVE EInv'
    OBVIOUS
  <1>1. worker["single"] \in Busy
    BY DEF CutSlice, Busy
  <1>2. /\ reply = "none" /\ worker \in [Route -> WorkerState] /\ "single" \in Route
        /\ scan \in ScanType
    BY <1>1, AtScan DEF Route
  <1>3. /\ text.length \in Int /\ text.boundary \subseteq 0 .. text.length
    BY Sizes DEF EInv
  <1>4. UNCHANGED <<export, ready, detector, call, route, text, begun, outcome, queued, budget,
                    reply>>
    BY DEF CutSlice
  <1>5. PICK upto \in text.boundary, n \in TokenCount :
          /\ Aligned(upto, AtMost(scan.from + ByteWindow, text.length))
          /\ scan' = [scan EXCEPT !.upto = upto, !.tokens = n, !.next = 0, !.chunks = {}]
    BY DEF CutSlice
  <1>6. scan' \in ScanType
    <2>1. upto \in Int /\ n \in Int
      BY <1>3, Gliner2Assumption
    <2>2. scan' = [from |-> scan.from, upto |-> upto, tokens |-> n, next |-> 0, chunks |-> {},
                   done |-> scan.done]
      BY <1>2, <1>5 DEF ScanType
    <2>3. scan.from \in Int /\ scan.done \in SUBSET SliceType /\ {} \in SUBSET Chunk
      BY <1>2 DEF ScanType
    <2>4. QED BY <2>1, <2>2, <2>3 DEF ScanType
  <1>7. /\ scan'.from = scan.from /\ scan'.done = scan.done /\ scan'.upto = upto
        /\ scan'.next = 0
    BY <1>2, <1>5 DEF ScanType
  <1>8. worker' = [worker EXCEPT !["single"] = "scanning"]
    BY DEF CutSlice, Becomes
  <1>9. ByteWindow' = ByteWindow /\ ByteOverlap' = ByteOverlap /\ TokenOverlap' = TokenOverlap
    BY <1>4 DEF ByteWindow, ByteOverlap, TokenOverlap
  <1>10. Scanned'
    <2>1. /\ scan.from \in text.boundary /\ SlicesBehind(scan.from)
          /\ \A s \in scan.done : SliceWhole(s)
      BY DEF CutSlice, EInv, Scanned
    <2>2. SlicesBehind(scan.from)'
      BY <1>4, <1>7, <1>9, <2>1 DEF SlicesBehind, Sliced
    <2>3. (\A s \in scan.done : SliceWhole(s))'
      BY <1>7, <1>9, <2>1 DEF SliceWhole, Chunked
    <2>4. AtMost(scan.from + ByteWindow, text.length)' <= scan'.upto
      BY <1>4, <1>5, <1>7, <1>9 DEF Aligned, AtMost
    <2>5. ChunksBehind(scan.next)'
      BY <1>7 DEF ChunksBehind
    <2>6. QED BY <1>4, <1>7, <2>1, <2>2, <2>3, <2>4, <2>5 DEF Scanned
  <1>11. NothingUnscanned'
    BY <1>2, <1>4 DEF NothingUnscanned
  <1>12. "scanning" \in WorkerState /\ Becomes("single", "scanning")
    BY DEF WorkerState, CutSlice
  <1>13. QED BY <1>1, <1>2, <1>4, <1>6, <1>10, <1>11, <1>12, EInvScans

LEMMA EInvRunChunk == EInv /\ RunChunk => EInv'
  <1> SUFFICES ASSUME EInv, RunChunk PROVE EInv'
    OBVIOUS
  <1>1. worker["single"] \in Busy
    BY DEF RunChunk, Busy
  <1>2. /\ reply = "none" /\ worker \in [Route -> WorkerState] /\ "single" \in Route
        /\ scan \in ScanType
    BY <1>1, AtScan DEF Route
  <1>3. ByteWindow \in Int /\ TokenOverlap \in Int /\ budget["single"] \in Int
    BY Sizes DEF EInv, Typed, Route
  <1>4. UNCHANGED <<export, ready, detector, call, route, text, begun, outcome, queued, budget,
                    reply, worker>>
    BY DEF RunChunk
  <1>5. scan.next \in Int /\ scan.tokens \in Int /\ scan.chunks \subseteq Chunk
    BY <1>2 DEF ScanType
  <1>6. ChunkEnd \in Int
    <2>1. scan.next + budget["single"] \in Int
      BY <1>3, <1>5
    <2>2. QED BY <1>5, <2>1, MinMax DEF ChunkEnd
  <1> DEFINE new == [first |-> scan.next, last |-> ChunkEnd]
             next == IF ChunkEnd = scan.tokens THEN scan.tokens
                     ELSE scan.next + (budget["single"] - TokenOverlap)
  <1>7. scan' = [scan EXCEPT !.chunks = scan.chunks \cup {new}, !.next = next]
    BY DEF RunChunk
  <1>8. new \in Chunk /\ next \in Int
    BY <1>3, <1>5, <1>6 DEF Chunk
  <1> HIDE DEF new, next
  <1>9. /\ scan'.from = scan.from /\ scan'.done = scan.done /\ scan'.upto = scan.upto
        /\ scan'.next = next /\ scan'.chunks = scan.chunks \cup {new}
        /\ scan'.tokens = scan.tokens
    BY <1>2, <1>7 DEF ScanType
  <1>10. scan' \in ScanType
    BY <1>2, <1>5, <1>7, <1>8 DEF ScanType
  <1>11. ByteWindow' = ByteWindow /\ ByteOverlap' = ByteOverlap /\ TokenOverlap' = TokenOverlap
    BY <1>4 DEF ByteWindow, ByteOverlap, TokenOverlap
  <1>12. ChunksBehind(scan.next)'
    <2>1. ChunksBehind(scan.next)
      BY DEF EInv, Scanned, RunChunk
    <2>2. ASSUME NEW i \in 0 .. scan.tokens, NEW j \in 0 .. scan.tokens, i < j,
                 j - i <= TokenOverlap + 1, i < next
          PROVE  \E c \in scan.chunks \cup {new} : c.first <= i /\ j <= c.last
      <3>1. CASE i < scan.next
        BY <2>1, <2>2, <3>1 DEF ChunksBehind, Chunked, Slice
      <3>2. CASE scan.next <= i
        <4>1. j <= AtMost(scan.next + budget["single"], scan.tokens)
          BY <1>3, <1>5, <2>2, <3>2, ChunkStep DEF next, ChunkEnd
        <4>2. new.first <= i /\ j <= new.last
          BY <3>2, <4>1 DEF new, ChunkEnd
        <4>3. QED BY <4>2
      <3>3. QED BY <1>5, <3>1, <3>2
    <2>3. QED BY <1>9, <1>11, <2>2 DEF ChunksBehind, Chunked, Slice
  <1>13. Scanned'
    <2>1. /\ scan.from \in text.boundary /\ SlicesBehind(scan.from)
          /\ \A s \in scan.done : SliceWhole(s)
          /\ AtMost(scan.from + ByteWindow, text.length) <= scan.upto
      BY DEF RunChunk, EInv, Scanned
    <2>2. SlicesBehind(scan.from)'
      BY <1>4, <1>9, <1>11, <2>1 DEF SlicesBehind, Sliced
    <2>3. (\A s \in scan.done : SliceWhole(s))'
      BY <1>9, <1>11, <2>1 DEF SliceWhole, Chunked
    <2>4. QED BY <1>4, <1>9, <1>11, <1>12, <2>1, <2>2, <2>3 DEF Scanned
  <1>14. NothingUnscanned'
    BY <1>2, <1>4 DEF NothingUnscanned
  <1>15. "scanning" \in WorkerState /\ Becomes("single", "scanning")
    BY <1>2, <1>4 DEF WorkerState, RunChunk, Becomes
  <1>16. QED BY <1>1, <1>2, <1>4, <1>10, <1>13, <1>14, <1>15, EInvScans

LEMMA EInvEndSlice == EInv /\ EndSlice => EInv'
  <1> SUFFICES ASSUME EInv, EndSlice PROVE EInv'
    OBVIOUS
  <1>1. worker["single"] = "scanning" /\ worker["single"] \in Busy /\ scan.next = scan.tokens
    BY DEF EndSlice, Busy
  <1>2. /\ reply = "none" /\ worker \in [Route -> WorkerState] /\ "single" \in Route
        /\ scan \in ScanType
    BY <1>1, AtScan DEF Route
  <1>3. /\ text.length \in Int /\ text.boundary \subseteq 0 .. text.length
        /\ ByteWindow \in Int /\ ByteOverlap \in Int /\ TokenOverlap \in Int
    BY Sizes DEF EInv
  <1>4. UNCHANGED <<export, ready, detector, call, route, text, begun, outcome, queued, budget>>
    BY DEF EndSlice
  <1>5. /\ scan.from \in Int /\ scan.upto \in Int /\ scan.tokens \in Int
        /\ scan.chunks \in SUBSET Chunk /\ scan.done \in SUBSET SliceType
    BY <1>2 DEF ScanType
  <1>6. Slice \in SliceType
    BY <1>5 DEF Slice, SliceType
  <1>7. ByteWindow' = ByteWindow /\ ByteOverlap' = ByteOverlap /\ TokenOverlap' = TokenOverlap
    BY <1>4 DEF ByteWindow, ByteOverlap, TokenOverlap
  <1>8. /\ scan.from \in text.boundary /\ SlicesBehind(scan.from)
        /\ \A s \in scan.done : SliceWhole(s)
        /\ AtMost(scan.from + ByteWindow, text.length) <= scan.upto
        /\ ChunksBehind(scan.next)
    BY <1>1 DEF EInv, Scanned
  <1>9. SliceWhole(Slice)
    <2>1. Slice.tokens = scan.tokens
      BY DEF Slice
    <2>2. ASSUME NEW i \in 0 .. scan.tokens, NEW j \in 0 .. scan.tokens, i < j
          PROVE  i < scan.next
      BY <1>1, <1>5, <2>2
    <2>3. QED BY <1>8, <2>1, <2>2 DEF SliceWhole, ChunksBehind
  <1>10. ASSUME NEW a \in text.boundary, NEW b \in text.boundary,
                a < b, b - a <= ByteOverlap + 1, b <= scan.upto
         PROVE  \E s \in scan.done \cup {Slice} : s.from <= a /\ b <= s.upto
    <2>1. CASE a < scan.from
      BY <1>8, <1>10, <2>1 DEF SlicesBehind, Sliced
    <2>2. CASE scan.from <= a
      <3>1. Slice.from <= a /\ b <= Slice.upto
        BY <1>10, <2>2 DEF Slice
      <3>2. QED BY <3>1
    <2>3. QED BY <1>3, <1>5, <2>1, <2>2
  <1>11. CASE /\ scan.upto = text.length
              /\ scan' = [scan EXCEPT !.done = @ \cup {Slice}] /\ Answers("single", "ok")
    <2>1. scan'.done = scan.done \cup {Slice} /\ scan' \in ScanType
      BY <1>2, <1>5, <1>6, <1>11 DEF ScanType
    <2>2. NothingUnscanned'
      <3>1. \A a \in text.boundary, b \in text.boundary :
              a < b /\ b - a <= ByteOverlap + 1 => Sliced(a, b)'
        BY <1>3, <1>10, <1>11, <2>1 DEF Sliced
      <3>2. \A s \in scan'.done : SliceWhole(s)
        BY <1>8, <1>9, <2>1
      <3>3. QED BY <1>4, <1>7, <3>1, <3>2 DEF NothingUnscanned, SliceWhole, Chunked
    <2>3. Becomes("single", "idle") /\ reply' = "ok" /\ "idle" \in WorkerState
      BY <1>11 DEF Answers, WorkerState
    <2>4. Scanned'
      BY <1>2, <2>3 DEF Becomes, Scanned
    <2>5. QED BY <1>1, <1>4, <2>1, <2>2, <2>3, <2>4, EInvScans
  <1>12. CASE /\ scan.upto # text.length
              /\ \E next \in text.boundary :
                   /\ Aligned(next, AtMost(scan.from + (ByteWindow - ByteOverlap), text.length))
                   /\ scan' = [scan EXCEPT !.done = @ \cup {Slice}, !.from = next]
              /\ Becomes("single", "slicing") /\ UNCHANGED reply
    <2>1. PICK next \in text.boundary :
                   /\ Aligned(next, AtMost(scan.from + (ByteWindow - ByteOverlap), text.length))
                   /\ scan' = [scan EXCEPT !.done = @ \cup {Slice}, !.from = next]
      BY <1>12
    <2>2. next \in Int
      BY <1>3
    <2>3. scan'.done = scan.done \cup {Slice} /\ scan'.from = next
      BY <1>2, <2>1 DEF ScanType
    <2>4. scan' \in ScanType
      <3>1. scan.done \cup {Slice} \in SUBSET SliceType
        BY <1>5, <1>6
      <3>2. scan' = [from |-> next, upto |-> scan.upto, tokens |-> scan.tokens,
                     next |-> scan.next, chunks |-> scan.chunks, done |-> scan.done \cup {Slice}]
        BY <1>2, <2>1 DEF ScanType
      <3>3. scan.next \in Int
        BY <1>1, <1>5
      <3>4. QED BY <1>5, <2>2, <3>1, <3>2, <3>3 DEF ScanType
    <2>5. SlicesBehind(scan.from)'
      <3>1. ASSUME NEW a \in text.boundary, NEW b \in text.boundary,
                   a < b, b - a <= ByteOverlap + 1, a < next
            PROVE  b <= scan.upto
        <4>1. a \in Int /\ b \in Int /\ b <= text.length
          BY <1>3
        <4>2. a < AtMost(scan.from + (ByteWindow - ByteOverlap), text.length)
          <5>1. scan.from + (ByteWindow - ByteOverlap) \in Int
            BY <1>3, <1>5
          <5>2. AtMost(scan.from + (ByteWindow - ByteOverlap), text.length) \in Int
            BY <1>3, <5>1, MinMax
          <5>3. QED BY <2>1, <2>2, <3>1, <4>1, <5>2 DEF Aligned
        <4>3. QED BY <1>3, <1>5, <1>8, <3>1, <4>1, <4>2, SliceStep
      <3>2. QED BY <1>4, <1>7, <1>10, <2>3, <3>1 DEF SlicesBehind, Sliced
    <2>6. (\A s \in scan.done : SliceWhole(s))'
      <3>1. \A s \in scan'.done : SliceWhole(s)
        BY <1>8, <1>9, <2>3
      <3>2. QED BY <1>7, <3>1 DEF SliceWhole, Chunked
    <2>7. worker' = [worker EXCEPT !["single"] = "slicing"]
      BY <1>12 DEF Becomes
    <2>8. Scanned'
      BY <1>2, <1>4, <2>3, <2>5, <2>6, <2>7 DEF Scanned
    <2>9. NothingUnscanned'
      BY <1>2, <1>12 DEF NothingUnscanned
    <2>10. "slicing" \in WorkerState
      BY DEF WorkerState
    <2>11. QED BY <1>1, <1>2, <1>4, <1>12, <2>4, <2>8, <2>9, <2>10, EInvScans
  <1>13. QED BY <1>11, <1>12 DEF EndSlice

-----------------------------------------------------------------------------
(* The theorems. *)

LEMMA EInvNext == EInv /\ [EngineNext]_engineVars => EInv'
  <1> SUFFICES ASSUME EInv, [EngineNext]_engineVars PROVE EInv'
    OBVIOUS
  <1>1. CASE Preflight
    BY <1>1, EInvPreflight
  <1>2. CASE Close
    BY <1>2, EInvClose
  <1>3. CASE Caller
    BY <1>3, EInvSpawnFails, EInvRequest, EInvAwait DEF Caller
  <1>4. CASE Worker
    <2>1. CASE SingleWorker
      BY <2>1, EInvStartScan, EInvCutSlice, EInvRunChunk, EInvEndSlice DEF SingleWorker
    <2>2. CASE Extract
      BY <2>2, EInvExtract
    <2>3. CASE \E r \in Route : LoadExport(r) \/ ScanFails(r) \/ Panic(r) \/ Unwound(r)
      BY <2>3, EInvLoadExport, EInvScanFails, EInvPanic, EInvUnwound
    <2>4. QED BY <1>4, <2>1, <2>2, <2>3 DEF Worker
  <1>5. CASE \E e \in Export : Install(e)
    BY <1>5, EInvInstall
  <1>6. CASE \E t \in Text : Detect(t)
    BY <1>6, EInvDetect
  <1>7. CASE \E configured \in BOOLEAN, limit \in TokenLimit \cup {NoLimit},
                calls \in 0 .. MaxCalls : Open(configured, limit, calls)
    <2>1. 0 .. MaxCalls \subseteq Int
      BY Gliner2Assumption
    <2>2. QED BY <1>7, <2>1, EInvOpen
  <1>8. CASE UNCHANGED engineVars
    <2>1. SameScan /\ UNCHANGED <<call, route, reply, worker, queued, detector, export, ready,
                                  begun, outcome>>
      BY <1>8 DEF engineVars, SameScan
    <2>2. Scanned' /\ NothingUnscanned'
      BY <2>1, ScannedKept, CoverageKept DEF EInv
    <2>3. Typed' /\ OneCall' /\ Verdict'
      BY <2>1 DEF EInv, Typed, OneCall, Verdict, Unwrapped, SameScan
    <2>4. QED BY <2>2, <2>3 DEF EInv
  <1>9. QED BY <1>1, <1>2, <1>3, <1>4, <1>5, <1>6, <1>7, <1>8 DEF EngineNext, EngineStep

LEMMA EInvIsInvariant == EngineSpec => []EInv
  BY EInvInit, EInvNext, PTL DEF EngineSpec

(* Whatever the window, its overlap and the special tokens of the export, a  *)
(* scan that answers "ok" had every short enough stretch of characters, and  *)
(* run of tokens, whole in front of the model (byte_windows, token_windows). *)
THEOREM ScansLeaveNothingOut == EngineSpec => []NothingUnscanned
  <1>1. EInv => NothingUnscanned
    BY DEF EInv
  <1>2. QED BY EInvIsInvariant, <1>1, PTL

(* A call begun under a verdict of `doctor` that still holds never ends      *)
(* because the detector is unavailable or its export does not load: probe    *)
(* makes every check that detect and the load make (readiness.rs probe).     *)
THEOREM DoctorsVerdictHolds == EngineSpec => []DoctorAgrees
  <1>1. EInv => DoctorAgrees
    BY DEF EInv, Verdict, DoctorAgrees, Unwrapped
  <1>2. QED BY EInvIsInvariant, <1>1, PTL
=============================================================================
