# do-context-shield in TLA+

Specifications of do-context-shield, the local privacy engine in `src/`: what
its parts promise, checked by TLC on small instances and, where TLAPS reaches,
proved for every instance. Every definition is translated from the Rust source;
the comment above a property names the code it is about, and `PROJECT.json`
maps each definition to its lines.

    tlc -config vault_shared.cfg MCJsonVault      # one of the runs below
    tlapm JsonVaultProofs.tla                     # one of the proofs

## The system

Text goes through `Detector -> (Judge) -> Policy -> Transformer -> Vault`;
every call is recorded by an audit sink. The command line runs one call per
process, the MCP server one call per request on stdin. Several such processes
may share one vault file and one audit log: files and advisory locks are their
only communication. Nothing inside a process is concurrent except the helper
threads of a process plugin's call and the worker threads of the local model.

| Component (crate) | State it keeps | Operations | What makes it correct |
|---|---|---|---|
| JSON vault (`vault-json`) | one file of mappings and counters, its temporary file, a lock file, a parsed state per handle | `open*`, `with_ttl`, `encrypt_in_place`, `get_or_insert(_many)`, `resolve(_many)`, `delete_scope`, `expire` | atomic to all processes; nothing returned is lost; nothing forgotten comes back; encrypted stays encrypted |
| Memory vault (`vault-memory`) | a map | the same calls | the same contract in one process |
| Audit sink (`audit-file`) | the log, `<name>.1`, the identity of the file it opened | `open`, `record`, `verify`, `chain_tail` | one unbroken chain whoever appends; append only; bounds kept |
| Policies (`policy-default`, `policy-matrix`) | none | `plan` | strict where nothing is known; no input that should not matter loosens a decision |
| Pipeline (`privacy-core`) | none between calls | `inspect`, `sanitize`, `restore`, `forget`, `expire_vault` | what is planned away is not in the text; secrets are never stored; nothing unrecorded is returned; scopes stay apart |
| Transformers (`transformer-*`) | none | `transform` | spans replaced, the rest untouched |
| Process transformer (`plugin-process`) | what the child reported, per call | `transform` | a text somebody else wrote is returned only if its checks hold |
| Process plugins (`plugin-process`) | a child and two threads, per call | one call per capability | the call ends in time, reports failure as failure, leaves nothing running |
| MCP server (`mcp-server`) | pipeline, vault, default scope | frames, requests, four tools | whole frames; what is refused leaves no trace in the vault or the log |
| Command line, MCP startup, registry (`do-context-shield-cli`, `mcp-server`, `plugin-registry`) | what a run was started with and has built so far | load, validate, resolve, build, report | a repository that is the working directory decides nothing of trust; a key means encryption; the rules that are written two or three times agree |
| Local model (`detector-gliner2`) | per engine a worker thread, its channel, the export it loaded | `detect`, `probe` | every call comes back; nothing of a text is skipped; `doctor` tells the truth |
| Other detectors, judge | none | `detect`, `judge` | spans are validated by the pipeline |
| Canary | none | derive, verify | - |

What is hard to test in it: processes that interleave around a file lock and a
rename; crashes between a truncation and a rename; handles that go stale when
another process forgets, migrates or rotates; a lifetime that ends at an exact
second while the clock misbehaves; a rotation that changes which inode a path
means; deadlines racing a child's answer and its death; a worker thread that panics
under a waiting caller; an export directory that changes between a look and a
load; windows that move to character boundaries; settings that meet from four
layers after each was checked by itself; and combinations of plan, spans and
plugin answers nobody wrote down. `PROJECT.json` lists these
hazards line by line with the properties that watch them.

## Modules

| Module | Models | Checked by | Proved in |
|---|---|---|---|
| `ScopedVault` | the contract of the `Vault` trait: an atomic set of scoped aliases | as a property of `JsonVault` and of `MemoryVault` | `JsonVaultProofs`, `McpServerProofs` |
| `JsonVault` | `vault-json` | `vault_shared`, `vault_ttl_keys`, `vault_lapsing`, `vault_pre_ttl` | `JsonVaultProofs` |
| `AuditChain` | lines, chain, `verify`, `append_point` as operators | through `AuditFile` | `AuditFileProofs` |
| `AuditFile` | `audit-file/src/unix.rs` | `audit_rotation`, `audit_race` | `AuditFileProofs` |
| `Policy` | both policies | `program` | `PolicyProofs` |
| `PrivacyPipeline` | `privacy-core`, the three built-in transformers, the process transformer | `pipeline_plans`, `pipeline_shared` | `PrivacyPipelineProofs` |
| `LineStream` | what the MCP transport promises: whole lines, once, in order | as a property of `McpServer` | `McpServerProofs` |
| `MemoryVault` | `vault-memory` | through `McpServer` | `McpServerProofs` |
| `McpServer` | `mcp-server`: transport, validation, tools, over `MemoryVault` | `mcp` | `McpServerProofs` |
| `ProcessChild` | `plugin-process/src/protocol.rs` | `child`, `child_tree` | `ProcessChildProofs` |
| `Configuration` | the layers of settings, their rules, the vault a selection names, what each stage needs, the `config` report, as functions | through `Invocation` | - |
| `Invocation` | one run of the program: `main`, the builders of `pipeline.rs`, `run_stdio` up to its loop | through `Program` | `InvocationProofs` |
| `Gliner2` | `detector-gliner2`: routing, the workers, the scan by windows, the probe | through `Program` | `Gliner2Proofs` |
| `Program` | a run with the policy and the detector it configured | `program` | - |

The `MC*` modules only define what a `.cfg` cannot write: the instances of the
constants and the symmetry sets. The operators commented "Mistake:" are slips a
maintainer could make; no action uses them. Each property was seen to fail with
one of them in the place of the definition it imitates (`PROJECT.json`,
"mutants").

### ScopedVault and JsonVault

`ScopedVault` has one variable, the set of mappings (scope, kind, original,
token). A call stores all its new mappings in one step under tokens never used
before, or none; it forgets a scope in one step; mappings may lapse where a TTL
is configured. `resolve` is a function of that set.

`JsonVault` breaks every call where another process can come between: opening
the lock file and taking the lock (`LockExclusive`, `LockShared`), reloading the
file and stamping its undated records (`Reload`), purging what has expired and
what the call then does with the rest (`PurgeToInsert`, `PurgeToDelete`,
`PurgeToExpire`), inserting each item in memory (`Insert`), truncating
the temporary file (`CreateTmp`), filling it (`FillTmp`), renaming it
(`RenameTmp`), dropping the lock and assigning the handle's state
(`KeepHandle`). `Fail` is any error path at any of those steps, `Crash` a dead
process: its lock is freed and its temporary file stays. The file is a record of
a format (plaintext, or a key), a state, and whether it is whole. A token is a
kind as spelt in capitals, a number and an entropy; `vault_ttl_keys` gives one
entropy only, so that the counters alone must keep tokens apart, while
`vault_shared` gives two. Records carry `created_at` or none, and the age rule
(`saturating_sub`, `>=`) is the code's. A reap reads the clock twice, to stamp and
to purge, and a read of many mappings once for each: every reading may fail
alone, and between any two of them the clock may move on or be set back (`Tick`).
So with a TTL of one second a mapping without a timestamp can be stamped and purged
by one call, although `vault.rs:28` says that nothing is deleted "before a full
TTL elapsed". `AckedSurvives` says what does hold: `lapsed` is what the purge may
take, a mapping being measured from when it was written or, undated, from the
stamp of that same call.

`AtomicVault` is the refinement: the mappings in the file under its name (`Live`,
expired ones included until a reap drops them) are the abstract set, and every
step maps to a step of `ScopedVault` or a stutter. That a mapping is dropped no
later than at its TTL is therefore not part of it.

### AuditChain and AuditFile

A log is a sequence of lines; a line is an envelope (index, previous hash,
event, hash), a bare event of format version 1, or junk. The hash of a line is
the line itself: SHA-256 is taken to be injective. `Verify` and `Extendable` are
the scan of `chain.rs`.

`AuditFile` has a directory from the two names to inodes, the inodes, a lock per
inode, and per process a sink that remembers the inode it opened. `record` is
`Lock`, `Check` (identity of the path, tail, rotation test), then either
`Append1` or `Rotate`, `CreateFresh`, `WriteFresh`, then `Sync` and the release
of the lock. A write may end after part of a line. An inode may be reused once
no name and no descriptor refers to it. `OpensRace` says whether other sinks may
be opened between the rename of a rotation and the lock of its fresh file;
`Recycling` whether a new file may get the number of a deleted one that a sink
still remembers, which a filesystem is free to do.

### Policy

Two deterministic functions of kind, judgment and context. A behaviour asks one
query of both and remembers the answers, so that the properties, which compare
answers of several queries, quantify over everything in one state. Who asks, and
in which context, is `Program`'s matter.

### Configuration and Invocation

A layer (flags, environment, a file) is a function from settings to values, with
`Unset` for what it leaves alone. `Discovered` is the choice of one file,
`Merged` puts the environment over it, `Valid` is `validate` of the result,
`Heard` says on which settings a file of which origin is listened to, `Resolve`
puts the flags on top and the defaults under it. `VaultKind`, `OneShotVault` and
`McpVault` are the rules of which vault a selection names, as each place writes
them; `Explain` is the report, which works out the layers a second time.
`Invocation` is the order of it: `Load`, `ResolveSettings`, then one stage of
`StagesOf` after another (`OpenAudit`, `OpenVault`, `Construct`), each of which
may fail and end the run (`Refuse`), then `Start`, or `Report` for `config`. A
stage that was built stays built when a later one fails: the audit file exists
then. Paths lead to places (`Canonical`), and the audit file is kept from the
vault's places (`Aliases`); places do not change during a run.

### Gliner2

Two threads per engine. `Detect` routes a call by what the export directory
holds at that moment, `Request` sends it to a worker that may not exist yet, may
have panicked, or may be unwinding with its channel still open; `Await` takes
the reply. The worker loads the export on its first request (`LoadExport`) and
scans: `CutSlice` cuts the next window of bytes at a character boundary and
turns it into any number of tokens, `RunChunk` takes the next window of tokens,
`EndSlice` moves on. `ScanFails` and `Panic` may happen at each of these steps,
`Install` replaces the export at any time, `Preflight` is `doctor`. A token
carries the gap before it, and what the model says of a chunk is left out.
The probe and the worker load an export by separate code: `ProbeLoads` is what
the probe tries, `Loads` adds what only the worker of a single file does, to
tokenize the special tokens (`wraps`).

### Program

`Program` composes the two with `Policy`: the run's matrix and context are what a
policy is asked with (`BeginCall`; a call of the server overrides the context
field by field), the run's model directory and limit are what the detector is
opened with (`OpenDetector`). The crates are also a library, whose callers ask
in any context (`LibraryInit`), so that the comparisons of decisions cover more
than the program's own defaults.

### PrivacyPipeline

A text is a sequence of atoms (values or placeholders); an entity is a span of
it. A client runs one call at a time: `Sanitize` takes any detector's report and
validates it (spans, overlap resolution), `Decide` takes any answer of a policy
and validates it, `Store` calls the vault, `Transform` walks the spans and
checks the result, then the event is recorded (`Record`) and the caller is told
(`Return`), two steps between which a process may die. A block takes the same
two. `Restore`, which is given texts the pipeline returned, in whatever scope,
`Forget` and `Lapse` are the other calls. Every error ends in `Fail`.

The vault here is a set of mappings with the operations of `ScopedVault`, and it
promises more: a token that was minted in any scope is never minted again, in
that one or another (`Used`), where `ScopedVault` keeps tokens apart within a
scope only. The 64 random bits of a token stand for that; `OpensInItsScopeOnly`
needs it.

`RemovedIsGone` is about the detector's report as it came, before
`resolve_overlaps`. A secret reported inside an entity that is kept, or over the
same span as one that goes first, is dropped there, and its value is returned with
the entity that took its place. `TookItsPlace` allows this and nothing else, so that an
overlap test that drops an entity which overlaps nothing is found.

With a process transformer the child may store mappings in the shared vault
(`ChildStores`) and answers with any of `Rewrites` and any placeholders
(`ChildReplies`, which keeps what `validate_mappings` and `validate_text` let
pass). Each reported mapping is then looked up by a call of its own
(`VerifyMapping`), between which other clients forget, and the pipeline checks
the text once more (`AcceptReply`).

### ProcessChild

One call of a process plugin. The driver is `run_child` with the waits of
`settle`, `reap_bounded` and `finish_threads` as program points with deadlines;
the two helper threads are `WriteRequest` and `ReadLine`. The child and what it
starts are an arbitrary environment: any of them reads, writes, closes a pipe,
forks, leaves the process group, exits with success or failure, or hangs; a
killed process may take for ever to die. `Tick` advances a clock only up to the
deadline the driver polls for: the driver polls every 2 ms, well below a tick.

### MemoryVault, LineStream and McpServer

`MemoryVault` gives each call of the in-process vault as an operator at one
reading of its clock; an entry's age is measured when it is looked up, so
mappings lapse whether or not anybody calls `expire`. `McpServer` extends it
with the one thread that calls it. `ReadFrame(n)` is one `fill_buf` of
`read_frame` that finds `n` bytes: the frame ends at its newline, or at one byte
over the limit, wherever the chunks are cut. A line that is text then turns out
to be any of `Requests`, a request together with the faults that validation
looks for (`Parse`). It goes through the stages of the code, in their order, each
of which may answer: `validate_request` (`RefuseEnvelope`, `Ignore`,
`RefuseParams`), the method (`RefuseMethod`, `Describe`, `ToolCall`), the tool
(`RefuseTool`), its arguments (`RefuseArguments`), and only then what the tool
does. `EnvelopeError` and `ParamsError` say with which code and id. A
tool is a few steps: expiry (`SanitizeExpire`), then the aliases one by one (the
trait's default `get_or_insert_many`), a failure at any of them, then the event and
the answer (`Record`); `Restore` and `Forget` call the vault before the event is
recorded. What the pipeline does in between is `PrivacyPipeline`'s matter.

`RefusalsWriteNothing` watches the vault's mappings and counters and the log, at
every step from the parsing of a line to its answer, whichever check refuses it.
What may write is taken from the catalogue that clients are shown
(`ToolName::schema`: `Takes`, `NeedsSession`, `ReadOnly`) and not from the checks;
so a check that is missing for what the catalogue has a tool take is found as well
as one in the wrong place. The catalogue has `session` required for a sanitize
too, where the code falls back to the scope "default" for older clients
(`handle.rs:85`); `NeedsSession` leaves that one out. `TransportContract` maps the
half-read buffer and the pipe to the unread bytes of `LineStream`;
`MemoryContract` maps the unexpired entries to `ScopedVault`.

## Runs

| Run | Instance | Shows |
|---|---|---|
| `vault_shared` | 2 processes, 2 scopes, 2 kinds that tokens spell alike, 2 values, 2 entropies, inserts of one value, of two values and of one value in two kinds, 6 calls | no read sees what was forgotten before it began (`ReadsSeeForget`); the file is an atomic vault (`AtomicVault`) |
| `vault_ttl_keys` | 2 processes, 2 keys, a legacy plaintext file, TTL 1 on some handles, a clock that may fail or be set back, 1 entropy, 4 calls | nothing returned is lost (`AckedSurvives`); never a torn vault (`MainNeverTorn`), no plaintext beside an encrypted vault (`NoPlaintextBeside`), a token names one value, a value has one alias |
| `vault_lapsing` | 2 processes, legacy records, TTL 1, a clock that may fail or be set back, 2 entropies, 4 calls, fairness | the lock is released (`LockIsReleased`); the vault with lapsing mappings is still atomic |
| `vault_pre_ttl` | as above | finding 1 |
| `audit_rotation` | 2 processes, 3 inodes, 4 events of 2 lengths, no bound, a bound on records, a bound on bytes | the chain of both files verifies, acknowledged records are there once, files only grow, a write goes to the file at the path, bounds hold, and the log moves only for a record that would break one (`RotatesForRoom`); neither `OpensRace` nor `Recycling` |
| `audit_race` | the same with both | finding 2 |
| `program` | every flag, variable and file that names a recipient, a vault, its file, key and lifetime, a process plugin and its command, an audit file or a model, alone and together (14 000 runs); configuration files that are broken, misspelt or say too much; 6 matrices; 3 texts of 0, 5 and 7 bytes with characters of one to three bytes, windows of 2 to 5 bytes and 1 to 5 tokens, 9 exports (one that only the worker finds unusable), one change of the export, 2 calls | a repository has no say (`RepositoryHasNoSay`), a key means an encrypted vault (`KeyMeansEncrypted`), the surfaces agree on the vault (`SurfacesAgree`), the report tells what resolve does (`ReportNamesTheLayer`); four comparisons of decisions; a scan leaves nothing out (`NothingUnscanned`), `doctor` agrees with `detect` (`DoctorAgrees`), a call of the detector returns (`DetectReturns`) |
| `pipeline_plans` | one call; every report of at most two spans, two of three, three invalid; every policy answer; the 3 built-in transformers, and a child that answers with any text of up to three atoms | what was reported is gone unless it is kept or gave way (`RemovedIsGone`), the rest is untouched, no secret is stored, a block is the end |
| `pipeline_shared` | 2 clients, 2 scopes, 3 tokens, 3 calls, the pseudonymizer or a child that names any placeholder, lapsing, errors and deaths | nobody is told what the log does not tell of (`NothingUnrecorded`), a token opens in its scope only |
| `child` | a child and a descendant, timeout 2, grace 1, tree wait 1, fairness | the call ends, in bounded time, failures are failures, lingerers are killed, nothing else is |
| `child_tree` | the same, timeout 1 | finding 3 |
| `mcp` | 2 scopes, 2 values, TTL 1, lines of one byte at most, 5 bytes of three sorts, every request with at most one fault, both tool sets | what is refused, at whatever stage, changes neither vault nor log (`RefusalsWriteNothing`), whole lines in order (`TransportContract`), the memory vault keeps the contract (`MemoryContract`) |

Bounds. Two processes are what a lock, a rename or a stale handle needs to go
wrong; the number of calls (`MaxOps`, `MaxCalls`) lets each of them write twice
and be read after a forget or a migration. Two scopes, kinds and values
distinguish "this one" from "another". Three inodes let two rotations happen and a
freed inode be reused: no more than three are ever alive at once, and a fourth
adds no state. Five bytes are two calls and a cut frame, or a frame over the limit
with what follows it. Seven bytes are up to six windows of bytes, and
`OverlapPart` is 2 where the code has 8, so that windows this small still overlap;
the proof covers any. Settings meet pairwise, the four of a vault all together: a
rule of the code never looks at more. A second descendant in `ProcessChild` would
behave as the first does; the proofs cover any number. The mutants are the
measure: each property fails within the same bounds once the code is wrong.

Fairness. `vault_lapsing` assumes that the process that holds the lock goes on, by
a step or by an error: an operating system schedules it, and every step between
lock and unlock is file I/O without waiting. Nothing is assumed of those that
wait. `child` assumes only that the driver's own thread runs and that time passes:
nothing of the plugin, nor of the helper threads. `program` assumes that the
thread that calls the model detector runs and that a worker goes on, that is, that
tokenization and inference come to an end in one way or another; the code waits
for the reply without a timeout, so it relies on that too. `CHECK_DEADLOCK FALSE`
stands where the calls of a behaviour are used up or have returned.

## Findings

1. `vault_pre_ttl`: the docs say a record written before a TTL was configured
   keeps resolving until the first locked write stamps it. Handles without a TTL
   stamp their records too, so that write may purge them at once.
2. `audit_race`: a rotation renames the log, creates the fresh file, and then
   locks it, writing at offset 0. A sink opened in that window appends first, and
   its record is overwritten. A sink that was open before does the same when the
   fresh file got the inode number of its own file, deleted by an earlier
   rotation: identity is that number, and no descriptor is kept between calls.
   With `OpensRace = FALSE` and `Recycling = TRUE` TLC finds this second way.
3. `child_tree`: a child that answers and exits is not followed by a termination
   of its group, against "leave no process behind".

Seen beside these: `protocol.rs:19` and `docs/process-plugin.md` bound a call by
timeout, grace and one tree wait; the code waits for up to two, one for the
status of a child that will not die, one for a thread whose pipe somebody holds.
`CallIsBounded` states, and the proof shows, the code's bound. A lifetime of zero
is accepted everywhere (`vault-json/src/tests/ttl.rs:109`); with it the memory
vault hands out aliases that have lapsed when they are told, so that
`MemoryContract` is about any other. `transformer.rs:7`
and `plugin-process/src/lib.rs:34` say that every placeholder the child emits must
resolve to what it claims; the code looks up those the child reports as mappings,
so that a text may carry a placeholder it did not report, of another scope or of
none. `OpensInItsScopeOnly` says what holds of the others. Of the configuration:
- `docs/configuration.md:208` has a JSON vault without a file not fail `inspect`;
  `main` validates the whole configuration first, so it does (`Valid` before
  `StagesOf`).
- `docs/configuration.md:122` requires the matrix policy to be selected beside a
  `[policy_matrix]`; with no policy in the file, or another one from a flag, the
  section is accepted and unused (`MatrixSelected`).
- The `config` report credits a file with a `*_command` that `resolve` does not
  hear from that file (`FileSupplies`; `ReportNamesTheLayer` leaves these out).
- `SurfacesAgree` has one exception: a lifetime beside `--vault process` is
  refused by the server and ignored by a one-shot command; a one-shot memory
  vault ignores it too, having no time to lapse.
- `mcp-server/src/lib.rs:217` says a lifetime is for the memory vault only; the
  JSON vault takes it.
- The audit file is kept from the vault's file, lock, temporary file and key, but
  its rotated name `<name>.1` is not.

Of the detectors:
- `detector-hybrid/src/lib.rs:50` says the secondary half reimplements
  `resolve_overlaps`; of three spans of rising length, each overlapping the next
  only, it keeps the last alone, where that function keeps the first too.
- A value longer than the overlap of two windows may be reported in part.
- `fragments.rs:177` takes `char_start` for a byte offset.
- After one panic a detector fails every later call: the worker is not spawned
  again.
- `docs/client-integration.md:35` has `doctor` exit 0 only when the export really
  loads. For a single-file export the worker also tokenizes an empty text for its
  special tokens (`onnx.rs:171`) and fails when it cannot; the probe
  (`onnx.rs:222`) does not try. `DoctorAgrees` leaves this case out; without the
  exception TLC finds a call that ends unloaded under a ready verdict.

Of the canary: `sanitize` prints the text before it reads the canary key, so a bad
key fails after the output; `verify_canary` looks at the first marker only.

## Proofs

All are by an inductive invariant: a first lemma shows that `Init` gives it, a
second takes the actions one by one, and each theorem is then a consequence.

| Module | Theorems | Inductive invariant |
|---|---|---|
| `JsonVaultProofs` | `TypeCorrect`, `SavesAreAtomic`, `NoPlaintextLeft`, `EncryptedForGood`, `NothingReturnedIsLost`, `AValueHasOneAlias`, `ATokenNamesOneValue`; with `FreshEntropy`: `ReadsNeverSeeForgotten`, `TheFileIsAnAtomicVault` | `DiskInv`: types; only the holder of the lock is past it (`Alone`); a handle that got past the load has the file's format (`SameFormat`); the main file is whole; no plaintext beside an encrypted vault. `AckInv` adds that what a call has read of the file is still there while it holds the lock, so that what it writes back contains everything returned so far, except what its own purge found a TTL past its stamp. `AliasInv`: one mapping per value in the file and in every copy being saved. `TokenInv`: the counters of the file are no less than any number issued since its scope was forgotten, those of a copy no less than any number it adds. `FreshInv`: what a copy adds was never issued before, is of the call's scope and in its answer. With these each rename is the one step of the abstract call, an expiry is a lapse, and every other step is unseen |
| `PolicyProofs` | `TypeCorrect`, `UnconfiguredIsNotLooser`, `SpecialDataStaysAdequate`, `NoJudgeReleases`, `DistrustLoosensNothing` | each answer is the decision of its query; the rest are facts about the functions, for lists of purpose rules of any length (the first matching rule exists by well-foundedness of `<`) |
| `PrivacyPipelineProofs` | `NothingRemovedIsReturned`, `NoSecretReachesTheVault`, `ABlockEndsTheCall`, `NothingIsReturnedUnrecorded`, `WhatIsNotPlannedSurvives`, `TokensOpenInTheirScopeOnly` | `IInv`: what is known of a call at each of its points: the report validated, the plan validated against it, the text checked, whoever wrote it; for each event, the callers told of it and those about to be are no more than the log has. `Issued`: no token was ever made twice, and a value has one alias. `TextInv`: the plan is about spans of the text; every mapping a call holds was in the vault of its scope once; the text it returns is the walk over its plan, or names the mappings its child reported. What a restore makes of such a text is then a fact about the fold that joins it: `SubWalk` takes a replacement of atoms into the walk, `WalkShown` takes the walk apart into what the plan hides and the rest |
| `ProcessChildProofs` | `TypeCorrect`, `CallsAreBounded`, `FailuresAreReported`, `LingerersAreKilled`, `SignalsStayInTheTree` | `Clock`: which deadline each point may have; `Course`: what the status and the history say at each point; `Contained`: after a termination every living member of the group is doomed, and a doomed process forks no more |
| `AuditFileProofs` | `SinksWriteTheirFile`; without `OpensRace` and `Recycling`: `ChainStaysUnbroken`, `NamedFilesOnlyGrow`, `EveryRecordOnce`, `RetentionIsKept`, `LogsMoveForRoom` | `LockInv`: a process past its check holds the lock of the file its descriptor is of, and the path still names it. `WindowInv`: one process at most is between its rename and its first write, and nobody else has that fresh file. `ContentInv`: each file is a chain, a version-1 log or empty, up to a torn end, and a line about to be written is the successor of the tail of its file. `EventInv`: an event is offered once, in the hands of one process or in one line |
| `McpServerProofs` | `NothingRefusedWrites`, `MemoryKeepsTheContract` (lifetime not zero), `TransportKeepsTheContract` | `TypeOK`: what is known of the request in hand at each stage of its checks, so that one whose tool runs has everything the catalogue asks for. `VaultInv`: everything in the map was issued under a token of its own, and a value has one entry. `StreamInv`: what has been read of a line has no newline in it and is within the limit |
| `InvocationProofs` | `TheRepositoryHasNoSay`, `AKeyMeansEncrypted`, `TheSurfacesAgree`, `TheReportNamesTheLayer` | what a run has at each phase: the configuration is the merged one and valid, the settings are those that resolve from it, a vault that was built is the selected one and opened at the disk as it is, every command line to be run is the resolved one of its stage; the facts about layers are lemmas on `Picked` and `Heard` |
| `Gliner2Proofs` | `ScansLeaveNothingOut`, `DoctorsVerdictHolds` | `EInv`: one call at a time owns the worker that answers it (`OneCall`); a call begun under a verdict finds that export at the worker, loaded or loadable (`Verdict`); every stretch that begins before the current slice is in a slice already done, every run of tokens that begins before the next chunk in a chunk already run (`Scanned`), which the step of a window keeps because it is at least one and at most the window less its overlap |

Assumptions are those the modules name: bounds are natural numbers, "no value" is
outside the values, ordered types have their order (`VaultAssumption`,
`NoFileAssumption`, `LengthAssumption`, `AuditAssumption`, `PolicyAssumption`,
`PipelineAssumption`, `AtomAssumption`, `ChildAssumption`,
`ConfigurationAssumption`, `InvocationAssumption`, `Gliner2Assumption`,
`MemoryAssumption`, `ServerAssumption`). TLC evaluates them in every run.
`AtomAssumption` tells the atoms of a text apart: a marker is no character, and
what a vault mints is neither a character nor the marker of a redaction, a mask or
a kind. Minted tokens end in 64 random bits (`mint_placeholder`): a kind may be
spelt like one, but a vault would have to draw just those bits. Two theorems on
the pipeline rest on it, `WhatIsNotPlannedSurvives` and
`TokensOpenInTheirScopeOnly`. The texts that are sanitized are characters only
(`PipelineAssumption`): a placeholder a caller puts into one is outside the model.
That the pipeline's vault never makes a token twice, in any scope, is part of that
model (`Used`) and proved of no vault here: `TheFileIsAnAtomicVault` shows it of
the JSON vault within a scope, under `FreshEntropy`. Eight theorems say in their
statements what more they need:
- `FreshEntropy` (two on the JSON vault): a token that is made was never made
  before. The code draws 64 random bits for each and looks for no collision
  (`plugin-api/src/placeholder.rs:93`); with a repeated suffix a number that a
  forget set back would make an old token again, and an old text would show a new
  value. `ATokenNamesOneValue` and `NothingReturnedIsLost` need no such thing.
- no `OpensRace` and no `Recycling` (five on the audit log): finding 2 shows that
  the code needs both.
- a lifetime other than zero (`MemoryKeepsTheContract`).

Two things the proofs brought to light were wrong in the specification and not in the
code: a batch of one value in two kinds that are spelt alike could make one token
twice although suffixes were said to be fresh (`Mintable` left the working copy
out), and no run had such a batch; and recycled inode numbers, which are finding 2.

Every safety property of the passing runs is proved. Only model-checked: liveness
(`LockIsReleased`, `CallReturns`, `DetectReturns`), which needs fairness and
`ENABLED`, beyond the prover. Induction over data, which the library states with
an operator parameter, is done by least counterexample instead (`Induct`,
`SeqInduct` in `PrivacyPipelineProofs`): a set of numbers or sequences that has
the first and the successor of each member has them all. With it the fold
`FlattenSeq` is shown to join sequences of any length; no `RECURSIVE` operator is
used.

## Not modelled

Power loss and the syncing of directories (crashes are of processes, what the
kernel has it keeps); permissions, ownership and links of files; the bytes of JSON
and of ciphertexts; an error of stdin itself; the texts of errors and reports and
the scrubbing of values from errors; regular expressions, the neural model and the
judge's heuristics, whose outputs are arbitrary inputs here; the decoding of what
the model says into spans, and hybrid's merge of two reports; concurrent callers
of one detector and a poisoned lock of its engine, which the program never has;
the creation of lock files and directories; links and places that change while a
run starts; `verify-canary` and the canary, a function of bytes; Windows job
objects. The scan of `restore` for placeholders is one atom here.

## Plan

Done, in this order: the vault and its contract, the audit log, the policies,
the pipeline, the process driver, the MCP server with its memory vault, the
configuration and start of a run, the local model detector, and their
composition. What could follow:

1. The other process capabilities: a process vault under the pipeline, whose
   child may issue any token (`plugin-process/src/vault.rs`), and the replies of
   a process policy, detector and judge as they are before their checks. A run
   for the unreported placeholder above.
2. The placeholder scan of `restore`, and the hybrid detector's merge, as
   functions checked against a reference definition.
3. Damage and detection in `AuditChain`: which edits of a log `verify` and an
   expected head detect; the verdicts of `report.rs`.
4. Proofs: that the program's run composes its parts as their modules say, for
   any configuration; what `AuditChain` promises of a log as a theorem of its own.
