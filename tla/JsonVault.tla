------------------------------ MODULE JsonVault ------------------------------
(***************************************************************************)
(* The file-backed vault of crates/vault-json: one JSON file holding the   *)
(* mappings of every scope and the counters tokens are minted from, shared *)
(* by any number of processes (CLI invocations, MCP servers).              *)
(*                                                                         *)
(* A process opens a handle (a format and a TTL), and every call of the    *)
(* Vault trait is broken into the steps other processes can interleave     *)
(* with: taking the advisory lock on `<path>.lock`, reading the file,      *)
(* minting tokens, truncating and filling `<path>.tmp`, renaming it over   *)
(* the file, unlocking and returning.  A process may crash between any two *)
(* steps, and any fallible step may return an error.                       *)
(*                                                                         *)
(* Strings are abstracted: a scope, a kind and an original are opaque, a   *)
(* token is the triple its text encodes, JSON is the record it holds.      *)
(***************************************************************************)
EXTENDS Integers, FiniteSets, Sequences

CONSTANTS
  Process,      \* the operating-system processes that share the vault file
  Scope, Kind,  \* ScopeId, and the kind of a detected entity
  Upper,        \* Upper[k] is how tokens spell the kind k: in capitals
  Original,     \* the values the vault hides
  Entropy,      \* the random suffix of a token (64 bits in the code)
  Key,          \* at-rest encryption keys (VaultKey)
  TTLs,         \* the lifetimes a handle may be configured with
  Batches,      \* the item lists callers pass: sequences over Kind \X Original
  LegacyFile,   \* TRUE: the file may predate entropy-bearing tokens
  FreshEntropy, \* TRUE: the random suffix never makes a token there was before
  ClockMayFail, \* TRUE: the system clock may read before the epoch
  MaxNow,       \* bound: the clock shows at most this
  MaxOps,       \* bound: calls (including opens) started in a behaviour
  Plain,        \* Format::Plaintext
  NoFile, NoTTL, NoTime, NoScope

ASSUME VaultAssumption ==
  /\ NoTTL \notin Nat /\ NoTime \notin Nat
  /\ TTLs \subseteq Nat /\ MaxNow \in Nat /\ MaxOps \in Nat
  /\ Plain \notin Key /\ Upper \in [Kind -> Kind]
  /\ Batches \subseteq Seq(Kind \X Original)
  /\ LegacyFile \in BOOLEAN /\ FreshEntropy \in BOOLEAN /\ ClockMayFail \in BOOLEAN

(***************************************************************************)
(* Data.  A token with n = 0 is one that is_minted_placeholder_token       *)
(* rejects: an alias of an older release, without entropy.                 *)
(***************************************************************************)
Token  == [kind : Kind, n : Nat, e : Entropy]
Mapping == [scope : Scope, kind : Kind, original : Original, token : Token]
Record == [scope : Scope, kind : Kind, original : Original, token : Token,
           created_at : Nat \cup {NoTime}]
State  == [mappings : SUBSET Record, counters : [Scope \X Kind -> Nat]]
Format == {Plain} \cup Key
File   == [format : Format, whole : BOOLEAN, state : State]
Handle == [format : Format, ttl : TTLs \cup {NoTTL}]
Call   ==
  [op : {"get_or_insert_many", "delete_scope", "resolve_many"},
   scope : Scope, items : Seq(Kind \X Original)] \cup
  [op : {"open", "encrypt_in_place", "expire", "none"}, scope : {NoScope}, items : {<<>>}]

NoCall == [op |-> "none", scope |-> NoScope, items |-> <<>>]
NoHandle == [format |-> Plain, ttl |-> NoTTL]
EmptyState == [mappings |-> {}, counters |-> [c \in Scope \X Kind |-> 0]]
Minted(r) == r.token.n > 0
Bare(r)   == [scope |-> r.scope, kind |-> r.kind, original |-> r.original, token |-> r.token]

ASSUME NoFileAssumption == NoFile \notin File

InScope(s, R) == {r \in R : r.scope = s}

VARIABLES
  main,     \* the vault file, or NoFile
  tmp,      \* `<path>.tmp`, or NoFile
  lock,     \* what each process holds of the advisory lock
  pc,       \* where each process is
  handle,   \* the open JsonVault of each process (format and TTL)
  call,     \* the call each process is executing
  work,     \* JsonVault.state: the working copy, stale unless reloaded under the lock
  out,      \* the mappings each process's call is about to return
  now,      \* the system clock, which may be set back
  ops       \* calls started (bound)

VARIABLES   \* history, read by properties only
  issued,    \* minted mappings ever stored, since the last forget of their scope
  forgotten, \* minted mappings that were stored when their scope was forgotten
  acked,     \* mappings returned to a caller and owed to it
  stamped,   \* what each process's reap read from the clock when it stamped records
  lapsed,    \* mappings whose lifetime was over when each process's reap purged
  untimed    \* stored mappings written without a TTL, not yet rewritten under one

disk    == <<main, tmp>>
procs   == <<lock, pc, handle, call, work, out>>
reaps   == <<stamped, lapsed>>
history == <<issued, forgotten, acked, untimed>>
vars    == <<disk, procs, now, ops, history, reaps>>

Stored(f) == IF f = NoFile THEN {} ELSE f.state.mappings
Resolving(R) == {Bare(r) : r \in {x \in R : Minted(x)}}
Live == Resolving(Stored(main))

(***************************************************************************)
(* Files of older releases: one record whose token carries no entropy,     *)
(* with no timestamp.                                                      *)
(***************************************************************************)
LegacyState(s, k, o, e) ==
  [mappings |-> {[scope |-> s, kind |-> k, original |-> o, created_at |-> NoTime,
                  token |-> [kind |-> Upper[k], n |-> 0, e |-> e]]},
   counters |-> [c \in Scope \X Kind |-> IF c = <<s, k>> THEN 1 ELSE 0]]

Init ==
  /\ \/ main = NoFile
     \/ /\ LegacyFile
        /\ \E s \in Scope, k \in Kind, o \in Original, e \in Entropy :
             main = [format |-> Plain, whole |-> TRUE, state |-> LegacyState(s, k, o, e)]
  /\ tmp = NoFile
  /\ lock = [p \in Process |-> "free"]
  /\ pc = [p \in Process |-> "closed"]
  /\ handle = [p \in Process |-> NoHandle]
  /\ call = [p \in Process |-> NoCall]
  /\ work = [p \in Process |-> EmptyState]
  /\ out = [p \in Process |-> {}]
  /\ now = 0 /\ ops = 0
  /\ issued = {} /\ forgotten = {} /\ acked = {} /\ untimed = {}
  /\ stamped = [p \in Process |-> NoTime] /\ lapsed = [p \in Process |-> {}]

-----------------------------------------------------------------------------
(* Starting a call. *)

Transition(p, from, to) == pc[p] = from /\ pc' = [pc EXCEPT ![p] = to]

\* JsonVault::open, open_encrypted or open_with_key_file, then with_ttl.
Open(p, h) ==
  /\ Transition(p, "closed", "want_shared")
  /\ ops < MaxOps /\ ops' = ops + 1
  /\ handle' = [handle EXCEPT ![p] = h]
  /\ call' = [call EXCEPT ![p] = [NoCall EXCEPT !.op = "open"]]
  /\ UNCHANGED <<disk, lock, work, out, now, history, reaps>>

\* JsonVault::encrypt_in_place: `encrypt-vault`, run without an open handle.
EncryptInPlace(p, k) ==
  /\ Transition(p, "closed", "want_exclusive")
  /\ ops < MaxOps /\ ops' = ops + 1
  /\ handle' = [handle EXCEPT ![p] = [format |-> k, ttl |-> NoTTL]]
  /\ call' = [call EXCEPT ![p] = [NoCall EXCEPT !.op = "encrypt_in_place"]]
  /\ UNCHANGED <<disk, lock, work, out, now, history, reaps>>

Begin(p, op, s, items, to) ==
  /\ Transition(p, "idle", to)
  /\ ops < MaxOps /\ ops' = ops + 1
  /\ call' = [call EXCEPT ![p] = [op |-> op, scope |-> s, items |-> items]]
  /\ UNCHANGED <<disk, lock, handle, work, out, now, history, reaps>>

\* Vault::get_or_insert is the batch of one item.
GetOrInsertMany(p, s, items) == Begin(p, "get_or_insert_many", s, items, "want_exclusive")
DeleteScope(p, s)  == Begin(p, "delete_scope", s, <<>>, "want_exclusive")
ResolveMany(p, s)  == Begin(p, "resolve_many", s, <<>>, "want_shared")
\* Without a TTL `expire` returns before it takes the lock.
Expire(p) == handle[p].ttl # NoTTL /\ Begin(p, "expire", NoScope, <<>>, "want_exclusive")

-----------------------------------------------------------------------------
(* The advisory lock (flock on the lock file, freed by the OS on a crash). *)

LockExclusive(p) ==
  /\ Transition(p, "want_exclusive", "reload")
  /\ \A q \in Process : lock[q] = "free"
  /\ lock' = [lock EXCEPT ![p] = "exclusive"]
  /\ UNCHANGED <<disk, handle, call, work, out, now, ops, history, reaps>>

LockShared(p) ==
  /\ Transition(p, "want_shared", "read")
  /\ \A q \in Process : lock[q] # "exclusive"
  /\ lock' = [lock EXCEPT ![p] = "shared"]
  /\ UNCHANGED <<disk, handle, call, work, out, now, ops, history, reaps>>

-----------------------------------------------------------------------------
(* Loading. *)

\* Mistake: parse whatever the file holds, an envelope included.
LoadAnyFormat(p) == main # NoFile => main.whole

\* Decryption fails on a plain or torn file and on any other key, so that each
\* key is a format of its own.
Opens(f, format) == f.whole /\ f.format = format

\* load_state accepts a missing file, or a whole one in the handle's format.
Loadable(p) == main # NoFile => Opens(main, handle[p].format)
Loaded == IF main = NoFile THEN EmptyState ELSE main.state

\* encrypt_in_place reads the file itself and refuses anything but plaintext.
Migratable == main # NoFile /\ main.whole /\ main.format = Plain

Readings == {now} \cup (IF ClockMayFail THEN {NoTime} ELSE {})
Monus(a, b) == IF a >= b THEN a - b ELSE 0

Expired(r, ttl, t) ==
  /\ ttl # NoTTL /\ t # NoTime /\ r.created_at # NoTime
  /\ Monus(t, r.created_at) >= ttl

Stamp(r, t) == IF r.created_at = NoTime THEN [r EXCEPT !.created_at = t] ELSE r

\* reap_locked reads the clock twice, and either reading may fail: with the first
\* it stamps the undated records, with the second it drops the expired ones.
\* Without a TTL it does neither.  The counters stay.
Stamped(R, ttl, t) == IF ttl = NoTTL THEN R ELSE {Stamp(r, t) : r \in R}

\* Mistake: a record without a timestamp counts as expired.
PurgedUndated(R, ttl, t) ==
  {r \in R : ~Expired(r, ttl, t) /\ (ttl # NoTTL => r.created_at # NoTime)}

Purged(R, ttl, t) == {r \in R : ~Expired(r, ttl, t)}

\* reload_locked, and the first half of reap_locked.
Reload(p) ==
  /\ Transition(p, "reload", "purge")
  /\ call[p].op # "encrypt_in_place" /\ Loadable(p)
  /\ \E t \in Readings :
       /\ work' = [work EXCEPT ![p] = [mappings |-> Stamped(Loaded.mappings, handle[p].ttl, t),
                                       counters |-> Loaded.counters]]
       /\ stamped' = [stamped EXCEPT ![p] = t]
  /\ UNCHANGED <<disk, lock, handle, call, out, now, ops, history, lapsed>>

\* The mappings a purge may take: a TTL has gone by since they were written, or
\* for an undated one since the call that purges it stamped it.
Outlived(r, ttl, t) ==
  r.created_at # NoTime /\ ttl # NoTTL /\ (t - r.created_at >= ttl \/ ttl = 0)

Lapsed(p) ==
  {Bare(r) : r \in {x \in Stored(main) : Outlived(Stamp(x, stamped[p]), handle[p].ttl, now)}}

\* The second half of reap_locked, and what the call does with the result.
Purge(p, op, st, to) ==
  /\ Transition(p, "purge", to) /\ call[p].op = op
  /\ work' = [work EXCEPT ![p] = st]
  /\ lapsed' = [lapsed EXCEPT ![p] = Lapsed(p)]
  /\ stamped' = [stamped EXCEPT ![p] = NoTime]
  /\ UNCHANGED <<disk, lock, handle, call, out, now, ops, history>>

Reaped(p, t) ==
  [mappings |-> Purged(work[p].mappings, handle[p].ttl, t), counters |-> work[p].counters]

PurgeToInsert(p) ==
  \E t \in Readings :
    Purge(p, "get_or_insert_many", Reaped(p, t),
          IF call[p].items = <<>> THEN "create_tmp" ELSE "insert")

\* A forgotten scope loses its mappings and its counters.
Without(s, st) ==
  [mappings |-> st.mappings \ InScope(s, st.mappings),
   counters |-> [k \in Scope \X Kind |-> IF k[1] = s THEN 0 ELSE st.counters[k]]]

PurgeToDelete(p) ==
  \E t \in Readings : Purge(p, "delete_scope", Without(call[p].scope, Reaped(p, t)), "create_tmp")

\* Nothing is written when nothing changed.
PurgeToExpire(p) ==
  \E t \in Readings :
    Purge(p, "expire", Reaped(p, t), IF Reaped(p, t) = Loaded THEN "return" ELSE "create_tmp")

MigrateLoad(p) ==
  /\ Transition(p, "reload", "create_tmp")
  /\ call[p].op = "encrypt_in_place" /\ Migratable
  /\ work' = [work EXCEPT ![p] = main.state]
  /\ UNCHANGED <<disk, lock, handle, call, out, now, ops, history, reaps>>

-----------------------------------------------------------------------------
(* insert_locked, one item of the batch at a time. *)

Holding(st, s, k, o) ==
  {r \in st.mappings : r.scope = s /\ r.kind = k /\ r.original = o}

\* Mistake: tokens carry no entropy.
MintAnything(st, tok) == TRUE

\* mint_placeholder: the counter makes a token unique in its scope and kind; the
\* random suffix makes it unguessable, and apart from those of other generations
\* and of a kind that is spelt alike.
Mintable(st, tok) ==
  FreshEntropy => \A m \in issued \cup forgotten \cup Resolving(st.mappings) : m.token # tok

\* Mistake: number a token after the mappings there are, not after the counter.
MintedByCount(st, s, k, o, e, t) ==
  LET next == Cardinality(InScope(s, st.mappings)) + 1
      new  == [scope |-> s, kind |-> k, original |-> o, created_at |-> t,
               token |-> [kind |-> Upper[k], n |-> next, e |-> e]]
  IN [mappings |-> (st.mappings \ Holding(st, s, k, o)) \cup {new},
      counters |-> [st.counters EXCEPT ![<<s, k>>] = next]]

\* Mistake: rotate an alias by pushing a second record.
MintedBeside(st, s, k, o, e, t) ==
  LET next == st.counters[<<s, k>>] + 1
  IN [mappings |-> st.mappings \cup
        {[scope |-> s, kind |-> k, original |-> o, created_at |-> t,
          token |-> [kind |-> Upper[k], n |-> next, e |-> e]]},
      counters |-> [st.counters EXCEPT ![<<s, k>>] = next]]

\* The state after a token with suffix e was minted for an item that had none.
\* An alias without entropy is rotated in place and keeps its timestamp.
WithMinted(st, s, k, o, e, t) ==
  LET next == st.counters[<<s, k>>] + 1
      tok  == [kind |-> Upper[k], n |-> next, e |-> e]
      old  == Holding(st, s, k, o)
      new  == IF old = {}
              THEN {[scope |-> s, kind |-> k, original |-> o, token |-> tok, created_at |-> t]}
              ELSE {[r EXCEPT !.token = tok] : r \in old}
  IN [mappings |-> (st.mappings \ old) \cup new,
      counters |-> [st.counters EXCEPT ![<<s, k>>] = next]]

\* One round of the loop of get_or_insert_many: `st` is the state after it, in
\* which the item has an alias with entropy, the mapping that is returned.
Insert(p, st) ==
  LET item == Head(call[p].items)
      rest == Tail(call[p].items)
  IN /\ work' = [work EXCEPT ![p] = st]
     /\ out' = [out EXCEPT ![p] =
                  @ \cup Resolving(Holding(st, call[p].scope, item[1], item[2]))]
     /\ call' = [call EXCEPT ![p] = [op |-> @.op, scope |-> @.scope, items |-> rest]]
     /\ pc' = [pc EXCEPT ![p] = IF rest = <<>> THEN "create_tmp" ELSE "insert"]
     /\ UNCHANGED <<disk, lock, handle, now, ops, history, reaps>>

InsertLocked(p) ==
  /\ pc[p] = "insert" /\ call[p].items # <<>>
  /\ LET s == call[p].scope
         k == Head(call[p].items)[1]
         o == Head(call[p].items)[2]
     IN \/ /\ \E r \in Holding(work[p], s, k, o) : Minted(r)
           /\ Insert(p, work[p])
        \/ /\ ~\E r \in Holding(work[p], s, k, o) : Minted(r)
           /\ \E e \in Entropy, t \in Readings :
                /\ Mintable(work[p], [kind |-> Upper[k], n |-> work[p].counters[<<s, k>>] + 1, e |-> e])
                /\ Insert(p, WithMinted(work[p], s, k, o, e, t))

-----------------------------------------------------------------------------
(* persist_locked: a temporary file, truncated, filled, renamed.           *)

\* Mistake: rename without noticing that the flush failed.
CreateTmpUnflushed(p) ==
  /\ Transition(p, "create_tmp", "rename")
  /\ tmp' = [format |-> handle[p].format, whole |-> FALSE, state |-> EmptyState]
  /\ UNCHANGED <<main, lock, handle, call, work, out, now, ops, history, reaps>>

CreateTmp(p) ==
  /\ Transition(p, "create_tmp", "fill_tmp")
  /\ tmp' = [format |-> handle[p].format, whole |-> FALSE, state |-> EmptyState]
  /\ UNCHANGED <<main, lock, handle, call, work, out, now, ops, history, reaps>>

\* A state as the file holds it: in clear, or in an envelope under the key.
Sealed(st, format) == [format |-> format, whole |-> TRUE, state |-> st]

FillTmp(p) ==
  /\ Transition(p, "fill_tmp", "rename") /\ tmp # NoFile
  /\ tmp' = Sealed(work[p], handle[p].format)
  /\ UNCHANGED <<main, lock, handle, call, work, out, now, ops, history, reaps>>

RenameTmp(p) ==
  LET ttl       == handle[p].ttl
      forgetsIt == IF call[p].op = "delete_scope" THEN {call[p].scope} ELSE {}
      gone(M)   == {m \in M : m.scope \in forgetsIt}
  IN /\ Transition(p, "rename", "return") /\ tmp # NoFile
     /\ main' = tmp /\ tmp' = NoFile
     /\ issued' = (issued \ gone(issued)) \cup Live'
     /\ forgotten' = forgotten \cup gone(issued)
     /\ acked' = (acked \ gone(acked)) \ lapsed[p]
     /\ untimed' = IF ttl = NoTTL THEN (untimed \ gone(untimed)) \cup (Live' \ Live) ELSE {}
     /\ UNCHANGED <<lock, handle, call, work, out, now, ops, reaps>>

-----------------------------------------------------------------------------
(* Reading: one snapshot of the file under the shared lock.                *)

\* Mistake: aliases without entropy still resolve.
ResolvableLegacy(s, ttl, read) ==
  {Bare(r) : r \in {x \in InScope(s, Loaded.mappings) : ~Expired(x, ttl, read[x])}}

\* The clock is read for each record, with what `expired` gets for it in `read`.
Resolvable(s, ttl, read) ==
  {Bare(r) : r \in {x \in InScope(s, Loaded.mappings) : Minted(x) /\ ~Expired(x, ttl, read[x])}}

\* The lock is gone by then, and the clock shows whatever it shows.
LateReadings == (0..MaxNow) \cup (IF ClockMayFail THEN {NoTime} ELSE {})

\* Mistake: answer from the state the handle loaded last.
ReadCached(p) ==
  /\ Transition(p, "read", "return") /\ call[p].op = "resolve_many"
  /\ out' = [out EXCEPT ![p] = {Bare(r) : r \in InScope(call[p].scope, work[p].mappings)}]
  /\ UNCHANGED <<disk, lock, handle, call, work, now, ops, history, reaps>>

\* resolve and resolve_many, for every token of the scope at once.
ReadMany(p) ==
  /\ Transition(p, "read", "return") /\ call[p].op = "resolve_many" /\ Loadable(p)
  /\ \E read \in [InScope(call[p].scope, Loaded.mappings) -> LateReadings] :
       out' = [out EXCEPT ![p] = Resolvable(call[p].scope, handle[p].ttl, read)]
  /\ UNCHANGED <<disk, lock, handle, call, work, now, ops, history, reaps>>

ReadOpen(p) ==
  /\ Transition(p, "read", "return") /\ call[p].op = "open" /\ Loadable(p)
  /\ work' = [work EXCEPT ![p] = Loaded]
  /\ UNCHANGED <<disk, lock, handle, call, out, now, ops, history, reaps>>

-----------------------------------------------------------------------------
(* Ending a call. *)

\* Mistake: the early return of an `expire` that changed nothing keeps the lock.
UnlockUnlessUnchanged(p) ==
  /\ lock' = IF call[p].op = "expire" /\ pc[p] = "return" THEN lock
             ELSE [lock EXCEPT ![p] = "free"]
  /\ out' = [out EXCEPT ![p] = {}]
  /\ call' = [call EXCEPT ![p] = NoCall]
  /\ stamped' = [stamped EXCEPT ![p] = NoTime]
  /\ lapsed' = [lapsed EXCEPT ![p] = {}]

\* The lock guard drops and the locals go.
Unlock(p) ==
  /\ lock' = [lock EXCEPT ![p] = "free"]
  /\ out' = [out EXCEPT ![p] = {}]
  /\ call' = [call EXCEPT ![p] = NoCall]
  /\ stamped' = [stamped EXCEPT ![p] = NoTime]
  /\ lapsed' = [lapsed EXCEPT ![p] = {}]

\* encrypt_in_place, and an open that fails, leave no handle behind.
KeepHandle(p) == /\ pc' = [pc EXCEPT ![p] = "idle"]
                 /\ UNCHANGED <<handle, work>>
DropHandle(p) == /\ pc' = [pc EXCEPT ![p] = "closed"]
                 /\ handle' = [handle EXCEPT ![p] = NoHandle]
                 /\ work' = [work EXCEPT ![p] = EmptyState]

\* The call returns Ok.
Return(p) ==
  /\ pc[p] = "return"
  /\ IF call[p].op = "encrypt_in_place" THEN DropHandle(p) ELSE KeepHandle(p)
  /\ Unlock(p)
  /\ acked' = IF call[p].op = "get_or_insert_many" THEN acked \cup out[p] ELSE acked
  /\ UNCHANGED <<disk, now, ops, issued, forgotten, untimed>>

Fallible == {"want_shared", "want_exclusive", "read", "reload", "insert",
             "create_tmp", "fill_tmp", "rename"}

\* The call returns an error: the lock or the file cannot be had, the file is
\* in another format, no entropy, an exhausted counter, a failed write.
Fail(p) ==
  /\ pc[p] \in Fallible
  /\ IF call[p].op \in {"open", "encrypt_in_place"} THEN DropHandle(p) ELSE KeepHandle(p)
  /\ Unlock(p)
  /\ UNCHANGED <<disk, now, ops, history>>

\* The process exits or dies; what it was writing stays as it is on disk.
Crash(p) ==
  /\ pc[p] # "closed"
  /\ DropHandle(p)
  /\ Unlock(p)
  /\ UNCHANGED <<disk, now, ops, history>>

\* Time passes, or the clock is set.
Tick ==
  /\ now' \in (0..MaxNow) \ {now}
  /\ UNCHANGED <<disk, procs, ops, history, reaps>>

-----------------------------------------------------------------------------
Start(p) ==
  \/ \E h \in Handle : Open(p, h)
  \/ \E k \in Key : EncryptInPlace(p, k)
  \/ Expire(p)
  \/ \E s \in Scope :
       \/ \E b \in Batches : GetOrInsertMany(p, s, b)
       \/ DeleteScope(p, s)
       \/ ResolveMany(p, s)

\* The steps of a process that holds the lock: nobody else can delay them.
Locked(p) ==
  \/ Reload(p) \/ PurgeToInsert(p) \/ PurgeToDelete(p) \/ PurgeToExpire(p)
  \/ MigrateLoad(p)
  \/ InsertLocked(p)
  \/ CreateTmp(p) \/ FillTmp(p) \/ RenameTmp(p)
  \/ ReadMany(p) \/ ReadOpen(p) \/ Return(p)

Next ==
  \/ \E p \in Process :
       Start(p) \/ LockExclusive(p) \/ LockShared(p) \/ Locked(p) \/ Fail(p) \/ Crash(p)
  \/ Tick

Spec == Init /\ [][Next]_vars

\* A process that is scheduled goes on with its call: it takes its next step
\* or returns its error.  Nothing is assumed of callers, of crashes, of the
\* clock, or of who gets the lock.
FairSpec == Spec /\ \A p \in Process : WF_vars(Locked(p) \/ (lock[p] # "free" /\ Fail(p)))
-----------------------------------------------------------------------------
(* Correctness. *)

TypeOK ==
  /\ main \in File \cup {NoFile} /\ tmp \in File \cup {NoFile}
  /\ lock \in [Process -> {"free", "shared", "exclusive"}]
  /\ pc \in [Process -> Fallible \cup {"closed", "idle", "purge", "return"}]
  /\ handle \in [Process -> Handle]
  /\ call \in [Process -> Call]
  /\ \A p \in Process : pc[p] = "insert" => call[p].op = "get_or_insert_many"
  /\ work \in [Process -> State]
  /\ out \in [Process -> SUBSET Mapping]
  /\ now \in Nat /\ ops \in Nat
  /\ issued \subseteq Mapping /\ forgotten \subseteq Mapping
  /\ acked \subseteq Mapping /\ untimed \subseteq Mapping
  /\ stamped \in [Process -> Nat \cup {NoTime}] /\ lapsed \in [Process -> SUBSET Mapping]

(* A process that dies while it saves never damages the vault: the file    *)
(* is always a complete document (persist_locked, write_bytes).            *)
MainNeverTorn == main # NoFile => main.whole

(* Once the vault is encrypted, nothing beside it holds its plaintext: no  *)
(* interrupted save of a plaintext process survives the migration, and no  *)
(* such process can start another one (encrypt_in_place, load_state).      *)
NoPlaintextBeside ==
  main # NoFile /\ main.format \in Key => tmp = NoFile \/ tmp.format = main.format

(* An encrypted vault is never written back in the clear or under another  *)
(* key, by processes that opened the file before the migration included.   *)
EncryptionIsFinal ==
  [][main # NoFile /\ main.format \in Key => main' # NoFile /\ main'.format = main.format]_main

(* A mapping returned to a caller stays in the file until its scope is     *)
(* forgotten or a TTL has gone by since it was written, or, for a mapping  *)
(* without a timestamp, since the call that purges it stamped it, which    *)
(* with the shortest TTL may be moments ago.  Concurrent writers, crashes, *)
(* failed saves, migrations, a clock that fails at either of its two       *)
(* readings and one that is set back lose none (insert_locked,             *)
(* reap_locked).                                                           *)
AckedSurvives == acked \subseteq Live

(* A token never names a second value of its scope and kind, even when the *)
(* random suffix repeats: counters survive expiry, crashes and concurrent  *)
(* writers and only a forget resets them (next_counter, reap_locked).      *)
TokenNamesOneValue ==
  \A a, b \in issued :
    a.scope = b.scope /\ a.kind = b.kind /\ a.token = b.token => a.original = b.original

(* A value has one alias in its scope at any time (insert_locked).         *)
OneAliasPerValue ==
  \A a, b \in Stored(main) :
    a.scope = b.scope /\ a.kind = b.kind /\ a.original = b.original => a = b

(* No read that is answered after a forget took effect, in any process,    *)
(* returns a mapping of the forgotten generation of that scope, or any     *)
(* mapping of another scope (delete_scope, resolve_many: never cached).    *)
ReadsSeeForget ==
  [][\A p \in Process : ReadMany(p) =>
       /\ out'[p] \cap forgotten = {}
       /\ out'[p] \subseteq InScope(call[p].scope, issued)]_vars

(* Whoever holds the lock gives it back, whatever it was doing: no call of *)
(* another process waits for a lock nobody will release (Lock, Drop).      *)
LockIsReleased == \A p \in Process : lock[p] # "free" ~> lock[p] = "free"

(* The documentation of the TTL (vault-json/src/lib.rs:121): a record that *)
(* was written before a TTL was configured keeps resolving until a write   *)
(* under the TTL stamps it; that write cannot purge it.                    *)
UntimedKeepResolving == [][untimed \cap (Live \ Live') \subseteq forgotten']_vars

(* The file and its lock implement the atomic vault of ScopedVault.        *)
Retired == (issued \cup forgotten) \ Live
Answers == [p \in Process |-> IF pc[p] = "return" THEN out[p] ELSE {}]
Vault == INSTANCE ScopedVault WITH
  Client <- Process,
  Lapsing <- TTLs # {},
  live <- Live,
  retired <- Retired,
  answer <- Answers
AtomicVault == Vault!Spec
=============================================================================
