--------------------------- MODULE JsonVaultProofs ---------------------------
(* What holds of JsonVault for every set of processes, scopes, values, keys, *)
(* lifetimes and batches, and without the bounds of the TLC instances.       *)
EXTENDS JsonVault, TLAPS

-----------------------------------------------------------------------------
(* Facts about the operators on states and records. *)

LEMMA BareType ==
  ASSUME NEW R \in SUBSET Record
  PROVE  /\ {Bare(r) : r \in R} \subseteq Mapping
         /\ Resolving(R) \subseteq Mapping
  BY DEF Bare, Record, Mapping, Resolving

LEMMA ReapedType ==
  ASSUME NEW R \in SUBSET Record, NEW ttl \in TTLs \cup {NoTTL}, NEW t \in Nat \cup {NoTime}
  PROVE  Stamped(R, ttl, t) \in SUBSET Record /\ Purged(R, ttl, t) \in SUBSET Record
  <1>1. ASSUME NEW x \in Record PROVE Stamp(x, t) \in Record
    BY <1>1 DEF Stamp, Record
  <1>2. QED BY <1>1 DEF Stamped, Purged

LEMMA EmptyStateType == EmptyState \in State
  BY DEF EmptyState, State

LEMMA MintedType ==
  ASSUME NEW st \in State, NEW s \in Scope, NEW k \in Kind, NEW o \in Original,
         NEW e \in Entropy, NEW t \in Nat \cup {NoTime}
  PROVE  WithMinted(st, s, k, o, e, t) \in State
  <1> DEFINE next == st.counters[<<s, k>>] + 1
             tok  == [kind |-> Upper[k], n |-> next, e |-> e]
             old  == Holding(st, s, k, o)
             new  == IF old = {}
                     THEN {[scope |-> s, kind |-> k, original |-> o,
                            token |-> tok, created_at |-> t]}
                     ELSE {[r EXCEPT !.token = tok] : r \in old}
  <1>1. next \in Nat /\ tok \in Token
    BY VaultAssumption DEF State, Token
  <1>2. old \in SUBSET Record
    BY DEF Holding, State
  <1>3. new \in SUBSET Record
    <2>1. [scope |-> s, kind |-> k, original |-> o, token |-> tok, created_at |-> t] \in Record
      BY <1>1 DEF Record
    <2>2. ASSUME NEW r \in old PROVE [r EXCEPT !.token = tok] \in Record
      BY <1>1, <1>2 DEF Record
    <2> QED BY <2>1, <2>2
  <1>4. [st.counters EXCEPT ![<<s, k>>] = next] \in [Scope \X Kind -> Nat]
    BY <1>1 DEF State
  <1>5. (st.mappings \ old) \cup new \in SUBSET Record
    BY <1>3 DEF State
  <1> QED BY <1>4, <1>5 DEF WithMinted, State

LEMMA ReadingsType == ASSUME TypeOK PROVE Readings \subseteq Nat \cup {NoTime}
  BY DEF Readings, TypeOK

LEMMA LoadedType == ASSUME TypeOK PROVE Loaded \in State
  BY EmptyStateType DEF Loaded, TypeOK, File

LEMMA StoredType ==
  ASSUME NEW f \in File \cup {NoFile}
  PROVE  /\ Stored(f) \in SUBSET Record
         /\ Resolving(Stored(f)) \subseteq Mapping
  <1>1. Stored(f) \in SUBSET Record
    BY DEF Stored, File, State
  <1> QED BY <1>1, BareType

-----------------------------------------------------------------------------
(* The type invariant.  Opening, saving, locking and crashing never leave a *)
(* malformed file, handle or call.                                          *)

USE VaultAssumption

LEMMA TypeInit == Init => TypeOK
  <1> SUFFICES ASSUME Init PROVE TypeOK
    OBVIOUS
  <1>1. main \in File \cup {NoFile}
    <2>1. ASSUME NEW s \in Scope, NEW k \in Kind, NEW o \in Original, NEW e \in Entropy
          PROVE  LegacyState(s, k, o, e) \in State
      <3>1. [scope |-> s, kind |-> k, original |-> o, created_at |-> NoTime,
             token |-> [kind |-> Upper[k], n |-> 0, e |-> e]] \in Record
        BY DEF Record, Token
      <3>2. [c \in Scope \X Kind |-> IF c = <<s, k>> THEN 1 ELSE 0] \in [Scope \X Kind -> Nat]
        OBVIOUS
      <3> QED BY <3>1, <3>2 DEF LegacyState, State
    <2>2. ASSUME NEW st \in State
          PROVE  [format |-> Plain, whole |-> TRUE, state |-> st] \in File
      BY DEF File, Format
    <2> QED BY <2>1, <2>2 DEF Init
  <1>2. NoHandle \in Handle /\ NoCall \in Call
    BY DEF NoHandle, NoCall, Handle, Format, Call
  <1> QED BY <1>1, <1>2, EmptyStateType DEF Init, TypeOK

THEOREM TypeCorrect == Spec => []TypeOK
  <1>1. Init => TypeOK
    BY TypeInit
  <1>2. TypeOK /\ [Next]_vars => TypeOK'
    <2> SUFFICES ASSUME TypeOK, [Next]_vars PROVE TypeOK'
      OBVIOUS
    <2> USE DEF TypeOK, disk, procs, history, reaps, Fallible
    <2>0. NoHandle \in Handle /\ NoCall \in Call
      BY DEF NoHandle, NoCall, Handle, Format, Call
    <2>1. ASSUME NEW p \in Process, NEW h \in Handle, Open(p, h) PROVE TypeOK'
      <3>1. [NoCall EXCEPT !.op = "open"] \in Call
        BY DEF NoCall, Call
      <3> QED BY <2>1, <3>1 DEF Open, Transition
    <2>2. ASSUME NEW p \in Process, NEW k \in Key, EncryptInPlace(p, k) PROVE TypeOK'
      <3>1. /\ [NoCall EXCEPT !.op = "encrypt_in_place"] \in Call
            /\ [format |-> k, ttl |-> NoTTL] \in Handle
        BY DEF NoCall, Call, Handle, Format
      <3> QED BY <2>2, <3>1 DEF EncryptInPlace, Transition
    <2>3. ASSUME NEW p \in Process, NEW s, NEW b, NEW op,
                 [op |-> op, scope |-> s, items |-> b] \in Call,
                 NEW to \in {"want_shared", "want_exclusive"}, Begin(p, op, s, b, to)
          PROVE TypeOK'
      BY <2>3 DEF Begin, Transition
    <2>4. ASSUME NEW p \in Process, Start(p) PROVE TypeOK'
      <3>1. ASSUME NEW s \in Scope, NEW b \in Batches
            PROVE  [op |-> "get_or_insert_many", scope |-> s, items |-> b] \in Call
        BY DEF Call
      <3>2. [op |-> "expire", scope |-> NoScope, items |-> <<>>] \in Call
        BY DEF Call
      <3>3. CASE \E s \in Scope, b \in Batches : GetOrInsertMany(p, s, b)
        BY <3>3, <3>1, <2>3 DEF GetOrInsertMany
      <3>4. CASE \E s \in Scope : DeleteScope(p, s) \/ ResolveMany(p, s)
        <4> PICK s \in Scope : DeleteScope(p, s) \/ ResolveMany(p, s)
          BY <3>4
        <4>1. /\ [op |-> "delete_scope", scope |-> s, items |-> <<>>] \in Call
              /\ [op |-> "resolve_many", scope |-> s, items |-> <<>>] \in Call
          BY DEF Call
        <4> QED BY <4>1, <2>3 DEF DeleteScope, ResolveMany
      <3>5. CASE Expire(p)
        BY <3>5, <3>2, <2>3 DEF Expire
      <3> QED BY <2>1, <2>2, <2>4, <3>3, <3>4, <3>5 DEF Start
    <2>5. ASSUME NEW p \in Process, LockExclusive(p) \/ LockShared(p) PROVE TypeOK'
      BY <2>5 DEF LockExclusive, LockShared, Transition
    <2>6. ASSUME NEW p \in Process,
                 Reload(p) \/ PurgeToInsert(p) \/ PurgeToDelete(p) \/ PurgeToExpire(p)
          PROVE TypeOK'
      <3>0. handle[p].ttl \in TTLs \cup {NoTTL} /\ Lapsed(p) \subseteq Mapping
        <4>1. {x \in Stored(main) : Outlived(Stamp(x, stamped[p]), handle[p].ttl, now)}
                \in SUBSET Record
          BY StoredType
        <4> QED BY <4>1, BareType DEF Lapsed, Handle
      <3>1. ASSUME NEW t \in Readings PROVE Reaped(p, t) \in State
        <4>1. Purged(work[p].mappings, handle[p].ttl, t) \in SUBSET Record
          BY <3>0, ReadingsType, ReapedType DEF State
        <4> QED BY <4>1 DEF Reaped, State
      <3>2. ASSUME NEW t \in Readings, NEW s PROVE Without(s, Reaped(p, t)) \in State
        BY <3>1 DEF Without, State
      <3>3. ASSUME NEW st \in State, NEW to \in {"create_tmp", "return"}, NEW op,
                   Purge(p, op, st, to)
            PROVE TypeOK'
        BY <3>0, <3>3 DEF Purge, Transition
      <3>4. ASSUME NEW st \in State, Purge(p, "get_or_insert_many", st, "insert")
            PROVE TypeOK'
        BY <3>0, <3>4 DEF Purge, Transition
      <3>5. CASE PurgeToInsert(p)
        BY <3>5, <3>1, <3>3, <3>4 DEF PurgeToInsert
      <3>6. CASE PurgeToDelete(p)
        BY <3>6, <3>2, <3>3 DEF PurgeToDelete
      <3>7. CASE PurgeToExpire(p)
        BY <3>7, <3>1, <3>3 DEF PurgeToExpire
      <3>8. CASE Reload(p)
        <4>1. PICK t \in Readings :
                /\ work' = [work EXCEPT ![p] =
                              [mappings |-> Stamped(Loaded.mappings, handle[p].ttl, t),
                               counters |-> Loaded.counters]]
                /\ stamped' = [stamped EXCEPT ![p] = t]
          BY <3>8 DEF Reload
        <4>2. t \in Nat \cup {NoTime} /\ Loaded \in State
          BY ReadingsType, LoadedType
        <4>3. Stamped(Loaded.mappings, handle[p].ttl, t) \in SUBSET Record
          BY <3>0, <4>2, ReapedType DEF State
        <4>4. work' \in [Process -> State] /\ stamped' \in [Process -> Nat \cup {NoTime}]
          BY <4>1, <4>2, <4>3 DEF State
        <4> QED BY <3>8, <4>4 DEF Reload, Transition
      <3> QED BY <2>6, <3>5, <3>6, <3>7, <3>8
    <2>7. ASSUME NEW p \in Process, MigrateLoad(p) PROVE TypeOK'
      BY <2>7 DEF MigrateLoad, Transition, Migratable, File
    <2>8. ASSUME NEW p \in Process, InsertLocked(p) PROVE TypeOK'
      <3> DEFINE s == call[p].scope
                 item == Head(call[p].items)
                 k == item[1]
                 o == item[2]
                 rest == Tail(call[p].items)
      <3>1. /\ call[p].op = "get_or_insert_many" /\ s \in Scope
            /\ item \in Kind \X Original
            /\ rest \in Seq(Kind \X Original)
        BY <2>8 DEF InsertLocked, Call
      <3>2. ASSUME NEW st \in State, Insert(p, st) PROVE TypeOK'
        <4>1. Resolving(Holding(st, s, k, o)) \subseteq Mapping
          BY BareType DEF Resolving, Holding, State
        <4>2. out' \in [Process -> SUBSET Mapping]
          BY <3>2, <4>1 DEF Insert
        <4>3. [op |-> "get_or_insert_many", scope |-> s, items |-> rest] \in Call
          BY <3>1 DEF Call
        <4>4. call' = [call EXCEPT ![p] = [op |-> "get_or_insert_many", scope |-> s, items |-> rest]]
          BY <3>1, <3>2 DEF Insert
        <4>5. /\ call' \in [Process -> Call]
              /\ \A q \in Process : call'[q].op = call[q].op
          BY <4>3, <4>4, <3>1 DEF Call
        <4>6. work' \in [Process -> State]
          BY <3>2 DEF Insert
        <4>7. \A q \in Process : pc'[q] = "insert" => call'[q].op = "get_or_insert_many"
          BY <3>1, <3>2, <4>5 DEF Insert
        <4> QED BY <3>2, <4>2, <4>5, <4>6, <4>7 DEF Insert
      <3>3. ASSUME NEW e \in Entropy, NEW t \in Readings
            PROVE  WithMinted(work[p], s, k, o, e, t) \in State
        BY <3>1, MintedType, ReadingsType
      <3>4. work[p] \in State
        OBVIOUS
      <3>5. CASE Insert(p, work[p])
        BY <3>2, <3>4, <3>5
      <3>6. CASE \E e \in Entropy, t \in Readings : Insert(p, WithMinted(work[p], s, k, o, e, t))
        BY <3>2, <3>3, <3>6
      <3> QED BY <2>8, <3>5, <3>6 DEF InsertLocked
    <2>9. ASSUME NEW p \in Process, CreateTmp(p) \/ FillTmp(p) PROVE TypeOK'
      <3>1. ASSUME NEW w \in BOOLEAN, NEW st \in State
            PROVE  [format |-> handle[p].format, whole |-> w, state |-> st] \in File
        BY DEF File, Handle
      <3>2. CASE CreateTmp(p)
        BY <3>2, <3>1, EmptyStateType DEF CreateTmp, Transition
      <3>3. CASE FillTmp(p)
        BY <3>3, <3>1 DEF FillTmp, Sealed, Transition
      <3> QED BY <2>9, <3>2, <3>3
    <2>10. ASSUME NEW p \in Process, RenameTmp(p) PROVE TypeOK'
      <3>1. Live' \subseteq Mapping
        BY <2>10, StoredType DEF RenameTmp, Live
      <3> QED BY <2>10, <3>1 DEF RenameTmp, Transition
    <2>11. ASSUME NEW p \in Process, ReadMany(p) PROVE TypeOK'
      <3>1. ASSUME NEW s, NEW ttl, NEW read PROVE Resolvable(s, ttl, read) \subseteq Mapping
        BY LoadedType, BareType DEF Resolvable, InScope, State
      <3> QED BY <2>11, <3>1 DEF ReadMany, Transition
    <2>12. ASSUME NEW p \in Process, ReadOpen(p) PROVE TypeOK'
      BY <2>12, LoadedType DEF ReadOpen, Transition
    <2>13. ASSUME NEW p \in Process, Return(p) \/ Fail(p) \/ Crash(p) PROVE TypeOK'
      BY <2>13, <2>0, EmptyStateType DEF Return, Fail, Crash, Unlock, KeepHandle, DropHandle
    <2>14. CASE Tick
      BY <2>14 DEF Tick
    <2>15. CASE UNCHANGED vars
      BY <2>15 DEF vars
    <2> QED BY <2>4, <2>5, <2>6, <2>7, <2>8, <2>9, <2>10, <2>11, <2>12, <2>13, <2>14, <2>15
            DEF Next, Locked
  <1>3. QED BY <1>1, <1>2, PTL DEF Spec

-----------------------------------------------------------------------------
(* The lock and the two files.  A process between its reload and its rename *)
(* is alone with both files, and its format is the one the file had when it *)
(* looked.                                                                  *)

Saving == {"insert", "create_tmp", "fill_tmp", "rename"}

Alone ==
  /\ \A p \in Process : pc[p] \in {"reload", "purge"} \cup Saving => lock[p] = "exclusive"
  /\ \A p \in Process : pc[p] = "return" /\ call[p].op = "get_or_insert_many"
                          => lock[p] = "exclusive"
  /\ \A p, q \in Process : p # q /\ lock[p] = "exclusive" => lock[q] = "free"

SameFormat ==
  \A p \in Process :
    /\ pc[p] \in {"purge"} \cup Saving /\ main # NoFile /\ main.format \in Key
         => main.format = handle[p].format
    /\ pc[p] \in {"fill_tmp", "rename"} => tmp # NoFile /\ tmp.format = handle[p].format
    /\ pc[p] = "rename" => tmp.whole

\* What a reap works on between its two halves.
Copied ==
  \A p \in Process : pc[p] = "purge" =>
    work[p] = [mappings |-> Stamped(Loaded.mappings, handle[p].ttl, stamped[p]),
               counters |-> Loaded.counters]

DiskInv == TypeOK /\ Alone /\ SameFormat /\ Copied /\ MainNeverTorn /\ NoPlaintextBeside

(* Steps that leave both files, every handle and every saving process as    *)
(* they are.                                                                *)
LEMMA DiskUntouched ==
  ASSUME DiskInv, TypeOK', Alone', UNCHANGED disk,
         \A p \in Process : pc'[p] \in {"purge"} \cup Saving =>
           \/ pc'[p] = pc[p] /\ handle'[p] = handle[p]
           \/ /\ pc'[p] \in {"purge", "insert", "create_tmp"} /\ handle'[p] = handle[p]
              /\ main # NoFile /\ main.format \in Key => main.format = handle[p].format,
         \A p \in Process : pc'[p] = "purge" =>
           \/ pc[p] = "purge" /\ work'[p] = work[p] /\ stamped'[p] = stamped[p]
           \/ work'[p] = [mappings |-> Stamped(Loaded.mappings, handle[p].ttl, stamped'[p]),
                          counters |-> Loaded.counters]
  PROVE  DiskInv'
  <1>1. SameFormat' /\ MainNeverTorn' /\ NoPlaintextBeside'
    BY DEF DiskInv, SameFormat, MainNeverTorn, NoPlaintextBeside, disk, Saving
  <1>2. Loaded' = Loaded
    BY DEF Loaded, disk
  <1>3. Copied'
    <2> SUFFICES ASSUME NEW p \in Process, pc'[p] = "purge"
                 PROVE  work'[p] = [mappings |-> Stamped(Loaded.mappings, handle'[p].ttl, stamped'[p]),
                                    counters |-> Loaded.counters]
      BY <1>2 DEF Copied
    <2>1. handle'[p] = handle[p]
      OBVIOUS
    <2> QED BY <2>1 DEF DiskInv, Copied
  <1> QED BY <1>1, <1>3 DEF DiskInv

(* The vault file is only ever replaced by a rename.                        *)
LEMMA OnlyRenameReplaces ==
  ASSUME [Next]_vars, main' # main
  PROVE  \E p \in Process : RenameTmp(p)
  <1>1. ASSUME NEW p \in Process, Start(p) PROVE FALSE
    BY <1>1 DEF Start, Open, EncryptInPlace, Expire, GetOrInsertMany, DeleteScope,
                ResolveMany, Begin, disk
  <1>2. ASSUME NEW p \in Process, LockExclusive(p) \/ LockShared(p) \/ Fail(p) \/ Crash(p)
        PROVE FALSE
    BY <1>2 DEF LockExclusive, LockShared, Fail, Crash, disk
  <1>3. ASSUME NEW p \in Process,
               Reload(p) \/ PurgeToInsert(p) \/ PurgeToDelete(p) \/ PurgeToExpire(p)
        PROVE FALSE
    BY <1>3 DEF Reload, PurgeToInsert, PurgeToDelete, PurgeToExpire, Purge, disk
  <1>4. ASSUME NEW p \in Process, InsertLocked(p) PROVE FALSE
    BY <1>4 DEF InsertLocked, Insert, disk
  <1>5. ASSUME NEW p \in Process,
               MigrateLoad(p) \/ CreateTmp(p) \/ FillTmp(p) \/ ReadMany(p) \/ ReadOpen(p) \/ Return(p)
        PROVE FALSE
    BY <1>5 DEF MigrateLoad, CreateTmp, FillTmp, ReadMany, ReadOpen, Return, disk
  <1>6. ~Tick /\ ~UNCHANGED vars
    BY DEF Tick, vars, disk
  <1> QED BY <1>1, <1>2, <1>3, <1>4, <1>5, <1>6 DEF Next, Locked

LEMMA DiskStep == DiskInv /\ TypeOK' /\ [Next]_vars => DiskInv'
  <1> SUFFICES ASSUME DiskInv, TypeOK', [Next]_vars PROVE DiskInv'
    OBVIOUS
  <1> USE DEF DiskInv, reaps
  <1>1. ASSUME NEW p \in Process, Start(p) PROVE DiskInv'
    <2>1. /\ UNCHANGED <<disk, lock, work, stamped>> /\ pc[p] \in {"closed", "idle"}
          /\ \E to \in {"want_shared", "want_exclusive"} : pc' = [pc EXCEPT ![p] = to]
          /\ \A q \in Process \ {p} : handle'[q] = handle[q] /\ call'[q] = call[q]
      BY <1>1 DEF Start, Open, EncryptInPlace, Expire, GetOrInsertMany, DeleteScope,
                  ResolveMany, Begin, Transition, TypeOK
    <2>2. Alone'
      BY <2>1 DEF Alone, TypeOK, Saving
    <2> QED BY <2>1, <2>2, DiskUntouched DEF TypeOK, Saving
  <1>2. ASSUME NEW p \in Process, LockExclusive(p) \/ LockShared(p) PROVE DiskInv'
    <2>1. Alone'
      BY <1>2 DEF LockExclusive, LockShared, Transition, Alone, TypeOK, Saving
    <2> QED BY <1>2, <2>1, DiskUntouched DEF LockExclusive, LockShared, Transition, TypeOK, Saving
  <1>3. ASSUME NEW p \in Process, NEW op, NEW st, NEW to \in {"insert", "create_tmp", "return"},
               Purge(p, op, st, to)
        PROVE  DiskInv'
    <2>1. Alone'
      BY <1>3 DEF Purge, Transition, Alone, TypeOK, Saving
    <2>2. main # NoFile /\ main.format \in Key => main.format = handle[p].format
      BY <1>3 DEF Purge, Transition, SameFormat
    <2> QED BY <1>3, <2>1, <2>2, DiskUntouched DEF Purge, Transition, TypeOK, Saving
  <1>4. ASSUME NEW p \in Process,
               Reload(p) \/ PurgeToInsert(p) \/ PurgeToDelete(p) \/ PurgeToExpire(p)
        PROVE  DiskInv'
    <2>1. CASE Reload(p)
      <3>1. Alone'
        BY <2>1 DEF Reload, Transition, Alone, TypeOK, Saving
      <3>2. main # NoFile => main.format = handle[p].format
        BY <2>1 DEF Reload, Loadable, Opens
      <3>3. work'[p] = [mappings |-> Stamped(Loaded.mappings, handle[p].ttl, stamped'[p]),
                        counters |-> Loaded.counters]
        BY <2>1 DEF Reload, TypeOK
      <3>4. /\ UNCHANGED <<disk, handle>> /\ pc' = [pc EXCEPT ![p] = "purge"]
            /\ \A q \in Process \ {p} : work'[q] = work[q] /\ stamped'[q] = stamped[q]
        BY <2>1 DEF Reload, Transition, TypeOK
      <3> QED BY <3>1, <3>2, <3>3, <3>4, DiskUntouched DEF TypeOK, Saving
    <2> QED BY <1>4, <1>3, <2>1 DEF PurgeToInsert, PurgeToDelete, PurgeToExpire
  <1>5. ASSUME NEW p \in Process, MigrateLoad(p) PROVE DiskInv'
    <2>1. Alone'
      BY <1>5 DEF MigrateLoad, Transition, Alone, TypeOK, Saving
    <2>2. main # NoFile /\ main.format \notin Key
      BY <1>5, VaultAssumption DEF MigrateLoad, Migratable
    <2> QED BY <1>5, <2>1, <2>2, DiskUntouched DEF MigrateLoad, Transition, TypeOK, Saving
  <1>6. ASSUME NEW p \in Process, NEW st, pc[p] = "insert", Insert(p, st) PROVE DiskInv'
    <2>1. Alone'
      BY <1>6 DEF Insert, Alone, TypeOK, Saving
    <2>2. main # NoFile /\ main.format \in Key => main.format = handle[p].format
      BY <1>6 DEF SameFormat, Saving
    <2> QED BY <1>6, <2>1, <2>2, DiskUntouched DEF Insert, TypeOK, Saving
  <1>7. ASSUME NEW p \in Process, InsertLocked(p) PROVE DiskInv'
    BY <1>7, <1>6 DEF InsertLocked
  <1>8. ASSUME NEW p \in Process, CreateTmp(p) \/ FillTmp(p) PROVE DiskInv'
    <2>1. /\ Alone' /\ \A q \in Process \ {p} : pc[q] \notin {"purge"} \cup Saving /\ pc'[q] = pc[q]
          /\ UNCHANGED <<main, handle>> /\ pc'[p] # "purge"
          /\ main # NoFile /\ main.format \in Key => main.format = handle[p].format
      BY <1>8 DEF CreateTmp, FillTmp, Transition, Alone, SameFormat, TypeOK, Saving
    <2>2. /\ tmp' # NoFile /\ tmp'.format = handle[p].format
          /\ pc'[p] = "rename" => tmp'.whole
      <3>1. ASSUME NEW w \in BOOLEAN, NEW st \in State
            PROVE  [format |-> handle[p].format, whole |-> w, state |-> st] \in File
        BY DEF TypeOK, File, Handle
      <3>2. CASE CreateTmp(p)
        <4>1. tmp' \in File
          BY <3>1, <3>2, EmptyStateType DEF CreateTmp
        <4>2. pc'[p] = "fill_tmp" /\ tmp'.format = handle[p].format
          BY <3>2 DEF CreateTmp, Transition, TypeOK
        <4> QED BY <4>1, <4>2, NoFileAssumption
      <3>3. CASE FillTmp(p)
        <4>1. work[p] \in State
          BY DEF TypeOK
        <4>2. tmp' \in File
          BY <3>1, <3>3, <4>1 DEF FillTmp, Sealed
        <4>3. tmp'.whole /\ tmp'.format = handle[p].format
          BY <3>3 DEF FillTmp, Sealed
        <4> QED BY <4>2, <4>3, NoFileAssumption
      <3> QED BY <1>8, <3>2, <3>3
    <2> QED BY <2>1, <2>2 DEF SameFormat, Copied, MainNeverTorn, NoPlaintextBeside, Saving
  <1>9. ASSUME NEW p \in Process, RenameTmp(p) PROVE DiskInv'
    <2>1. /\ Alone' /\ \A q \in Process : pc'[q] \notin {"purge"} \cup Saving
          /\ main' = tmp /\ tmp' = NoFile /\ tmp.whole
      BY <1>9 DEF RenameTmp, Transition, Alone, SameFormat, TypeOK, Saving
    <2> QED BY <2>1 DEF SameFormat, Copied, MainNeverTorn, NoPlaintextBeside, Saving
  <1>10. ASSUME NEW p \in Process, ReadMany(p) \/ ReadOpen(p) PROVE DiskInv'
    <2>1. Alone'
      BY <1>10 DEF ReadMany, ReadOpen, Transition, Alone, TypeOK, Saving
    <2> QED BY <1>10, <2>1, DiskUntouched DEF ReadMany, ReadOpen, Transition, TypeOK, Saving
  <1>11. ASSUME NEW p \in Process, Return(p) \/ Fail(p) \/ Crash(p) PROVE DiskInv'
    <2>1. /\ UNCHANGED disk /\ lock' = [lock EXCEPT ![p] = "free"]
          /\ \E to \in {"idle", "closed"} : pc' = [pc EXCEPT ![p] = to]
          /\ \A q \in Process \ {p} : /\ handle'[q] = handle[q] /\ call'[q] = call[q]
                                      /\ work'[q] = work[q] /\ stamped'[q] = stamped[q]
      BY <1>11 DEF Return, Fail, Crash, Unlock, KeepHandle, DropHandle, TypeOK
    <2>2. Alone'
      BY <2>1 DEF Alone, TypeOK, Saving
    <2> QED BY <2>1, <2>2, DiskUntouched DEF TypeOK, Saving
  <1>12. CASE Tick
    <2>1. Alone'
      BY <1>12 DEF Tick, procs, Alone
    <2> QED BY <1>12, <2>1, DiskUntouched DEF Tick, procs
  <1>13. CASE UNCHANGED vars
    <2>1. Alone'
      BY <1>13 DEF vars, procs, Alone
    <2> QED BY <1>13, <2>1, DiskUntouched DEF vars, procs
  <1> QED BY <1>1, <1>2, <1>4, <1>5, <1>7, <1>8, <1>9, <1>10, <1>11, <1>12, <1>13
          DEF Next, Locked

LEMMA DiskInvariant == Spec => []DiskInv
  <1>1. Init => DiskInv
    <2> SUFFICES ASSUME Init, TypeOK PROVE DiskInv
      BY TypeInit
    <2> QED BY DEF Init, DiskInv, Alone, SameFormat, Copied, MainNeverTorn, NoPlaintextBeside,
                  Saving
  <1>2. QED BY <1>1, DiskStep, TypeCorrect, PTL DEF Spec

(* A process that dies while it saves never damages the vault.              *)
THEOREM SavesAreAtomic == Spec => []MainNeverTorn
  BY DiskInvariant, PTL DEF DiskInv

(* After a migration no plaintext is left beside the vault, whatever was    *)
(* interrupted before.                                                      *)
THEOREM NoPlaintextLeft == Spec => []NoPlaintextBeside
  BY DiskInvariant, PTL DEF DiskInv

(* Encryption is for good: no process writes the vault back in the clear or *)
(* under another key.                                                       *)
THEOREM EncryptedForGood == Spec => EncryptionIsFinal
  <1>1. DiskInv /\ [Next]_vars =>
          [main # NoFile /\ main.format \in Key => main' # NoFile /\ main'.format = main.format]_main
    <2> SUFFICES ASSUME DiskInv, [Next]_vars, main' # main
                 PROVE  main # NoFile /\ main.format \in Key
                          => main' # NoFile /\ main'.format = main.format
      OBVIOUS
    <2>1. PICK p \in Process : RenameTmp(p)
      BY OnlyRenameReplaces
    <2> QED BY <2>1 DEF RenameTmp, Transition, DiskInv, SameFormat, Saving
  <1>2. QED BY <1>1, DiskInvariant, PTL DEF Spec, EncryptionIsFinal

-----------------------------------------------------------------------------
(* No mapping that was returned is lost.  The working copy of a saving      *)
(* process keeps every live mapping it has no reason to drop, and holds the *)
(* mappings it is about to return; the file it renames is that copy.        *)

Spared(p) == {m \in Live : call[p].op = "delete_scope" => m.scope # call[p].scope}

Owed(p) == Spared(p) \ lapsed[p]

AckInv ==
  /\ acked \subseteq Live
  /\ \A p \in Process :
       /\ TTLs = {} => lapsed[p] = {}
       /\ pc[p] \in Saving => /\ Owed(p) \subseteq Resolving(work[p].mappings)
                              /\ out[p] \subseteq Resolving(work[p].mappings)
       /\ pc[p] = "rename" /\ tmp # NoFile => tmp.state = work[p]
       /\ pc[p] \in {"reload", "purge"} => out[p] = {}
       /\ pc[p] = "return" /\ call[p].op = "get_or_insert_many" => out[p] \subseteq Live
       /\ pc[p] \in {"closed", "idle", "want_shared", "want_exclusive", "read"} => out[p] = {}

LEMMA LoadedIsStored == Loaded.mappings = Stored(main)
  BY DEF Loaded, Stored, EmptyState

(* Stamping and purging keep every record that has not outlived the TTL.    *)
LEMMA ReapKeeps ==
  ASSUME DiskInv, NEW p \in Process, NEW t \in Readings, pc[p] = "purge"
  PROVE  Live \ Lapsed(p) \subseteq Resolving(Reaped(p, t).mappings)
  <1> DEFINE ttl == handle[p].ttl
             s   == stamped[p]
             R   == Stored(main)
  <1>1. /\ R \in SUBSET Record /\ now \in Nat /\ ttl \in Nat \cup {NoTTL}
        /\ s \in Nat \cup {NoTime}
    BY StoredType DEF DiskInv, TypeOK, Handle
  <1>2. Reaped(p, t).mappings = Purged(Stamped(R, ttl, s), ttl, t)
    <2>1. work[p].mappings = Stamped(R, ttl, s)
      <3>1. work[p] = [mappings |-> Stamped(Loaded.mappings, handle[p].ttl, stamped[p]),
                       counters |-> Loaded.counters]
        BY DEF DiskInv, Copied
      <3>2. \A m, c : [mappings |-> m, counters |-> c].mappings = m
        OBVIOUS
      <3>3. [mappings |-> Stamped(Loaded.mappings, handle[p].ttl, stamped[p]),
             counters |-> Loaded.counters].mappings
              = Stamped(Loaded.mappings, handle[p].ttl, stamped[p])
        BY ONLY <3>2
      <3> QED BY <3>1, <3>3, LoadedIsStored, Zenon
    <2>2. Reaped(p, t).mappings = Purged(work[p].mappings, ttl, t)
      BY DEF Reaped
    <2> QED BY <2>1, <2>2
  <1>3. SUFFICES ASSUME NEW r \in R, Minted(r), ~Outlived(Stamp(r, s), ttl, now)
                 PROVE  \E x \in Purged(Stamped(R, ttl, s), ttl, t) : Minted(x) /\ Bare(x) = Bare(r)
    BY <1>2 DEF Live, Lapsed, Resolving
  <1>4. CASE ttl = NoTTL
    BY <1>3, <1>4 DEF Stamped, Purged, Expired
  <1>5. CASE ttl # NoTTL
    <2>1. Stamp(r, s).created_at \in Nat \cup {NoTime} /\ t \in {now, NoTime}
      BY <1>1 DEF Stamp, Record, Readings
    <2>2. ~Expired(Stamp(r, s), ttl, t)
      BY <1>1, <1>3, <1>5, <2>1 DEF Expired, Outlived, Monus
    <2>3. Stamp(r, s) \in Purged(Stamped(R, ttl, s), ttl, t)
      BY <1>5, <2>2 DEF Stamped, Purged
    <2>4. Minted(Stamp(r, s)) /\ Bare(Stamp(r, s)) = Bare(r)
      BY <1>1, <1>3 DEF Stamp, Minted, Bare, Record
    <2> QED BY <2>3, <2>4
  <1> QED BY <1>4, <1>5

(* Inserting drops no live mapping: only an alias without entropy goes.     *)
LEMMA MintKeeps ==
  ASSUME NEW st \in State, NEW s \in Scope, NEW k \in Kind, NEW o \in Original,
         NEW e \in Entropy, NEW t \in Nat \cup {NoTime},
         ~\E r \in Holding(st, s, k, o) : Minted(r)
  PROVE  Resolving(st.mappings) \subseteq Resolving(WithMinted(st, s, k, o, e, t).mappings)
  <1> DEFINE next == st.counters[<<s, k>>] + 1
             tok  == [kind |-> Upper[k], n |-> next, e |-> e]
             old  == Holding(st, s, k, o)
             new  == IF old = {}
                     THEN {[scope |-> s, kind |-> k, original |-> o,
                            token |-> tok, created_at |-> t]}
                     ELSE {[r EXCEPT !.token = tok] : r \in old}
  <1>1. WithMinted(st, s, k, o, e, t).mappings = (st.mappings \ old) \cup new
    BY DEF WithMinted
  <1>2. \A r \in old : ~Minted(r)
    OBVIOUS
  <1> QED BY <1>1, <1>2 DEF Resolving

(* Steps that change neither the file nor anything of a saving process.     *)
LEMMA AckUntouched ==
  ASSUME TypeOK, TypeOK', AckInv, UNCHANGED main, acked' \subseteq Live,
         NEW p \in Process,
         TTLs = {} => lapsed'[p] = {},
         \A q \in Process \ {p} :
           /\ pc'[q] = pc[q] /\ call'[q] = call[q]
           /\ work'[q] = work[q] /\ out'[q] = out[q] /\ lapsed'[q] = lapsed[q]
           /\ pc[q] = "rename" => tmp' = tmp,
         /\ pc'[p] \in Saving => /\ Owed(p)' \subseteq Resolving(work'[p].mappings)
                                 /\ out'[p] \subseteq Resolving(work'[p].mappings)
         /\ pc'[p] = "rename" /\ tmp' # NoFile => tmp'.state = work'[p]
         /\ pc'[p] \notin Saving \cup {"return"} => out'[p] = {}
         /\ pc'[p] = "return" /\ call'[p].op = "get_or_insert_many" => out'[p] \subseteq Live
  PROVE  AckInv'
  <1>1. Live' = Live
    BY DEF Live
  <1>2. \A q \in Process \ {p} : Owed(q)' = Owed(q)
    BY DEF Owed, Spared, Live
  <1>3. acked' \subseteq Live'
    BY <1>1
  <1>4. ASSUME NEW q \in Process, q # p
        PROVE /\ TTLs = {} => lapsed'[q] = {}
              /\ pc'[q] \in Saving => /\ Owed(q)' \subseteq Resolving(work'[q].mappings)
                                      /\ out'[q] \subseteq Resolving(work'[q].mappings)
              /\ pc'[q] = "rename" /\ tmp' # NoFile => tmp'.state = work'[q]
              /\ pc'[q] \in {"reload", "purge"} => out'[q] = {}
              /\ pc'[q] = "return" /\ call'[q].op = "get_or_insert_many" => out'[q] \subseteq Live'
              /\ pc'[q] \in {"closed", "idle", "want_shared", "want_exclusive", "read"}
                   => out'[q] = {}
    BY <1>1, <1>2, <1>4 DEF AckInv
  <1>5. /\ TTLs = {} => lapsed'[p] = {}
        /\ pc'[p] \in Saving => /\ Owed(p)' \subseteq Resolving(work'[p].mappings)
                                /\ out'[p] \subseteq Resolving(work'[p].mappings)
        /\ pc'[p] = "rename" /\ tmp' # NoFile => tmp'.state = work'[p]
        /\ pc'[p] \in {"reload", "purge"} => out'[p] = {}
        /\ pc'[p] = "return" /\ call'[p].op = "get_or_insert_many" => out'[p] \subseteq Live'
        /\ pc'[p] \in {"closed", "idle", "want_shared", "want_exclusive", "read"} => out'[p] = {}
    BY <1>1 DEF Saving
  <1> QED BY <1>3, <1>4, <1>5 DEF AckInv

LEMMA AckStep == DiskInv /\ TypeOK' /\ AckInv /\ [Next]_vars => AckInv'
  <1> SUFFICES ASSUME DiskInv, TypeOK', AckInv, [Next]_vars PROVE AckInv'
    OBVIOUS
  <1> USE DEF reaps
  <1>0. TypeOK /\ Alone
    BY DEF DiskInv
  <1>1. ASSUME NEW p \in Process, Start(p) PROVE AckInv'
    <2>1. /\ UNCHANGED <<main, tmp, acked, out, work, lapsed>> /\ pc[p] \in {"closed", "idle"}
          /\ pc'[p] \in {"want_shared", "want_exclusive"}
          /\ \A q \in Process \ {p} :
               pc'[q] = pc[q] /\ call'[q] = call[q]
      BY <1>1, <1>0 DEF Start, Open, EncryptInPlace, Expire, GetOrInsertMany, DeleteScope,
                  ResolveMany, Begin, Transition, TypeOK, disk, history
    <2> QED BY <1>0, <2>1, AckUntouched DEF AckInv, Saving
  <1>2. ASSUME NEW p \in Process, LockExclusive(p) \/ LockShared(p) PROVE AckInv'
    <2>1. /\ UNCHANGED <<main, tmp, acked, out, work, handle, call, lapsed>>
          /\ pc[p] \in {"want_shared", "want_exclusive"} /\ pc'[p] \in {"reload", "read"}
          /\ \A q \in Process \ {p} : pc'[q] = pc[q]
      BY <1>2, <1>0 DEF LockExclusive, LockShared, Transition, TypeOK, disk, history
    <2> QED BY <1>0, <2>1, AckUntouched DEF AckInv, Saving
  <1>3. ASSUME NEW p \in Process, NEW op, NEW st, NEW to \in {"insert", "create_tmp", "return"},
               Purge(p, op, st, to), Spared(p) \ Lapsed(p) \subseteq Resolving(st.mappings)
        PROVE  AckInv'
    <2>1. /\ UNCHANGED <<main, tmp, acked, out, handle, call>>
          /\ pc[p] = "purge" /\ pc'[p] = to /\ work'[p] = st /\ lapsed'[p] = Lapsed(p)
          /\ \A q \in Process \ {p} : /\ pc'[q] = pc[q] /\ work'[q] = work[q]
                                      /\ lapsed'[q] = lapsed[q]
      BY <1>3, <1>0 DEF Purge, Transition, TypeOK, disk, history
    <2>2. out'[p] = {}
      BY <2>1 DEF AckInv
    <2>3. Owed(p)' = Spared(p) \ Lapsed(p)
      BY <2>1 DEF Owed, Spared, Live
    <2>4. to \in Saving => Owed(p)' \subseteq Resolving(work'[p].mappings)
      BY <1>3, <2>1, <2>3
    <2>5. TTLs = {} => lapsed'[p] = {}
      BY <1>0, <2>1 DEF TypeOK, Handle, Lapsed, Outlived
    <2> QED BY <1>0, <1>3, <2>1, <2>2, <2>4, <2>5, AckUntouched DEF AckInv, Saving
  <1>4. ASSUME NEW p \in Process,
               Reload(p) \/ PurgeToInsert(p) \/ PurgeToDelete(p) \/ PurgeToExpire(p)
        PROVE  AckInv'
    <2>1. ASSUME NEW t \in Readings, pc[p] = "purge"
          PROVE  Spared(p) \ Lapsed(p) \subseteq Resolving(Reaped(p, t).mappings)
      BY <2>1, ReapKeeps DEF Spared
    <2>2. ASSUME NEW t \in Readings, pc[p] = "purge", call[p].op = "delete_scope"
          PROVE  Spared(p) \ Lapsed(p)
                   \subseteq Resolving(Without(call[p].scope, Reaped(p, t)).mappings)
      <3>1. \A m \in Spared(p) : m.scope # call[p].scope
        BY <2>2 DEF Spared
      <3> QED BY <2>1, <2>2, <3>1 DEF Without, Resolving, InScope, Bare
    <2>3. CASE PurgeToInsert(p)
      BY <2>3, <2>1, <1>3 DEF PurgeToInsert, Purge, Transition
    <2>4. CASE PurgeToDelete(p)
      <3> PICK t \in Readings :
            Purge(p, "delete_scope", Without(call[p].scope, Reaped(p, t)), "create_tmp")
        BY <2>4 DEF PurgeToDelete
      <3>1. call[p].op = "delete_scope" /\ pc[p] = "purge"
        BY DEF Purge, Transition
      <3> QED BY <3>1, <2>2, <1>3
    <2>5. CASE PurgeToExpire(p)
      BY <2>5, <2>1, <1>3 DEF PurgeToExpire, Purge, Transition
    <2>6. CASE Reload(p)
      <3>1. /\ UNCHANGED <<main, tmp, acked, out, call, lapsed>>
            /\ pc[p] = "reload" /\ pc'[p] = "purge"
            /\ \A q \in Process \ {p} : pc'[q] = pc[q] /\ work'[q] = work[q]
        BY <2>6, <1>0 DEF Reload, Transition, TypeOK, disk, history
      <3> QED BY <1>0, <3>1, AckUntouched DEF AckInv, Saving
    <2> QED BY <1>4, <2>3, <2>4, <2>5, <2>6
  <1>5. ASSUME NEW p \in Process, MigrateLoad(p) PROVE AckInv'
    <2>1. /\ UNCHANGED <<main, tmp, acked, out, call, lapsed>>
          /\ pc[p] = "reload" /\ pc'[p] = "create_tmp" /\ work'[p].mappings = Stored(main)
          /\ \A q \in Process \ {p} : pc'[q] = pc[q] /\ work'[q] = work[q]
      BY <1>5, <1>0 DEF MigrateLoad, Transition, Migratable, Stored, TypeOK, disk, history
    <2>2. Owed(p)' \subseteq Resolving(work'[p].mappings)
      BY <2>1 DEF Owed, Spared, Live
    <2>3. out'[p] = {}
      BY <2>1 DEF AckInv
    <2> QED BY <1>0, <2>1, <2>2, <2>3, AckUntouched DEF AckInv, Saving
  <1>6. ASSUME NEW p \in Process, NEW st, pc[p] = "insert", Insert(p, st),
               Resolving(work[p].mappings) \subseteq Resolving(st.mappings)
        PROVE AckInv'
    <2> DEFINE H == Holding(st, call[p].scope, Head(call[p].items)[1], Head(call[p].items)[2])
    <2>1. /\ UNCHANGED <<main, tmp, acked, lapsed>>
          /\ pc'[p] \in {"create_tmp", "insert"} /\ work'[p] = st
          /\ out'[p] = out[p] \cup Resolving(H)
          /\ call'[p].op = call[p].op /\ call'[p].scope = call[p].scope
          /\ \A q \in Process \ {p} : /\ pc'[q] = pc[q] /\ work'[q] = work[q]
                                      /\ call'[q] = call[q] /\ out'[q] = out[q]
      BY <1>6, <1>0 DEF Insert, TypeOK, disk, history
    <2>2. Owed(p)' = Owed(p)
      BY <2>1 DEF Owed, Spared, Live
    <2>3. Resolving(H) \subseteq Resolving(st.mappings)
      BY DEF Resolving, Holding
    <2>4. Owed(p) \cup out[p] \subseteq Resolving(work[p].mappings)
      BY <1>6 DEF AckInv, Saving
    <2> QED BY <1>0, <1>6, <2>1, <2>2, <2>3, <2>4, AckUntouched DEF AckInv, Saving
  <1>7. ASSUME NEW p \in Process, InsertLocked(p) PROVE AckInv'
    <2> DEFINE s == call[p].scope
               item == Head(call[p].items)
    <2>1. /\ pc[p] = "insert" /\ work[p] \in State
          /\ s \in Scope /\ item \in Kind \X Original
      BY <1>7, <1>0 DEF InsertLocked, Call, TypeOK
    <2>2. CASE /\ \E r \in Holding(work[p], s, item[1], item[2]) : Minted(r)
               /\ Insert(p, work[p])
      BY <2>1, <2>2, <1>6
    <2>3. CASE /\ ~\E r \in Holding(work[p], s, item[1], item[2]) : Minted(r)
               /\ \E e \in Entropy, t \in Readings :
                    Insert(p, WithMinted(work[p], s, item[1], item[2], e, t))
      <3> PICK e \in Entropy, t \in Readings :
                 Insert(p, WithMinted(work[p], s, item[1], item[2], e, t))
        BY <2>3
      <3>1. t \in Nat \cup {NoTime}
        BY <1>0, ReadingsType
      <3> QED BY <2>1, <2>3, <3>1, MintKeeps, <1>6
    <2> QED BY <1>7, <2>2, <2>3 DEF InsertLocked
  <1>8. ASSUME NEW p \in Process, CreateTmp(p) \/ FillTmp(p) PROVE AckInv'
    <2>1. /\ UNCHANGED <<main, acked, call, out, work, lapsed>> /\ pc[p] \in Saving
          /\ pc'[p] \in {"fill_tmp", "rename"}
          /\ pc'[p] = "rename" => tmp'.state = work[p]
          /\ \A q \in Process \ {p} : pc'[q] = pc[q] /\ pc[q] # "rename"
      BY <1>8, <1>0 DEF CreateTmp, FillTmp, Sealed, Transition, Alone, Saving, TypeOK, history
    <2>2. Owed(p)' = Owed(p)
      BY <2>1 DEF Owed, Spared, Live
    <2> QED BY <1>0, <2>1, <2>2, AckUntouched DEF AckInv, Saving
  <1>9. ASSUME NEW p \in Process, RenameTmp(p) PROVE AckInv'
    <2>1. /\ pc[p] = "rename" /\ tmp # NoFile /\ main' = tmp
          /\ pc' = [pc EXCEPT ![p] = "return"]
          /\ UNCHANGED <<call, out, work, lapsed>>
          /\ acked' = (acked \ {m \in acked : m.scope \in
                         IF call[p].op = "delete_scope" THEN {call[p].scope} ELSE {}})
                      \ lapsed[p]
      BY <1>9 DEF RenameTmp, Transition
    <2>2. Live' = Resolving(work[p].mappings)
      BY <2>1, NoFileAssumption DEF AckInv, Live, Stored
    <2>3. acked' \subseteq Owed(p)
      BY <2>1 DEF AckInv, Owed, Spared
    <2>4. Owed(p) \subseteq Live' /\ out[p] \subseteq Live'
      BY <2>1, <2>2 DEF AckInv, Saving
    <2>5. \A q \in Process \ {p} :
             pc[q] \notin Saving /\ ~(pc[q] = "return" /\ call[q].op = "get_or_insert_many")
      BY <2>1, <1>0 DEF Alone, Saving
    <2> QED BY <1>0, <2>1, <2>3, <2>4, <2>5 DEF AckInv, Saving, TypeOK
  <1>10. ASSUME NEW p \in Process, ReadMany(p) \/ ReadOpen(p) PROVE AckInv'
    <2>1. /\ UNCHANGED <<main, tmp, acked, call, lapsed>>
          /\ pc'[p] = "return" /\ call[p].op # "get_or_insert_many"
          /\ \A q \in Process \ {p} : pc'[q] = pc[q] /\ work'[q] = work[q] /\ out'[q] = out[q]
      BY <1>10, <1>0 DEF ReadMany, ReadOpen, Transition, TypeOK, disk, history
    <2> QED BY <1>0, <2>1, AckUntouched DEF AckInv, Saving
  <1>11. ASSUME NEW p \in Process, Return(p) \/ Fail(p) \/ Crash(p) PROVE AckInv'
    <2>1. /\ UNCHANGED <<main, tmp>> /\ out'[p] = {} /\ lapsed'[p] = {}
          /\ pc'[p] \in {"idle", "closed"}
          /\ \A q \in Process \ {p} : /\ pc'[q] = pc[q] /\ work'[q] = work[q] /\ out'[q] = out[q]
                                      /\ call'[q] = call[q] /\ lapsed'[q] = lapsed[q]
      BY <1>11, <1>0 DEF Return, Fail, Crash, Unlock, KeepHandle, DropHandle, TypeOK, disk
    <2>2. acked' \subseteq Live
      <3>1. CASE Return(p) /\ call[p].op = "get_or_insert_many"
        <4>1. acked' = acked \cup out[p] /\ pc[p] = "return"
          BY <3>1 DEF Return
        <4> QED BY <3>1, <4>1 DEF AckInv
      <3>2. CASE ~(Return(p) /\ call[p].op = "get_or_insert_many")
        <4>1. acked' = acked
          BY <1>11, <3>2 DEF Return, Fail, Crash, history
        <4> QED BY <4>1 DEF AckInv
      <3> QED BY <3>1, <3>2
    <2> QED BY <1>0, <2>1, <2>2, AckUntouched DEF Saving
  <1>12. CASE Tick \/ UNCHANGED vars
    BY <1>12 DEF Tick, vars, disk, procs, history, AckInv, Owed, Spared, Live
  <1> QED BY <1>1, <1>2, <1>4, <1>5, <1>7, <1>8, <1>9, <1>10, <1>11, <1>12
          DEF Next, Locked

(* What a call returned is there until it is forgotten or its lifetime is   *)
(* over, whatever other processes, crashes and failures do meanwhile.       *)
THEOREM NothingReturnedIsLost == Spec => []AckedSurvives
  <1>1. Init => AckInv
    BY DEF Init, AckInv, Saving
  <1>2. AckInv => AckedSurvives
    BY DEF AckInv, AckedSurvives
  <1>3. QED BY <1>1, <1>2, AckStep, DiskInvariant, TypeCorrect, PTL DEF Spec

-----------------------------------------------------------------------------
(* Aliases.  A value has one record in its scope, in the file and in the     *)
(* copy of a process that saves; a reload only takes away.                   *)

Unique(M) ==
  \A a, b \in M :
    a.scope = b.scope /\ a.kind = b.kind /\ a.original = b.original => a = b

(* What a call has of the file, when it starts to change it.                 *)
Reap(p, s, t) ==
  [mappings |-> Purged(Stamped(Loaded.mappings, handle[p].ttl, s), handle[p].ttl, t),
   counters |-> Loaded.counters]

Reloaded(p, st) ==
  \/ call[p].op # "delete_scope" /\ st = Loaded
  \/ \E s, t :
       \/ call[p].op # "delete_scope" /\ st = Reap(p, s, t)
       \/ call[p].op = "delete_scope" /\ st = Without(call[p].scope, Reap(p, s, t))

(* A process that goes on saving keeps its copy, its call and its answer.    *)
GoesOn(p) ==
  pc[p] \in Saving /\ work'[p] = work[p] /\ out'[p] = out[p] /\ call'[p] = call[p]

Takes(p) ==
  /\ pc[p] \in {"reload", "purge"} /\ out'[p] = out[p] /\ call'[p] = call[p]
  /\ Reloaded(p, work'[p])

Aside(p) ==
  /\ UNCHANGED <<main, issued, forgotten>>
  /\ \A q \in Process \ {p} :
       pc'[q] = pc[q] /\ call'[q] = call[q] /\ work'[q] = work[q] /\ out'[q] = out[q]

(* What a step does to the processes that save.                              *)
LEMMA SavingSteps ==
  ASSUME DiskInv, [Next]_vars
  PROVE  \/ \E p \in Process : RenameTmp(p)
         \/ UNCHANGED <<main, issued, forgotten, pc, call, work, out>>
         \/ \E p \in Process :
              /\ Aside(p)
              /\ InsertLocked(p) \/ (pc'[p] \in Saving => GoesOn(p) \/ Takes(p))
  <1> USE DEF DiskInv, TypeOK, Aside, disk, history
  <1>1. ASSUME NEW p \in Process, Start(p) PROVE Aside(p) /\ pc'[p] \notin Saving
    BY <1>1 DEF Start, Open, EncryptInPlace, Expire, GetOrInsertMany, DeleteScope,
                ResolveMany, Begin, Transition, Saving
  <1>2. ASSUME NEW p \in Process, LockExclusive(p) \/ LockShared(p) \/ Reload(p)
        PROVE  Aside(p) /\ pc'[p] \notin Saving
    BY <1>2 DEF LockExclusive, LockShared, Reload, Transition, Saving
  <1>3. ASSUME NEW p \in Process, NEW op, NEW st, NEW to, Purge(p, op, st, to), Reloaded(p, st)
        PROVE  Aside(p) /\ Takes(p)
    <2>1. pc[p] = "purge" /\ work'[p] = st /\ out'[p] = out[p] /\ call'[p] = call[p]
      BY <1>3 DEF Purge, Transition
    <2>2. Aside(p)
      BY <1>3 DEF Purge, Transition
    <2> QED BY <1>3, <2>1, <2>2 DEF Takes
  <1>4. ASSUME NEW p \in Process, PurgeToInsert(p) \/ PurgeToDelete(p) \/ PurgeToExpire(p)
        PROVE  Aside(p) /\ Takes(p)
    <2>0. ASSUME NEW t PROVE pc[p] = "purge" => Reaped(p, t) = Reap(p, stamped[p], t)
      BY DEF Copied, Reaped, Reap
    <2>1. CASE PurgeToInsert(p)
      <3> PICK t \in Readings :
            Purge(p, "get_or_insert_many", Reaped(p, t),
                  IF call[p].items = <<>> THEN "create_tmp" ELSE "insert")
        BY <2>1 DEF PurgeToInsert
      <3>1. Reloaded(p, Reaped(p, t))
        BY <2>0 DEF Purge, Transition, Reloaded
      <3> QED BY <3>1, <1>3
    <2>2. CASE PurgeToDelete(p)
      <3> PICK t \in Readings :
            Purge(p, "delete_scope", Without(call[p].scope, Reaped(p, t)), "create_tmp")
        BY <2>2 DEF PurgeToDelete
      <3>1. Reloaded(p, Without(call[p].scope, Reaped(p, t)))
        BY <2>0 DEF Purge, Transition, Reloaded
      <3> QED BY <3>1, <1>3
    <2>3. CASE PurgeToExpire(p)
      <3> PICK t \in Readings :
            Purge(p, "expire", Reaped(p, t), IF Reaped(p, t) = Loaded THEN "return" ELSE "create_tmp")
        BY <2>3 DEF PurgeToExpire
      <3>1. Reloaded(p, Reaped(p, t))
        BY <2>0 DEF Purge, Transition, Reloaded
      <3> QED BY <3>1, <1>3
    <2> QED BY <1>4, <2>1, <2>2, <2>3
  <1>5. ASSUME NEW p \in Process, MigrateLoad(p) PROVE Aside(p) /\ Takes(p)
    <2>1. pc[p] = "reload" /\ work'[p] = Loaded /\ out'[p] = out[p] /\ call'[p] = call[p]
          /\ call[p].op # "delete_scope"
      BY <1>5 DEF MigrateLoad, Transition, Migratable, Loaded
    <2>2. Aside(p)
      BY <1>5 DEF MigrateLoad, Transition
    <2> QED BY <2>1, <2>2 DEF Takes, Reloaded
  <1>6. ASSUME NEW p \in Process, InsertLocked(p) PROVE Aside(p)
    BY <1>6 DEF InsertLocked, Insert
  <1>7. ASSUME NEW p \in Process, CreateTmp(p) \/ FillTmp(p) PROVE Aside(p) /\ GoesOn(p)
    BY <1>7 DEF CreateTmp, FillTmp, Transition, GoesOn, Saving
  <1>8. ASSUME NEW p \in Process, ReadMany(p) \/ ReadOpen(p)
        PROVE  Aside(p) /\ pc'[p] \notin Saving
    BY <1>8 DEF ReadMany, ReadOpen, Transition, Saving
  <1>9. ASSUME NEW p \in Process, Return(p) \/ Fail(p) \/ Crash(p)
        PROVE  Aside(p) /\ pc'[p] \notin Saving
    BY <1>9 DEF Return, Fail, Crash, Unlock, KeepHandle, DropHandle, Saving
  <1>10. CASE Tick \/ UNCHANGED vars
    BY <1>10 DEF Tick, vars, procs
  <1> QED BY <1>1, <1>2, <1>4, <1>5, <1>6, <1>7, <1>8, <1>9, <1>10 DEF Next, Locked

(* A reload brings in no mapping, makes no second alias, leaves nothing of a *)
(* forgotten scope and no number of another scope unaccounted for.           *)
LEMMA ReapedKeepsBare ==
  ASSUME NEW R \in SUBSET Record, NEW ttl, NEW s, NEW t,
         NEW K, K = Purged(Stamped(R, ttl, s), ttl, t)
  PROVE  /\ \A y \in K : \E x \in R : Bare(y) = Bare(x)
         /\ Unique(R) => Unique(K)
  <1>1. ASSUME NEW x \in R
        PROVE /\ Bare(Stamp(x, s)) = Bare(x) /\ Stamp(x, s).scope = x.scope
              /\ Stamp(x, s).kind = x.kind /\ Stamp(x, s).original = x.original
    BY DEF Stamp, Bare, Record
  <1>2. K \subseteq Stamped(R, ttl, s)
    BY DEF Purged
  <1>3. CASE ttl = NoTTL
    BY <1>2, <1>3 DEF Stamped, Unique
  <1>4. CASE ttl # NoTTL
    <2>1. \A y \in K : \E x \in R : y = Stamp(x, s)
      BY <1>2, <1>4 DEF Stamped
    <2> QED BY <1>1, <2>1 DEF Unique
  <1> QED BY <1>3, <1>4

LEMMA ReloadTakesAway ==
  ASSUME TypeOK, NEW p \in Process, NEW st, Reloaded(p, st)
  PROVE  /\ Resolving(st.mappings) \subseteq Live
         /\ Unique(Stored(main)) => Unique(st.mappings)
         /\ call[p].op = "delete_scope" =>
              \A m \in Resolving(st.mappings) : m.scope # call[p].scope
         /\ \A s \in Scope, k \in Kind :
              (call[p].op = "delete_scope" => s # call[p].scope)
                => st.counters[<<s, k>>] = Loaded.counters[<<s, k>>]
  <1>1. Stored(main) \in SUBSET Record /\ Loaded \in State
    BY StoredType, LoadedType DEF TypeOK
  <1>2. ASSUME NEW u, NEW t
        PROVE  /\ Resolving(Reap(p, u, t).mappings) \subseteq Live
               /\ Unique(Stored(main)) => Unique(Reap(p, u, t).mappings)
               /\ Reap(p, u, t).counters = Loaded.counters
    <2>1. /\ Reap(p, u, t).mappings = Purged(Stamped(Stored(main), handle[p].ttl, u), handle[p].ttl, t)
          /\ Reap(p, u, t).counters = Loaded.counters
      BY <1>1, LoadedIsStored DEF Reap, State
    <2>2. /\ \A y \in Reap(p, u, t).mappings : \E x \in Stored(main) : Bare(y) = Bare(x)
          /\ Unique(Stored(main)) => Unique(Reap(p, u, t).mappings)
      BY <1>1, <2>1, ReapedKeepsBare
    <2>3. \A x, y : Bare(y) = Bare(x) => x.token = y.token
      BY DEF Bare
    <2> QED BY <2>1, <2>2, <2>3 DEF Live, Resolving, Minted
  <1>3. CASE call[p].op # "delete_scope" /\ st = Loaded
    BY <1>3, LoadedIsStored DEF Live
  <1>4. ASSUME NEW u, NEW t, call[p].op # "delete_scope", st = Reap(p, u, t) PROVE
           /\ Resolving(st.mappings) \subseteq Live
           /\ Unique(Stored(main)) => Unique(st.mappings)
           /\ st.counters = Loaded.counters
    BY <1>2, <1>4
  <1>5. ASSUME NEW u, NEW t, call[p].op = "delete_scope",
               st = Without(call[p].scope, Reap(p, u, t))
        PROVE  /\ Resolving(st.mappings) \subseteq Live
               /\ Unique(Stored(main)) => Unique(st.mappings)
               /\ \A m \in Resolving(st.mappings) : m.scope # call[p].scope
               /\ \A s \in Scope, k \in Kind :
                    s # call[p].scope => st.counters[<<s, k>>] = Loaded.counters[<<s, k>>]
    <2> DEFINE R == Reap(p, u, t).mappings
               c == call[p].scope
    <2>1. st.mappings = R \ InScope(c, R)
      BY <1>5 DEF Without
    <2>2. \A s \in Scope, k \in Kind :
            st.counters[<<s, k>>] = IF s = c THEN 0 ELSE Reap(p, u, t).counters[<<s, k>>]
      BY <1>5 DEF Without
    <2>3. Unique(R) => Unique(st.mappings)
      BY <2>1 DEF Unique
    <2>4. Resolving(st.mappings) \subseteq Resolving(R)
          /\ \A m \in Resolving(st.mappings) : m.scope # c
      BY <2>1 DEF Resolving, InScope, Bare
    <2> QED BY <1>2, <2>2, <2>3, <2>4
  <1> QED BY <1>3, <1>4, <1>5 DEF Reloaded

(* Minting: one mapping more, under the next number.                         *)
NewMapping(st, s, k, o, e) ==
  [scope |-> s, kind |-> k, original |-> o,
   token |-> [kind |-> Upper[k], n |-> st.counters[<<s, k>>] + 1, e |-> e]]

Bumped(st, s, k) == [st.counters EXCEPT ![<<s, k>>] = st.counters[<<s, k>>] + 1]

LEMMA MintAddsOne ==
  ASSUME NEW st \in State, NEW s \in Scope, NEW k \in Kind, NEW o \in Original,
         NEW e \in Entropy, NEW t \in Nat \cup {NoTime},
         ~\E r \in Holding(st, s, k, o) : Minted(r),
         NEW after, after = WithMinted(st, s, k, o, e, t)
  PROVE  /\ Resolving(after.mappings)
              = Resolving(st.mappings) \cup {NewMapping(st, s, k, o, e)}
         /\ Resolving(Holding(after, s, k, o)) = {NewMapping(st, s, k, o, e)}
         /\ after.counters = Bumped(st, s, k)
         /\ Unique(st.mappings) => Unique(after.mappings)
  <1> DEFINE tok  == [kind |-> Upper[k], n |-> st.counters[<<s, k>>] + 1, e |-> e]
             old  == Holding(st, s, k, o)
             new  == IF old = {}
                     THEN {[scope |-> s, kind |-> k, original |-> o,
                            token |-> tok, created_at |-> t]}
                     ELSE {[r EXCEPT !.token = tok] : r \in old}
             m    == NewMapping(st, s, k, o, e)
  <1>1. /\ after.mappings = (st.mappings \ old) \cup new
        /\ after.counters = [st.counters EXCEPT ![<<s, k>>] = st.counters[<<s, k>>] + 1]
    BY DEF WithMinted
  <1>2. st.counters[<<s, k>>] \in Nat /\ st.mappings \in SUBSET Record
    BY DEF State
  <1>3. \A r \in old : ~Minted(r) /\ r.scope = s /\ r.kind = k /\ r.original = o /\ r \in Record
    BY <1>2 DEF Holding
  <1>4. \A x \in new : Minted(x) /\ Bare(x) = m /\ x.scope = s /\ x.kind = k /\ x.original = o
    BY <1>2, <1>3 DEF Minted, Bare, NewMapping, Record
  <1>5. new # {}
    OBVIOUS
  <1>6. \A r \in st.mappings \ old : ~(r.scope = s /\ r.kind = k /\ r.original = o)
    BY DEF Holding
  <1>7. Unique(st.mappings) => \A a, b \in new : a = b
    <2>1. Unique(st.mappings) => \A a, b \in old : a = b
      BY <1>3 DEF Unique, Holding
    <2> QED BY <2>1
  <1> HIDE DEF old, new, m
  <1>8. Resolving(after.mappings) = Resolving(st.mappings) \cup {m}
    BY <1>1, <1>3, <1>4, <1>5 DEF Resolving
  <1>9. Holding(after, s, k, o) = new
    BY <1>1, <1>4, <1>6 DEF Holding
  <1>10. Resolving(Holding(after, s, k, o)) = {m}
    BY <1>9, <1>4, <1>5 DEF Resolving
  <1>11. Unique(st.mappings) => Unique(after.mappings)
    BY <1>1, <1>4, <1>6, <1>7 DEF Unique
  <1> QED BY <1>1, <1>8, <1>10, <1>11 DEF m, Bumped

-----------------------------------------------------------------------------
(* Tokens.  The counters of the file are above every number that was stored *)
(* since the scope was last forgotten, those of a copy above what it adds:  *)
(* so no number is given twice, however often the random suffix repeats.    *)

OneName(M) ==
  \A a, b \in M :
    a.scope = b.scope /\ a.kind = b.kind /\ a.token = b.token => a.original = b.original

Counted(M, counters) ==
  /\ M \subseteq Mapping
  /\ \A m \in M : m.token.n <= counters[<<m.scope, m.kind>>]

(* What stays issued when the call of p is done.                            *)
Kept(p) == {m \in issued : call[p].op = "delete_scope" => m.scope # call[p].scope}

Numbers(p) == Kept(p) \cup Resolving(work[p].mappings)

AliasInv ==
  /\ Unique(Stored(main))
  /\ \A p \in Process : pc[p] \in Saving => Unique(work[p].mappings)

TokenInv ==
  /\ Live \subseteq issued
  /\ OneName(issued) /\ Counted(issued, Loaded.counters)
  /\ \A p \in Process :
       pc[p] \in Saving => OneName(Numbers(p)) /\ Counted(Numbers(p), work[p].counters)

Mints(p, s, k, o, e) ==
  /\ Mintable(work[p], NewMapping(work[p], s, k, o, e).token)
  /\ Resolving(work'[p].mappings)
       = Resolving(work[p].mappings) \cup {NewMapping(work[p], s, k, o, e)}
  /\ work'[p].counters = Bumped(work[p], s, k)
  /\ out'[p] = out[p] \cup {NewMapping(work[p], s, k, o, e)}

(* The insert of one item: the mapping it answers with is in the copy, and  *)
(* whatever is new there is that mapping, under the next number.            *)
LEMMA InsertsOne ==
  ASSUME TypeOK, NEW p \in Process, InsertLocked(p)
  PROVE  /\ pc[p] = "insert" /\ call[p].op = "get_or_insert_many" /\ call[p].scope \in Scope
         /\ call'[p].op = call[p].op /\ call'[p].scope = call[p].scope
         /\ Unique(work[p].mappings) => Unique(work'[p].mappings)
         /\ \/ /\ work'[p] = work[p]
               /\ \E A \in SUBSET Resolving(work[p].mappings) :
                    /\ out'[p] = out[p] \cup A
                    /\ \A m \in A : m.scope = call[p].scope
            \/ \E k \in Kind, o \in Original, e \in Entropy :
                 Mints(p, call[p].scope, k, o, e)
  <1> DEFINE s    == call[p].scope
             item == Head(call[p].items)
             k    == item[1]
             o    == item[2]
  <1>1. /\ pc[p] = "insert" /\ call[p].op = "get_or_insert_many" /\ s \in Scope
        /\ item \in Kind \X Original /\ work[p] \in State
    BY DEF InsertLocked, Call, TypeOK
  <1>2. k \in Kind /\ o \in Original
    BY <1>1
  <1>3. ASSUME NEW st, Insert(p, st)
        PROVE  /\ work'[p] = st /\ out'[p] = out[p] \cup Resolving(Holding(st, s, k, o))
               /\ call'[p].op = call[p].op /\ call'[p].scope = call[p].scope
    BY <1>3 DEF Insert, TypeOK
  <1>4. CASE Insert(p, work[p])
    <2>1. /\ Resolving(Holding(work[p], s, k, o)) \subseteq Resolving(work[p].mappings)
          /\ \A m \in Resolving(Holding(work[p], s, k, o)) : m.scope = s
      BY DEF Resolving, Holding, Bare
    <2> HIDE DEF s, k, o
    <2> QED BY <1>1, <1>3, <1>4, <2>1 DEF s
  <1>5. CASE /\ ~\E r \in Holding(work[p], s, k, o) : Minted(r)
             /\ \E e \in Entropy, t \in Readings :
                  /\ Mintable(work[p], [kind |-> Upper[k], n |-> work[p].counters[<<s, k>>] + 1, e |-> e])
                  /\ Insert(p, WithMinted(work[p], s, k, o, e, t))
    <2> PICK e \in Entropy, t \in Readings :
               /\ Mintable(work[p], [kind |-> Upper[k], n |-> work[p].counters[<<s, k>>] + 1, e |-> e])
               /\ Insert(p, WithMinted(work[p], s, k, o, e, t))
      BY <1>5
    <2> DEFINE after == WithMinted(work[p], s, k, o, e, t)
    <2>1. t \in Nat \cup {NoTime}
      BY ReadingsType
    <2>2. NewMapping(work[p], s, k, o, e).token
            = [kind |-> Upper[k], n |-> work[p].counters[<<s, k>>] + 1, e |-> e]
      BY DEF NewMapping
    <2> HIDE DEF after
    <2>3. /\ Resolving(after.mappings)
              = Resolving(work[p].mappings) \cup {NewMapping(work[p], s, k, o, e)}
          /\ Resolving(Holding(after, s, k, o)) = {NewMapping(work[p], s, k, o, e)}
          /\ after.counters = Bumped(work[p], s, k)
          /\ Unique(work[p].mappings) => Unique(after.mappings)
      <3>1. ASSUME NEW c \in Scope, NEW d \in Kind, NEW v \in Original,
                   ~\E r \in Holding(work[p], c, d, v) : Minted(r),
                   NEW st, st = WithMinted(work[p], c, d, v, e, t)
            PROVE  /\ Resolving(st.mappings)
                        = Resolving(work[p].mappings) \cup {NewMapping(work[p], c, d, v, e)}
                   /\ Resolving(Holding(st, c, d, v)) = {NewMapping(work[p], c, d, v, e)}
                   /\ st.counters = Bumped(work[p], c, d)
                   /\ Unique(work[p].mappings) => Unique(st.mappings)
        <4>1. /\ work[p] \in State /\ c \in Scope /\ d \in Kind /\ v \in Original
              /\ e \in Entropy /\ t \in Nat \cup {NoTime}
          BY <1>1, <2>1
        <4> QED BY ONLY <3>1, <4>1, MintAddsOne
      <3>2. after = WithMinted(work[p], s, k, o, e, t)
        BY DEF after
      <3>3. ~\E r \in Holding(work[p], s, k, o) : Minted(r)
        BY <1>5
      <3>4. s \in Scope /\ k \in Kind /\ o \in Original
        BY <1>1, <1>2
      <3> HIDE DEF s, item, k, o
      <3> QED BY <3>1, <3>2, <3>3, <3>4
    <2>4. /\ work'[p] = after /\ out'[p] = out[p] \cup Resolving(Holding(after, s, k, o))
          /\ call'[p].op = call[p].op /\ call'[p].scope = call[p].scope
      BY <1>3 DEF after
    <2>5. Mintable(work[p], NewMapping(work[p], s, k, o, e).token)
      BY <2>2
    <2>6. s = call[p].scope
      OBVIOUS
    <2> HIDE DEF after, s, k, o
    <2>7. Mints(p, s, k, o, e)
      BY <2>3, <2>4, <2>5 DEF Mints
    <2>8. Unique(work[p].mappings) => Unique(work'[p].mappings)
      BY <2>3, <2>4
    <2> QED BY <1>1, <1>2, <2>4, <2>6, <2>7, <2>8
  <1> QED BY <1>4, <1>5 DEF InsertLocked

(* While a process saves, no other one does.                                *)
LEMMA SavesAlone ==
  ASSUME TypeOK, Alone, NEW p \in Process, pc[p] \in {"reload"} \cup Saving
  PROVE  \A q \in Process \ {p} : pc[q] \notin {"reload"} \cup Saving
  BY DEF Alone

(* What a rename puts in place of the file.                                 *)
LEMMA RenamePublishes ==
  ASSUME DiskInv, AckInv, NEW p \in Process, RenameTmp(p)
  PROVE  /\ pc[p] = "rename" /\ main' # NoFile /\ Loaded' = work[p]
         /\ Stored(main') = work[p].mappings
         /\ Live' = Resolving(work[p].mappings)
         /\ UNCHANGED <<call, work, out>>
         /\ pc'[p] = "return" /\ \A q \in Process \ {p} : pc'[q] = pc[q]
         /\ issued' = Numbers(p)
         /\ forgotten' = forgotten \cup (issued \ Kept(p))
         /\ \A q \in Process : pc'[q] \notin Saving
  <1>1. /\ pc[p] = "rename" /\ tmp # NoFile /\ main' = tmp
        /\ pc' = [pc EXCEPT ![p] = "return"]
        /\ UNCHANGED <<handle, call, out, work, now>>
    BY DEF RenameTmp, Transition
  <1>2. tmp.state = work[p]
    BY <1>1 DEF AckInv
  <1>3. Loaded' = work[p] /\ Stored(main') = work[p].mappings /\ main' # NoFile
    BY <1>1, <1>2 DEF Loaded, Stored
  <1>4. Live' = Resolving(work[p].mappings)
    BY <1>1, <1>3 DEF Live
  <1>5. issued' = Numbers(p) /\ forgotten' = forgotten \cup (issued \ Kept(p))
    <2>1. {m \in issued : m.scope \in (IF call[p].op = "delete_scope" THEN {call[p].scope} ELSE {})}
             = issued \ Kept(p)
      BY DEF Kept
    <2>2. Kept(p) \subseteq issued
      BY DEF Kept
    <2> QED BY <1>4, <2>1, <2>2 DEF RenameTmp, Numbers
  <1>6. pc \in [Process -> Fallible \cup {"closed", "idle", "purge", "return"}]
    BY DEF DiskInv, TypeOK
  <1>7. \A q \in Process \ {p} : pc[q] \notin Saving
    BY <1>1, SavesAlone DEF DiskInv, Saving
  <1> QED BY <1>1, <1>3, <1>4, <1>5, <1>6, <1>7 DEF Saving

LEMMA AliasStep == DiskInv /\ AckInv /\ AliasInv /\ [Next]_vars => AliasInv'
  <1> SUFFICES ASSUME DiskInv, AckInv, AliasInv, [Next]_vars PROVE AliasInv'
    OBVIOUS
  <1>0. TypeOK
    BY DEF DiskInv
  <1>1. ASSUME NEW p \in Process, RenameTmp(p) PROVE AliasInv'
    <2>1. Unique(work[p].mappings)
      BY <1>1, RenamePublishes DEF AliasInv, Saving
    <2> QED BY <1>1, <2>1, RenamePublishes DEF AliasInv
  <1>2. CASE UNCHANGED <<main, issued, forgotten, pc, call, work, out>>
    BY <1>2 DEF AliasInv, Unique
  <1>3. ASSUME NEW p \in Process, Aside(p), pc'[p] \in Saving => Unique(work'[p].mappings)
        PROVE  AliasInv'
    BY <1>3 DEF AliasInv, Aside, Unique
  <1>4. ASSUME NEW p \in Process, Aside(p), InsertLocked(p) PROVE AliasInv'
    <2>1. Unique(work[p].mappings)
      BY <1>0, <1>4, InsertsOne DEF AliasInv, Saving
    <2> QED BY <1>0, <1>3, <1>4, <2>1, InsertsOne
  <1>5. ASSUME NEW p \in Process, Aside(p), GoesOn(p) PROVE AliasInv'
    <2>1. Unique(work'[p].mappings)
      BY <1>5 DEF AliasInv, GoesOn
    <2> QED BY <1>3, <1>5, <2>1
  <1>6. ASSUME NEW p \in Process, Aside(p), Takes(p) PROVE AliasInv'
    <2>1. Unique(work'[p].mappings)
      BY <1>0, <1>6, ReloadTakesAway DEF AliasInv, Takes
    <2> QED BY <1>3, <1>6, <2>1
  <1> QED BY <1>1, <1>2, <1>3, <1>4, <1>5, <1>6, SavingSteps

LEMMA AliasInvariant == Spec => []AliasInv
  <1>1. Init => AliasInv
    <2> SUFFICES ASSUME Init PROVE AliasInv
      OBVIOUS
    <2>1. \A a, b \in Stored(main) : a = b
      BY DEF Init, Stored, LegacyState
    <2> QED BY <2>1 DEF Init, AliasInv, Unique, Saving
  <1>2. Init => AckInv
    BY DEF Init, AckInv, Saving
  <1> QED BY <1>1, <1>2, AliasStep, AckStep, DiskInvariant, TypeCorrect, PTL DEF Spec

(* A value has one alias in its scope, whoever inserts, rotates a legacy    *)
(* alias, saves, fails or dies.                                             *)
THEOREM AValueHasOneAlias == Spec => []OneAliasPerValue
  <1>1. AliasInv => OneAliasPerValue
    BY DEF AliasInv, OneAliasPerValue, Unique
  <1> QED BY <1>1, AliasInvariant, PTL

(* The alias of a legacy file is not one that resolves.                     *)
LEMMA NothingLivesAtFirst == Init => Live = {}
  <1> SUFFICES ASSUME Init PROVE Live = {}
    OBVIOUS
  <1>1. \A r \in Stored(main) : r.token.n = 0
    BY DEF Init, Stored, LegacyState
  <1> QED BY <1>1 DEF Live, Resolving, Minted

LEMMA TokenStep == DiskInv /\ AckInv /\ TokenInv /\ [Next]_vars => TokenInv'
  <1> SUFFICES ASSUME DiskInv, AckInv, TokenInv, [Next]_vars PROVE TokenInv'
    OBVIOUS
  <1>0. TypeOK
    BY DEF DiskInv
  <1>1. ASSUME NEW p \in Process, RenameTmp(p) PROVE TokenInv'
    <2>1. OneName(Numbers(p)) /\ Counted(Numbers(p), work[p].counters)
      BY <1>1, RenamePublishes DEF TokenInv, Saving
    <2>2. Live' \subseteq issued'
      BY <1>1, RenamePublishes DEF Numbers
    <2>3. OneName(issued') /\ Counted(issued', Loaded'.counters)
      BY <1>1, <2>1, RenamePublishes
    <2>4. \A q \in Process : pc'[q] \notin Saving
      BY <1>1, RenamePublishes
    <2> QED BY <2>2, <2>3, <2>4 DEF TokenInv, OneName, Counted
  <1>2. CASE UNCHANGED <<main, issued, forgotten, pc, call, work, out>>
    BY <1>2 DEF TokenInv, OneName, Counted, Live, Loaded, Numbers, Kept
  <1>3. ASSUME NEW p \in Process, Aside(p),
               pc'[p] \in Saving =>
                 OneName(Numbers(p)') /\ Counted(Numbers(p)', work'[p].counters)
        PROVE  TokenInv'
    <2>1. Live' = Live /\ Loaded' = Loaded /\ issued' = issued
      BY <1>3 DEF Aside, Live, Loaded
    <2>2. ASSUME NEW q \in Process, q # p
          PROVE  Numbers(q)' = Numbers(q) /\ work'[q] = work[q] /\ pc'[q] = pc[q]
      BY <1>3, <2>2 DEF Aside, Numbers, Kept
    <2>3. ASSUME NEW q \in Process, pc'[q] \in Saving
          PROVE  OneName(Numbers(q)') /\ Counted(Numbers(q)', work'[q].counters)
      <3>1. CASE q = p
        BY <1>3, <2>3, <3>1
      <3>2. CASE q # p
        <4>1. OneName(Numbers(q)) /\ Counted(Numbers(q), work[q].counters)
          BY <2>2, <2>3, <3>2 DEF TokenInv
        <4> QED BY <2>2, <3>2, <4>1
      <3> QED BY <3>1, <3>2
    <2> QED BY <2>1, <2>3 DEF TokenInv, OneName, Counted
  <1>4. ASSUME NEW p \in Process, Aside(p), InsertLocked(p) PROVE TokenInv'
    <2>1. /\ pc[p] \in Saving /\ call'[p].op = call[p].op /\ call'[p].scope = call[p].scope
          /\ issued' = issued
      BY <1>0, <1>4, InsertsOne DEF Saving, Aside
    <2>2. OneName(Numbers(p)) /\ Counted(Numbers(p), work[p].counters)
      BY <2>1 DEF TokenInv
    <2>3. Kept(p)' = Kept(p)
      BY <2>1 DEF Kept
    <2>4. CASE work'[p] = work[p]
      <3>1. Numbers(p)' = Numbers(p)
        BY <2>3, <2>4 DEF Numbers
      <3> QED BY <1>3, <1>4, <2>2, <2>4, <3>1
    <2>5. ASSUME NEW s \in Scope, NEW k \in Kind, NEW o \in Original, NEW e \in Entropy,
                 Resolving(work'[p].mappings)
                   = Resolving(work[p].mappings) \cup {NewMapping(work[p], s, k, o, e)},
                 work'[p].counters = Bumped(work[p], s, k)
          PROVE  TokenInv'
      <3> DEFINE m == NewMapping(work[p], s, k, o, e)
                 N == Numbers(p)
                 c == work[p].counters
      <3>1. Numbers(p)' = N \cup {m}
        BY <2>3, <2>5 DEF Numbers
      <3>2. c \in [Scope \X Kind -> Nat]
        BY <1>0 DEF TypeOK, State
      <3>3. /\ m \in Mapping /\ m.scope = s /\ m.kind = k /\ m.token.n = c[<<s, k>>] + 1
        BY <3>2 DEF NewMapping, Mapping, Token
      <3>4. \A x \in N : x \in Mapping /\ x.token.n <= c[<<x.scope, x.kind>>]
        BY <2>2 DEF Counted
      <3>5. \A x \in Mapping : x.scope \in Scope /\ x.kind \in Kind /\ x.token.n \in Nat
        BY DEF Mapping, Token
      <3> HIDE DEF m, N, c
      <3>6. \A x \in N : x.scope = s /\ x.kind = k => x.token # m.token
        BY <3>2, <3>3, <3>4, <3>5
      <3>7. OneName(N \cup {m})
        BY <2>2, <3>3, <3>6 DEF OneName, N
      <3>8. Counted(N \cup {m}, [c EXCEPT ![<<s, k>>] = c[<<s, k>>] + 1])
        <4>1. ASSUME NEW x \in N
              PROVE  x.token.n <= [c EXCEPT ![<<s, k>>] = c[<<s, k>>] + 1][<<x.scope, x.kind>>]
          <5>1. <<x.scope, x.kind>> \in Scope \X Kind /\ x.token.n \in Nat
                /\ x.token.n <= c[<<x.scope, x.kind>>]
            BY <3>4, <3>5
          <5> QED BY <3>2, <5>1
        <4>2. m.token.n <= [c EXCEPT ![<<s, k>>] = c[<<s, k>>] + 1][<<m.scope, m.kind>>]
          BY <3>2, <3>3
        <4> QED BY <3>3, <3>4, <4>1, <4>2 DEF Counted
      <3> QED BY <1>3, <1>4, <2>5, <3>1, <3>7, <3>8 DEF c, Bumped
    <2>6. \/ work'[p] = work[p]
          \/ \E k \in Kind, o \in Original, e \in Entropy : Mints(p, call[p].scope, k, o, e)
      BY <1>0, <1>4, InsertsOne
    <2>7. call[p].scope \in Scope
      BY <1>0, <1>4, InsertsOne
    <2> QED BY <2>4, <2>5, <2>6, <2>7 DEF Mints
  <1>5. ASSUME NEW p \in Process, Aside(p), GoesOn(p) PROVE TokenInv'
    <2>1. Numbers(p)' = Numbers(p) /\ work'[p] = work[p]
      BY <1>5 DEF GoesOn, Aside, Numbers, Kept
    <2>2. OneName(Numbers(p)) /\ Counted(Numbers(p), work[p].counters)
      BY <1>5 DEF TokenInv, GoesOn
    <2> QED BY <1>3, <1>5, <2>1, <2>2
  <1>6. ASSUME NEW p \in Process, Aside(p), Takes(p) PROVE TokenInv'
    <2> DEFINE st == work'[p]
    <2>1. /\ Reloaded(p, st) /\ call'[p] = call[p] /\ issued' = issued
      BY <1>6 DEF Takes, Aside
    <2>2. /\ Resolving(st.mappings) \subseteq issued
          /\ call[p].op = "delete_scope" =>
               \A m \in Resolving(st.mappings) : m.scope # call[p].scope
          /\ \A s \in Scope, k \in Kind :
               (call[p].op = "delete_scope" => s # call[p].scope)
                 => st.counters[<<s, k>>] = Loaded.counters[<<s, k>>]
      <3> HIDE DEF st
      <3> QED BY <1>0, <2>1, ReloadTakesAway DEF TokenInv
    <2>3. Numbers(p)' = Kept(p) \cup Resolving(st.mappings)
      BY <2>1 DEF Numbers, Kept
    <2>4. \A m \in Numbers(p)' :
            m \in issued /\ (call[p].op = "delete_scope" => m.scope # call[p].scope)
      BY <2>2, <2>3 DEF Kept
    <2>5. OneName(Numbers(p)')
      BY <2>4 DEF TokenInv, OneName
    <2>6. \A m \in Mapping : m.scope \in Scope /\ m.kind \in Kind
      BY DEF Mapping
    <2>7. Counted(Numbers(p)', st.counters)
      BY <2>2, <2>4, <2>6 DEF TokenInv, Counted
    <2> QED BY <1>3, <1>6, <2>5, <2>7
  <1> QED BY <1>1, <1>2, <1>3, <1>4, <1>5, <1>6, SavingSteps

LEMMA TokenInvariant == Spec => []TokenInv /\ []AckInv
  <1>1. Init => TokenInv
    <2> SUFFICES ASSUME Init PROVE TokenInv
      OBVIOUS
    <2>1. Live = {}
      BY NothingLivesAtFirst
    <2> QED BY <2>1 DEF Init, TokenInv, OneName, Counted, Saving
  <1>2. Init => AckInv
    BY DEF Init, AckInv, Saving
  <1> QED BY <1>1, <1>2, TokenStep, AckStep, DiskInvariant, TypeCorrect, PTL DEF Spec

(* Between two forgets of a scope no token of it names two values of a      *)
(* kind, even when the random suffix repeats.                               *)
THEOREM ATokenNamesOneValue == Spec => []TokenNamesOneValue
  <1>1. TokenInv => TokenNamesOneValue
    BY DEF TokenInv, TokenNamesOneValue, OneName
  <1> QED BY <1>1, TokenInvariant, PTL

-----------------------------------------------------------------------------
(* The contract of the vault.  Where random suffixes make every token a new *)
(* one, what a copy adds to the file is new to everybody, belongs to the    *)
(* scope of the call and is what the call will answer.                      *)

Distinct(M) == \A a, b \in M : a.token = b.token => a = b

New(p) == Resolving(work[p].mappings) \ Live

Adds(p) ==
  /\ New(p) \subseteq out[p]
  /\ Distinct(issued \cup forgotten \cup New(p))
  /\ New(p) \cap (issued \cup forgotten) = {}
  /\ \A m \in out[p] : m.scope = call[p].scope
  /\ out[p] # {} => call[p].op = "get_or_insert_many"
  /\ call[p].op = "delete_scope" =>
       \A m \in Resolving(work[p].mappings) : m.scope # call[p].scope

FreshInv ==
  /\ issued \cap forgotten = {}
  /\ Distinct(issued \cup forgotten)
  /\ \A p \in Process : pc[p] \in Saving => Adds(p)

LEMMA FreshStep ==
  ASSUME FreshEntropy PROVE DiskInv /\ AckInv /\ TokenInv /\ FreshInv /\ [Next]_vars => FreshInv'
  <1> SUFFICES ASSUME DiskInv, AckInv, TokenInv, FreshInv, [Next]_vars PROVE FreshInv'
    OBVIOUS
  <1>0. TypeOK
    BY DEF DiskInv
  <1>1. ASSUME NEW p \in Process, RenameTmp(p) PROVE FreshInv'
    <2> DEFINE Res == Resolving(work[p].mappings)
               All == issued \cup forgotten
    <2>1. /\ issued' = Kept(p) \cup Res /\ forgotten' = forgotten \cup (issued \ Kept(p))
          /\ \A q \in Process : pc'[q] \notin Saving
          /\ pc[p] \in Saving
      BY <1>1, RenamePublishes DEF Numbers, Saving
    <2>2. Adds(p) /\ Kept(p) \subseteq issued /\ Live \subseteq issued
      BY <2>1 DEF FreshInv, TokenInv, Kept
    <2>3. Res \subseteq Live \cup New(p)
      BY DEF New
    <2>4. issued' \cup forgotten' \subseteq All \cup New(p)
      BY <2>1, <2>2, <2>3
    <2>5. Distinct(issued' \cup forgotten')
      BY <2>2, <2>4 DEF Adds, Distinct
    <2>6. Res \cap (issued \ Kept(p)) = {}
      BY <2>2 DEF Adds, Kept
    <2>7. Res \cap forgotten = {}
      BY <2>2, <2>3 DEF Adds, FreshInv
    <2>8. issued' \cap forgotten' = {}
      BY <2>1, <2>2, <2>6, <2>7 DEF FreshInv
    <2> QED BY <2>1, <2>5, <2>8 DEF FreshInv, Distinct
  <1>2. CASE UNCHANGED <<main, issued, forgotten, pc, call, work, out>>
    BY <1>2 DEF FreshInv, Adds, New, Live, Distinct
  <1>3. ASSUME NEW p \in Process, Aside(p), pc'[p] \in Saving => Adds(p)'
        PROVE  FreshInv'
    <2>1. ASSUME NEW q \in Process, q # p PROVE Adds(q)' = Adds(q) /\ pc'[q] = pc[q]
      BY <1>3, <2>1 DEF Aside, Adds, New, Live, Distinct
    <2>2. ASSUME NEW q \in Process, pc'[q] \in Saving PROVE Adds(q)'
      <3>1. CASE q = p
        BY <1>3, <2>2, <3>1
      <3>2. CASE q # p
        BY <2>1, <2>2, <3>2 DEF FreshInv
      <3> QED BY <3>1, <3>2
    <2>3. (issued \cap forgotten = {})' /\ Distinct(issued \cup forgotten)'
      BY <1>3 DEF Aside, FreshInv, Distinct
    <2> QED BY <2>2, <2>3 DEF FreshInv
  <1>4. ASSUME NEW p \in Process, Aside(p), InsertLocked(p) PROVE FreshInv'
    <2>1. /\ pc[p] \in Saving /\ call'[p].op = call[p].op /\ call'[p].scope = call[p].scope
          /\ call[p].op = "get_or_insert_many"
          /\ issued' = issued /\ forgotten' = forgotten /\ Live' = Live
      BY <1>0, <1>4, InsertsOne DEF Saving, Aside, Live
    <2>2. Adds(p)
      BY <2>1 DEF FreshInv
    <2>3. ASSUME work'[p] = work[p],
                 NEW A \in SUBSET Resolving(work[p].mappings), out'[p] = out[p] \cup A,
                 \A m \in A : m.scope = call[p].scope
          PROVE  Adds(p)'
      <3>1. New(p)' = New(p)
        BY <2>1, <2>3 DEF New
      <3> QED BY <2>1, <2>2, <2>3, <3>1 DEF Adds, Distinct
    <2>4. ASSUME NEW k \in Kind, NEW o \in Original, NEW e \in Entropy,
                 Mints(p, call[p].scope, k, o, e)
          PROVE  Adds(p)'
      <3> DEFINE m == NewMapping(work[p], call[p].scope, k, o, e)
                 All == issued \cup forgotten
      <3>1. \A n \in All \cup Resolving(work[p].mappings) : n.token # m.token
        BY <2>4 DEF Mints, Mintable
      <3>2. m.scope = call[p].scope
        BY DEF NewMapping
      <3>3. /\ Resolving(work'[p].mappings) = Resolving(work[p].mappings) \cup {m}
            /\ out'[p] = out[p] \cup {m}
        BY <2>4 DEF Mints
      <3> HIDE DEF m
      <3>4. New(p)' \subseteq New(p) \cup {m} /\ New(p) \subseteq Resolving(work[p].mappings)
        BY <2>1, <3>3 DEF New
      <3>5. Distinct(All \cup (New(p) \cup {m}))
        BY <2>2, <3>1, <3>4 DEF Adds, Distinct
      <3>6. Distinct(All \cup New(p)')
        BY <3>4, <3>5 DEF Distinct
      <3>7. New(p)' \cap All = {}
        BY <2>2, <3>1, <3>4 DEF Adds
      <3>8. New(p)' \subseteq out'[p] /\ \A n \in out'[p] : n.scope = call'[p].scope
        BY <2>1, <2>2, <3>2, <3>3, <3>4 DEF Adds
      <3> QED BY <2>1, <3>6, <3>7, <3>8 DEF Adds, Distinct
    <2>5. \/ /\ work'[p] = work[p]
             /\ \E A \in SUBSET Resolving(work[p].mappings) :
                  /\ out'[p] = out[p] \cup A
                  /\ \A m \in A : m.scope = call[p].scope
          \/ \E k \in Kind, o \in Original, e \in Entropy : Mints(p, call[p].scope, k, o, e)
      BY <1>0, <1>4, InsertsOne
    <2>6. Adds(p)'
      BY <2>3, <2>4, <2>5
    <2> QED BY <1>3, <1>4, <2>6
  <1>5. ASSUME NEW p \in Process, Aside(p), GoesOn(p) PROVE FreshInv'
    <2>1. Adds(p)
      BY <1>5 DEF FreshInv, GoesOn
    <2>2. Adds(p)'
      BY <1>5, <2>1 DEF GoesOn, Aside, Adds, New, Live, Distinct
    <2> QED BY <1>3, <1>5, <2>2
  <1>6. ASSUME NEW p \in Process, Aside(p), Takes(p) PROVE FreshInv'
    <2>1. /\ Reloaded(p, work'[p]) /\ call'[p] = call[p] /\ out'[p] = out[p] /\ out[p] = {}
          /\ issued' = issued /\ forgotten' = forgotten /\ Live' = Live
      BY <1>6 DEF Takes, Aside, Live, AckInv
    <2>2. New(p)' = {}
      BY <1>0, <2>1, ReloadTakesAway DEF New
    <2>3. call[p].op = "delete_scope" =>
            \A m \in Resolving(work'[p].mappings) : m.scope # call[p].scope
      BY <1>0, <2>1, ReloadTakesAway
    <2>4. Adds(p)'
      BY <2>1, <2>2, <2>3 DEF Adds, FreshInv, Distinct
    <2> QED BY <1>3, <1>6, <2>4
  <1> QED BY <1>1, <1>2, <1>3, <1>4, <1>5, <1>6, SavingSteps

LEMMA FreshInvariant == ASSUME FreshEntropy PROVE Spec => []FreshInv
  <1>1. Init => FreshInv
    BY DEF Init, FreshInv, Distinct, Saving
  <1> QED BY <1>1, FreshStep, TokenInvariant, DiskInvariant, TypeCorrect, PTL DEF Spec

(* No read that begins after a forget, in whatever process and whatever it  *)
(* had loaded before, returns a mapping the forget took.                    *)
THEOREM ReadsNeverSeeForgotten == ASSUME FreshEntropy PROVE Spec => ReadsSeeForget
  <1>1. TypeOK /\ TokenInv /\ FreshInv /\ [Next]_vars =>
          [\A p \in Process : ReadMany(p) =>
             /\ out'[p] \cap forgotten = {}
             /\ out'[p] \subseteq InScope(call[p].scope, issued)]_vars
    <2> SUFFICES ASSUME TypeOK, TokenInv, FreshInv, NEW p \in Process, ReadMany(p)
                 PROVE  /\ out'[p] \cap forgotten = {}
                        /\ out'[p] \subseteq InScope(call[p].scope, issued)
      OBVIOUS
    <2>1. \E read : out'[p] = Resolvable(call[p].scope, handle[p].ttl, read)
      BY DEF ReadMany, TypeOK
    <2>2. out'[p] \subseteq InScope(call[p].scope, Live)
      BY <2>1, LoadedIsStored DEF Resolvable, InScope, Live, Resolving, Bare
    <2> QED BY <2>2 DEF TokenInv, FreshInv, InScope
  <1> QED BY <1>1, FreshInvariant, TokenInvariant, TypeCorrect, PTL DEF Spec, ReadsSeeForget

(* What the callers are told changes for one of them at a time.             *)
LEMMA OneAnswer ==
  ASSUME NEW p \in Process,
         \A q \in Process \ {p} : pc'[q] = pc[q] /\ out'[q] = out[q]
  PROVE  /\ Answers' = [Answers EXCEPT ![p] = Answers'[p]]
         /\ Answers'[p] = IF pc'[p] = "return" THEN out'[p] ELSE {}
         /\ Answers'[p] = Answers[p] => Answers' = Answers
  <1>1. \A q \in Process : Answers'[q] = IF pc'[q] = "return" THEN out'[q] ELSE {}
    BY DEF Answers
  <1>2. \A q \in Process : Answers[q] = IF pc[q] = "return" THEN out[q] ELSE {}
    BY DEF Answers
  <1>3. \A q \in Process \ {p} : Answers'[q] = Answers[q]
    BY <1>1, <1>2
  <1>4. Answers = [q \in Process |-> Answers[q]] /\ Answers' = [q \in Process |-> Answers'[q]]
    BY DEF Answers
  <1> QED BY <1>1, <1>3, <1>4

LEMMA NothingToTheVault ==
  ASSUME UNCHANGED <<main, issued, forgotten>>, Answers' = Answers
  PROVE  UNCHANGED Vault!vars
  BY DEF Vault!vars, Retired, Live

(* The call, or the process, is over.                                       *)
LEMMA EndsTheCall ==
  ASSUME TypeOK, NEW p \in Process, Return(p) \/ Crash(p)
  PROVE  Vault!Next
  <1>1. /\ UNCHANGED <<main, issued, forgotten>> /\ pc'[p] # "return"
        /\ \A q \in Process \ {p} : pc'[q] = pc[q] /\ out'[q] = out[q]
    BY DEF Return, Crash, Unlock, KeepHandle, DropHandle, TypeOK, disk, history
  <1>2. Answers' = [Answers EXCEPT ![p] = {}]
    BY <1>1, OneAnswer
  <1>3. Live' = Live /\ Retired' = Retired
    BY <1>1 DEF Live, Retired
  <1>4. Vault!Done(p)
    BY <1>2, <1>3 DEF Vault!Done, Vault!Answer
  <1> QED BY <1>4 DEF Vault!Next

(* A read answers with the mappings of its scope at one instant.            *)
LEMMA ReadResolves ==
  ASSUME TypeOK, NEW p \in Process, ReadMany(p)
  PROVE  Vault!Next
  <1> DEFINE s == call[p].scope
  <1>1. /\ UNCHANGED <<main, issued, forgotten>> /\ pc[p] = "read" /\ pc'[p] = "return"
        /\ \A q \in Process \ {p} : pc'[q] = pc[q] /\ out'[q] = out[q]
        /\ s \in Scope
    BY DEF ReadMany, Transition, TypeOK, disk, history, Call
  <1>2. PICK read : out'[p] = Resolvable(s, handle[p].ttl, read)
    BY DEF ReadMany, TypeOK
  <1>3. Answers[p] = {} /\ Answers'[p] = out'[p] /\ Answers' = [Answers EXCEPT ![p] = Answers'[p]]
    BY <1>1, OneAnswer DEF Answers
  <1>4. out'[p] \subseteq {m \in Live : m.scope = s}
    BY <1>2, LoadedIsStored DEF Resolvable, InScope, Live, Resolving, Bare
  <1>5. TTLs = {} => out'[p] = {m \in Live : m.scope = s}
    <2>1. TTLs = {} => handle[p].ttl = NoTTL
      BY DEF TypeOK, Handle
    <2> QED BY <1>2, <2>1, LoadedIsStored DEF Resolvable, InScope, Live, Resolving, Bare, Expired
  <1>6. Live' = Live /\ Retired' = Retired
    BY <1>1 DEF Live, Retired
  <1> HIDE DEF s
  <1>7. Vault!Resolve(p, s)
    BY <1>3, <1>4, <1>5, <1>6 DEF Vault!Resolve, Vault!Answer, Vault!In
  <1> QED BY <1>1, <1>7 DEF Vault!Next

LEMMA BareIsFaithful ==
  ASSUME NEW R, Unique(R), NEW M, Resolving(R) \subseteq M, Distinct(M)
  PROVE  Vault!Faithful(Resolving(R))
  <1> SUFFICES ASSUME NEW a \in Resolving(R), NEW b \in Resolving(R), a.scope = b.scope
               PROVE  (a.kind = b.kind /\ a.original = b.original) <=> a.token = b.token
    BY DEF Vault!Faithful
  <1>1. PICK x \in R : a = Bare(x)
    BY DEF Resolving
  <1>2. PICK y \in R : b = Bare(y)
    BY DEF Resolving
  <1>3. a.token = b.token => a = b
    BY DEF Distinct
  <1>4. a.kind = b.kind /\ a.original = b.original => x = y
    BY <1>1, <1>2 DEF Unique, Bare
  <1> QED BY <1>1, <1>2, <1>3, <1>4

(* A rename is where a call takes effect: what it stores is new to the      *)
(* contract, what it drops is remembered.                                   *)
LEMMA RenameMoves ==
  ASSUME DiskInv, AckInv, AliasInv, TokenInv, FreshInv, FreshInv', AliasInv',
         NEW p \in Process, RenameTmp(p)
  PROVE  /\ Vault!Move(Live')
         /\ Live' \ Live = New(p)
  <1>1. /\ Live' = Resolving(work[p].mappings) /\ pc[p] \in Saving
        /\ Stored(main') = work[p].mappings
        /\ issued' = Kept(p) \cup Live' /\ forgotten' = forgotten \cup (issued \ Kept(p))
    BY RenamePublishes DEF Numbers, Saving
  <1>2. Adds(p) /\ Live \subseteq issued /\ Kept(p) \subseteq issued
    BY <1>1 DEF FreshInv, TokenInv, Kept
  <1>3. Live' \ Live = New(p)
    BY <1>1 DEF New
  <1>4. Vault!Faithful(Live')
    <2>1. Unique(Stored(main')) /\ Distinct(issued' \cup forgotten')
      BY DEF AliasInv, FreshInv, Unique, Distinct
    <2>2. Resolving(Stored(main')) \subseteq issued' \cup forgotten'
      BY <1>1
    <2>3. Vault!Faithful(Resolving(Stored(main')))
      BY <2>1, <2>2, BareIsFaithful
    <2> QED BY <1>1, <2>3
  <1>5. issued' \cup forgotten' = issued \cup forgotten \cup New(p) \cup (Live' \cap Live)
    BY <1>1, <1>2, <1>3
  <1>6. Retired' = Retired \cup (Live \ Live')
    BY <1>2, <1>3, <1>5 DEF Retired, Adds
  <1>7. \A n \in Live' \ Live, o \in Retired \cup Live : n.token # o.token
    <2>1. ASSUME NEW n \in New(p), NEW o \in issued \cup forgotten PROVE n.token # o.token
      BY <1>2 DEF Adds, Distinct
    <2> QED BY <1>2, <1>3, <2>1 DEF Retired
  <1> QED BY <1>3, <1>4, <1>6, <1>7 DEF Vault!Move

LEMMA RenameTakesEffect ==
  ASSUME DiskInv, AckInv, AliasInv, TokenInv, FreshInv, FreshInv', AliasInv',
         NEW p \in Process, RenameTmp(p)
  PROVE  Vault!Next \/ UNCHANGED Vault!vars
  <1> DEFINE s == call[p].scope
             op == call[p].op
  <1>1. /\ pc[p] = "rename" /\ pc'[p] = "return" /\ out' = out
        /\ \A q \in Process \ {p} : pc'[q] = pc[q]
        /\ Live' = Resolving(work[p].mappings)
    BY RenamePublishes
  <1>2. /\ Vault!Move(Live') /\ Live' \ Live = New(p) /\ Adds(p)
    BY <1>1, RenameMoves DEF FreshInv, Saving
  <1>3. /\ Answers[p] = {} /\ Answers'[p] = out[p]
        /\ Answers' = [Answers EXCEPT ![p] = Answers'[p]]
        /\ out[p] = {} => Answers' = Answers
    BY <1>1, OneAnswer DEF Answers
  <1>4. TTLs = {} => {m \in Live : op = "delete_scope" => m.scope # s} \subseteq Live'
    <2>1. Owed(p) \subseteq Live'
      BY <1>1 DEF AckInv, Saving
    <2>2. TTLs = {} => lapsed[p] = {}
      BY DEF AckInv
    <2> QED BY <2>1, <2>2 DEF Owed, Spared
  <1>5. out[p] \subseteq Live'
    BY <1>1 DEF AckInv, Saving
  <1>6. op \in {"get_or_insert_many", "delete_scope"} => s \in Scope
    BY DEF DiskInv, TypeOK, Call
  <1> HIDE DEF s
  <1>7. CASE op = "get_or_insert_many"
    <2>1. Answers'[p] \subseteq {m \in Live' : m.scope = s}
      BY <1>2, <1>3, <1>5 DEF Adds, s
    <2>2. Live' \ Live \subseteq Answers'[p]
      BY <1>2, <1>3 DEF Adds
    <2>3. TTLs # {} \/ Live \subseteq Live'
      BY <1>4, <1>7
    <2>4. Vault!Store(p, s)
      BY <1>2, <1>3, <2>1, <2>2, <2>3 DEF Vault!Store, Vault!Answer, Vault!In
    <2> QED BY <1>6, <1>7, <2>4 DEF Vault!Next
  <1>8. CASE op # "get_or_insert_many"
    <2>1. out[p] = {} /\ New(p) = {}
      BY <1>2, <1>8 DEF Adds
    <2>2. Answers' = Answers /\ Live' \subseteq Live
      BY <1>2, <1>3, <2>1
    <2>3. CASE op = "delete_scope"
      <3>1. \A m \in Live' : m.scope # s
        BY <1>1, <1>2, <2>3 DEF Adds, s
      <3>2. TTLs # {} \/ {m \in Live : m.scope # s} \subseteq Live'
        BY <1>4, <2>3
      <3>3. Vault!Forget(s)
        BY <1>2, <2>2, <3>1, <3>2 DEF Vault!Forget, Vault!In
      <3> QED BY <1>6, <2>3, <3>3 DEF Vault!Next
    <2>4. CASE op # "delete_scope" /\ TTLs # {}
      <3>1. Vault!Lapse
        BY <1>2, <2>2, <2>4 DEF Vault!Lapse
      <3> QED BY <3>1 DEF Vault!Next
    <2>5. CASE op # "delete_scope" /\ TTLs = {}
      <3>1. Live' = Live
        BY <1>4, <2>2, <2>5
      <3>2. Retired' = Retired
        BY <1>2, <3>1 DEF Vault!Move
      <3> QED BY <2>2, <3>1, <3>2 DEF Vault!vars
    <2> QED BY <2>3, <2>4, <2>5
  <1> QED BY <1>7, <1>8

(* Steps that no caller can tell from none.                                 *)
LEMMA UnseenSteps ==
  ASSUME TypeOK, AckInv, NEW p \in Process,
         UNCHANGED <<main, issued, forgotten>>,
         \A q \in Process \ {p} : pc'[q] = pc[q] /\ out'[q] = out[q],
         pc[p] # "return", pc'[p] = "return" => out'[p] = {}
  PROVE  UNCHANGED Vault!vars
  <1>1. Answers[p] = {} /\ Answers'[p] = {}
    BY OneAnswer DEF Answers
  <1> QED BY <1>1, OneAnswer, NothingToTheVault

(* The file, its temporary file and its lock are an atomic vault to every   *)
(* caller: each step of each process is a step of the contract, or unseen.  *)
THEOREM TheFileIsAnAtomicVault == ASSUME FreshEntropy PROVE Spec => AtomicVault
  <1>1. Init => Vault!Init
    <2> SUFFICES ASSUME Init PROVE Vault!Init
      OBVIOUS
    <2>1. Live = {}
      BY NothingLivesAtFirst
    <2>2. Retired = {} /\ Answers = [c \in Process |-> {}]
      BY DEF Init, Retired, Answers
    <2> QED BY <2>1, <2>2 DEF Vault!Init
  <1>2. /\ DiskInv /\ AckInv /\ AliasInv /\ TokenInv /\ FreshInv /\ FreshInv' /\ AliasInv'
        /\ [Next]_vars
        => [Vault!Next]_(Vault!vars)
    <2> SUFFICES ASSUME DiskInv, AckInv, AliasInv, TokenInv, FreshInv, FreshInv', AliasInv',
                        [Next]_vars
                 PROVE  Vault!Next \/ UNCHANGED Vault!vars
      OBVIOUS
    <2>0. TypeOK
      BY DEF DiskInv
    <2> USE DEF disk, history
    <2>1. ASSUME NEW p \in Process, Start(p) PROVE UNCHANGED Vault!vars
      <3>1. /\ UNCHANGED <<main, issued, forgotten, out>> /\ pc[p] # "return" /\ pc'[p] # "return"
            /\ \A q \in Process \ {p} : pc'[q] = pc[q]
        BY <2>0, <2>1 DEF Start, Open, EncryptInPlace, Expire, GetOrInsertMany, DeleteScope,
                          ResolveMany, Begin, Transition, TypeOK
      <3> QED BY <2>0, <3>1, UnseenSteps
    <2>2. ASSUME NEW p \in Process,
                 \/ LockExclusive(p) \/ LockShared(p)
                 \/ MigrateLoad(p) \/ CreateTmp(p) \/ FillTmp(p)
          PROVE  UNCHANGED Vault!vars
      <3>1. /\ UNCHANGED <<main, issued, forgotten, out>> /\ pc[p] # "return" /\ pc'[p] # "return"
            /\ \A q \in Process \ {p} : pc'[q] = pc[q]
        BY <2>0, <2>2 DEF LockExclusive, LockShared, MigrateLoad, CreateTmp, FillTmp, Transition,
                          TypeOK
      <3> QED BY <2>0, <3>1, UnseenSteps
    <2>3. ASSUME NEW p \in Process,
                 Reload(p) \/ PurgeToInsert(p) \/ PurgeToDelete(p) \/ PurgeToExpire(p)
          PROVE  UNCHANGED Vault!vars
      <3>1. /\ UNCHANGED <<main, issued, forgotten, out>> /\ pc[p] \in {"reload", "purge"}
            /\ \A q \in Process \ {p} : pc'[q] = pc[q]
        BY <2>0, <2>3 DEF Reload, PurgeToInsert, PurgeToDelete, PurgeToExpire, Purge, Transition,
                          TypeOK
      <3>2. out[p] = {}
        BY <3>1 DEF AckInv
      <3> QED BY <2>0, <3>1, <3>2, UnseenSteps
    <2>4. ASSUME NEW p \in Process, InsertLocked(p) PROVE UNCHANGED Vault!vars
      <3>1. /\ UNCHANGED <<main, issued, forgotten>> /\ pc[p] # "return" /\ pc'[p] # "return"
            /\ \A q \in Process \ {p} : pc'[q] = pc[q] /\ out'[q] = out[q]
        BY <2>0, <2>4 DEF InsertLocked, Insert, TypeOK
      <3> QED BY <2>0, <3>1, UnseenSteps
    <2>5. ASSUME NEW p \in Process, ReadOpen(p) PROVE UNCHANGED Vault!vars
      <3>1. /\ UNCHANGED <<main, issued, forgotten, out>> /\ pc[p] = "read"
            /\ \A q \in Process \ {p} : pc'[q] = pc[q]
        BY <2>0, <2>5 DEF ReadOpen, Transition, TypeOK
      <3>2. out[p] = {}
        BY <3>1 DEF AckInv
      <3> QED BY <2>0, <3>1, <3>2, UnseenSteps
    <2>6. ASSUME NEW p \in Process, Fail(p) PROVE UNCHANGED Vault!vars
      <3>1. /\ UNCHANGED <<main, issued, forgotten>> /\ pc[p] # "return" /\ pc'[p] # "return"
            /\ \A q \in Process \ {p} : pc'[q] = pc[q] /\ out'[q] = out[q]
        BY <2>0, <2>6 DEF Fail, Fallible, Unlock, KeepHandle, DropHandle, TypeOK
      <3> QED BY <2>0, <3>1, UnseenSteps
    <2>7. CASE Tick \/ UNCHANGED vars
      <3>1. UNCHANGED <<main, issued, forgotten, pc, out>>
        BY <2>7 DEF Tick, vars, procs
      <3> QED BY <3>1, NothingToTheVault DEF Answers
    <2> QED BY <2>0, <2>1, <2>2, <2>3, <2>4, <2>5, <2>6, <2>7, EndsTheCall, ReadResolves,
               RenameTakesEffect DEF Next, Locked
  <1>3. Spec => []AliasInv
    BY AliasInvariant
  <1>4. Spec => []DiskInv
    BY DiskInvariant
  <1> QED BY <1>1, <1>2, <1>3, <1>4, FreshInvariant, TokenInvariant, PTL DEF Spec, AtomicVault, Vault!Spec
=============================================================================
