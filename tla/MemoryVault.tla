------------------------------ MODULE MemoryVault ------------------------------
(***************************************************************************)
(* The vault that lives in one process (crates/vault-memory): a map from   *)
(* scope, kind and original to a mapping and the instant it was stored.    *)
(* Each operator is one call, at one instant of its clock; the server that *)
(* makes the calls one after the other is in McpServer.                    *)
(***************************************************************************)
EXTENDS Integers

CONSTANTS
  Scope, Kind, Original,
  Entropy,   \* the random suffix of a token, which never repeats a token
  TTL,       \* the lifetime of a mapping, or NoTTL
  NoTTL,
  MaxNow     \* bound: the clock stops here

ASSUME MemoryAssumption ==
  NoTTL \notin Nat /\ TTL \in Nat \cup {NoTTL} /\ MaxNow \in Nat

VARIABLES
  mappings,  \* the entries of the map
  counters,  \* per scope and kind
  now,       \* Instant::now
  issued     \* history: the entries made so far

vault == <<mappings, counters, now, issued>>

Token == [kind : Kind, n : Nat, e : Entropy]
Entry == [scope : Scope, kind : Kind, original : Original, token : Token, created_at : Nat]

VaultInit ==
  /\ mappings = {} /\ counters = [c \in Scope \X Kind |-> 0]
  /\ now = 0 /\ issued = {}

\* live: an entry that has its TTL's age is expired already.
Alive(elapsed) == TTL = NoTTL \/ elapsed < TTL
Expired(m) == ~Alive(now - m.created_at)
Live == {m \in mappings : ~Expired(m)}

Holding(s, k, o) == {m \in mappings : m.scope = s /\ m.kind = k /\ m.original = o}

Bumped(s, k) == [counters EXCEPT ![<<s, k>>] = @ + 1]

\* Mistake: an entry is returned whatever its age.
GetHeld(s, k, o, m) ==
  /\ m \in Holding(s, k, o)
  /\ UNCHANGED vault

\* get_or_insert, where there is a live entry: it stays as it is, age included.
Get(s, k, o, m) ==
  /\ m \in Holding(s, k, o) /\ ~Expired(m)
  /\ UNCHANGED vault

Fresh(s, k, o, e) ==
  [scope |-> s, kind |-> k, original |-> o, created_at |-> now,
   token |-> [kind |-> k, n |-> Bumped(s, k)[<<s, k>>], e |-> e]]

\* get_or_insert, where there is none: a stale one makes way.
Insert(s, k, o, m) ==
  /\ \A h \in Holding(s, k, o) : Expired(h)
  /\ \E e \in Entropy : m = Fresh(s, k, o, e)
  /\ \A i \in issued : i.token # m.token
  /\ mappings' = (mappings \ Holding(s, k, o)) \cup {m}
  /\ counters' = Bumped(s, k) /\ issued' = issued \cup {m}
  /\ UNCHANGED now

\* mint_placeholder fails after the stale entry and the number are gone.
InsertFails(s, k, o) ==
  /\ \A h \in Holding(s, k, o) : Expired(h)
  /\ mappings' = mappings \ Holding(s, k, o)
  /\ counters' = Bumped(s, k)
  /\ UNCHANGED <<now, issued>>

\* resolve_many of every token there is.
Resolved(s) == {m \in Live : m.scope = s}

DeleteScope(s) ==
  /\ mappings' = {m \in mappings : m.scope # s}
  /\ counters' = [c \in DOMAIN counters |-> IF c[1] = s THEN 0 ELSE counters[c]]
  /\ UNCHANGED <<now, issued>>

Expire ==
  /\ mappings' = Live
  /\ UNCHANGED <<counters, now, issued>>

Tick == now < MaxNow /\ now' = now + 1 /\ UNCHANGED <<mappings, counters, issued>>
===============================================================================
