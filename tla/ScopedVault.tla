----------------------------- MODULE ScopedVault -----------------------------
(***************************************************************************)
(* What the Vault trait of crates/plugin-api promises its callers, whoever *)
(* stores the mappings: a set of reversible aliases, partitioned by scope, *)
(* that every client sees change in one step.  No file, no lock, no        *)
(* process: the stores of this project are shown to implement this.        *)
(***************************************************************************)
CONSTANTS
  Client,   \* the callers of the vault
  Scope,    \* the scopes mappings belong to
  Mapping,  \* records with at least the fields scope, kind, original and token
  Lapsing   \* TRUE: mappings have a lifetime and may disappear on their own

VARIABLES
  live,     \* the mappings that resolve
  retired,  \* the mappings that did, and do not any more
  answer    \* what each client's completed call is returning to it

vars == <<live, retired, answer>>

In(s, M) == {m \in M : m.scope = s}

Init == /\ live = {}
        /\ retired = {}
        /\ answer = [c \in Client |-> {}]

\* One alias per value, and a token names one value, within a scope.
Faithful(M) ==
  \A a, b \in M : a.scope = b.scope =>
    ((a.kind = b.kind /\ a.original = b.original) <=> a.token = b.token)

\* What disappears is remembered, and no token of a scope comes back.
Move(M) ==
  /\ live' = M /\ Faithful(M)
  /\ retired' = retired \cup (live \ M)
  /\ \A n \in M \ live, o \in retired \cup live : n.scope = o.scope => n.token # o.token

Answer(c, A) == answer' = [answer EXCEPT ![c] = A]

\* get_or_insert_many: every item of the batch is live and told to the
\* caller, or none is.
Store(c, s) ==
  /\ answer[c] = {} /\ Answer(c, answer'[c])
  /\ Move(live')
  /\ answer'[c] \subseteq In(s, live')
  /\ live' \ live \subseteq answer'[c]
  /\ Lapsing \/ live \subseteq live'

\* delete_scope: the scope is erased, no other scope is.
Forget(s) ==
  /\ Move(live')
  /\ In(s, live') = {} /\ live' \subseteq live
  /\ Lapsing \/ live \ In(s, live) \subseteq live'
  /\ UNCHANGED answer

\* expire: nothing but lifetimes.
Lapse == /\ Lapsing /\ Move(live') /\ live' \subseteq live
         /\ UNCHANGED answer

\* resolve_many: the mappings of one scope that are live at one instant.
Resolve(c, s) ==
  /\ answer[c] = {} /\ Answer(c, answer'[c])
  /\ answer'[c] \subseteq In(s, live)
  /\ Lapsing \/ answer'[c] = In(s, live)
  /\ UNCHANGED <<live, retired>>

Done(c) == Answer(c, {}) /\ UNCHANGED <<live, retired>>

Next == \/ \E s \in Scope : Forget(s) \/ \E c \in Client : Store(c, s) \/ Resolve(c, s)
        \/ Lapse
        \/ \E c \in Client : Done(c)

Spec == Init /\ [][Next]_vars
=============================================================================
