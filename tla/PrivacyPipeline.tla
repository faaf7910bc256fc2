-------------------------- MODULE PrivacyPipeline --------------------------
(***************************************************************************)
(* The pipeline of crates/privacy-core: several clients (CLI invocations,  *)
(* MCP servers), each with a pipeline of its own, sanitize, restore and    *)
(* forget over one vault and one audit log.                                *)
(*                                                                         *)
(* Detectors, judges and policies are replaceable, out-of-process ones     *)
(* included, so what they answer is arbitrary and the pipeline's own       *)
(* validation is modelled.  The transformers are the three built-in ones   *)
(* and the process transformer, whose child rewrites the text as it likes. *)
(* The vault is the atomic vault that JsonVault is shown to implement.     *)
(*                                                                         *)
(* A text is a sequence of atoms: characters, and placeholders as a whole. *)
(***************************************************************************)
EXTENDS Integers, Sequences, SequencesExt, FiniteSets, Functions

CONSTANTS
  Client, Scope,
  Kind, SecretKind, \* kinds of entities, and those is_secret_kind accepts
  Letter,           \* the characters of raw text
  Token,            \* bound: the tokens vaults may mint
  Inputs,           \* the texts callers sanitize
  Reports,          \* the reports detectors make: sequences of entities
  Transformers,     \* the transformers pipelines are configured with
  Rewrites,         \* the texts the child of a process transformer answers with
  VisibleTail,      \* how much of a masked value stays visible (4 in the code)
  Lapsing,          \* TRUE: mappings have a lifetime
  MaxCalls,         \* bound: calls started in a behaviour
  Redacted, Star    \* `__DO_PRIVATE_REDACTED__`, and the mask character

\* sane: the kind is not blank, the confidence is in 0..=1, and both ends are
\* on character boundaries.
Entity == [kind : Kind, start : Nat, end : Nat, value : Seq(Letter), sane : BOOLEAN]
Action == {"keep", "pseudonymize", "redact", "block"}
Planned == [entity : Entity, action : Action]
Mapping == [scope : Scope, kind : Kind, original : Seq(Letter), token : Token]
Atom == Letter \cup Token \cup Kind \cup {Redacted, Star}

ASSUME PipelineAssumption ==
  /\ SecretKind \subseteq Kind /\ Inputs \subseteq Seq(Letter) /\ Reports \subseteq Seq(Entity)
  /\ Transformers \subseteq {"pseudonymize", "mask", "generalize", "process"}
  /\ Rewrites \subseteq Seq(Atom) /\ IsFiniteSet(Client)
  /\ VisibleTail \in Nat /\ Lapsing \in BOOLEAN /\ MaxCalls \in Nat

\* No marker is a character, and no character and no other marker is a token a
\* vault mints: those end in 64 random bits (mint_placeholder).
ASSUME AtomAssumption ==
  /\ Letter \cap (Kind \cup {Redacted}) = {}
  /\ Token \cap (Letter \cup Kind \cup {Redacted, Star}) = {}

VARIABLES
  vault,     \* the mappings of every scope
  audit,     \* how often the sink recorded each event
  pc,        \* where each client's call is
  call,      \* its operation, scope, input text and transformer
  report,    \* sanitize: what the detector answered
  plan,      \* sanitize: the validated policy plan
  got,       \* the mappings the vault answered with
  claimed,   \* process transformer: reported mappings still to be looked up
  text,      \* the text it is about to return
  calls      \* calls started (bound)

VARIABLES    \* history
  retired,   \* mappings that were forgotten or lapsed
  given,     \* what sanitize calls returned, with what they decided
  answered   \* how often a caller was told of each: a text, a confirmation, a block

locals  == <<call, report, plan, got, claimed, text>>
history == <<retired, given, answered>>
vars    == <<vault, audit, pc, locals, calls, history>>

Op == {"sanitize", "restore", "forget"}
NoCall == [op |-> "none"]
Outcome == {"ok", "blocked"}
Event == Op \X Scope \X Outcome

InScope(s, M) == {m \in M : m.scope = s}

Init ==
  /\ vault = {} /\ audit = [e \in Event |-> 0]
  /\ pc = [c \in Client |-> "idle"]
  /\ call = [c \in Client |-> NoCall]
  /\ report = [c \in Client |-> <<>>] /\ plan = [c \in Client |-> <<>>]
  /\ got = [c \in Client |-> {}] /\ claimed = [c \in Client |-> {}]
  /\ text = [c \in Client |-> <<>>]
  /\ calls = 0 /\ retired = {} /\ given = {}
  /\ answered = [e \in Event |-> 0]

Transition(c, from, to) == pc[c] = from /\ pc' = [pc EXCEPT ![c] = to]

Begin(c, to, op, s, t, how) ==
  /\ Transition(c, "idle", to)
  /\ calls < MaxCalls /\ calls' = calls + 1
  /\ call' = [call EXCEPT ![c] = [op |-> op, scope |-> s, text |-> t, transformer |-> how]]
  /\ UNCHANGED <<vault, audit, report, plan, got, claimed, text, history>>

Sanitize(c, s) ==
  \E t \in Inputs, how \in Transformers : Begin(c, "detect", "sanitize", s, t, how)
\* What callers restore: texts they were given, in whatever scope.
Restore(c, s) ==
  \E t \in {g.text : g \in given} : Begin(c, "resolve", "restore", s, t, "none")
Forget(c, s) == Begin(c, "delete", "forget", s, <<>>, "none")

-----------------------------------------------------------------------------
(* sanitize: detection and planning.                                       *)

\* validate_spans
ValidSpan(input, e) ==
  /\ e.sane /\ e.start < e.end /\ e.end <= Len(input)
  /\ SubSeq(input, e.start + 1, e.end) = e.value

\* Mistake: spans that touch overlap.
OverlapOrTouch(a, b) == a.start <= b.end /\ b.start <= a.end

Overlap(a, b) == a.start < b.end /\ b.start < a.end

\* The longer span wins; equal lengths keep the order of the report.
Before(R, i, j) ==
  LET length(n) == R[n].end - R[n].start
  IN length(i) > length(j) \/ (length(i) = length(j) /\ i < j)

\* A span is kept unless one kept before it overlaps it.
Kept(R, K) ==
  \A i \in DOMAIN R : i \in K <=> \A j \in K : Before(R, j, i) => ~Overlap(R[i], R[j])

\* resolve_overlaps: what is kept, by where it starts.
Resolved(R) ==
  UNION {{[n \in DOMAIN order |-> R[order[n]]] :
            order \in {f \in Surjection(1 .. Cardinality(K), K) :
                        \A m, n \in DOMAIN f : m < n => R[f[m]].start < R[f[n]].start}} :
         K \in {K \in SUBSET DOMAIN R : Kept(R, K)}}

\* Mistake: decisions are not checked against the kind of the entity.
ValidPlanAnyAction(E, P) ==
  DOMAIN P = DOMAIN E /\ \A i \in DOMAIN E : P[i].entity = E[i]

\* validate_plan: one decision for each entity, none reversible for a secret.
ValidPlan(E, P) ==
  /\ DOMAIN P = DOMAIN E
  /\ \A i \in DOMAIN E :
       /\ P[i].entity = E[i]
       /\ E[i].kind \in SecretKind => P[i].action \in {"redact", "block"}

\* Any list of decisions about the entities of the report, or about fewer.
PolicyAnswers(R) ==
  UNION {[1 .. n -> [entity : Range(R), action : Action]] : n \in 0 .. Len(R)}

Has(P, action) == \E i \in DOMAIN P : P[i].action = action

\* Mistake: a block only replaces the entity it is about.
AfterPlanUnblocked(P, how) ==
  IF Has(P, "pseudonymize") /\ how = "pseudonymize" THEN "store" ELSE "transform"

AfterPlan(P, how) ==
  IF Has(P, "block") THEN "blocked"
  ELSE IF how = "process" THEN "child"
  ELSE IF Has(P, "pseudonymize") /\ how = "pseudonymize" THEN "store"
  ELSE "transform"

\* The stages up to the plan read and change no shared state.  The judge's word
\* reaches only the policy, whose answer is arbitrary.
Decide(c) ==
  /\ pc[c] = "detect"
  /\ \E R \in Reports :
       /\ \A i \in DOMAIN R : ValidSpan(call[c].text, R[i])
       /\ report' = [report EXCEPT ![c] = R]
       /\ \E E \in Resolved(R), P \in PolicyAnswers(R) :
            /\ ValidPlan(E, P)
            /\ plan' = [plan EXCEPT ![c] = P]
            /\ pc' = [pc EXCEPT ![c] = AfterPlan(P, call[c].transformer)]
  /\ UNCHANGED <<vault, audit, call, got, claimed, text, calls, history>>

-----------------------------------------------------------------------------
(* sanitize: the vault and the text.                                       *)

Named(s, kind, value) ==
  {m \in vault : m.scope = s /\ m.kind = kind /\ m.original = value}

\* What 64 random bits never repeat, in any scope: more than ScopedVault asks.
Used == {m.token : m \in vault \cup retired}

\* The values to pseudonymize, each with its kind.
Pseudonymized(P) ==
  {<<P[i].entity.kind, P[i].entity.value>> :
     i \in {j \in DOMAIN P : P[j].action = "pseudonymize"}}

\* get_or_insert_many, for all values to pseudonymize at once.
Alias(c, from, to) ==
  LET s == call[c].scope
      items == Pseudonymized(plan[c])
      new == {x \in items : Named(s, x[1], x[2]) = {}}
  IN /\ Transition(c, from, to)
     /\ \E token \in [new -> Token \ Used] :
          /\ \A x, y \in new : token[x] = token[y] => x = y
          /\ vault' = vault \cup
               {[scope |-> s, kind |-> x[1], original |-> x[2], token |-> token[x]] : x \in new}
     /\ got' = [got EXCEPT ![c] =
                  {m \in vault' : m.scope = s /\ <<m.kind, m.original>> \in items}]
     /\ UNCHANGED <<audit, call, report, plan, claimed, text, calls, history>>

Store(c) == Alias(c, "store", "transform")

\* mask
Mask(value) ==
  [i \in DOMAIN value |->
     IF Len(value) > VisibleTail /\ i > Len(value) - VisibleTail THEN value[i] ELSE Star]

\* kind_token: `__DO_PRIVATE_<KIND>__`.
KindToken(kind) == <<kind>>

TokenFor(e, M) ==
  (CHOOSE m \in M : m.kind = e.kind /\ m.original = e.value).token

Replacement(how, p, M) ==
  CASE p.action = "keep" -> p.entity.value
    [] p.action = "redact" -> <<Redacted>>
    [] p.action = "pseudonymize" /\ how = "pseudonymize" -> <<TokenFor(p.entity, M)>>
    [] p.action = "pseudonymize" /\ how = "mask" -> Mask(p.entity.value)
    [] p.action = "pseudonymize" /\ how = "generalize" -> KindToken(p.entity.kind)

\* Mistake: a gap starts where the entity before it does.
CursorAtStart(P, i) == IF i = 1 THEN 0 ELSE P[i - 1].entity.start

\* Where the walk of the built-in transformers is before entity i.
Cursor(P, i) == IF i = 1 THEN 0 ELSE P[i - 1].entity.end

\* The walk: gap, replacement, gap, ..., tail.
Walk(input, P, replaced) ==
  LET piece(i) == SubSeq(input, Cursor(P, i) + 1, P[i].entity.start) \o replaced[i]
  IN FlattenSeq([i \in DOMAIN P |-> piece(i)])
       \o SubSeq(input, Cursor(P, Len(P) + 1) + 1, Len(input))

Shows(t, value) ==
  \E i \in 1 .. Len(t) + 1 - Len(value) : SubSeq(t, i, i + Len(value) - 1) = value

\* validate_transformed_text
Clean(P, t) == \A i \in DOMAIN P : P[i].action # "keep" => ~Shows(t, P[i].entity.value)

Transform(c) ==
  LET replaced == [i \in DOMAIN plan[c] |-> Replacement(call[c].transformer, plan[c][i], got[c])]
      t == Walk(call[c].text, plan[c], replaced)
  IN /\ Transition(c, "transform", "record")
     /\ ~Has(plan[c], "block")
     /\ \A i \in DOMAIN plan[c] : Cursor(plan[c], i) <= plan[c][i].entity.start
     /\ Clean(plan[c], t)
     /\ text' = [text EXCEPT ![c] = t]
     /\ UNCHANGED <<vault, audit, call, report, plan, got, claimed, calls, history>>

-----------------------------------------------------------------------------
(* sanitize: a process transformer.                                        *)

\* A child that shares the pipeline's vault stores what it is to pseudonymize.
ChildStores(c) == Alias(c, "child", "reply")

\* validate_mappings: one mapping for each planned value and for nothing else,
\* under distinct placeholders that are in the text.
ValidMappings(P, t, M) ==
  /\ {<<m.kind, m.original>> : m \in M} = Pseudonymized(P)
  /\ \A m, n \in M : m.token = n.token => m = n
  /\ \A m \in M : m.token \in Range(t)

\* validate_text: a value planned to be kept is there, any other is not, unless
\* it is also planned to be kept.
ValidText(P, t) ==
  LET kept == {P[i].entity.value : i \in {j \in DOMAIN P : P[j].action = "keep"}}
  IN \A i \in DOMAIN P : Shows(t, P[i].entity.value) <=> P[i].entity.value \in kept

\* The child answers: with any text, and placeholders it was given or made up.
ChildReplies(c) ==
  /\ pc[c] \in {"child", "reply"} /\ pc' = [pc EXCEPT ![c] = "verify"]
  /\ \E t \in Rewrites, token \in [Pseudonymized(plan[c]) -> Token] :
       LET M == {[scope |-> call[c].scope, kind |-> x[1], original |-> x[2],
                  token |-> token[x]] : x \in Pseudonymized(plan[c])}
       IN /\ ValidMappings(plan[c], t, M) /\ ValidText(plan[c], t)
          /\ claimed' = [claimed EXCEPT ![c] = M]
          /\ text' = [text EXCEPT ![c] = t]
  /\ got' = [got EXCEPT ![c] = {}]
  /\ UNCHANGED <<vault, audit, call, report, plan, calls, history>>

\* What `resolve` finds for a reported mapping is that mapping.
Backed(m) == m \in vault

\* validate_vault: one mapping after the other is looked up.
VerifyMapping(c) ==
  /\ pc[c] = "verify"
  /\ \E m \in claimed[c] :
       /\ Backed(m)
       /\ claimed' = [claimed EXCEPT ![c] = @ \ {m}]
       /\ got' = [got EXCEPT ![c] = @ \cup {m}]
  /\ UNCHANGED <<vault, audit, pc, call, report, plan, text, calls, history>>

\* Then the pipeline checks the text as it checks any other.
AcceptReply(c) ==
  /\ Transition(c, "verify", "record")
  /\ claimed[c] = {} /\ Clean(plan[c], text[c])
  /\ UNCHANGED <<vault, audit, locals, calls, history>>

-----------------------------------------------------------------------------
(* restore and forget.                                                     *)

\* Mistake: a token is looked up in every scope.
OpenedAnywhere(s, t) ==
  FlattenSeq([i \in DOMAIN t |->
    IF \E m \in vault : m.token = t[i]
    THEN (CHOOSE m \in vault : m.token = t[i]).original ELSE <<t[i]>>])

\* Each token that resolves in the scope is replaced by its value.
Opened(s, t) ==
  FlattenSeq([i \in DOMAIN t |->
    IF \E m \in InScope(s, vault) : m.token = t[i]
    THEN (CHOOSE m \in InScope(s, vault) : m.token = t[i]).original ELSE <<t[i]>>])

ResolveMany(c) ==
  /\ Transition(c, "resolve", "record")
  /\ text' = [text EXCEPT ![c] = Opened(call[c].scope, call[c].text)]
  /\ UNCHANGED <<vault, audit, call, report, plan, got, claimed, calls, history>>

DeleteScope(c) ==
  /\ Transition(c, "delete", "record")
  /\ vault' = vault \ InScope(call[c].scope, vault)
  /\ retired' = retired \cup InScope(call[c].scope, vault)
  /\ UNCHANGED <<audit, locals, calls, given, answered>>

\* Lifetimes end, one mapping at a time.
Lapse ==
  /\ Lapsing
  /\ \E m \in vault : vault' = vault \ {m} /\ retired' = retired \cup {m}
  /\ UNCHANGED <<audit, pc, locals, calls, given, answered>>

-----------------------------------------------------------------------------
(* The end of a call.                                                      *)

Finish(c) ==
  /\ pc' = [pc EXCEPT ![c] = "idle"]
  /\ call' = [call EXCEPT ![c] = NoCall]
  /\ report' = [report EXCEPT ![c] = <<>>] /\ plan' = [plan EXCEPT ![c] = <<>>]
  /\ got' = [got EXCEPT ![c] = {}] /\ claimed' = [claimed EXCEPT ![c] = {}]
  /\ text' = [text EXCEPT ![c] = <<>>]

\* The event of a call.
EventOf(c) == <<call[c].op, call[c].scope,
                IF pc[c] \in {"blocked", "refuse"} THEN "blocked" ELSE "ok">>

\* Where a call goes once its event is recorded.
Recorded(c) == Transition(c, "record", "return") \/ Transition(c, "blocked", "refuse")

\* Mistake: nobody looks at what the sink answers.
RecordBestEffort(c) ==
  /\ Recorded(c)
  /\ audit' \in {audit, [audit EXCEPT ![EventOf(c)] = @ + 1]}
  /\ UNCHANGED <<vault, locals, calls, history>>

\* record; a sink that cannot write fails the call (see Fail).
Record(c) ==
  /\ Recorded(c)
  /\ audit' = [audit EXCEPT ![EventOf(c)] = @ + 1]
  /\ UNCHANGED <<vault, locals, calls, history>>

\* The caller has its answer: Ok, or the policy's refusal.
Return(c) ==
  /\ pc[c] \in {"return", "refuse"}
  /\ answered' = [answered EXCEPT ![EventOf(c)] = @ + 1]
  /\ given' = given \cup
       {g \in {[scope |-> call[c].scope, input |-> call[c].text,
                transformer |-> call[c].transformer, text |-> text[c],
                mappings |-> got[c], report |-> report[c], plan |-> plan[c]]} :
        pc[c] = "return" /\ call[c].op = "sanitize"}
  /\ Finish(c)
  /\ UNCHANGED <<vault, audit, calls, retired>>

\* Any stage, the vault or the sink fails, or the process dies; what the vault
\* and the log hold by then they keep.
Fail(c) ==
  /\ pc[c] # "idle"
  /\ Finish(c)
  /\ UNCHANGED <<vault, audit, calls, history>>

Next ==
  \/ \E c \in Client :
       \/ \E s \in Scope : Sanitize(c, s) \/ Restore(c, s) \/ Forget(c, s)
       \/ Decide(c) \/ Store(c) \/ Transform(c) \/ ResolveMany(c) \/ DeleteScope(c)
       \/ ChildStores(c) \/ ChildReplies(c) \/ VerifyMapping(c) \/ AcceptReply(c)
       \/ Record(c) \/ Return(c) \/ Fail(c)
  \/ Lapse

Spec == Init /\ [][Next]_vars
-----------------------------------------------------------------------------
(* Correctness. *)

(* Nothing the detector reported shows in a returned text, at whatever      *)
(* position, unless the plan keeps that very entity, which it never does    *)
(* for a secret, or a planned one at least as long covers a character of it *)
(* and took its place.  A secret reported inside an entity that is kept     *)
(* does show, and so may another occurrence of a value whose own entity     *)
(* gave way (resolve_overlaps, validate_plan, validate_transformed_text).   *)
Covered(e) == (e.start + 1) .. e.end
TookItsPlace(e, f) ==
  /\ f # e /\ Covered(e) \cap Covered(f) # {}
  /\ f.end - f.start >= e.end - e.start

RemovedIsGone ==
  \A g \in given : \A e \in Range(g.report) : Shows(g.text, e.value) =>
    \E p \in Range(g.plan) :
      \/ p.entity = e /\ p.action = "keep" /\ e.kind \notin SecretKind
      \/ TookItsPlace(e, p.entity)

(* What no decision touches is returned as it was: every character outside  *)
(* what the plan hides survives, in order.  Not where values are masked,    *)
(* which leaves some of their characters, nor where a child writes the text *)
(* (resolve_overlaps, the pseudonymizing and generalizing transformers).    *)
RestIsUntouched ==
  \A g \in given :
    LET hidden == UNION {(g.plan[i].entity.start + 1) .. g.plan[i].entity.end :
                           i \in {j \in DOMAIN g.plan : g.plan[j].action # "keep"}}
        shown == [n \in DOMAIN g.input |-> IF n \in hidden THEN <<>> ELSE <<g.input[n]>>]
        raw == [n \in DOMAIN g.text |-> IF g.text[n] \in Letter THEN <<g.text[n]>> ELSE <<>>]
    IN g.transformer \notin {"mask", "process"} => FlattenSeq(raw) = FlattenSeq(shown)

(* No credential ever reaches the vault, whichever policy planned it: not   *)
(* even one that a restore could not open (validate_plan).                  *)
NoSecretStored == \A m \in vault \cup retired : m.kind \notin SecretKind

(* A plan with a block in it has no effect: no mapping is made and no text, *)
(* for the other entities either (sanitize: "Block is terminal").           *)
BlockIsTerminal ==
  \A c \in Client : Has(plan[c], "block") => got[c] = {} /\ text[c] = <<>>

(* What a sanitize call returned opens in its own scope, and in no other:   *)
(* while none of its mappings was forgotten or lapsed, a restore gives back *)
(* the input but for what is redacted, masked or generalized, whatever      *)
(* other clients did in between; and where a child wrote the text, the      *)
(* values it was to pseudonymize.  A text with a placeholder the child did  *)
(* not report may open elsewhere (transform, validate, resolve_many).       *)
OpensInItsScopeOnly ==
  [][\A c \in Client : ResolveMany(c) =>
       \A g \in {x \in given : x.text = call[c].text} :
         LET tokens == Range(g.text) \cap Token
             lost == {m.token : m \in retired}
             unhide(p) == IF p.action = "pseudonymize" /\ g.transformer = "pseudonymize"
                          THEN p.entity.value
                          ELSE Replacement(g.transformer, p, {})
             unhidden == [i \in DOMAIN g.plan |-> unhide(g.plan[i])]
         IN /\ call[c].scope # g.scope /\ tokens \subseteq {m.token : m \in g.mappings}
                 => text'[c] = g.text
            /\ call[c].scope = g.scope /\ tokens \cap lost = {}
                 => IF g.transformer = "process"
                    THEN \A x \in Pseudonymized(g.plan) : Shows(text'[c], x[2])
                    ELSE text'[c] = Walk(g.input, g.plan, unhidden)]_vars

(* Nobody is told what the audit log does not tell of: no text, no          *)
(* confirmation of a forget and no block, though the vault was changed by   *)
(* then and the sink may fail (record: "a hard requirement", before Ok).    *)
NothingUnrecorded == \A e \in Event : answered[e] <= audit[e]
=============================================================================
