------------------------------- MODULE Policy -------------------------------
(***************************************************************************)
(* The two built-in policies: the conservative default                     *)
(* (crates/policy-default) and the opt-in matrix of jurisdictions and      *)
(* purposes (crates/policy-matrix).  Each decides one entity from its kind,*)
(* what the semantic judge said of it, and the processing context.         *)
(*                                                                         *)
(* Confidences are whole percents; a country code is written in a case,    *)
(* which the matrix folds.                                                 *)
(***************************************************************************)
EXTENDS Integers, Sequences

CONSTANTS Kind, SecretKind,   \* entity kinds, and those is_secret_kind accepts
          Code,               \* well-formed country codes
          Purpose,            \* purposes callers state and rules name
          Confidence,         \* the confidences a judge reports, in percent
          Configs,            \* matrix configurations operators write
          Unset               \* Option::None

Recipient == {"local", "trusted", "external", "unknown"}
Category  == {"non_personal", "personal", "special_category"}
Label     == {"personal", "business", "test", "secret"}
Action    == {"keep", "pseudonymize", "redact", "block"}

\* A code as somebody wrote it: two letters of a code, in a case, or not a code.
Written == [code : Code, case : {"upper", "lower"}, valid : {TRUE}] \cup
           [code : Code, case : {"lower"}, valid : {FALSE}]
\* is_valid_jurisdiction
Declared(j) == j # Unset /\ j.valid

Context == [recipient : Recipient, data_category : Category,
            jurisdiction : Written \cup {Unset}, purpose : Purpose \cup {Unset}]

\* What the judge said of an entity: Unset is an abstention or no judgment.
Decision == [label : Label, confidence : Confidence] \cup {Unset}

LabeledSecret(d) == d # Unset /\ d.label = "secret"
KeepConfidence == 90
TrustedHarmless(d) ==
  d # Unset /\ d.label \in {"test", "business"} /\ d.confidence >= KeepConfidence

IsSecret(kind, d) == kind \in SecretKind \/ LabeledSecret(d)

\* What both policies end with.
Fallback(d, ctx) ==
  IF TrustedHarmless(d) \/ ctx.recipient = "local" THEN "keep" ELSE "pseudonymize"

UnknownBlocks(ctx) == ctx.recipient = "unknown" /\ ctx.data_category # "non_personal"

-----------------------------------------------------------------------------
(* policy-default: decide. *)

\* Mistake: the trusted case is the only one that is checked.
DefaultSpecialTrustedOnly(ctx) ==
  /\ ctx.data_category = "special_category"
  /\ ctx.recipient = "trusted" /\ ~Declared(ctx.jurisdiction)

DefaultSpecialBlocks(ctx) ==
  /\ ctx.data_category = "special_category"
  /\ \/ ctx.recipient \in {"external", "unknown"}
     \/ ctx.recipient # "local" /\ ~Declared(ctx.jurisdiction)

\* Mistake: a judge's word is taken before the kind is looked at.
DefaultJudgeFirst(kind, d, ctx) ==
  IF TrustedHarmless(d) THEN "keep"
  ELSE IF IsSecret(kind, d) THEN "redact"
  ELSE IF DefaultSpecialBlocks(ctx) \/ UnknownBlocks(ctx) THEN "block"
  ELSE Fallback(d, ctx)

DefaultDecide(kind, d, ctx) ==
  IF IsSecret(kind, d) THEN "redact"
  ELSE IF DefaultSpecialBlocks(ctx) \/ UnknownBlocks(ctx) THEN "block"
  ELSE Fallback(d, ctx)

-----------------------------------------------------------------------------
(* policy-matrix: MatrixConfig, PurposeRule::matches, decide. *)

RuleAction == {"keep", "pseudonymize", "block"}
Rule == [purpose : Purpose, data_category : Category \cup {Unset},
         recipients : SUBSET Recipient, action : RuleAction]
Config == [origin : Written \cup {Unset}, adequate : SUBSET Written,
           enforce : BOOLEAN, rules : Seq(Rule)]
\* MatrixConfig::default, an unconfigured matrix.
DefaultConfig == [origin |-> Unset, adequate |-> {}, enforce |-> TRUE, rules |-> <<>>]

ASSUME PolicyAssumption ==
  /\ SecretKind \subseteq Kind /\ Confidence \subseteq 0 .. 100 /\ Configs \subseteq Config
  /\ Unset \notin Purpose \cup Written

Matches(rule, ctx) ==
  /\ ctx.purpose = rule.purpose
  /\ rule.data_category \in {Unset, ctx.data_category}
  /\ rule.recipients = {} \/ ctx.recipient \in rule.recipients

Matching(cfg, ctx) == {i \in DOMAIN cfg.rules : Matches(cfg.rules[i], ctx)}
FirstRule(cfg, ctx) ==
  cfg.rules[CHOOSE i \in Matching(cfg, ctx) : \A j \in Matching(cfg, ctx) : i <= j]

\* The destination is the origin itself or listed, whatever case either is in
\* (an origin or a listed code that is not a code equals no valid destination).
SameCode(a, b) == a # Unset /\ b # Unset /\ a.valid = b.valid /\ a.code = b.code

Adequate(cfg, j) ==
  /\ Declared(j) /\ cfg.origin # Unset
  /\ SameCode(cfg.origin, j) \/ \E a \in cfg.adequate : SameCode(a, j)

\* Mistake: a trusted recipient is trusted with everything.
MatrixTrustsTrusted(cfg, ctx) ==
  ctx.data_category = "special_category" /\ ctx.recipient \in {"external", "unknown"}

MatrixSpecialBlocks(cfg, ctx) ==
  /\ ctx.data_category = "special_category"
  /\ \/ ctx.recipient \in {"external", "unknown"}
     \/ ctx.recipient = "trusted" /\ cfg.enforce /\ ~Adequate(cfg, ctx.jurisdiction)

\* Mistake: purpose rules are looked at before the adequacy of the transfer.
MatrixRulesFirst(cfg, kind, d, ctx) ==
  IF IsSecret(kind, d) THEN "redact"
  ELSE IF Matching(cfg, ctx) # {} THEN FirstRule(cfg, ctx).action
  ELSE IF UnknownBlocks(ctx) \/ MatrixSpecialBlocks(cfg, ctx) THEN "block"
  ELSE Fallback(d, ctx)

MatrixDecide(cfg, kind, d, ctx) ==
  IF IsSecret(kind, d) THEN "redact"
  ELSE IF UnknownBlocks(ctx) \/ MatrixSpecialBlocks(cfg, ctx) THEN "block"
  ELSE IF Matching(cfg, ctx) # {} THEN FirstRule(cfg, ctx).action
  ELSE Fallback(d, ctx)

-----------------------------------------------------------------------------
(* A policy keeps no state: every decision is one query.                   *)

Query == [kind : Kind, decision : Decision, context : Context, config : Configs]

VARIABLES query, default, matrix
vars == <<query, default, matrix>>

Init == query = Unset /\ default = Unset /\ matrix = Unset

Ask(q) ==
  /\ query = Unset /\ query' = q
  /\ default' = DefaultDecide(q.kind, q.decision, q.context)
  /\ matrix' = MatrixDecide(q.config, q.kind, q.decision, q.context)

Next == \E q \in Query : Ask(q)

Spec == Init /\ [][Next]_vars
-----------------------------------------------------------------------------
(* Correctness. *)

TypeOK == \/ query = Unset /\ default = Unset /\ matrix = Unset
          \/ /\ query \in Query /\ default \in Action /\ matrix \in Action
             /\ default = DefaultDecide(query.kind, query.decision, query.context)
             /\ matrix = MatrixDecide(query.config, query.kind, query.decision, query.context)

\* How much an action lets out: the value, a token for it, nothing.
Strictness(a) == CASE a = "keep" -> 0 [] a = "pseudonymize" -> 1
                   [] a = "redact" -> 2 [] a = "block" -> 3
Withholds(a) == a \in {"redact", "block"}
Distrust(r) == CASE r = "local" -> 0 [] r = "trusted" -> 1
                 [] r = "external" -> 2 [] r = "unknown" -> 3

(* An unconfigured matrix is never looser than the default policy           *)
(* (policy-matrix/src/lib.rs:105).                                          *)
UnconfiguredNotLooser ==
  query # Unset /\ query.config = DefaultConfig => Strictness(matrix) >= Strictness(default)

(* While adequacy is enforced, special-category data that leaves the device *)
(* in any form goes to a trusted recipient in an adequate place, whatever   *)
(* the purpose rules say (policy-matrix decide, steps 2 to 4).              *)
SpecialStaysAdequate ==
  query # Unset =>
    LET ctx == query.context IN
    ctx.data_category = "special_category" /\ ctx.recipient # "local" /\ query.config.enforce
      => \/ Withholds(matrix)
         \/ ctx.recipient = "trusted" /\ Adequate(query.config, ctx.jurisdiction)

(* A judge cannot release a value: what a policy withholds without a        *)
(* judgment it withholds whatever the judge says (both policies: a judge    *)
(* "can therefore never turn a secret into a keep or a pseudonym").         *)
JudgeCannotRelease ==
  query # Unset =>
    /\ Withholds(DefaultDecide(query.kind, Unset, query.context)) => Withholds(default)
    /\ Withholds(MatrixDecide(query.config, query.kind, Unset, query.context))
         => Withholds(matrix)

(* A less trusted recipient is never given more, in the default policy and  *)
(* in a matrix without purpose rules (decide, both).                        *)
DistrustNeverLoosens ==
  query # Unset =>
    \A r \in Recipient :
      LET other == [query.context EXCEPT !.recipient = r] IN
      Distrust(query.context.recipient) <= Distrust(r) =>
        /\ Strictness(default) <= Strictness(DefaultDecide(query.kind, query.decision, other))
        /\ query.config.rules = <<>> =>
             Strictness(matrix) <=
               Strictness(MatrixDecide(query.config, query.kind, query.decision, other))
=============================================================================
