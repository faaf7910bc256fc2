---------------------------- MODULE PolicyProofs ----------------------------
(* The promises of the two policies for every set of kinds, country codes,  *)
(* purposes and confidences, and for every matrix an operator can write.    *)
EXTENDS Policy, WellFoundedInduction, TLAPS

-----------------------------------------------------------------------------
(* What a decision is. *)

LEMMA LeastNatural ==
  ASSUME NEW S \in SUBSET Nat, S # {}
  PROVE  \E m \in S : \A n \in S : m <= n
  <1>1. PICK m \in S : ~ \E n \in S : <<n, m>> \in OpToRel(<, Nat)
    BY WFMin, NatLessThanWellFounded
  <1>2. \A n \in S : ~(n < m)
    BY <1>1 DEF OpToRel
  <1>3. QED BY <1>2

LEMMA FirstRuleType ==
  ASSUME NEW cfg \in Config, NEW ctx, Matching(cfg, ctx) # {}
  PROVE  FirstRule(cfg, ctx).action \in RuleAction
  <1> DEFINE M == Matching(cfg, ctx)
  <1>1. cfg.rules \in Seq(Rule)
    BY DEF Config
  <1>2. M \subseteq DOMAIN cfg.rules /\ DOMAIN cfg.rules \subseteq Nat
    BY <1>1 DEF Matching
  <1>3. \E i \in M : \A j \in M : i <= j
    BY <1>2, LeastNatural
  <1>4. (CHOOSE i \in M : \A j \in M : i <= j) \in DOMAIN cfg.rules
    BY <1>2, <1>3
  <1>5. FirstRule(cfg, ctx) \in Rule
    BY <1>1, <1>4 DEF FirstRule
  <1>6. QED BY <1>5 DEF Rule

LEMMA DefaultDecideType ==
  ASSUME NEW kind, NEW d, NEW ctx
  PROVE  DefaultDecide(kind, d, ctx) \in Action
  BY DEF DefaultDecide, Fallback, Action

LEMMA MatrixDecideType ==
  ASSUME NEW cfg \in Config, NEW kind, NEW d, NEW ctx
  PROVE  MatrixDecide(cfg, kind, d, ctx) \in Action
  BY FirstRuleType DEF MatrixDecide, Fallback, Action, RuleAction

LEMMA NoRuleMatches ==
  ASSUME NEW cfg, cfg.rules = <<>>, NEW ctx
  PROVE  Matching(cfg, ctx) = {}
  BY DEF Matching

-----------------------------------------------------------------------------
(* A decision is always an action, and the one its query calls for.         *)
THEOREM TypeCorrect == Spec => []TypeOK
  <1>1. Init => TypeOK
    BY DEF Init, TypeOK
  <1>2. TypeOK /\ [Next]_vars => TypeOK'
    <2> SUFFICES ASSUME TypeOK, [Next]_vars PROVE TypeOK'
      OBVIOUS
    <2>1. ASSUME NEW q \in Query, Ask(q) PROVE TypeOK'
      <3>1. q.config \in Config
        BY PolicyAssumption DEF Query
      <3>2. QED BY <2>1, <3>1, DefaultDecideType, MatrixDecideType DEF Ask, TypeOK
    <2>2. CASE UNCHANGED vars
      BY <2>2 DEF TypeOK, vars
    <2>3. QED BY <2>1, <2>2 DEF Next
  <1>3. QED BY <1>1, <1>2, PTL DEF Spec

LEMMA QueryType ==
  ASSUME TypeOK, query # Unset
  PROVE  /\ query \in Query /\ query.config \in Config
         /\ query.context \in Context /\ query.context.recipient \in Recipient
         /\ query.context.data_category \in Category
         /\ default = DefaultDecide(query.kind, query.decision, query.context)
         /\ matrix = MatrixDecide(query.config, query.kind, query.decision, query.context)
  BY PolicyAssumption DEF TypeOK, Query, Context

-----------------------------------------------------------------------------
(* An unconfigured matrix blocks what the default policy blocks, has no rule*)
(* to fire, and falls back to the same decision.                            *)
THEOREM UnconfiguredIsNotLooser == Spec => []UnconfiguredNotLooser
  <1>1. TypeOK => UnconfiguredNotLooser
    <2> SUFFICES ASSUME TypeOK, query # Unset, query.config = DefaultConfig
                 PROVE  Strictness(matrix) >= Strictness(default)
      BY DEF UnconfiguredNotLooser
    <2> DEFINE ctx == query.context  kind == query.kind  d == query.decision
               cfg == query.config
    <2>1. Matching(cfg, ctx) = {}
      BY NoRuleMatches DEF DefaultConfig
    <2>2. ~Adequate(cfg, ctx.jurisdiction) /\ cfg.enforce
      BY DEF Adequate, DefaultConfig
    <2>3. DefaultSpecialBlocks(ctx) => MatrixSpecialBlocks(cfg, ctx)
      BY <2>2, QueryType DEF DefaultSpecialBlocks, MatrixSpecialBlocks, Recipient
    <2>4. matrix = default \/ matrix = "block"
      BY <2>1, <2>3, QueryType DEF MatrixDecide, DefaultDecide
    <2>5. default \in Action
      BY QueryType, DefaultDecideType
    <2>6. QED BY <2>4, <2>5 DEF Strictness, Action
  <1>2. QED BY <1>1, TypeCorrect, PTL

(* The adequacy of the transfer is settled before a rule is looked at, so   *)
(* no rule can send special-category data anywhere else.                    *)
THEOREM SpecialDataStaysAdequate == Spec => []SpecialStaysAdequate
  <1>1. TypeOK => SpecialStaysAdequate
    <2> SUFFICES ASSUME TypeOK, query # Unset,
                        query.context.data_category = "special_category",
                        query.context.recipient # "local", query.config.enforce
                 PROVE  \/ Withholds(matrix)
                        \/ /\ query.context.recipient = "trusted"
                           /\ Adequate(query.config, query.context.jurisdiction)
      BY DEF SpecialStaysAdequate
    <2>1. CASE MatrixSpecialBlocks(query.config, query.context)
      BY <2>1, QueryType DEF MatrixDecide, Withholds
    <2>2. CASE ~MatrixSpecialBlocks(query.config, query.context)
      BY <2>2, QueryType DEF MatrixSpecialBlocks, Recipient
    <2>3. QED BY <2>1, <2>2
  <1>2. QED BY <1>1, TypeCorrect, PTL

(* A judge's word is read after the kind and the context have been, and     *)
(* only to keep what would otherwise be pseudonymized, or to redact.        *)
THEOREM NoJudgeReleases == Spec => []JudgeCannotRelease
  <1>1. TypeOK => JudgeCannotRelease
    <2> SUFFICES ASSUME TypeOK, query # Unset PROVE JudgeCannotRelease
      BY DEF JudgeCannotRelease
    <2> DEFINE ctx == query.context  kind == query.kind  d == query.decision
               cfg == query.config
    <2>1. IsSecret(kind, Unset) => IsSecret(kind, d)
      BY DEF IsSecret, LabeledSecret
    <2>2. ~Withholds(Fallback(Unset, ctx))
      BY DEF Fallback, Withholds
    <2>3. Withholds(DefaultDecide(kind, Unset, ctx)) => Withholds(DefaultDecide(kind, d, ctx))
      BY <2>1, <2>2 DEF DefaultDecide, Withholds
    <2>4. Withholds(MatrixDecide(cfg, kind, Unset, ctx))
            => Withholds(MatrixDecide(cfg, kind, d, ctx))
      BY <2>1, <2>2 DEF MatrixDecide, Withholds
    <2>5. QED BY <2>3, <2>4, QueryType DEF JudgeCannotRelease
  <1>2. QED BY <1>1, TypeCorrect, PTL

-----------------------------------------------------------------------------
(* Trust. *)

LEMMA DistrustOrder ==
  ASSUME NEW a \in Recipient, NEW b \in Recipient, Distrust(a) <= Distrust(b)
  PROVE  /\ a \in {"external", "unknown"} => b \in {"external", "unknown"}
         /\ a = "unknown" => b = "unknown"
         /\ a # "local" => b # "local"
         /\ a = "trusted" => b # "local"
  BY DEF Distrust, Recipient

\* What both policies come down to without a purpose rule.
Ladder(secret, block, keep) ==
  IF secret THEN "redact" ELSE IF block THEN "block"
  ELSE IF keep THEN "keep" ELSE "pseudonymize"

LEMMA LadderMonotone ==
  ASSUME NEW secret \in BOOLEAN,
         NEW block1 \in BOOLEAN, NEW block2 \in BOOLEAN, block1 => block2,
         NEW keep1 \in BOOLEAN, NEW keep2 \in BOOLEAN, keep2 => keep1
  PROVE  Strictness(Ladder(secret, block1, keep1)) <= Strictness(Ladder(secret, block2, keep2))
  <1>1. CASE secret
    BY <1>1 DEF Strictness, Ladder
  <1>2. CASE ~secret /\ block2
    BY <1>2 DEF Strictness, Ladder
  <1>3. CASE ~secret /\ ~block2
    BY <1>3 DEF Strictness, Ladder
  <1>4. QED BY <1>1, <1>2, <1>3

(* Distrust only adds reasons to block and takes away the one to keep.      *)
THEOREM DistrustLoosensNothing == Spec => []DistrustNeverLoosens
  <1>1. TypeOK => DistrustNeverLoosens
    <2> SUFFICES ASSUME TypeOK, query # Unset, NEW r \in Recipient,
                        Distrust(query.context.recipient) <= Distrust(r)
                 PROVE  LET other == [query.context EXCEPT !.recipient = r] IN
                        /\ Strictness(default) <=
                             Strictness(DefaultDecide(query.kind, query.decision, other))
                        /\ query.config.rules = <<>> =>
                             Strictness(matrix) <= Strictness(
                               MatrixDecide(query.config, query.kind, query.decision, other))
      BY DEF DistrustNeverLoosens
    <2> DEFINE ctx == query.context  kind == query.kind  d == query.decision
               cfg == query.config  other == [ctx EXCEPT !.recipient = r]
               secret == IsSecret(kind, d)
               keep(c) == TrustedHarmless(d) \/ c.recipient = "local"
               dblock(c) == DefaultSpecialBlocks(c) \/ UnknownBlocks(c)
               mblock(c) == UnknownBlocks(c) \/ MatrixSpecialBlocks(cfg, c)
    <2>1. /\ other.recipient = r /\ other.data_category = ctx.data_category
          /\ other.jurisdiction = ctx.jurisdiction
      BY QueryType DEF Context
    <2>2. /\ ctx.recipient \in {"external", "unknown"} => r \in {"external", "unknown"}
          /\ ctx.recipient = "unknown" => r = "unknown"
          /\ ctx.recipient # "local" => r # "local"
      BY QueryType, DistrustOrder
    <2>3. dblock(ctx) => dblock(other)
      BY <2>1, <2>2 DEF DefaultSpecialBlocks, UnknownBlocks
    <2>4. mblock(ctx) => mblock(other)
      BY <2>1, <2>2, QueryType DEF MatrixSpecialBlocks, UnknownBlocks, Recipient
    <2>5. keep(other) => keep(ctx)
      BY <2>1, <2>2
    <2> HIDE DEF other, dblock, mblock, secret, keep
    <2>6. \A c : DefaultDecide(kind, d, c) = Ladder(secret, dblock(c), keep(c))
      BY DEF DefaultDecide, Fallback, Ladder, dblock, secret, keep
    <2>7. secret \in BOOLEAN
          /\ \A c : dblock(c) \in BOOLEAN /\ mblock(c) \in BOOLEAN /\ keep(c) \in BOOLEAN
      BY DEF secret, keep, dblock, mblock, IsSecret, LabeledSecret, TrustedHarmless,
             UnknownBlocks, MatrixSpecialBlocks, DefaultSpecialBlocks
    <2>8. Strictness(DefaultDecide(kind, d, ctx)) <= Strictness(DefaultDecide(kind, d, other))
      BY <2>3, <2>5, <2>6, <2>7, LadderMonotone
    <2>9. ASSUME cfg.rules = <<>>
          PROVE  Strictness(MatrixDecide(cfg, kind, d, ctx))
                   <= Strictness(MatrixDecide(cfg, kind, d, other))
      <3>1. \A c : MatrixDecide(cfg, kind, d, c) = Ladder(secret, mblock(c), keep(c))
        BY <2>9, NoRuleMatches DEF MatrixDecide, Fallback, Ladder, mblock, secret, keep
      <3>2. QED BY <2>4, <2>5, <2>7, <3>1, LadderMonotone
    <2>10. QED BY <2>8, <2>9, QueryType DEF other
  <1>2. QED BY <1>1, TypeCorrect, PTL

=============================================================================
