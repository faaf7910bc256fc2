-------------------------- MODULE MCPrivacyPipeline --------------------------
(* Small instances of PrivacyPipeline for TLC.                              *)
EXTENDS PrivacyPipeline, TLC

CONSTANTS a, b, email, name, key

span(t, k, s, e) ==
  [kind |-> k, start |-> s, end |-> e, value |-> SubSeq(t, s + 1, e), sane |-> TRUE]

\* pipeline_plans: every value occurs twice; every report of up to two spans
\* (nested, overlapping by halves, coinciding, one value under two kinds), a
\* chain of three, and three reports the validation refuses.
Long == <<a, b, a, b>>
LongTexts == {Long}
Spans == {span(Long, k, s, e) : k \in {email, key}, s \in 0 .. 3, e \in 1 .. 4}
True == {x \in Spans : x.start < x.end}
EveryReport ==
  UNION {[1 .. n -> True] : n \in 0 .. 2} \cup
  {<<span(Long, key, 1, 3), span(Long, email, 0, 2), span(Long, name, 2, 4)>>,
   <<span(Long, email, 2, 4), span(Long, key, 0, 3), span(Long, name, 3, 4)>>,
   <<[span(Long, email, 0, 1) EXCEPT !.value = <<b>>]>>,
   <<[span(Long, email, 3, 4) EXCEPT !.end = 5]>>,
   <<[span(Long, email, 0, 1) EXCEPT !.sane = FALSE]>>}

\* What a child may answer there: up to three atoms in any order.
AnyText == UNION {[1 .. n -> Letter \cup Token] : n \in 0 .. 3}

\* pipeline_shared: both occurrences of a value, under two kinds.
Short == <<a, b, a>>
ShortTexts == {Short}
Plain == {<<span(Short, email, 0, 1), span(Short, name, 2, 3)>>}

\* What a child may answer there: a placeholder, its own or a foreign one.
Placeholders == {<<t>> : t \in Token}

Symmetry == Permutations(Client) \cup Permutations(Scope) \cup Permutations(Token)
=============================================================================
