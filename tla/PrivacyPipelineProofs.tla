------------------------ MODULE PrivacyPipelineProofs ------------------------
(* What the pipeline guarantees whatever its detector, its judge, its policy *)
(* and a process transformer answer, for any number of clients and calls    *)
(* and any texts.                                                           *)
EXTENDS PrivacyPipeline, NaturalsInduction, WellFoundedInduction, SequenceTheorems,
        FiniteSetTheorems, TLAPS

-----------------------------------------------------------------------------
(* The inductive invariant, in parts.                                       *)

\* Where a call is that has begun.
Busy == {"detect", "store", "transform", "child", "reply", "verify", "resolve", "delete",
         "record", "blocked", "return", "refuse"}

Shape ==
  /\ pc \in [Client -> Busy \cup {"idle"}]
  /\ call = [c \in Client |-> call[c]]
  /\ report = [c \in Client |-> report[c]] /\ plan = [c \in Client |-> plan[c]]
  /\ got = [c \in Client |-> got[c]] /\ text = [c \in Client |-> text[c]]
  /\ claimed = [c \in Client |-> claimed[c]]

\* A call is where its operation can be.
Placed ==
  \A c \in Client :
    /\ pc[c] # "idle" => call[c].op \in Op /\ call[c].scope \in Scope
    /\ pc[c] \in {"detect", "store", "transform", "child", "reply", "verify", "blocked", "refuse"} =>
         call[c].op = "sanitize"
    /\ pc[c] = "resolve" => call[c].op = "restore"
    /\ pc[c] = "delete" => call[c].op = "forget"

\* A plan that was validated against what was left of a validated report.
Decided(R, P) ==
  /\ \E E \in Resolved(R) : ValidPlan(E, P)
  /\ \A i \in DOMAIN R : R[i] \in Entity /\ R[i].start < R[i].end

\* A plan in use is such a one, and a text about to be returned is clean.
Validated ==
  \A c \in Client : pc[c] \notin {"idle", "detect"} /\ call[c].op = "sanitize" =>
    /\ Decided(report[c], plan[c])
    /\ pc[c] \in {"record", "return"} => Clean(plan[c], text[c])

\* Nothing is held before there is a plan, and a block ends a call there.
Held ==
  \A c \in Client :
    /\ pc[c] \in {"idle", "detect"} => got[c] = {} /\ text[c] = <<>>
    /\ Has(plan[c], "block") =>
         pc[c] \in {"blocked", "refuse"} /\ got[c] = {} /\ text[c] = <<>>

Returned == \A g \in given : Decided(g.report, g.plan) /\ Clean(g.plan, g.text)

\* The calls whose event is recorded and whose caller has no answer yet.
Answering(c) == pc[c] \in {"return", "refuse"}
Pending(e) == {c \in Client : Answering(c) /\ EventOf(c) = e}

Counted ==
  /\ audit \in [Event -> Nat] /\ answered \in [Event -> Nat]
  /\ \A e \in Event : answered[e] + Cardinality(Pending(e)) <= audit[e]

IInv == Shape /\ Placed /\ Validated /\ Held /\ Returned /\ Counted /\ NoSecretStored

-----------------------------------------------------------------------------
LEMMA NoPlanYet == \A a : ~Has(<<>>, a)
  BY DEF Has

LEMMA PendingIsFinite == \A e : IsFiniteSet(Pending(e)) /\ Cardinality(Pending(e)) \in Nat
  BY PipelineAssumption, FS_Subset, FS_CardinalityType DEF Pending

(* A step that records nothing and answers nobody can only end calls that   *)
(* were about to answer.                                                    *)
LEMMA CountsKept ==
  ASSUME IInv, audit' = audit, answered' = answered,
         \A c \in Client : Answering(c)' => pc'[c] = pc[c] /\ call'[c] = call[c]
  PROVE  Counted'
  <1> SUFFICES ASSUME NEW e \in Event
               PROVE  answered[e] + Cardinality(Pending(e)') <= audit[e]
    BY DEF IInv, Counted
  <1>1. Pending(e)' \subseteq Pending(e)
    BY DEF Pending, Answering, EventOf
  <1>2. /\ Cardinality(Pending(e)') <= Cardinality(Pending(e))
        /\ Cardinality(Pending(e)') \in Nat /\ Cardinality(Pending(e)) \in Nat
    BY <1>1, PendingIsFinite, FS_Subset, FS_CardinalityType
  <1>3. /\ answered[e] + Cardinality(Pending(e)) <= audit[e]
        /\ answered[e] \in Nat /\ audit[e] \in Nat
    BY DEF IInv, Counted
  <1> QED BY <1>2, <1>3

LEMMA InitIInv == Init => IInv
  <1> SUFFICES ASSUME Init PROVE IInv
    OBVIOUS
  <1>1. Shape /\ Placed
    BY DEF Init, Shape, Placed
  <1>2. Validated /\ Held
    BY NoPlanYet DEF Init, Validated, Held
  <1>3. Returned /\ NoSecretStored
    BY DEF Init, Returned, NoSecretStored
  <1>4. Counted
    <2>1. \A e : Pending(e) = {}
      BY DEF Init, Pending, Answering
    <2>2. \A e \in Event : audit[e] = 0 /\ answered[e] = 0 /\ Cardinality(Pending(e)) = 0
      BY <2>1, FS_EmptySet DEF Init
    <2>3. audit \in [Event -> Nat] /\ answered \in [Event -> Nat]
      BY DEF Init
    <2> QED BY <2>2, <2>3 DEF Counted
  <1>5. QED BY <1>1, <1>2, <1>3, <1>4 DEF IInv

LEMMA BeginIInv ==
  ASSUME IInv, NEW c \in Client, NEW to \in {"detect", "resolve", "delete"}, NEW op \in Op,
         NEW s \in Scope, NEW t, NEW how, Begin(c, to, op, s, t, how),
         to = "detect" <=> op = "sanitize", to = "resolve" <=> op = "restore"
  PROVE  IInv'
  <1> USE DEF Begin, Transition
  <1>1. Shape'
    BY DEF IInv, Shape, Busy
  <1>2. Placed'
    BY DEF IInv, Shape, Placed, Op
  <1>3. Validated'
    BY DEF IInv, Shape, Validated
  <1>4. Held'
    BY DEF IInv, Shape, Held
  <1>5. Returned' /\ NoSecretStored'
    BY DEF IInv, Returned, NoSecretStored, history
  <1>6. Counted'
    BY CountsKept DEF IInv, Shape, Answering, history
  <1>7. QED BY <1>1, <1>2, <1>3, <1>4, <1>5, <1>6 DEF IInv

LEMMA DecideIInv ==
  ASSUME IInv, NEW c \in Client, Decide(c)
  PROVE  IInv'
  <1>1. PICK R, P :
          /\ Decided(R, P)
          /\ report' = [report EXCEPT ![c] = R]
          /\ plan' = [plan EXCEPT ![c] = P]
          /\ pc' = [pc EXCEPT ![c] = AfterPlan(P, call[c].transformer)]
    <2>1. PICK R \in Reports :
            /\ \A k \in DOMAIN R : ValidSpan(call[c].text, R[k])
            /\ report' = [report EXCEPT ![c] = R]
            /\ \E E \in Resolved(R), P \in PolicyAnswers(R) :
                 /\ ValidPlan(E, P)
                 /\ plan' = [plan EXCEPT ![c] = P]
                 /\ pc' = [pc EXCEPT ![c] = AfterPlan(P, call[c].transformer)]
      BY DEF Decide
    <2>2. \A k \in DOMAIN R : R[k] \in Entity /\ R[k].start < R[k].end
      BY <2>1, PipelineAssumption DEF ValidSpan
    <2> QED BY <2>1, <2>2 DEF Decided
  <1>2. /\ pc[c] = "detect"
        /\ UNCHANGED <<vault, audit, call, got, claimed, text, calls, history>>
    BY DEF Decide
  <1>3. AfterPlan(P, call[c].transformer) \in {"blocked", "store", "transform", "child"}
        /\ (Has(P, "block") => AfterPlan(P, call[c].transformer) = "blocked")
    BY DEF AfterPlan
  <1>4. Shape'
    BY <1>1, <1>2, <1>3 DEF IInv, Shape, Busy
  <1>5. Placed'
    BY <1>1, <1>2, <1>3 DEF IInv, Shape, Placed
  <1>6. Validated'
    BY <1>1, <1>2, <1>3 DEF IInv, Shape, Validated
  <1>7. Held'
    BY <1>1, <1>2, <1>3 DEF IInv, Shape, Held
  <1>8. Returned' /\ NoSecretStored'
    BY <1>2 DEF IInv, Returned, NoSecretStored, history
  <1>9. Counted'
    BY <1>1, <1>2, <1>3, CountsKept DEF IInv, Shape, Answering, history
  <1>10. QED BY <1>4, <1>5, <1>6, <1>7, <1>8, <1>9 DEF IInv

LEMMA AliasIInv ==
  ASSUME IInv, NEW c \in Client, NEW from, NEW to, Alias(c, from, to),
         <<from, to>> \in {<<"store", "transform">>, <<"child", "reply">>}
  PROVE  IInv'
  <1> DEFINE items == Pseudonymized(plan[c])
             new == {x \in items : Named(call[c].scope, x[1], x[2]) = {}}
  <1>1. /\ pc[c] = from /\ pc' = [pc EXCEPT ![c] = to]
        /\ got' = [got EXCEPT ![c] = {m \in vault' : m.scope = call[c].scope
                                         /\ <<m.kind, m.original>> \in items}]
        /\ UNCHANGED <<audit, call, report, plan, claimed, text, calls, history>>
    BY DEF Alias, Transition
  <1>2. PICK token \in [new -> Token \ Used] :
          vault' = vault \cup {[scope |-> call[c].scope, kind |-> x[1], original |-> x[2],
                                token |-> token[x]] : x \in new}
    BY DEF Alias
  <1>3. \A x \in items : x[1] \notin SecretKind
    <2> SUFFICES ASSUME NEW i \in DOMAIN plan[c], plan[c][i].action = "pseudonymize"
                 PROVE  plan[c][i].entity.kind \notin SecretKind
      BY DEF Pseudonymized
    <2>1. PICK E : ValidPlan(E, plan[c])
      BY <1>1 DEF IInv, Placed, Validated, Decided
    <2>2. QED BY <2>1 DEF ValidPlan
  <1> HIDE DEF items
  <1>4. NoSecretStored'
    BY <1>1, <1>2, <1>3 DEF IInv, NoSecretStored, history
  <1>5. Shape'
    BY <1>1 DEF IInv, Shape, Busy
  <1>6. Placed'
    BY <1>1 DEF IInv, Shape, Placed
  <1>7. Validated'
    BY <1>1 DEF IInv, Shape, Validated
  <1>8. Held'
    BY <1>1 DEF IInv, Shape, Held
  <1>9. Returned' /\ Counted'
    BY <1>1, CountsKept DEF IInv, Returned, Shape, Answering, history
  <1>10. QED BY <1>4, <1>5, <1>6, <1>7, <1>8, <1>9 DEF IInv

LEMMA TransformIInv ==
  ASSUME IInv, NEW c \in Client, Transform(c)
  PROVE  IInv'
  <1>1. PICK t : Clean(plan[c], t) /\ text' = [text EXCEPT ![c] = t]
    BY DEF Transform
  <1>2. /\ pc[c] = "transform" /\ pc' = [pc EXCEPT ![c] = "record"]
        /\ ~Has(plan[c], "block")
        /\ UNCHANGED <<vault, audit, call, report, plan, got, claimed, calls, history>>
    BY DEF Transform, Transition
  <1>3. Shape'
    BY <1>1, <1>2 DEF IInv, Shape, Busy
  <1>4. Placed'
    BY <1>2 DEF IInv, Shape, Placed
  <1>5. Validated'
    BY <1>1, <1>2 DEF IInv, Shape, Validated
  <1>6. Held'
    BY <1>1, <1>2 DEF IInv, Shape, Held
  <1>7. Returned' /\ Counted' /\ NoSecretStored'
    BY <1>2, CountsKept DEF IInv, Returned, NoSecretStored, Shape, Answering, history
  <1>8. QED BY <1>3, <1>4, <1>5, <1>6, <1>7 DEF IInv

LEMMA ReplyIInv ==
  ASSUME IInv, NEW c \in Client, ChildReplies(c)
  PROVE  IInv'
  <1>1. PICK t, M : /\ text' = [text EXCEPT ![c] = t]
                    /\ claimed' = [claimed EXCEPT ![c] = M]
    BY DEF ChildReplies
  <1>2. /\ pc[c] \in {"child", "reply"} /\ pc' = [pc EXCEPT ![c] = "verify"]
        /\ got' = [got EXCEPT ![c] = {}]
        /\ UNCHANGED <<vault, audit, call, report, plan, calls, history>>
    BY DEF ChildReplies
  <1>3. Shape' /\ Placed'
    BY <1>1, <1>2 DEF IInv, Shape, Placed, Busy
  <1>4. Validated'
    BY <1>1, <1>2 DEF IInv, Shape, Validated
  <1>5. Held'
    BY <1>1, <1>2 DEF IInv, Shape, Held
  <1>6. Returned' /\ Counted' /\ NoSecretStored'
    BY <1>2, CountsKept DEF IInv, Returned, NoSecretStored, Shape, Answering, history
  <1>7. QED BY <1>3, <1>4, <1>5, <1>6 DEF IInv

LEMMA VerifyIInv ==
  ASSUME IInv, NEW c \in Client, VerifyMapping(c)
  PROVE  IInv'
  <1>1. PICK m : /\ claimed' = [claimed EXCEPT ![c] = @ \ {m}]
                 /\ got' = [got EXCEPT ![c] = @ \cup {m}]
    BY DEF VerifyMapping
  <1>2. /\ pc[c] = "verify"
        /\ UNCHANGED <<vault, audit, pc, call, report, plan, text, calls, history>>
    BY DEF VerifyMapping
  <1>3. Shape' /\ Placed' /\ Validated'
    BY <1>1, <1>2 DEF IInv, Shape, Placed, Validated
  <1>4. Held'
    BY <1>1, <1>2 DEF IInv, Shape, Held
  <1>5. Returned' /\ Counted' /\ NoSecretStored'
    BY <1>2, CountsKept DEF IInv, Returned, NoSecretStored, Shape, Answering, history
  <1>6. QED BY <1>3, <1>4, <1>5 DEF IInv

LEMMA AcceptIInv ==
  ASSUME IInv, NEW c \in Client, AcceptReply(c)
  PROVE  IInv'
  <1>1. /\ pc[c] = "verify" /\ pc' = [pc EXCEPT ![c] = "record"]
        /\ Clean(plan[c], text[c])
        /\ UNCHANGED <<vault, audit, locals, calls, history>>
    BY DEF AcceptReply, Transition
  <1>2. Shape' /\ Placed'
    BY <1>1 DEF IInv, Shape, Placed, Busy, locals
  <1>3. Validated'
    BY <1>1 DEF IInv, Shape, Validated, locals
  <1>4. Held'
    BY <1>1 DEF IInv, Shape, Held, locals
  <1>5. Returned' /\ Counted' /\ NoSecretStored'
    BY <1>1, CountsKept DEF IInv, Returned, NoSecretStored, Shape, Answering, locals, history
  <1>6. QED BY <1>2, <1>3, <1>4, <1>5 DEF IInv

LEMMA ResolveIInv ==
  ASSUME IInv, NEW c \in Client, ResolveMany(c)
  PROVE  IInv'
  <1>1. PICK t : text' = [text EXCEPT ![c] = t]
    BY DEF ResolveMany
  <1>2. /\ pc[c] = "resolve" /\ pc' = [pc EXCEPT ![c] = "record"]
        /\ UNCHANGED <<vault, audit, call, report, plan, got, claimed, calls, history>>
    BY DEF ResolveMany, Transition
  <1>3. Shape'
    BY <1>1, <1>2 DEF IInv, Shape, Busy
  <1>4. Placed'
    BY <1>2 DEF IInv, Shape, Placed
  <1>5. Validated'
    BY <1>1, <1>2 DEF IInv, Shape, Validated, Placed
  <1>6. Held'
    BY <1>1, <1>2 DEF IInv, Shape, Held
  <1>7. Returned' /\ Counted' /\ NoSecretStored'
    BY <1>2, CountsKept DEF IInv, Returned, NoSecretStored, Shape, Answering, history
  <1>8. QED BY <1>3, <1>4, <1>5, <1>6, <1>7 DEF IInv

LEMMA DeleteIInv ==
  ASSUME IInv, NEW c \in Client, DeleteScope(c)
  PROVE  IInv'
  <1>1. /\ pc[c] = "delete" /\ pc' = [pc EXCEPT ![c] = "record"]
        /\ vault' = vault \ InScope(call[c].scope, vault)
        /\ retired' = retired \cup InScope(call[c].scope, vault)
        /\ UNCHANGED <<audit, locals, calls, given, answered>>
    BY DEF DeleteScope, Transition
  <1>2. Shape' /\ Placed'
    BY <1>1 DEF IInv, Shape, Busy, Placed, locals
  <1>3. Validated'
    BY <1>1 DEF IInv, Shape, Validated, Placed, locals
  <1>4. Held'
    BY <1>1 DEF IInv, Shape, Held, locals
  <1>5. Returned' /\ Counted'
    BY <1>1, CountsKept DEF IInv, Returned, Shape, Answering, locals
  <1>6. NoSecretStored'
    BY <1>1 DEF IInv, NoSecretStored, InScope
  <1>7. QED BY <1>2, <1>3, <1>4, <1>5, <1>6 DEF IInv

LEMMA LapseIInv ==
  ASSUME IInv, Lapse
  PROVE  IInv'
  <1>1. PICK m \in vault : vault' = vault \ {m} /\ retired' = retired \cup {m}
    BY DEF Lapse
  <1>2. UNCHANGED <<audit, pc, locals, calls, given, answered>>
    BY DEF Lapse
  <1>3. Shape' /\ Placed' /\ Validated' /\ Held' /\ Returned' /\ Counted'
    BY <1>2, CountsKept DEF IInv, Shape, Placed, Validated, Held, Returned, Answering, locals
  <1>4. NoSecretStored'
    BY <1>1 DEF IInv, NoSecretStored
  <1>5. QED BY <1>3, <1>4 DEF IInv

-----------------------------------------------------------------------------
(* Ends of calls.                                                           *)

LEMMA FinishParts ==
  ASSUME IInv, NEW c \in Client, Finish(c)
  PROVE  Shape' /\ Placed' /\ Validated' /\ Held'
  <1>1. Shape'
    BY DEF Finish, IInv, Shape, Busy
  <1>2. Placed'
    BY DEF Finish, IInv, Shape, Placed
  <1>3. Validated'
    BY NoPlanYet DEF Finish, IInv, Shape, Validated
  <1>4. Held'
    BY NoPlanYet DEF Finish, IInv, Shape, Held
  <1>5. QED BY <1>1, <1>2, <1>3, <1>4

LEMMA RecordIInv ==
  ASSUME IInv, NEW c \in Client, Record(c)
  PROVE  IInv'
  <1> DEFINE e == EventOf(c)
  <1>1. /\ \/ pc[c] = "record" /\ pc' = [pc EXCEPT ![c] = "return"]
           \/ pc[c] = "blocked" /\ pc' = [pc EXCEPT ![c] = "refuse"]
        /\ audit' = [audit EXCEPT ![e] = @ + 1]
        /\ UNCHANGED <<vault, locals, calls, history>>
    BY DEF Record, Recorded, Transition
  <1>2. e \in Event
    BY <1>1 DEF IInv, Shape, Placed, Event, Outcome, EventOf
  <1>3. Shape'
    BY <1>1 DEF IInv, Shape, Busy, locals
  <1>4. Placed'
    BY <1>1 DEF IInv, Shape, Placed, locals
  <1>5. Validated'
    BY <1>1 DEF IInv, Shape, Placed, Validated, locals
  <1>6. Held'
    BY <1>1 DEF IInv, Shape, Held, locals
  <1>7. Returned' /\ NoSecretStored'
    BY <1>1 DEF IInv, Returned, NoSecretStored, history
  <1>8. Counted'
    <2> SUFFICES ASSUME NEW f \in Event
                 PROVE  answered[f] + Cardinality(Pending(f)') <= audit'[f]
      BY <1>1, <1>2 DEF IInv, Counted, history
    <2>1. /\ answered[f] + Cardinality(Pending(f)) <= audit[f]
          /\ answered[f] \in Nat /\ audit[f] \in Nat
      BY DEF IInv, Counted
    <2>2. /\ c \notin Pending(f)
          /\ Pending(f)' = IF f = e THEN Pending(f) \cup {c} ELSE Pending(f)
      BY <1>1 DEF IInv, Shape, Pending, Answering, EventOf, locals
    <2>3. /\ Cardinality(Pending(f) \cup {c}) = Cardinality(Pending(f)) + 1
          /\ Cardinality(Pending(f)) \in Nat
      BY <2>2, PendingIsFinite, FS_AddElement
    <2>4. audit'[f] = IF f = e THEN audit[f] + 1 ELSE audit[f]
      BY <1>1, <1>2 DEF IInv, Counted
    <2> HIDE DEF e
    <2> QED BY <2>1, <2>2, <2>3, <2>4
  <1>9. QED BY <1>3, <1>4, <1>5, <1>6, <1>7, <1>8 DEF IInv

LEMMA ReturnIInv ==
  ASSUME IInv, NEW c \in Client, Return(c)
  PROVE  IInv'
  <1> DEFINE e == EventOf(c)
             g == [scope |-> call[c].scope, input |-> call[c].text,
                   transformer |-> call[c].transformer, text |-> text[c],
                   mappings |-> got[c], report |-> report[c], plan |-> plan[c]]
  <1>1. /\ pc[c] \in {"return", "refuse"}
        /\ answered' = [answered EXCEPT ![e] = @ + 1]
        /\ given' = given \cup {x \in {g} : pc[c] = "return" /\ call[c].op = "sanitize"}
        /\ Finish(c) /\ UNCHANGED <<vault, audit, calls, retired>>
    BY DEF Return
  <1>2. e \in Event
    BY <1>1 DEF IInv, Shape, Placed, Event, Outcome, EventOf
  <1>3. Returned'
    <2>1. CASE pc[c] = "return" /\ call[c].op = "sanitize"
      <3>1. Decided(report[c], plan[c]) /\ Clean(plan[c], text[c])
        BY <2>1 DEF IInv, Validated
      <3>2. g.report = report[c] /\ g.plan = plan[c] /\ g.text = text[c]
        OBVIOUS
      <3>3. given' = given \cup {g}
        BY <1>1, <2>1
      <3> HIDE DEF g
      <3> QED BY <3>1, <3>2, <3>3 DEF IInv, Returned
    <2>2. CASE ~(pc[c] = "return" /\ call[c].op = "sanitize")
      <3>1. given' = given
        BY <1>1, <2>2
      <3> QED BY <3>1 DEF IInv, Returned
    <2>3. QED BY <2>1, <2>2
  <1>4. NoSecretStored'
    BY <1>1 DEF IInv, NoSecretStored
  <1>5. Counted'
    <2> SUFFICES ASSUME NEW f \in Event
                 PROVE  answered'[f] + Cardinality(Pending(f)') <= audit[f]
      BY <1>1, <1>2 DEF IInv, Counted
    <2>1. /\ answered[f] + Cardinality(Pending(f)) <= audit[f]
          /\ answered[f] \in Nat /\ audit[f] \in Nat
      BY DEF IInv, Counted
    <2>2. /\ c \in Pending(f) <=> f = e
          /\ Pending(f)' = Pending(f) \ {c}
      BY <1>1 DEF IInv, Shape, Finish, Pending, Answering, EventOf
    <2>3. /\ Cardinality(Pending(f) \ {c}) =
               IF c \in Pending(f) THEN Cardinality(Pending(f)) - 1 ELSE Cardinality(Pending(f))
          /\ Cardinality(Pending(f)) \in Nat
      BY PendingIsFinite, FS_RemoveElement
    <2>4. answered'[f] = IF f = e THEN answered[f] + 1 ELSE answered[f]
      BY <1>1, <1>2 DEF IInv, Counted
    <2> HIDE DEF e
    <2> QED BY <2>1, <2>2, <2>3, <2>4
  <1>6. QED BY <1>1, <1>3, <1>4, <1>5, FinishParts DEF IInv

LEMMA FailIInv ==
  ASSUME IInv, NEW c \in Client, Fail(c)
  PROVE  IInv'
  <1>1. Finish(c) /\ UNCHANGED <<vault, audit, calls, history>>
    BY DEF Fail
  <1>2. Counted'
    BY <1>1, CountsKept DEF IInv, Shape, Finish, Answering, history
  <1>4. Returned' /\ NoSecretStored'
    BY <1>1 DEF IInv, Returned, NoSecretStored, history
  <1>3. QED BY <1>1, <1>2, <1>4, FinishParts DEF IInv

-----------------------------------------------------------------------------
LEMMA Inductive == Spec => []IInv
  <1>1. IInv /\ [Next]_vars => IInv'
    <2> SUFFICES ASSUME IInv, [Next]_vars PROVE IInv'
      OBVIOUS
    <2>1. ASSUME NEW c \in Client, NEW s \in Scope, Sanitize(c, s) PROVE IInv'
      <3>1. PICK t \in Inputs, how \in Transformers :
              Begin(c, "detect", "sanitize", s, t, how)
        BY <2>1 DEF Sanitize
      <3>2. QED BY <3>1, BeginIInv DEF Op
    <2>2. ASSUME NEW c \in Client, NEW s \in Scope, Restore(c, s) PROVE IInv'
      <3>1. PICK t : Begin(c, "resolve", "restore", s, t, "none")
        BY <2>2 DEF Restore
      <3>2. QED BY <3>1, BeginIInv DEF Op
    <2>3. ASSUME NEW c \in Client, NEW s \in Scope, Forget(c, s) PROVE IInv'
      BY <2>3, BeginIInv DEF Forget, Op
    <2>4. ASSUME NEW c \in Client, Decide(c) \/ Transform(c) PROVE IInv'
      BY <2>4, DecideIInv, TransformIInv
    <2>9. ASSUME NEW c \in Client, Store(c) \/ ChildStores(c) PROVE IInv'
      BY <2>9, AliasIInv DEF Store, ChildStores
    <2>10. ASSUME NEW c \in Client, ChildReplies(c) \/ VerifyMapping(c) \/ AcceptReply(c)
           PROVE  IInv'
      BY <2>10, ReplyIInv, VerifyIInv, AcceptIInv
    <2>5. ASSUME NEW c \in Client, ResolveMany(c) \/ DeleteScope(c) PROVE IInv'
      BY <2>5, ResolveIInv, DeleteIInv
    <2>6. ASSUME NEW c \in Client, Record(c) \/ Return(c) \/ Fail(c)
          PROVE  IInv'
      BY <2>6, RecordIInv, ReturnIInv, FailIInv
    <2>7. CASE Lapse
      BY <2>7, LapseIInv
    <2>8. CASE UNCHANGED vars
      BY <2>8, CountsKept DEF vars, locals, history, IInv, Shape, Placed, Validated, Held,
                              Returned, NoSecretStored
    <2>11. QED BY <2>1, <2>2, <2>3, <2>4, <2>5, <2>6, <2>7, <2>8, <2>9, <2>10 DEF Next
  <1>2. QED BY InitIInv, <1>1, PTL DEF Spec

(* Every entity of the report is kept, or another that was kept before it   *)
(* overlaps it.                                                             *)
LEMMA KeptOrReplaced ==
  ASSUME NEW R, NEW E \in Resolved(R), NEW i \in DOMAIN R,
         \A k \in DOMAIN R : R[k] \in Entity /\ R[k].start < R[k].end
  PROVE  \E n \in DOMAIN E : E[n] = R[i] \/ TookItsPlace(R[i], E[n])
  <1>1. PICK K, order :
          /\ K \in SUBSET DOMAIN R /\ order \in Surjection(1 .. Cardinality(K), K)
          /\ Kept(R, K) /\ E = [n \in DOMAIN order |-> R[order[n]]]
    BY DEF Resolved
  <1>2. \A j \in K : \E n \in DOMAIN E : E[n] = R[j]
    <2>1. \A j \in K : \E n \in DOMAIN order : order[n] = j
      BY <1>1 DEF Surjection
    <2> QED BY <1>1, <2>1
  <1>3. CASE i \in K
    BY <1>2, <1>3
  <1>4. CASE i \notin K
    <2>1. PICK j \in K : Before(R, j, i) /\ Overlap(R[i], R[j])
      BY <1>1, <1>4 DEF Kept
    <2>2. PICK n \in DOMAIN E : E[n] = R[j]
      BY <1>2
    <2>3. /\ R[i].start \in Nat /\ R[i].end \in Nat /\ R[j].start \in Nat /\ R[j].end \in Nat
          /\ R[i].start < R[i].end /\ R[j].start < R[j].end
      <3>1. R[i] \in Entity /\ R[j] \in Entity /\ R[i].start < R[i].end /\ R[j].start < R[j].end
        BY <1>1
      <3> QED BY <3>1 DEF Entity
    <2>4. R[j].end - R[j].start >= R[i].end - R[i].start
      BY <2>1, <2>3 DEF Before
    <2>5. Covered(R[i]) \cap Covered(R[j]) # {}
      <3> DEFINE k == IF R[i].start < R[j].start THEN R[j].start + 1 ELSE R[i].start + 1
      <3>1. k \in Covered(R[i]) /\ k \in Covered(R[j])
        BY <2>1, <2>3 DEF Overlap, Covered
      <3> QED BY <3>1
    <2> QED BY <2>2, <2>4, <2>5 DEF TookItsPlace
  <1> QED BY <1>3, <1>4

(* The overlaps, the plan and the text are each checked on their own; what  *)
(* they leave of a reported value is an entity kept by the plan, or one     *)
(* whose place another took.                                                *)
THEOREM NothingRemovedIsReturned == Spec => []RemovedIsGone
  <1>1. IInv => RemovedIsGone
    <2> SUFFICES ASSUME IInv, NEW g \in given, NEW i \in DOMAIN g.report,
                        Shows(g.text, g.report[i].value)
                 PROVE  \E p \in Range(g.plan) :
                          \/ /\ p.entity = g.report[i] /\ p.action = "keep"
                             /\ g.report[i].kind \notin SecretKind
                          \/ TookItsPlace(g.report[i], p.entity)
      BY DEF RemovedIsGone, Range
    <2> DEFINE e == g.report[i]
               P == g.plan
    <2>1. PICK E \in Resolved(g.report) : ValidPlan(E, P)
      BY DEF IInv, Returned, Decided
    <2>2. PICK n \in DOMAIN E : E[n] = e \/ TookItsPlace(e, E[n])
      BY KeptOrReplaced DEF IInv, Returned, Decided
    <2>3. /\ n \in DOMAIN P /\ P[n].entity = E[n]
          /\ E[n].kind \in SecretKind => P[n].action \in {"redact", "block"}
      BY <2>1 DEF ValidPlan
    <2>4. P[n].action # "keep" => ~Shows(g.text, P[n].entity.value)
      BY <2>3 DEF IInv, Returned, Clean
    <2>5. P[n] \in Range(P)
      BY <2>3 DEF Range
    <2>6. E[n] = e => P[n].action = "keep" /\ e.kind \notin SecretKind
      BY <2>3, <2>4
    <2> HIDE DEF e, P
    <2>7. \E p \in Range(P) : \/ p.entity = e /\ p.action = "keep" /\ e.kind \notin SecretKind
                             \/ TookItsPlace(e, p.entity)
      BY <2>2, <2>3, <2>5, <2>6
    <2> QED BY <2>7 DEF e, P
  <1>2. QED BY <1>1, Inductive, PTL

(* What reaches the vault went through validate_plan.                       *)
THEOREM NoSecretReachesTheVault == Spec => []NoSecretStored
  <1>1. IInv => NoSecretStored
    BY DEF IInv
  <1>2. QED BY <1>1, Inductive, PTL

(* A plan with a block leaves the call nowhere to go but the refusal.       *)
THEOREM ABlockEndsTheCall == Spec => []BlockIsTerminal
  <1>1. IInv => BlockIsTerminal
    BY DEF IInv, Held, BlockIsTerminal
  <1>2. QED BY <1>1, Inductive, PTL

(* The event comes before the answer on every path that answers: each call  *)
(* between the two is one more record than there are answers.               *)
THEOREM NothingIsReturnedUnrecorded == Spec => []NothingUnrecorded
  <1>1. IInv => NothingUnrecorded
    <2> SUFFICES ASSUME IInv, NEW e \in Event PROVE answered[e] <= audit[e]
      BY DEF NothingUnrecorded
    <2>1. /\ answered[e] + Cardinality(Pending(e)) <= audit[e]
          /\ answered[e] \in Nat /\ audit[e] \in Nat
      BY DEF IInv, Counted
    <2> QED BY <2>1, PendingIsFinite
  <1>2. QED BY <1>1, Inductive, PTL

-----------------------------------------------------------------------------
(* The vault as the pipelines use it.                                       *)

\* No token was ever made twice, and a value has one alias.
Issued ==
  /\ \A a, b \in vault \cup retired : a.token = b.token => a = b
  /\ \A a, b \in vault :
       a.scope = b.scope /\ a.kind = b.kind /\ a.original = b.original => a = b

(* What get_or_insert_many makes of the values that have no alias yet.      *)
Makes(c, made) ==
  /\ vault' = vault \cup made
  /\ \A m \in made : /\ m.scope = call[c].scope
                     /\ <<m.kind, m.original>> \in Pseudonymized(plan[c])
                     /\ m.token \in Token \ Used
                     /\ Named(m.scope, m.kind, m.original) = {}
  /\ \A m, n \in made :
       m.token = n.token \/ <<m.kind, m.original>> = <<n.kind, n.original>> => m = n
  /\ \A x \in Pseudonymized(plan[c]) : \E m \in vault' :
       m.scope = call[c].scope /\ m.kind = x[1] /\ m.original = x[2]

LEMMA AliasMints ==
  ASSUME NEW c \in Client, NEW from, NEW to, Alias(c, from, to)
  PROVE  \E made : Makes(c, made)
  <1> DEFINE items == Pseudonymized(plan[c])
             new == {x \in items : Named(call[c].scope, x[1], x[2]) = {}}
             Made(token) == {[scope |-> call[c].scope, kind |-> x[1], original |-> x[2],
                              token |-> token[x]] : x \in new}
  <1>1. PICK token \in [new -> Token \ Used] :
          /\ \A x, y \in new : token[x] = token[y] => x = y
          /\ vault' = vault \cup Made(token)
    BY DEF Alias
  <1>2. \A x \in items : x = <<x[1], x[2]>>
    BY DEF Pseudonymized
  <1> HIDE DEF items
  <1>3. \A m \in Made(token) : /\ m.scope = call[c].scope
                               /\ <<m.kind, m.original>> \in items
                               /\ m.token \in Token \ Used
                               /\ Named(m.scope, m.kind, m.original) = {}
    BY <1>2
  <1>4. \A m, n \in Made(token) :
          m.token = n.token \/ <<m.kind, m.original>> = <<n.kind, n.original>> => m = n
    BY <1>1, <1>2
  <1>5. \A x \in items : \E m \in vault \cup Made(token) :
          m.scope = call[c].scope /\ m.kind = x[1] /\ m.original = x[2]
    <2> SUFFICES ASSUME NEW x \in items
                 PROVE  \E m \in vault \cup Made(token) :
                          m.scope = call[c].scope /\ m.kind = x[1] /\ m.original = x[2]
      OBVIOUS
    <2>1. CASE x \in new
      <3> DEFINE m == [scope |-> call[c].scope, kind |-> x[1], original |-> x[2],
                       token |-> token[x]]
      <3>1. m \in Made(token)
        BY <2>1
      <3>2. m.scope = call[c].scope /\ m.kind = x[1] /\ m.original = x[2]
        OBVIOUS
      <3> HIDE DEF m, Made
      <3> QED BY <3>1, <3>2
    <2>2. CASE x \notin new
      <3>1. PICK m \in Named(call[c].scope, x[1], x[2]) : TRUE
        BY <2>2
      <3> QED BY <3>1 DEF Named
    <2> QED BY <2>1, <2>2
  <1>6. vault' = vault \cup Made(token)
    BY <1>1
  <1> HIDE DEF Made
  <1>7. \A x \in items : \E m \in vault' :
          m.scope = call[c].scope /\ m.kind = x[1] /\ m.original = x[2]
    BY ONLY <1>5, <1>6
  <1>8. Makes(c, Made(token))
    BY ONLY <1>3, <1>4, <1>6, <1>7 DEF items, Makes
  <1> QED BY <1>8

LEMMA AliasIssued ==
  ASSUME IInv, Issued, NEW c \in Client, NEW from, NEW to, Alias(c, from, to)
  PROVE  Issued'
  <1>1. PICK made : Makes(c, made)
    BY AliasMints
  <1> USE DEF Makes
  <1>2. retired' = retired
    BY DEF Alias, history
  <1>3. \A m \in made, n \in vault \cup retired : m.token # n.token
    BY <1>1 DEF Used
  <1>4. \A m \in made, n \in vault : ~(m.scope = n.scope /\ m.kind = n.kind /\ m.original = n.original)
    BY <1>1 DEF Named
  <1> QED BY <1>1, <1>2, <1>3, <1>4 DEF Issued

LEMMA FewerIssued ==
  ASSUME Issued, NEW lost \in SUBSET vault, vault' = vault \ lost, retired' = retired \cup lost
  PROVE  Issued'
  BY DEF Issued

(* The steps that leave the vault alone.                                    *)
LEMMA VaultUntouched ==
  ASSUME NEW c \in Client,
         \/ \E s \in Scope : Sanitize(c, s) \/ Restore(c, s) \/ Forget(c, s)
         \/ Decide(c) \/ Transform(c) \/ ResolveMany(c) \/ ChildReplies(c) \/ VerifyMapping(c)
         \/ AcceptReply(c) \/ Record(c) \/ Return(c) \/ Fail(c)
  PROVE  vault' = vault /\ retired' = retired
  BY DEF Sanitize, Restore, Forget, Begin, Decide, Transform, ResolveMany, ChildReplies,
         VerifyMapping, AcceptReply, Record, Return, Fail, history

LEMMA IssuedStep == IInv /\ Issued /\ [Next]_vars => Issued'
  <1> SUFFICES ASSUME IInv, Issued, [Next]_vars PROVE Issued'
    OBVIOUS
  <1>1. ASSUME vault' = vault, retired' = retired PROVE Issued'
    BY <1>1 DEF Issued
  <1>2. ASSUME NEW c \in Client, Store(c) \/ ChildStores(c) PROVE Issued'
    BY <1>2, AliasIssued DEF Store, ChildStores
  <1>3. ASSUME NEW c \in Client, DeleteScope(c) PROVE Issued'
    <2>1. InScope(call[c].scope, vault) \in SUBSET vault
      BY DEF InScope
    <2> QED BY <1>3, <2>1, FewerIssued DEF DeleteScope
  <1>4. CASE Lapse
    <2>1. PICK m \in vault : vault' = vault \ {m} /\ retired' = retired \cup {m}
      BY <1>4 DEF Lapse
    <2> QED BY <2>1, FewerIssued
  <1>5. CASE UNCHANGED vars
    BY <1>1, <1>5 DEF vars, history
  <1> QED BY <1>1, <1>2, <1>3, <1>4, <1>5, VaultUntouched DEF Next

LEMMA IssuedInvariant == Spec => [](IInv /\ Issued)
  <1>1. Init => Issued
    BY DEF Init, Issued
  <1> QED BY <1>1, IssuedStep, Inductive, PTL DEF Spec

-----------------------------------------------------------------------------
(* Joining texts.  What FlattenSeq makes of a sequence of texts is shown by *)
(* induction on its length, as the least length at which it fails.          *)

\* A text, and what each atom of a text is replaced by.
Str == Seq(Atom)
Maps == [Atom -> Str]

LEMMA LeastNatural ==
  ASSUME NEW S \in SUBSET Nat, S # {}
  PROVE  \E m \in S : \A n \in S : m <= n
  <1>1. PICK m \in S : ~ \E n \in S : <<n, m>> \in OpToRel(<, Nat)
    BY WFMin, NatLessThanWellFounded
  <1>2. \A n \in S : ~(n < m)
    BY <1>1 DEF OpToRel
  <1> QED BY <1>2

LEMMA Induct ==
  ASSUME NEW S \in SUBSET Nat, 0 \in S, \A n \in S : n + 1 \in S
  PROVE  \A n \in Nat : n \in S
  <1> SUFFICES ASSUME Nat \ S # {} PROVE FALSE
    OBVIOUS
  <1>1. PICK m \in Nat \ S : \A n \in Nat \ S : m <= n
    BY LeastNatural
  <1>2. m # 0 /\ m - 1 \in Nat /\ m - 1 \notin Nat \ S
    BY <1>1
  <1> QED BY <1>2

LEMMA FlattenIs ==
  ASSUME NEW ss, Len(ss) # 0
  PROVE  FlattenSeq(ss) =
           (CHOOSE f : f = [i \in 1 .. Len(ss) |-> IF i = 1 THEN ss[i] ELSE f[i - 1] \o ss[i]])[Len(ss)]
  BY DEF FlattenSeq

Joined(f, ss, n) == f = [i \in 1 .. n |-> IF i = 1 THEN ss[i] ELSE f[i - 1] \o ss[i]]

LEMMA JoinExists ==
  ASSUME NEW ss, NEW n \in Nat
  PROVE  \E f : Joined(f, ss, n)
  <1> DEFINE S == {k \in Nat : \E f : Joined(f, ss, k)}
  <1>1. 0 \in S
    <2> DEFINE f == [i \in 1 .. 0 |-> 0]
    <2>1. f = [i \in 1 .. 0 |-> IF i = 1 THEN ss[i] ELSE f[i - 1] \o ss[i]]
      OBVIOUS
    <2> QED BY <2>1 DEF Joined
  <1>2. ASSUME NEW k \in S PROVE k + 1 \in S
    <2>1. PICK f : Joined(f, ss, k)
      OBVIOUS
    <2> DEFINE g == [i \in 1 .. k + 1 |-> IF i = k + 1 /\ i # 1 THEN f[k] \o ss[k + 1]
                                           ELSE IF i = 1 THEN ss[1] ELSE f[i]]
    <2>0. k \in Nat
      OBVIOUS
    <2>2. \A i \in 1 .. k : f[i] = IF i = 1 THEN ss[i] ELSE f[i - 1] \o ss[i]
      BY ONLY <2>1, <2>0 DEF Joined
    <2>3. \A i \in 1 .. k : g[i] = f[i]
      BY ONLY <2>2, <2>0
    <2>4. \A i \in 1 .. k + 1 : g[i] = IF i = 1 THEN ss[i] ELSE g[i - 1] \o ss[i]
      <3> SUFFICES ASSUME NEW i \in 1 .. k + 1
                   PROVE  g[i] = IF i = 1 THEN ss[i] ELSE g[i - 1] \o ss[i]
        OBVIOUS
      <3>1. CASE i = 1
        BY ONLY <3>1, <2>0
      <3>2. CASE i # 1 /\ i = k + 1
        <4>1. i - 1 = k /\ k \in 1 .. k /\ k + 1 \in 1 .. k + 1 /\ k + 1 # 1
          BY ONLY <3>2, <2>0
        <4>2. g[k + 1] = f[k] \o ss[k + 1]
          BY ONLY <4>1
        <4> HIDE DEF g
        <4> QED BY ONLY <4>1, <4>2, <2>3, <3>2
      <3>3. CASE i # 1 /\ i # k + 1
        <4>1. i \in 1 .. k /\ i - 1 \in 1 .. k
          BY ONLY <3>3, <2>0
        <4>2. g[i] = f[i] /\ g[i - 1] = f[i - 1]
          BY ONLY <4>1, <2>3
        <4> HIDE DEF g
        <4> QED BY ONLY <4>1, <4>2, <2>2, <3>3
      <3> QED BY <3>1, <3>2, <3>3
    <2>5. g = [i \in 1 .. k + 1 |-> g[i]]
      OBVIOUS
    <2> HIDE DEF g
    <2>6. Joined(g, ss, k + 1)
      BY ONLY <2>4, <2>5 DEF Joined
    <2> QED BY <2>6, <2>0
  <1> HIDE DEF S
  <1>3. n \in S
    BY <1>1, <1>2, Induct DEF S
  <1> QED BY <1>3 DEF S

LEMMA FlattenJoins ==
  ASSUME NEW ss, NEW n \in Nat, Len(ss) = n, n # 0
  PROVE  \E f : Joined(f, ss, n) /\ FlattenSeq(ss) = f[n]
  <1>1. \E f : f = [i \in 1 .. n |-> IF i = 1 THEN ss[i] ELSE f[i - 1] \o ss[i]]
    BY JoinExists DEF Joined
  <1> DEFINE F == CHOOSE f : f = [i \in 1 .. n |-> IF i = 1 THEN ss[i] ELSE f[i - 1] \o ss[i]]
  <1>2. F = [i \in 1 .. n |-> IF i = 1 THEN ss[i] ELSE F[i - 1] \o ss[i]]
    BY <1>1
  <1>3. FlattenSeq(ss) = F[n]
    BY FlattenIs
  <1> QED BY <1>2, <1>3 DEF Joined

(* FlattenSeq from the left: the empty sequence, and one more at the end.   *)
LEMMA FlattenNone == FlattenSeq(<<>>) = <<>>
  BY DEF FlattenSeq

LEMMA SeqInduct ==
  ASSUME NEW A, NEW S \in SUBSET Seq(A), <<>> \in S, \A t \in S, a \in A : Append(t, a) \in S
  PROVE  \A t \in Seq(A) : t \in S
  <1> DEFINE N == {n \in Nat : \A t \in Seq(A) : Len(t) = n => t \in S}
  <1>1. 0 \in N
    <2>1. \A t \in Seq(A) : Len(t) = 0 => t = <<>>
      OBVIOUS
    <2> QED BY <2>1
  <1>2. ASSUME NEW n \in N PROVE n + 1 \in N
    <2> SUFFICES ASSUME NEW t \in Seq(A), Len(t) = n + 1 PROVE t \in S
      OBVIOUS
    <2>0. n \in Nat /\ t # <<>>
      OBVIOUS
    <2>1. PICK u \in Seq(A), a \in A : t = Append(u, a)
      BY <2>0, SequenceEmptyOrAppend
    <2>2. Len(u) = n
      BY <2>0, <2>1
    <2> QED BY <2>1, <2>2
  <1> HIDE DEF N
  <1>3. \A n \in Nat : n \in N
    <2>1. N \in SUBSET Nat
      BY DEF N
    <2> QED BY ONLY <1>1, <1>2, <2>1, Induct
  <1> QED BY <1>3 DEF N

LEMMA Strings ==
  /\ <<>> \in Str
  /\ \A s, t \in Str : s \o t \in Str
  /\ \A s \in Str : s \o <<>> = s /\ <<>> \o s = s
  /\ \A s \in Str, a \in Atom : Append(s, a) \in Str /\ Append(s, a) = s \o <<a>>
  /\ \A a \in Atom : <<a>> \in Str
  /\ \A s \in Str : s # <<>> => \E u \in Str, a \in Atom : s = Append(u, a)
  /\ \A s \in Str : Len(s) \in Nat /\ DOMAIN s = 1 .. Len(s) /\ \A i \in DOMAIN s : s[i] \in Atom
  <1>1. <<>> \in Str
    BY EmptySeq DEF Str
  <1>2. \A s, t \in Str : s \o t \in Str
    BY ConcatProperties DEF Str
  <1>4. \A s \in Str : s \o <<>> = s /\ <<>> \o s = s
    BY ConcatEmptySeq DEF Str
  <1>5. \A s \in Str, a \in Atom : Append(s, a) \in Str /\ Append(s, a) = s \o <<a>>
    BY AppendProperties, AppendIsConcat DEF Str
  <1>6. \A a \in Atom : <<a>> \in Str
    BY DEF Str
  <1>7. \A s \in Str : s # <<>> => \E u \in Str, a \in Atom : s = Append(u, a)
    BY SequenceEmptyOrAppend DEF Str
  <1>8. \A s \in Str : Len(s) \in Nat /\ DOMAIN s = 1 .. Len(s) /\ \A i \in DOMAIN s : s[i] \in Atom
    BY DEF Str
  <1> QED BY <1>1, <1>2, <1>4, <1>5, <1>6, <1>7, <1>8

LEMMA StrInduct ==
  ASSUME NEW S \in SUBSET Str, <<>> \in S, \A t \in S, a \in Atom : Append(t, a) \in S
  PROVE  \A t \in Str : t \in S
  <1>1. S \in SUBSET Seq(Atom)
    BY DEF Str
  <1>2. \A t \in Seq(Atom) : t \in S
    BY ONLY <1>1, <<>> \in S, \A t \in S, a \in Atom : Append(t, a) \in S, SeqInduct
  <1> QED BY <1>2 DEF Str

LEMMA StrAssoc ==
  ASSUME NEW s \in Str, NEW t \in Str, NEW u \in Str
  PROVE  (s \o t) \o u = s \o (t \o u)
  BY ConcatAssociative DEF Str

LEMMA FunctionIsSeq ==
  ASSUME NEW T, NEW n \in Nat, NEW f \in [1 .. n -> T]
  PROVE  f \in Seq(T) /\ Len(f) = n
  OBVIOUS

LEMMA FlattenAppend ==
  ASSUME NEW ss \in Seq(Str), NEW s \in Str
  PROVE  FlattenSeq(Append(ss, s)) = FlattenSeq(ss) \o s
  <1> DEFINE n == Len(ss)
             tt == Append(ss, s)
  <1>0. n \in Nat /\ Len(tt) = n + 1 /\ tt[n + 1] = s /\ \A i \in 1 .. n : tt[i] = ss[i]
    OBVIOUS
  <1> HIDE DEF n, tt
  <1>5. n + 1 \in Nat /\ n + 1 # 0 /\ n + 1 \in 1 .. n + 1
    BY <1>0
  <1>1. PICK g : Joined(g, tt, n + 1) /\ FlattenSeq(tt) = g[n + 1]
    BY ONLY <1>0, <1>5, FlattenJoins
  <1>2. g[n + 1] = IF n + 1 = 1 THEN tt[n + 1] ELSE g[(n + 1) - 1] \o tt[n + 1]
    BY ONLY <1>5, <1>1 DEF Joined
  <1>3. CASE n = 0
    <2>1. ss = <<>>
      BY <1>3 DEF n
    <2>2. FlattenSeq(ss) \o s = s
      BY <2>1, FlattenNone, Strings
    <2> QED BY <1>0, <1>1, <1>2, <1>3, <2>2 DEF tt
  <1>4. CASE n # 0
    <2>1. PICK f : Joined(f, ss, n) /\ FlattenSeq(ss) = f[n]
      BY <1>0, <1>4, FlattenJoins DEF n
    <2>2. /\ n <= n + 1 /\ n \in 1 .. n /\ (\A i \in 1 .. n : ss[i] = tt[i])
          /\ n + 1 \in Nat /\ (n + 1) - 1 = n /\ n + 1 # 1
      BY <1>0, <1>4
    <2>0. /\ \A i \in 1 .. n : f[i] = IF i = 1 THEN ss[i] ELSE f[i - 1] \o ss[i]
          /\ \A i \in 1 .. n + 1 : g[i] = IF i = 1 THEN tt[i] ELSE g[i - 1] \o tt[i]
      BY ONLY <1>1, <2>1 DEF Joined
    <2> DEFINE S == {k \in Nat : k \in 1 .. n => f[k] = g[k]}
    <2>4. 0 \in S
      OBVIOUS
    <2>5. ASSUME NEW k \in S PROVE k + 1 \in S
      <3> SUFFICES ASSUME k + 1 \in 1 .. n PROVE f[k + 1] = g[k + 1]
        BY DEF S
      <3>0. k \in Nat
        BY DEF S
      <3>1. CASE k = 0
        BY ONLY <2>0, <3>1, <2>2, <1>0, k + 1 \in 1 .. n
      <3>2. CASE k # 0
        <4>1. f[k] = g[k] /\ k + 1 \in 1 .. n + 1 /\ k + 1 # 1 /\ (k + 1) - 1 = k
          BY <3>0, <3>2, <1>0
        <4>2. f[k + 1] = f[k] \o ss[k + 1] /\ g[k + 1] = g[k] \o tt[k + 1]
          BY ONLY <2>0, <4>1, k + 1 \in 1 .. n
        <4> QED BY ONLY <1>0, <4>1, <4>2, k + 1 \in 1 .. n
      <3> QED BY <3>1, <3>2
    <2>7. S \in SUBSET Nat
      BY DEF S
    <2> HIDE DEF S
    <2>6. \A k \in Nat : k \in S
      BY ONLY <2>4, <2>5, <2>7, Induct
    <2>3. f[n] = g[n]
      BY <2>2, <1>0, <2>6 DEF S
    <2> QED BY ONLY <1>0, <1>1, <1>2, <2>1, <2>2, <2>3 DEF tt
  <1> QED BY <1>0, <1>3, <1>4

LEMMA FlattenType ==
  ASSUME NEW ss \in Seq(Str)
  PROVE  FlattenSeq(ss) \in Str
  <1> DEFINE S == {t \in Seq(Str) : FlattenSeq(t) \in Str}
  <1>1. <<>> \in S
    BY FlattenNone, EmptySeq, Strings
  <1>2. ASSUME NEW t \in S, NEW s \in Str PROVE Append(t, s) \in S
    <2>1. FlattenSeq(Append(t, s)) = FlattenSeq(t) \o s
      BY FlattenAppend
    <2>2. FlattenSeq(t) \o s \in Str
      BY Strings
    <2> QED BY <2>1, <2>2, AppendProperties
  <1>3. S \in SUBSET Seq(Str)
    OBVIOUS
  <1> HIDE DEF S
  <1>4. \A t \in Seq(Str) : t \in S
    BY ONLY <1>1, <1>2, <1>3, SeqInduct
  <1> QED BY <1>4 DEF S

(* Each of the sequences that are joined is in the result.                  *)
LEMMA FlattenHolds ==
  ASSUME NEW ss \in Seq(Str)
  PROVE  \A i \in DOMAIN ss : \E u, v \in Str : FlattenSeq(ss) = (u \o ss[i]) \o v
  <1> DEFINE P(t) == \A i \in DOMAIN t : \E u, v \in Str : FlattenSeq(t) = (u \o t[i]) \o v
             S == {t \in Seq(Str) : P(t)}
  <1>1. <<>> \in S
    BY EmptySeq
  <1>2. ASSUME NEW t \in S, NEW s \in Str PROVE Append(t, s) \in S
    <2> SUFFICES ASSUME NEW i \in DOMAIN Append(t, s)
                 PROVE  \E u, v \in Str : FlattenSeq(Append(t, s)) = (u \o Append(t, s)[i]) \o v
      BY AppendProperties
    <2>0. /\ FlattenSeq(Append(t, s)) = FlattenSeq(t) \o s
          /\ FlattenSeq(t) \in Str
      BY FlattenAppend, FlattenType
    <2>3. t \in Seq(Str)
      OBVIOUS
    <2>1. CASE i = Len(t) + 1
      <3>1. Append(t, s)[i] = s /\ FlattenSeq(t) \o s = (FlattenSeq(t) \o s) \o <<>> /\ <<>> \in Str
        BY <2>0, <2>1, <2>3, Strings, AppendProperties
      <3> QED BY <2>0, <3>1
    <2>2. CASE i # Len(t) + 1
      <3>1. i \in DOMAIN t /\ Append(t, s)[i] = t[i] /\ t[i] \in Str
        BY <2>2
      <3>2. PICK u, v \in Str : FlattenSeq(t) = (u \o t[i]) \o v
        BY <3>1
      <3>4. u \o t[i] \in Str
        BY <3>1, Strings
      <3>3. v \o s \in Str
        BY Strings
      <3>5. ((u \o t[i]) \o v) \o s = (u \o t[i]) \o (v \o s)
        BY ONLY <3>4, v \in Str, s \in Str, StrAssoc, Zenon
      <3> QED BY ONLY <2>0, <3>1, <3>2, <3>3, <3>5
    <2> QED BY <2>1, <2>2
  <1>3. S \in SUBSET Seq(Str)
    OBVIOUS
  <1> HIDE DEF S
  <1>4. \A t \in Seq(Str) : t \in S
    BY ONLY <1>1, <1>2, <1>3, SeqInduct
  <1> QED BY <1>4 DEF S

-----------------------------------------------------------------------------
(* A text with each of its atoms replaced.                                  *)
Mapped(F, t) == [i \in DOMAIN t |-> F[t[i]]]
Sub(F, t) == FlattenSeq(Mapped(F, t))
Each(F, ss) == [i \in DOMAIN ss |-> Sub(F, ss[i])]

LEMMA MappedAppend ==
  ASSUME NEW F \in Maps, NEW t \in Str, NEW a \in Atom
  PROVE  /\ Mapped(F, t) \in Seq(Str)
         /\ F[a] \in Str
         /\ Mapped(F, Append(t, a)) = Append(Mapped(F, t), F[a])
  <1>1. \A u \in Str : Mapped(F, u) \in Seq(Str) /\ Len(Mapped(F, u)) = Len(u)
    <2> SUFFICES ASSUME NEW u \in Str
                 PROVE  Mapped(F, u) \in Seq(Str) /\ Len(Mapped(F, u)) = Len(u)
      OBVIOUS
    <2>1. Mapped(F, u) \in [1 .. Len(u) -> Str]
      BY Strings DEF Mapped, Maps
    <2>2. Len(u) \in Nat
      BY Strings
    <2> QED BY ONLY <2>1, <2>2, FunctionIsSeq
  <1>2. /\ Append(t, a) \in Str /\ Len(Append(t, a)) = Len(t) + 1
        /\ F[a] \in Str
        /\ \A i \in 1 .. Len(t) : Append(t, a)[i] = t[i]
        /\ Append(t, a)[Len(t) + 1] = a
    BY AppendProperties DEF Str, Maps
  <1>3. /\ Append(Mapped(F, t), F[a]) \in Seq(Str)
        /\ Len(Append(Mapped(F, t), F[a])) = Len(t) + 1
    BY <1>1, <1>2, AppendProperties
  <1>4. \A i \in 1 .. Len(t) + 1 : Mapped(F, Append(t, a))[i] = Append(Mapped(F, t), F[a])[i]
    <2>1. Mapped(F, t) \in Seq(Str) /\ F[a] \in Str /\ Len(t) \in Nat
      BY <1>1, <1>2, Strings
    <2>2. /\ \A i \in 1 .. Len(t) : Append(Mapped(F, t), F[a])[i] = Mapped(F, t)[i]
          /\ Append(Mapped(F, t), F[a])[Len(t) + 1] = F[a]
      BY ONLY <2>1, <1>1, t \in Str, AppendProperties
    <2>3. /\ \A i \in 1 .. Len(t) : Mapped(F, t)[i] = F[t[i]]
          /\ \A i \in 1 .. Len(t) + 1 : Mapped(F, Append(t, a))[i] = F[Append(t, a)[i]]
      BY <1>2, Strings DEF Mapped
    <2> SUFFICES ASSUME NEW i \in 1 .. Len(t) + 1
                 PROVE  Mapped(F, Append(t, a))[i] = Append(Mapped(F, t), F[a])[i]
      OBVIOUS
    <2>4. CASE i = Len(t) + 1
      BY <1>2, <2>2, <2>3, <2>4
    <2>5. CASE i # Len(t) + 1
      <3>1. i \in 1 .. Len(t)
        BY <2>1, <2>5
      <3> QED BY <1>2, <2>2, <2>3, <3>1
    <2> QED BY <2>4, <2>5
  <1>5. Mapped(F, Append(t, a)) \in Seq(Str) /\ Len(Mapped(F, Append(t, a))) = Len(t) + 1
    BY <1>1, <1>2
  <1>6. Mapped(F, Append(t, a)) = Append(Mapped(F, t), F[a])
    BY ONLY <1>3, <1>4, <1>5, SeqEqual
  <1> QED BY <1>1, <1>2, <1>6

LEMMA SubNone == \A F : Sub(F, <<>>) = <<>>
  <1>1. \A F : Mapped(F, <<>>) = <<>>
    BY DEF Mapped
  <1> QED BY <1>1, FlattenNone DEF Sub

LEMMA SubAppend ==
  ASSUME NEW F \in Maps, NEW t \in Str, NEW a \in Atom
  PROVE  Sub(F, t) \in Str /\ F[a] \in Str /\ Sub(F, Append(t, a)) = Sub(F, t) \o F[a]
  BY MappedAppend, FlattenAppend, FlattenType DEF Sub

LEMMA SubOne ==
  ASSUME NEW F \in Maps, NEW a \in Atom
  PROVE  Sub(F, <<a>>) = F[a]
  <1>1. <<a>> = Append(<<>>, a) /\ <<>> \in Str
    BY Strings
  <1>2. Sub(F, Append(<<>>, a)) = <<>> \o F[a] /\ F[a] \in Str
    <2>1. Sub(F, Append(<<>>, a)) = Sub(F, <<>>) \o F[a] /\ F[a] \in Str
      BY ONLY <1>1, F \in Maps, a \in Atom, SubAppend
    <2> QED BY <2>1, SubNone
  <1> QED BY <1>1, <1>2, Strings

LEMMA SubType ==
  ASSUME NEW F \in Maps, NEW t \in Str
  PROVE  Sub(F, t) \in Str
  <1>1. CASE t = <<>>
    BY <1>1, SubNone, Strings
  <1>2. CASE t # <<>>
    <2>1. PICK u \in Str, a \in Atom : t = Append(u, a)
      BY <1>2, Strings
    <2> QED BY <2>1, SubAppend, Strings
  <1> QED BY <1>1, <1>2

LEMMA SubConcat ==
  ASSUME NEW F \in Maps, NEW t \in Str, NEW u \in Str
  PROVE  Sub(F, t \o u) = Sub(F, t) \o Sub(F, u)
  <1> DEFINE S == {w \in Str : Sub(F, t \o w) = Sub(F, t) \o Sub(F, w)}
  <1>1. <<>> \in S
    <2>1. t \o <<>> = t /\ Sub(F, t) \o <<>> = Sub(F, t)
      BY SubType, Strings
    <2> QED BY <2>1, SubNone, Strings
  <1>2. ASSUME NEW w \in S, NEW a \in Atom PROVE Append(w, a) \in S
    <2>1. t \o Append(w, a) = Append(t \o w, a)
      BY DEF Str
    <2>2. Append(w, a) \in Str /\ t \o w \in Str
      BY Strings
    <2>3. /\ Sub(F, Append(t \o w, a)) = Sub(F, t \o w) \o F[a]
          /\ Sub(F, Append(w, a)) = Sub(F, w) \o F[a]
          /\ Sub(F, t) \in Str /\ Sub(F, w) \in Str /\ F[a] \in Str
      BY <2>2, SubAppend
    <2>4. (Sub(F, t) \o Sub(F, w)) \o F[a] = Sub(F, t) \o (Sub(F, w) \o F[a])
      BY ONLY <2>3, StrAssoc, Zenon
    <2> QED BY <2>1, <2>2, <2>3, <2>4
  <1>3. S \in SUBSET Str
    OBVIOUS
  <1> HIDE DEF S
  <1>4. \A w \in Str : w \in S
    BY ONLY <1>1, <1>2, <1>3, StrInduct
  <1> QED BY <1>4 DEF S

LEMMA SubSame ==
  ASSUME NEW F \in Maps, NEW t \in Str,
         \A i \in DOMAIN t : F[t[i]] = <<t[i]>>
  PROVE  Sub(F, t) = t
  <1> DEFINE S == {w \in Str : (\A i \in DOMAIN w : F[w[i]] = <<w[i]>>) => Sub(F, w) = w}
  <1>1. <<>> \in S
    BY SubNone, Strings
  <1>2. ASSUME NEW w \in S, NEW a \in Atom PROVE Append(w, a) \in S
    <2> SUFFICES ASSUME \A i \in DOMAIN Append(w, a) : F[Append(w, a)[i]] = <<Append(w, a)[i]>>
                 PROVE  Sub(F, Append(w, a)) = Append(w, a)
      BY Strings
    <2>1. \A i \in DOMAIN w : i \in DOMAIN Append(w, a) /\ Append(w, a)[i] = w[i]
      BY DEF Str
    <2>2. Len(w) + 1 \in DOMAIN Append(w, a) /\ Append(w, a)[Len(w) + 1] = a
      BY DEF Str
    <2>3. Sub(F, w) = w /\ F[a] = <<a>>
      BY <2>1, <2>2
    <2>4. Sub(F, Append(w, a)) = Sub(F, w) \o F[a]
      BY SubAppend
    <2> QED BY <2>3, <2>4, Strings
  <1>3. S \in SUBSET Str
    OBVIOUS
  <1> HIDE DEF S
  <1>4. \A w \in Str : w \in S
    BY ONLY <1>1, <1>2, <1>3, StrInduct
  <1> QED BY <1>4 DEF S

LEMMA EachAppend ==
  ASSUME NEW F \in Maps, NEW ss \in Seq(Str), NEW s \in Str
  PROVE  /\ Each(F, ss) \in Seq(Str)
         /\ Each(F, Append(ss, s)) = Append(Each(F, ss), Sub(F, s))
  <1>1. \A tt \in Seq(Str) : Each(F, tt) \in Seq(Str) /\ Len(Each(F, tt)) = Len(tt)
    BY SubType DEF Each
  <1>2. /\ Append(ss, s) \in Seq(Str) /\ Len(Append(ss, s)) = Len(ss) + 1 /\ Len(ss) \in Nat
        /\ \A i \in 1 .. Len(ss) : Append(ss, s)[i] = ss[i]
        /\ Append(ss, s)[Len(ss) + 1] = s
    BY AppendProperties
  <1>3. /\ Append(Each(F, ss), Sub(F, s)) \in Seq(Str)
        /\ Len(Append(Each(F, ss), Sub(F, s))) = Len(ss) + 1
        /\ \A i \in 1 .. Len(ss) : Append(Each(F, ss), Sub(F, s))[i] = Each(F, ss)[i]
        /\ Append(Each(F, ss), Sub(F, s))[Len(ss) + 1] = Sub(F, s)
    <2>1. Each(F, ss) \in Seq(Str) /\ Len(Each(F, ss)) = Len(ss) /\ Sub(F, s) \in Str
      BY <1>1, SubType
    <2> QED BY <2>1, AppendProperties
  <1>4. /\ \A i \in 1 .. Len(ss) : Each(F, ss)[i] = Sub(F, ss[i])
        /\ \A i \in 1 .. Len(ss) + 1 : Each(F, Append(ss, s))[i] = Sub(F, Append(ss, s)[i])
    BY <1>2 DEF Each
  <1>5. \A i \in 1 .. Len(ss) + 1 : Each(F, Append(ss, s))[i] = Append(Each(F, ss), Sub(F, s))[i]
    BY ONLY <1>2, <1>3, <1>4
  <1>6. Each(F, Append(ss, s)) \in Seq(Str) /\ Len(Each(F, Append(ss, s))) = Len(ss) + 1
    BY <1>1, <1>2
  <1>7. Each(F, Append(ss, s)) = Append(Each(F, ss), Sub(F, s))
    BY ONLY <1>3, <1>5, <1>6, SeqEqual
  <1> QED BY <1>1, <1>7

LEMMA SubFlatten ==
  ASSUME NEW F \in Maps, NEW ss \in Seq(Str)
  PROVE  Sub(F, FlattenSeq(ss)) = FlattenSeq(Each(F, ss))
  <1> DEFINE S == {tt \in Seq(Str) : Sub(F, FlattenSeq(tt)) = FlattenSeq(Each(F, tt))}
  <1>1. <<>> \in S
    <2>1. Each(F, <<>>) = <<>>
      BY DEF Each
    <2> QED BY <2>1, SubNone, FlattenNone, EmptySeq
  <1>2. ASSUME NEW tt \in S, NEW s \in Str PROVE Append(tt, s) \in S
    <2>1. /\ FlattenSeq(Append(tt, s)) = FlattenSeq(tt) \o s
          /\ FlattenSeq(tt) \in Str
      BY FlattenAppend, FlattenType
    <2>2. Sub(F, FlattenSeq(tt) \o s) = Sub(F, FlattenSeq(tt)) \o Sub(F, s)
      BY <2>1, SubConcat
    <2>3. /\ Each(F, Append(tt, s)) = Append(Each(F, tt), Sub(F, s))
          /\ Each(F, tt) \in Seq(Str) /\ Sub(F, s) \in Str
      BY EachAppend, SubType
    <2>4. FlattenSeq(Append(Each(F, tt), Sub(F, s))) = FlattenSeq(Each(F, tt)) \o Sub(F, s)
      BY ONLY <2>3, FlattenAppend
    <2>5. Append(tt, s) \in Seq(Str)
      BY AppendProperties
    <2> QED BY <2>1, <2>2, <2>3, <2>4, <2>5
  <1>3. S \in SUBSET Seq(Str)
    OBVIOUS
  <1> HIDE DEF S
  <1>4. \A tt \in Seq(Str) : tt \in S
    BY ONLY <1>1, <1>2, <1>3, SeqInduct
  <1> QED BY <1>4 DEF S

-----------------------------------------------------------------------------
(* What a sanitize call knows of the text it returns.                       *)

PlanFits(t, P) ==
  /\ t \in Seq(Letter) /\ P \in Seq(Planned)
  /\ \A i \in DOMAIN P :
       /\ P[i].entity.start <= P[i].entity.end /\ P[i].entity.end <= Len(t)
       /\ P[i].entity.value = SubSeq(t, P[i].entity.start + 1, P[i].entity.end)

Covers(M, P) == \A x \in Pseudonymized(P) : \E m \in M : m.kind = x[1] /\ m.original = x[2]

ShownIn(M, P, t) ==
  \A x \in Pseudonymized(P) : \E m \in M : m.original = x[2] /\ m.token \in Range(t)

\* The text of a built-in transformer is the walk; that of a child names the
\* mappings it reported.
Written(input, how, P, M, t) ==
  /\ t \in Str /\ PlanFits(input, P)
  /\ how = "process" => ShownIn(M, P, t)
  /\ how # "process" =>
       /\ how \in {"pseudonymize", "mask", "generalize"} /\ ~Has(P, "block")
       /\ \A i \in DOMAIN P : Cursor(P, i) <= P[i].entity.start
       /\ t = Walk(input, P, [i \in DOMAIN P |-> Replacement(how, P[i], M)])
       /\ how = "pseudonymize" => Covers(M, P)

\* Mappings that were in the vault once.
Known(s, M) == \A m \in M : m \in vault \cup retired /\ m.scope = s

Reads(c) ==
  /\ Known(call[c].scope, got[c])
  /\ pc[c] \in {"detect", "store", "transform", "child", "reply", "verify"} =>
       call[c].text \in Seq(Letter) /\ call[c].transformer \in Transformers
  /\ pc[c] \in {"store", "transform", "child", "reply", "verify"} =>
       PlanFits(call[c].text, plan[c])
  /\ pc[c] \in {"store", "transform"} => call[c].transformer # "process"
  /\ pc[c] \in {"child", "reply", "verify"} => call[c].transformer = "process"
  /\ pc[c] = "transform" /\ call[c].transformer = "pseudonymize" => Covers(got[c], plan[c])
  /\ pc[c] = "verify" =>
       /\ text[c] \in Str /\ ShownIn(claimed[c] \cup got[c], plan[c], text[c])
       /\ \A m \in claimed[c] : m.scope = call[c].scope
  /\ pc[c] \in {"record", "return"} /\ call[c].op = "sanitize" =>
       Written(call[c].text, call[c].transformer, plan[c], got[c], text[c])

TextInv ==
  /\ \A m \in vault \cup retired : m.token \in Token /\ m.original \in Seq(Letter)
  /\ \A c \in Client : Reads(c)
  /\ \A g \in given :
       Known(g.scope, g.mappings) /\ Written(g.input, g.transformer, g.plan, g.mappings, g.text)

LEMMA KnownGrows ==
  ASSUME NEW s, NEW M, Known(s, M), vault \cup retired \subseteq vault' \cup retired'
  PROVE  Known(s, M)'
  BY DEF Known

(* A step of another client only adds to what was ever in the vault.        *)
LEMMA OthersRead ==
  ASSUME NEW d \in Client, Reads(d), vault \cup retired \subseteq vault' \cup retired',
         pc'[d] = pc[d], call'[d] = call[d], plan'[d] = plan[d], got'[d] = got[d],
         claimed'[d] = claimed[d], text'[d] = text[d]
  PROVE  Reads(d)'
  <1>1. Known(call[d].scope, got[d])'
    BY DEF Reads, Known
  <1> QED BY <1>1 DEF Reads

(* What is left to show of a step of client c that returns no text.         *)
LEMMA ReadsOfOne ==
  ASSUME TextInv, NEW c \in Client, Reads(c)', given' = given,
         vault \cup retired \subseteq vault' \cup retired',
         \A m \in (vault' \cup retired') \ (vault \cup retired) :
           m.token \in Token /\ m.original \in Seq(Letter),
         \A d \in Client \ {c} :
           /\ pc'[d] = pc[d] /\ call'[d] = call[d] /\ plan'[d] = plan[d] /\ got'[d] = got[d]
           /\ claimed'[d] = claimed[d] /\ text'[d] = text[d]
  PROVE  TextInv'
  <1>1. \A d \in Client : Reads(d)'
    BY OthersRead DEF TextInv
  <1>2. \A g \in given : Known(g.scope, g.mappings)'
    BY DEF TextInv, Known
  <1> QED BY <1>1, <1>2 DEF TextInv

LEMMA BeginReads ==
  ASSUME IInv, TextInv, NEW c \in Client,
         \E s \in Scope : Sanitize(c, s) \/ Restore(c, s) \/ Forget(c, s)
  PROVE  TextInv'
  <1>1. PICK s, to, op, t, how :
          /\ Begin(c, to, op, s, t, how)
          /\ \/ to = "detect" /\ t \in Inputs /\ how \in Transformers
             \/ to \in {"resolve", "delete"}
    BY DEF Sanitize, Restore, Forget
  <1>2. got[c] = {} /\ Shape
    BY <1>1 DEF Begin, Transition, IInv, Held
  <1>3. /\ pc' = [pc EXCEPT ![c] = to]
        /\ call' = [call EXCEPT ![c] = [op |-> op, scope |-> s, text |-> t, transformer |-> how]]
        /\ UNCHANGED <<vault, audit, report, plan, got, claimed, text, history>>
    BY <1>1 DEF Begin, Transition
  <1>4. /\ pc'[c] = to /\ got'[c] = {} /\ call'[c].text = t /\ call'[c].transformer = how
        /\ \A d \in Client \ {c} :
             /\ pc'[d] = pc[d] /\ call'[d] = call[d] /\ plan'[d] = plan[d] /\ got'[d] = got[d]
             /\ claimed'[d] = claimed[d] /\ text'[d] = text[d]
        /\ given' = given /\ vault' = vault /\ retired' = retired
    BY <1>2, <1>3 DEF Shape, history
  <1>5. Reads(c)'
    BY <1>1, <1>4, PipelineAssumption DEF Reads, Known
  <1> QED BY <1>4, <1>5, ReadsOfOne

(* The plan is about spans of the text, whose values are characters.        *)
LEMMA DecideReads ==
  ASSUME IInv, TextInv, NEW c \in Client, Decide(c)
  PROVE  TextInv'
  <1>1. PICK R, P :
          /\ R \in Reports /\ P \in PolicyAnswers(R)
          /\ \A i \in DOMAIN R : ValidSpan(call[c].text, R[i])
          /\ plan' = [plan EXCEPT ![c] = P]
          /\ pc' = [pc EXCEPT ![c] = AfterPlan(P, call[c].transformer)]
    BY DEF Decide
  <1>2. /\ pc[c] = "detect" /\ got[c] = {} /\ Shape
        /\ UNCHANGED <<vault, audit, call, got, claimed, text, calls, history>>
    BY DEF Decide, IInv, Held
  <1>3. call[c].text \in Seq(Letter) /\ call[c].transformer \in Transformers
    BY <1>2 DEF TextInv, Reads
  <1>4. R \in Seq(Entity)
    BY <1>1, PipelineAssumption
  <1>5. P \in Seq(Planned)
    <2>1. PICK n \in 0 .. Len(R) : P \in [1 .. n -> [entity : Range(R), action : Action]]
      BY <1>1 DEF PolicyAnswers
    <2>2. Range(R) \subseteq Entity
      BY <1>4 DEF Range
    <2>3. P \in [1 .. n -> Planned] /\ n \in Nat
      BY <1>4, <2>1, <2>2 DEF Planned
    <2> QED BY ONLY <2>3, FunctionIsSeq
  <1>6. \A i \in DOMAIN P : \E j \in DOMAIN R : P[i].entity = R[j]
    BY <1>1 DEF PolicyAnswers, Range
  <1>7. PlanFits(call[c].text, P)
    <2>3. \A i \in DOMAIN P : P[i] \in Planned
      BY <1>5
    <2>1. \A i \in DOMAIN P : P[i].entity \in Entity
      BY <2>3 DEF Planned
    <2>2. \A i \in DOMAIN P : ValidSpan(call[c].text, P[i].entity)
      BY <1>1, <1>6
    <2> QED BY <1>3, <1>5, <2>1, <2>2 DEF PlanFits, ValidSpan, Entity
  <1>8. /\ pc'[c] = AfterPlan(P, call[c].transformer) /\ plan'[c] = P /\ got'[c] = {}
        /\ call' = call
        /\ \A d \in Client \ {c} :
             /\ pc'[d] = pc[d] /\ call'[d] = call[d] /\ plan'[d] = plan[d] /\ got'[d] = got[d]
             /\ claimed'[d] = claimed[d] /\ text'[d] = text[d]
        /\ given' = given /\ vault' = vault /\ retired' = retired
    BY <1>1, <1>2 DEF Shape, history
  <1>9. AfterPlan(P, call[c].transformer) = "transform" /\ call[c].transformer = "pseudonymize"
          => Covers({}, P)
    BY DEF AfterPlan, Covers, Pseudonymized, Has
  <1>10. Reads(c)'
    <2>1. pc'[c] = "transform" /\ call[c].transformer = "pseudonymize" => Covers(got'[c], plan'[c])
      BY <1>8, <1>9
    <2>2. /\ pc'[c] \in {"blocked", "child", "store", "transform"}
          /\ pc'[c] = "child" => call[c].transformer = "process"
          /\ pc'[c] \in {"store", "transform"} => call[c].transformer # "process"
      BY <1>8 DEF AfterPlan
    <2>3. Known(call[c].scope, got[c])'
      BY <1>8 DEF Known
    <2>4. call'[c].text = call[c].text /\ call'[c].transformer = call[c].transformer
      BY <1>8
    <2> QED BY <1>3, <1>7, <1>8, <2>1, <2>2, <2>3, <2>4 DEF Reads
  <1> QED BY <1>8, <1>10, ReadsOfOne

LEMMA PlannedValues ==
  ASSUME NEW t, NEW P, PlanFits(t, P), NEW x \in Pseudonymized(P)
  PROVE  x[2] \in Seq(Letter)
  <1>1. \A i \in DOMAIN P : P[i] \in Planned
    BY DEF PlanFits
  <1> QED BY <1>1 DEF Pseudonymized, Planned, Entity

LEMMA AliasReads ==
  ASSUME IInv, TextInv, NEW c \in Client, NEW from, NEW to, Alias(c, from, to),
         <<from, to>> \in {<<"store", "transform">>, <<"child", "reply">>}
  PROVE  TextInv'
  <1> DEFINE items == Pseudonymized(plan[c])
  <1>1. PICK made : Makes(c, made)
    BY AliasMints
  <1> USE DEF Makes
  <1>2. /\ pc[c] = from /\ pc' = [pc EXCEPT ![c] = to]
        /\ got' = [got EXCEPT ![c] = {m \in vault' : m.scope = call[c].scope
                                         /\ <<m.kind, m.original>> \in items}]
        /\ UNCHANGED <<audit, call, report, plan, claimed, text, calls, history>>
        /\ Shape
    BY DEF Alias, Transition, IInv
  <1>3. /\ pc'[c] = to
        /\ got'[c] = {m \in vault' : m.scope = call[c].scope /\ <<m.kind, m.original>> \in items}
        /\ \A d \in Client \ {c} :
             /\ pc'[d] = pc[d] /\ call'[d] = call[d] /\ plan'[d] = plan[d] /\ got'[d] = got[d]
             /\ claimed'[d] = claimed[d] /\ text'[d] = text[d]
        /\ given' = given /\ retired' = retired /\ call' = call /\ plan' = plan
    BY <1>2 DEF Shape, history
  <1>4. PlanFits(call[c].text, plan[c]) /\ Reads(c)
    BY <1>2 DEF TextInv, Reads
  <1>5. \A m \in made : m.original \in Seq(Letter)
    <2>1. \A x \in items : x[2] \in Seq(Letter)
      BY <1>4, PlannedValues
    <2> QED BY <1>1, <2>1
  <1>6. Covers(got'[c], plan[c])
    <2> SUFFICES ASSUME NEW x \in items
                 PROVE  \E m \in got'[c] : m.kind = x[1] /\ m.original = x[2]
      BY DEF Covers
    <2>1. \E m \in vault' : m.scope = call[c].scope /\ m.kind = x[1] /\ m.original = x[2]
      BY <1>1
    <2>2. x = <<x[1], x[2]>>
      BY DEF Pseudonymized
    <2> HIDE DEF items
    <2> QED BY <1>3, <2>1, <2>2
  <1>7. Reads(c)'
    <2>1. Known(call[c].scope, got[c])'
      BY <1>3 DEF Known
    <2>2. call'[c] = call[c] /\ plan'[c] = plan[c]
      BY <1>3
    <2> HIDE DEF items
    <2> QED BY <1>2, <1>3, <1>4, <1>6, <2>1, <2>2 DEF Reads
  <1> QED BY <1>1, <1>3, <1>5, <1>7, ReadsOfOne

-----------------------------------------------------------------------------
(* The walk of the built-in transformers.                                   *)

Pieces(input, P, replaced) ==
  [i \in DOMAIN P |-> SubSeq(input, Cursor(P, i) + 1, P[i].entity.start) \o replaced[i]]
After(input, P) == SubSeq(input, Cursor(P, Len(P) + 1) + 1, Len(input))

LEMMA WalkIs ==
  ASSUME NEW input, NEW P, NEW r
  PROVE  Walk(input, P, r) = FlattenSeq(Pieces(input, P, r)) \o After(input, P)
  BY DEF Walk, Pieces, After

LEMMA Characters ==
  /\ Seq(Letter) \subseteq Str
  /\ \A a \in Letter : a \in Atom /\ a \notin Token
  /\ \A a \in Kind \cup {Redacted, Star} : a \in Atom /\ a \notin Token
  /\ Token \subseteq Atom
  <1>1. Letter \subseteq Atom
    BY DEF Atom
  <1>2. Seq(Letter) \subseteq Str
    BY <1>1, SeqMonotonic DEF Str
  <1> QED BY <1>1, <1>2, AtomAssumption DEF Atom

\* What a walk needs of its plan.
Walkable(input, P) ==
  PlanFits(input, P) /\ \A i \in DOMAIN P : Cursor(P, i) <= P[i].entity.start

LEMMA GapsAreCharacters ==
  ASSUME NEW input, NEW P, Walkable(input, P)
  PROVE  /\ \A i \in DOMAIN P : SubSeq(input, Cursor(P, i) + 1, P[i].entity.start) \in Seq(Letter)
         /\ After(input, P) \in Seq(Letter)
  <1>1. /\ input \in Seq(Letter) /\ P \in Seq(Planned) /\ Len(P) \in Nat /\ DOMAIN P = 1 .. Len(P)
        /\ \A i \in DOMAIN P : /\ P[i] \in Planned
                               /\ P[i].entity.start <= P[i].entity.end
                               /\ P[i].entity.end <= Len(input)
    BY DEF Walkable, PlanFits
  <1>2. \A i \in DOMAIN P : P[i].entity.start \in Nat /\ P[i].entity.end \in Nat
    BY <1>1 DEF Planned, Entity
  <1>3. \A i \in 1 .. Len(P) + 1 : Cursor(P, i) \in Nat
    BY <1>1, <1>2 DEF Cursor
  <1>4. /\ \A n \in 1 .. Len(input) : input[n] \in Letter
        /\ Len(input) \in Nat
    BY <1>1
  <1>5. ASSUME NEW m \in Nat, NEW n \in Nat, n <= Len(input)
        PROVE  SubSeq(input, m + 1, n) \in Seq(Letter)
    <2>1. \A k \in m + 1 .. n : input[k] \in Letter
      BY <1>4, <1>5
    <2>2. m + 1 \in Int /\ n \in Int
      OBVIOUS
    <2> QED BY ONLY <2>1, <2>2, SubSeqProperties
  <1>6. \A i \in DOMAIN P : P[i].entity.start <= Len(input)
    BY <1>1, <1>2, <1>4
  <1>7. \A i \in DOMAIN P : Cursor(P, i) \in Nat
    BY <1>1, <1>3
  <1>8. \A i \in DOMAIN P : SubSeq(input, Cursor(P, i) + 1, P[i].entity.start) \in Seq(Letter)
    BY <1>2, <1>5, <1>6, <1>7
  <1>9. After(input, P) \in Seq(Letter)
    <2>1. Cursor(P, Len(P) + 1) \in Nat
      BY <1>1, <1>3
    <2> QED BY <1>4, <1>5, <2>1 DEF After
  <1> QED BY <1>8, <1>9

LEMMA WalkType ==
  ASSUME NEW input, NEW P, Walkable(input, P), NEW r, \A i \in DOMAIN P : r[i] \in Str
  PROVE  /\ Pieces(input, P, r) \in Seq(Str) /\ Len(Pieces(input, P, r)) = Len(P)
         /\ Walk(input, P, r) \in Str
  <1>1. \A i \in DOMAIN P : SubSeq(input, Cursor(P, i) + 1, P[i].entity.start) \o r[i] \in Str
    BY GapsAreCharacters, Characters, Strings
  <1>2. Len(P) \in Nat /\ DOMAIN P = 1 .. Len(P)
    BY DEF Walkable, PlanFits
  <1>3. Pieces(input, P, r) \in [1 .. Len(P) -> Str]
    BY <1>1, <1>2 DEF Pieces
  <1>4. Pieces(input, P, r) \in Seq(Str) /\ Len(Pieces(input, P, r)) = Len(P)
    BY ONLY <1>2, <1>3, FunctionIsSeq
  <1>5. FlattenSeq(Pieces(input, P, r)) \in Str /\ After(input, P) \in Str
    BY <1>4, FlattenType, GapsAreCharacters, Characters
  <1> QED BY <1>4, <1>5, WalkIs, Strings

(* A replacement is a text.                                                 *)
LEMMA ReplacementType ==
  ASSUME NEW input, NEW P, PlanFits(input, P), ~Has(P, "block"), NEW M,
         NEW how \in {"pseudonymize", "mask", "generalize"},
         how = "pseudonymize" => Covers(M, P), \A m \in M : m.token \in Token,
         NEW i \in DOMAIN P
  PROVE  Replacement(how, P[i], M) \in Str
  <1>1. /\ P[i].action \in Action \ {"block"}
        /\ P[i].entity.value \in Seq(Letter) /\ P[i].entity.kind \in Kind
    <2>1. P[i] \in Planned
      BY DEF PlanFits
    <2> QED BY <2>1 DEF Has, Planned, Entity
  <1>2. CASE P[i].action = "keep"
    BY <1>1, <1>2, Characters DEF Replacement
  <1>3. CASE P[i].action = "redact"
    BY <1>3, Characters, Strings DEF Replacement
  <1>4. CASE P[i].action = "pseudonymize" /\ how = "pseudonymize"
    <2>1. <<P[i].entity.kind, P[i].entity.value>> \in Pseudonymized(P)
      BY <1>4 DEF Pseudonymized
    <2>2. \E m \in M : m.kind = P[i].entity.kind /\ m.original = P[i].entity.value
      BY <1>4, <2>1 DEF Covers
    <2>3. TokenFor(P[i].entity, M) \in Token
      BY <2>2 DEF TokenFor
    <2>4. Replacement(how, P[i], M) = <<TokenFor(P[i].entity, M)>>
      BY <1>4 DEF Replacement
    <2> QED BY <2>3, <2>4, Characters, Strings
  <1>5. CASE P[i].action = "pseudonymize" /\ how = "mask"
    <2> DEFINE v == P[i].entity.value
    <2>1. v \in Seq(Letter) /\ Len(v) \in Nat /\ DOMAIN v = 1 .. Len(v)
      BY <1>1
    <2>2. \A j \in DOMAIN v : v[j] \in Atom
      BY <2>1, Characters
    <2>3. Star \in Atom
      BY Characters
    <2> HIDE DEF v
    <2>4. Mask(v) \in [1 .. Len(v) -> Atom]
      BY <2>1, <2>2, <2>3 DEF Mask
    <2>5. Mask(v) \in Str
      BY ONLY <2>1, <2>4, FunctionIsSeq DEF Str
    <2> QED BY <1>5, <2>5 DEF Replacement, v
  <1>6. CASE P[i].action = "pseudonymize" /\ how = "generalize"
    BY <1>1, <1>6, Characters, Strings DEF Replacement, KindToken
  <1> QED BY <1>1, <1>2, <1>3, <1>4, <1>5, <1>6 DEF Action

-----------------------------------------------------------------------------
(* The steps that write a text.                                             *)

LEMMA TransformReads ==
  ASSUME IInv, TextInv, NEW c \in Client, Transform(c)
  PROVE  TextInv'
  <1> DEFINE how == call[c].transformer
             r == [i \in DOMAIN plan[c] |-> Replacement(how, plan[c][i], got[c])]
             t == Walk(call[c].text, plan[c], r)
  <1>1. /\ pc[c] = "transform" /\ pc' = [pc EXCEPT ![c] = "record"]
        /\ ~Has(plan[c], "block")
        /\ \A i \in DOMAIN plan[c] : Cursor(plan[c], i) <= plan[c][i].entity.start
        /\ text' = [text EXCEPT ![c] = t]
        /\ UNCHANGED <<vault, audit, call, report, plan, got, claimed, calls, history>>
        /\ Shape
    BY DEF Transform, Transition, IInv
  <1>2. /\ PlanFits(call[c].text, plan[c]) /\ Known(call[c].scope, got[c])
        /\ how \in {"pseudonymize", "mask", "generalize"}
        /\ how = "pseudonymize" => Covers(got[c], plan[c])
    BY <1>1, PipelineAssumption DEF TextInv, Reads
  <1>3. \A m \in got[c] : m.token \in Token
    BY <1>2 DEF TextInv, Known
  <1>4. \A i \in DOMAIN plan[c] : Replacement(how, plan[c][i], got[c]) \in Str
    BY <1>1, <1>2, <1>3, ReplacementType
  <1>5. Walkable(call[c].text, plan[c])
    BY <1>1, <1>2 DEF Walkable
  <1>6. t \in Str
    <2>1. \A i \in DOMAIN plan[c] : r[i] \in Str
      BY <1>4
    <2> HIDE DEF r
    <2> QED BY <1>5, <2>1, WalkType
  <1>7. Written(call[c].text, how, plan[c], got[c], t)
    BY <1>1, <1>2, <1>6 DEF Written
  <1> HIDE DEF t
  <1>8. /\ pc'[c] = "record" /\ text'[c] = t
        /\ \A d \in Client \ {c} :
             /\ pc'[d] = pc[d] /\ call'[d] = call[d] /\ plan'[d] = plan[d] /\ got'[d] = got[d]
             /\ claimed'[d] = claimed[d] /\ text'[d] = text[d]
        /\ given' = given /\ vault' = vault /\ retired' = retired
        /\ call' = call /\ plan' = plan /\ got' = got
    BY <1>1 DEF Shape, history
  <1>9. Reads(c)'
    <2>1. Known(call[c].scope, got[c])'
      BY <1>2, <1>8 DEF Known
    <2>2. Written(call[c].text, call[c].transformer, plan[c], got[c], text[c])'
      BY <1>7, <1>8
    <2> QED BY <1>8, <2>1, <2>2 DEF Reads
  <1> QED BY <1>8, <1>9, ReadsOfOne

LEMMA ReplyReads ==
  ASSUME IInv, TextInv, NEW c \in Client, ChildReplies(c)
  PROVE  TextInv'
  <1>1. PICK t \in Rewrites, token \in [Pseudonymized(plan[c]) -> Token] :
          LET M == {[scope |-> call[c].scope, kind |-> x[1], original |-> x[2],
                     token |-> token[x]] : x \in Pseudonymized(plan[c])}
          IN /\ ValidMappings(plan[c], t, M) /\ ValidText(plan[c], t)
             /\ claimed' = [claimed EXCEPT ![c] = M]
             /\ text' = [text EXCEPT ![c] = t]
    BY DEF ChildReplies
  <1> DEFINE M == {[scope |-> call[c].scope, kind |-> x[1], original |-> x[2],
                    token |-> token[x]] : x \in Pseudonymized(plan[c])}
  <1>2. /\ pc[c] \in {"child", "reply"} /\ pc' = [pc EXCEPT ![c] = "verify"]
        /\ got' = [got EXCEPT ![c] = {}]
        /\ UNCHANGED <<vault, audit, call, report, plan, calls, history>>
        /\ Shape
    BY DEF ChildReplies, IInv
  <1>3. t \in Str
    BY PipelineAssumption DEF Str
  <1>4. \A m \in M : m.scope = call[c].scope
    OBVIOUS
  <1>5. ShownIn(M, plan[c], t)
    <2> SUFFICES ASSUME NEW x \in Pseudonymized(plan[c])
                 PROVE  \E m \in M : m.original = x[2] /\ m.token \in Range(t)
      BY DEF ShownIn
    <2> DEFINE m == [scope |-> call[c].scope, kind |-> x[1], original |-> x[2],
                     token |-> token[x]]
    <2>1. m \in M /\ m.original = x[2]
      OBVIOUS
    <2>2. \A n \in M : n.token \in Range(t)
      BY <1>1 DEF ValidMappings
    <2> HIDE DEF m, M
    <2> QED BY <2>1, <2>2
  <1>a. claimed' = [claimed EXCEPT ![c] = M] /\ text' = [text EXCEPT ![c] = t]
    BY <1>1
  <1> HIDE DEF M
  <1>6. /\ pc'[c] = "verify" /\ got'[c] = {} /\ claimed'[c] = M /\ text'[c] = t
        /\ \A d \in Client \ {c} :
             /\ pc'[d] = pc[d] /\ call'[d] = call[d] /\ plan'[d] = plan[d] /\ got'[d] = got[d]
             /\ claimed'[d] = claimed[d] /\ text'[d] = text[d]
        /\ given' = given /\ vault' = vault /\ retired' = retired /\ call' = call /\ plan' = plan
    BY <1>a, <1>2 DEF Shape, history
  <1>7. Reads(c)'
    <2>1. /\ call[c].text \in Seq(Letter) /\ call[c].transformer \in Transformers
          /\ PlanFits(call[c].text, plan[c]) /\ call[c].transformer = "process"
      BY <1>2 DEF TextInv, Reads
    <2>2. Known(call[c].scope, got[c])'
      BY <1>6 DEF Known
    <2>3. claimed'[c] \cup got'[c] = M
      BY <1>6
    <2>4. (text[c] \in Str /\ ShownIn(claimed[c] \cup got[c], plan[c], text[c])
             /\ \A m \in claimed[c] : m.scope = call[c].scope)'
      BY <1>3, <1>4, <1>5, <1>6, <2>3
    <2> QED BY <1>6, <2>1, <2>2, <2>4 DEF Reads
  <1> QED BY <1>6, <1>7, ReadsOfOne

LEMMA VerifyReads ==
  ASSUME IInv, TextInv, NEW c \in Client, VerifyMapping(c)
  PROVE  TextInv'
  <1>1. PICK m \in claimed[c] :
          /\ m \in vault
          /\ claimed' = [claimed EXCEPT ![c] = @ \ {m}]
          /\ got' = [got EXCEPT ![c] = @ \cup {m}]
    BY DEF VerifyMapping, Backed
  <1>2. /\ pc[c] = "verify" /\ Shape
        /\ UNCHANGED <<vault, audit, pc, call, report, plan, text, calls, history>>
    BY DEF VerifyMapping, IInv
  <1>3. /\ claimed'[c] = claimed[c] \ {m} /\ got'[c] = got[c] \cup {m}
        /\ \A d \in Client \ {c} : got'[d] = got[d] /\ claimed'[d] = claimed[d]
        /\ given' = given /\ vault' = vault /\ retired' = retired
        /\ pc' = pc /\ call' = call /\ plan' = plan /\ text' = text
    BY <1>1, <1>2 DEF Shape, history
  <1>4. Reads(c)'
    <2>1. Reads(c)
      BY DEF TextInv
    <2>2. Known(call[c].scope, got[c])'
      BY <1>1, <1>2, <1>3, <2>1 DEF Reads, Known
    <2>3. claimed'[c] \cup got'[c] = claimed[c] \cup got[c]
      BY <1>1, <1>3
    <2> QED BY <1>2, <1>3, <2>1, <2>2, <2>3 DEF Reads
  <1> QED BY <1>3, <1>4, ReadsOfOne

LEMMA AcceptReads ==
  ASSUME IInv, TextInv, NEW c \in Client, AcceptReply(c)
  PROVE  TextInv'
  <1>1. /\ pc[c] = "verify" /\ pc' = [pc EXCEPT ![c] = "record"] /\ claimed[c] = {}
        /\ UNCHANGED <<vault, audit, locals, calls, history>> /\ Shape
    BY DEF AcceptReply, Transition, IInv
  <1>2. /\ pc'[c] = "record" /\ \A d \in Client \ {c} : pc'[d] = pc[d]
        /\ given' = given /\ vault' = vault /\ retired' = retired
        /\ call' = call /\ plan' = plan /\ text' = text /\ got' = got /\ claimed' = claimed
    BY <1>1 DEF Shape, history, locals
  <1>3. /\ text[c] \in Str /\ ShownIn(got[c], plan[c], text[c])
        /\ PlanFits(call[c].text, plan[c]) /\ call[c].transformer = "process"
        /\ Known(call[c].scope, got[c])
    <2>1. {} \cup got[c] = got[c]
      OBVIOUS
    <2> QED BY <1>1, <2>1 DEF TextInv, Reads
  <1>4. Reads(c)'
    <2>1. Known(call[c].scope, got[c])'
      BY <1>2, <1>3 DEF Known
    <2>2. Written(call[c].text, call[c].transformer, plan[c], got[c], text[c])
      BY <1>3 DEF Written
    <2> QED BY <1>2, <2>1, <2>2 DEF Reads
  <1> QED BY <1>2, <1>4, ReadsOfOne

LEMMA ResolveReads ==
  ASSUME IInv, TextInv, NEW c \in Client, ResolveMany(c)
  PROVE  TextInv'
  <1>1. /\ pc[c] = "resolve" /\ pc' = [pc EXCEPT ![c] = "record"]
        /\ text' = [text EXCEPT ![c] = Opened(call[c].scope, call[c].text)]
        /\ UNCHANGED <<vault, audit, call, report, plan, got, claimed, calls, history>>
        /\ Shape /\ call[c].op = "restore"
    BY DEF ResolveMany, Transition, IInv, Placed
  <1>2. /\ pc'[c] = "record" /\ \A d \in Client \ {c} : pc'[d] = pc[d] /\ text'[d] = text[d]
        /\ given' = given /\ vault' = vault /\ retired' = retired
        /\ call' = call /\ plan' = plan /\ got' = got /\ claimed' = claimed
    BY <1>1 DEF Shape, history
  <1>3. Known(call[c].scope, got[c])'
    BY <1>2 DEF TextInv, Reads, Known
  <1>4. Reads(c)'
    BY <1>1, <1>2, <1>3 DEF Reads
  <1> QED BY <1>2, <1>4, ReadsOfOne

LEMMA DeleteReads ==
  ASSUME IInv, TextInv, NEW c \in Client, DeleteScope(c)
  PROVE  TextInv'
  <1>1. /\ pc[c] = "delete" /\ pc' = [pc EXCEPT ![c] = "record"]
        /\ vault' = vault \ InScope(call[c].scope, vault)
        /\ retired' = retired \cup InScope(call[c].scope, vault)
        /\ UNCHANGED <<audit, locals, calls, given, answered>>
        /\ Shape /\ call[c].op = "forget"
    BY DEF DeleteScope, Transition, IInv, Placed
  <1>2. /\ pc'[c] = "record" /\ \A d \in Client \ {c} : pc'[d] = pc[d]
        /\ vault' \cup retired' = vault \cup retired
        /\ given' = given
        /\ call' = call /\ plan' = plan /\ text' = text /\ got' = got /\ claimed' = claimed
    BY <1>1 DEF Shape, InScope, locals
  <1>3. Known(call[c].scope, got[c])'
    BY <1>2 DEF TextInv, Reads, Known
  <1>4. Reads(c)'
    BY <1>1, <1>2, <1>3 DEF Reads
  <1> QED BY <1>2, <1>4, ReadsOfOne

LEMMA LapseReads ==
  ASSUME TextInv, vault' \cup retired' = vault \cup retired,
         UNCHANGED <<pc, call, plan, text, got, claimed, given>>
  PROVE  TextInv'
  <1>1. \A d \in Client : Reads(d)'
    BY OthersRead DEF TextInv
  <1> QED BY <1>1 DEF TextInv, Known

LEMMA FinishReads ==
  ASSUME IInv, TextInv, NEW c \in Client, Finish(c), vault' = vault, retired' = retired,
         \A g \in given' \ given :
           Known(g.scope, g.mappings) /\ Written(g.input, g.transformer, g.plan, g.mappings, g.text)
  PROVE  TextInv'
  <1>1. /\ pc'[c] = "idle" /\ got'[c] = {}
        /\ \A d \in Client \ {c} :
             /\ pc'[d] = pc[d] /\ call'[d] = call[d] /\ plan'[d] = plan[d] /\ got'[d] = got[d]
             /\ claimed'[d] = claimed[d] /\ text'[d] = text[d]
    BY DEF Finish, IInv, Shape
  <1>2. Reads(c)'
    BY <1>1 DEF Reads, Known
  <1>3. \A d \in Client \ {c} : Reads(d)'
    BY <1>1, OthersRead DEF TextInv
  <1>4. \A g \in given' : Known(g.scope, g.mappings)' /\
          Written(g.input, g.transformer, g.plan, g.mappings, g.text)
    BY DEF TextInv, Known
  <1> QED BY <1>2, <1>3, <1>4 DEF TextInv

LEMMA RecordReads ==
  ASSUME IInv, TextInv, NEW c \in Client, Record(c)
  PROVE  TextInv'
  <1>1. /\ pc[c] \in {"record", "blocked"}
        /\ pc' = [pc EXCEPT ![c] = IF pc[c] = "record" THEN "return" ELSE "refuse"]
        /\ UNCHANGED <<vault, locals, calls, history>>
    BY DEF Record, Recorded, Transition
  <1>2. /\ pc'[c] = (IF pc[c] = "record" THEN "return" ELSE "refuse")
        /\ \A d \in Client \ {c} : pc'[d] = pc[d]
        /\ UNCHANGED <<vault, call, plan, got, claimed, text, given, retired>>
    BY <1>1 DEF IInv, Shape, locals, history
  <1>3. Reads(c)'
    <2>1. Known(call[c].scope, got[c])'
      BY <1>2 DEF TextInv, Reads, Known
    <2>2. pc'[c] = "return" /\ call[c].op = "sanitize" =>
            Written(call[c].text, call[c].transformer, plan[c], got[c], text[c])
      <3>1. Reads(c) /\ (pc'[c] = "return" => pc[c] = "record")
        BY <1>1, <1>2 DEF TextInv
      <3> QED BY <3>1 DEF Reads
    <2>3. pc'[c] \in {"return", "refuse"}
      BY <1>2
    <2> QED BY <1>2, <2>1, <2>2, <2>3 DEF Reads
  <1> QED BY <1>2, <1>3, ReadsOfOne

LEMMA EndReads ==
  ASSUME IInv, TextInv, NEW c \in Client, Return(c) \/ Fail(c)
  PROVE  TextInv'
  <1>1. Finish(c) /\ vault' = vault /\ retired' = retired
    BY DEF Return, Fail, history
  <1>2. CASE given' = given
    BY <1>1, <1>2, FinishReads
  <1>3. CASE given' # given
    <2> DEFINE g == [scope |-> call[c].scope, input |-> call[c].text,
                     transformer |-> call[c].transformer, text |-> text[c],
                     mappings |-> got[c], report |-> report[c], plan |-> plan[c]]
    <2>1. given' = given \cup {x \in {g} : pc[c] = "return" /\ call[c].op = "sanitize"}
      BY <1>3 DEF Return, Fail, history
    <2>2. pc[c] = "return" /\ call[c].op = "sanitize"
      BY <1>3, <2>1
    <2>3. /\ Known(call[c].scope, got[c])
          /\ Written(call[c].text, call[c].transformer, plan[c], got[c], text[c])
      BY <2>2 DEF TextInv, Reads
    <2>4. Known(g.scope, g.mappings) /\ Written(g.input, g.transformer, g.plan, g.mappings, g.text)
      BY <2>3
    <2> HIDE DEF g
    <2>5. \A x \in given' \ given : x = g
      BY <2>1
    <2> QED BY <1>1, <2>4, <2>5, FinishReads
  <1> QED BY <1>2, <1>3

LEMMA TextInvariant == Spec => [](IInv /\ Issued /\ TextInv)
  <1>1. Init => TextInv
    <2>1. Init => \A c \in Client : Reads(c)
      BY DEF Init, Reads, Known
    <2> QED BY <2>1 DEF Init, TextInv
  <1>2. IInv /\ TextInv /\ [Next]_vars => TextInv'
    <2> SUFFICES ASSUME IInv, TextInv, [Next]_vars PROVE TextInv'
      OBVIOUS
    <2>1. ASSUME NEW c \in Client, Store(c) \/ ChildStores(c) PROVE TextInv'
      BY <2>1, AliasReads DEF Store, ChildStores
    <2>2. CASE Lapse
      BY <2>2, LapseReads DEF Lapse, locals
    <2>3. CASE UNCHANGED vars
      BY <2>3, LapseReads DEF vars, locals, history
    <2> QED BY <2>1, <2>2, <2>3, BeginReads, DecideReads, TransformReads, ReplyReads, VerifyReads,
               AcceptReads, ResolveReads, DeleteReads, RecordReads, EndReads DEF Next
  <1> QED BY <1>1, <1>2, IssuedInvariant, PTL DEF Spec
-----------------------------------------------------------------------------
(* What a restore opens.                                                    *)

\* What each atom of a text is replaced by when the text is restored in scope s.
Opening(s) ==
  [a \in Atom |->
     IF \E m \in InScope(s, vault) : m.token = a
     THEN (CHOOSE m \in InScope(s, vault) : m.token = a).original ELSE <<a>>]

LEMMA OpeningIsMap ==
  ASSUME TextInv, Issued, NEW s
  PROVE  /\ Opening(s) \in Maps
         /\ \A t \in Str : Opened(s, t) = Sub(Opening(s), t)
         /\ \A m \in vault : m.scope = s => Opening(s)[m.token] = m.original
         /\ \A a \in Atom : (\A m \in vault : m.scope = s => m.token # a) => Opening(s)[a] = <<a>>
  <1>1. \A m \in vault : m.token \in Atom /\ m.original \in Str
    BY Characters DEF TextInv
  <1>2. ASSUME NEW m \in vault, m.scope = s PROVE Opening(s)[m.token] = m.original
    <2>1. m \in InScope(s, vault) /\ m.token \in Atom
      BY <1>1, <1>2 DEF InScope
    <2>2. \A n \in InScope(s, vault) : n.token = m.token => n = m
      BY DEF Issued, InScope
    <2>3. (CHOOSE n \in InScope(s, vault) : n.token = m.token) = m
      BY <2>1, <2>2
    <2> QED BY <2>1, <2>3 DEF Opening
  <1>3. \A a \in Atom : (\A m \in vault : m.scope = s => m.token # a) => Opening(s)[a] = <<a>>
    BY DEF Opening, InScope
  <1>4. Opening(s) \in Maps
    <2>1. ASSUME NEW a \in Atom PROVE Opening(s)[a] \in Str
      <3>1. CASE \E m \in vault : m.scope = s /\ m.token = a
        BY <1>1, <1>2, <3>1
      <3>2. CASE ~ \E m \in vault : m.scope = s /\ m.token = a
        BY <1>3, <3>2, Strings
      <3> QED BY <3>1, <3>2
    <2> QED BY <2>1 DEF Opening, Maps
  <1>5. ASSUME NEW t \in Str PROVE Opened(s, t) = Sub(Opening(s), t)
    <2>1. \A i \in DOMAIN t : t[i] \in Atom
      BY Strings
    <2>2. Mapped(Opening(s), t) = [i \in DOMAIN t |->
            IF \E m \in InScope(s, vault) : m.token = t[i]
            THEN (CHOOSE m \in InScope(s, vault) : m.token = t[i]).original ELSE <<t[i]>>]
      BY <2>1 DEF Mapped, Opening
    <2> QED BY <2>2 DEF Opened, Sub
  <1> QED BY <1>2, <1>3, <1>4, <1>5

(* A text whose tokens do not resolve in the scope stays as it is.          *)
LEMMA ForeignStays ==
  ASSUME TextInv, Issued, NEW s, NEW t \in Str,
         \A m \in vault : m.scope = s => m.token \notin Range(t) \cap Token
  PROVE  Sub(Opening(s), t) = t
  <1>1. \A m \in vault : m.token \in Token
    BY DEF TextInv
  <1>2. ASSUME NEW i \in DOMAIN t PROVE Opening(s)[t[i]] = <<t[i]>>
    <2>1. t[i] \in Atom /\ t[i] \in Range(t)
      BY Strings DEF Range
    <2> QED BY <1>1, <2>1, OpeningIsMap
  <1> QED BY <1>2, OpeningIsMap, SubSame

LEMMA PlainStays ==
  ASSUME TextInv, Issued, NEW s, NEW t \in Str, Range(t) \cap Token = {}
  PROVE  Sub(Opening(s), t) = t
  BY ForeignStays

LEMMA LettersStay ==
  ASSUME TextInv, Issued, NEW s, NEW t \in Seq(Letter)
  PROVE  Sub(Opening(s), t) = t
  <1>1. \A i \in DOMAIN t : t[i] \in Letter
    OBVIOUS
  <1>2. Range(t) \cap Token = {}
    BY <1>1, Characters DEF Range
  <1> QED BY <1>2, PlainStays, Characters

(* A part of a text occurs in it.                                           *)
LEMMA PartShows ==
  ASSUME NEW u \in Str, NEW w \in Str, NEW v \in Str
  PROVE  Shows((u \o w) \o v, w) /\ Range(w) \subseteq Range((u \o w) \o v)
  <1> DEFINE t == (u \o w) \o v
  <1>1. /\ u \o w \in Seq(Atom) /\ Len(u \o w) = Len(u) + Len(w)
        /\ \A i \in 1 .. Len(u) + Len(w) : (u \o w)[i] = IF i <= Len(u) THEN u[i] ELSE w[i - Len(u)]
    BY ConcatProperties DEF Str
  <1>2. /\ t \in Seq(Atom) /\ Len(t) = Len(u \o w) + Len(v)
        /\ \A i \in 1 .. Len(u \o w) + Len(v) :
             t[i] = IF i <= Len(u \o w) THEN (u \o w)[i] ELSE v[i - Len(u \o w)]
    BY <1>1, ConcatProperties DEF Str
  <1>3. Len(u) \in Nat /\ Len(w) \in Nat /\ Len(v) \in Nat
    BY Strings
  <1> HIDE DEF t
  <1>4. ASSUME NEW j \in 1 .. Len(w)
        PROVE  Len(u) + j \in 1 .. Len(t) /\ t[Len(u) + j] = w[j]
    <2>1. /\ Len(u) + j \in 1 .. Len(u) + Len(w) /\ Len(u) + j \in 1 .. Len(t)
          /\ ~(Len(u) + j <= Len(u)) /\ (Len(u) + j) - Len(u) = j
          /\ Len(u) + j <= Len(u \o w) /\ Len(u) + j \in 1 .. Len(u \o w) + Len(v)
      BY <1>1, <1>2, <1>3
    <2> QED BY ONLY <2>1, <1>1, <1>2
  <1>5. SubSeq(t, Len(u) + 1, Len(u) + Len(w)) = w
    <2> DEFINE m == Len(u) + 1
               n == Len(u) + Len(w)
    <2>1. /\ m \in Int /\ n \in Int /\ (\A i \in m .. n : t[i] \in Atom)
      <3>1. \A i \in 1 .. Len(t) : t[i] \in Atom
        BY <1>2
      <3>2. \A i \in m .. n : i \in 1 .. Len(t)
        BY <1>1, <1>2, <1>3
      <3> QED BY <1>3, <3>1, <3>2
    <2>2. /\ SubSeq(t, m, n) \in Seq(Atom)
          /\ Len(SubSeq(t, m, n)) = IF m <= n THEN n - m + 1 ELSE 0
          /\ \A i \in 1 .. n - m + 1 : SubSeq(t, m, n)[i] = t[m + i - 1]
      BY ONLY <2>1, SubSeqProperties
    <2>3. Len(SubSeq(t, m, n)) = Len(w)
      BY <1>3, <2>2
    <2>4. \A i \in 1 .. Len(w) : SubSeq(t, m, n)[i] = w[i]
      <3> SUFFICES ASSUME NEW i \in 1 .. Len(w) PROVE SubSeq(t, m, n)[i] = w[i]
        OBVIOUS
      <3>1. i \in 1 .. n - m + 1 /\ m + i - 1 = Len(u) + i
        BY <1>3
      <3> QED BY <3>1, <2>2, <1>4
    <2> QED BY <2>2, <2>3, <2>4, SeqEqual DEF Str
  <1>6. Shows(t, w)
    <2>1. Len(u) + 1 \in 1 .. Len(t) + 1 - Len(w) /\ (Len(u) + 1) + Len(w) - 1 = Len(u) + Len(w)
      BY <1>1, <1>2, <1>3
    <2> QED BY <1>5, <2>1 DEF Shows
  <1>7. Range(w) \subseteq Range(t)
    <2>1. DOMAIN w = 1 .. Len(w) /\ DOMAIN t = 1 .. Len(t)
      BY <1>2, Strings
    <2> QED BY <1>4, <2>1 DEF Range
  <1> QED BY <1>6, <1>7 DEF t

\* What a restore makes of what stands for a planned entity.
Unhide(how, p) ==
  IF p.action = "pseudonymize" /\ how = "pseudonymize" THEN p.entity.value
  ELSE Replacement(how, p, {})

LEMMA ReplacementOpens ==
  ASSUME TextInv, Issued, NEW s, NEW input, NEW P, PlanFits(input, P), ~Has(P, "block"),
         NEW how \in {"pseudonymize", "mask", "generalize"}, NEW i \in DOMAIN P,
         NEW M, \A m \in M : m.scope = s /\ m.token \in Token, how = "pseudonymize" => Covers(M, P),
         \A m \in M : Replacement(how, P[i], M) = <<m.token>> => m \in vault
  PROVE  Sub(Opening(s), Replacement(how, P[i], M)) = Unhide(how, P[i])
  <1>1. /\ P[i].action \in Action \ {"block"}
        /\ P[i].entity.value \in Seq(Letter) /\ P[i].entity.kind \in Kind
    <2>1. P[i] \in Planned
      BY DEF PlanFits
    <2> QED BY <2>1 DEF Has, Planned, Entity
  <1>2. CASE P[i].action = "keep"
    BY <1>1, <1>2, LettersStay DEF Replacement, Unhide
  <1>3. CASE P[i].action = "redact"
    <2>1. Range(<<Redacted>>) \cap Token = {} /\ <<Redacted>> \in Str
      BY Characters, Strings DEF Range
    <2> QED BY <1>3, <2>1, PlainStays DEF Replacement, Unhide
  <1>4. CASE P[i].action = "pseudonymize" /\ how = "pseudonymize"
    <2>1. <<P[i].entity.kind, P[i].entity.value>> \in Pseudonymized(P)
      BY <1>4 DEF Pseudonymized
    <2>2. \E m \in M : m.kind = P[i].entity.kind /\ m.original = P[i].entity.value
      BY <1>4, <2>1 DEF Covers
    <2>3. PICK m \in M : m.original = P[i].entity.value /\ TokenFor(P[i].entity, M) = m.token
      BY <2>2 DEF TokenFor
    <2>4. Replacement(how, P[i], M) = <<m.token>>
      BY <1>4, <2>3 DEF Replacement
    <2>5. m \in vault /\ m.scope = s /\ m.token \in Atom
      BY <2>4, Characters
    <2>6. Sub(Opening(s), <<m.token>>) = m.original
      BY <2>5, OpeningIsMap, SubOne
    <2> QED BY <1>4, <2>3, <2>4, <2>6 DEF Unhide
  <1>5. CASE P[i].action = "pseudonymize" /\ how = "mask"
    <2> DEFINE v == P[i].entity.value
    <2>1. v \in Seq(Letter) /\ Len(v) \in Nat /\ DOMAIN v = 1 .. Len(v)
      BY <1>1
    <2>2. \A j \in DOMAIN v : v[j] \in Atom /\ v[j] \notin Token
      BY <2>1, Characters
    <2>3. Star \in Atom /\ Star \notin Token
      BY Characters
    <2> HIDE DEF v
    <2>4. Mask(v) \in [1 .. Len(v) -> Atom] /\ \A j \in 1 .. Len(v) : Mask(v)[j] \notin Token
      BY <2>1, <2>2, <2>3 DEF Mask
    <2>5. Mask(v) \in Str
      BY ONLY <2>1, <2>4, FunctionIsSeq DEF Str
    <2>6. Range(Mask(v)) \cap Token = {}
      BY <2>4 DEF Range
    <2>7. Sub(Opening(s), Mask(v)) = Mask(v)
      BY <2>5, <2>6, PlainStays
    <2> QED BY <1>5, <2>7 DEF Replacement, Unhide, v
  <1>6. CASE P[i].action = "pseudonymize" /\ how = "generalize"
    <2> DEFINE k == P[i].entity.kind
    <2>1. Range(<<k>>) \cap Token = {} /\ <<k>> \in Str
      BY <1>1, Characters, Strings DEF Range
    <2>2. Sub(Opening(s), <<k>>) = <<k>>
      BY <2>1, PlainStays
    <2> QED BY <1>6, <2>2 DEF Replacement, Unhide, KindToken
  <1> QED BY <1>1, <1>2, <1>3, <1>4, <1>5, <1>6 DEF Action

(* A replacement occurs in the text it was made for.                        *)
LEMMA ReplacementInWalk ==
  ASSUME NEW input, NEW P, Walkable(input, P), NEW r, \A i \in DOMAIN P : r[i] \in Str,
         NEW i \in DOMAIN P
  PROVE  Range(r[i]) \subseteq Range(Walk(input, P, r))
  <1> DEFINE gap == SubSeq(input, Cursor(P, i) + 1, P[i].entity.start)
             all == FlattenSeq(Pieces(input, P, r))
             rest == After(input, P)
  <1>1. Pieces(input, P, r) \in Seq(Str) /\ DOMAIN Pieces(input, P, r) = DOMAIN P
        /\ Pieces(input, P, r)[i] = gap \o r[i]
    BY WalkType DEF Pieces
  <1>2. gap \in Str /\ r[i] \in Str /\ rest \in Str /\ all \in Str /\ <<>> \in Str
        /\ gap \o r[i] \in Str
    BY <1>1, GapsAreCharacters, Characters, FlattenType, Strings
  <1>3. PICK u \in Str, v \in Str : all = (u \o (gap \o r[i])) \o v
    BY <1>1, FlattenHolds
  <1>4. Walk(input, P, r) = all \o rest
    BY WalkIs
  <1> HIDE DEF gap, all, rest
  <1>5. (gap \o r[i]) \o <<>> = gap \o r[i] /\ <<>> \o all = all
    BY <1>2, Strings
  <1>6. Range(r[i]) \subseteq Range((gap \o r[i]) \o <<>>)
    BY ONLY <1>2, PartShows
  <1>7. Range(gap \o r[i]) \subseteq Range(all)
    BY ONLY <1>2, <1>3, PartShows
  <1>8. Range(all) \subseteq Range((<<>> \o all) \o rest)
    BY ONLY <1>2, PartShows
  <1> QED BY ONLY <1>4, <1>5, <1>6, <1>7, <1>8

(* Replacing the atoms of a walk, where characters stay, is to replace those *)
(* of its replacements.                                                     *)
LEMMA SubWalk ==
  ASSUME NEW F \in Maps, \A t \in Seq(Letter) : Sub(F, t) = t,
         NEW input, NEW P, Walkable(input, P), NEW r, NEW u,
         \A i \in DOMAIN P : r[i] \in Str /\ Sub(F, r[i]) = u[i]
  PROVE  Sub(F, Walk(input, P, r)) = Walk(input, P, u)
  <1>1. Pieces(input, P, r) \in Seq(Str) /\ After(input, P) \in Seq(Letter)
        /\ \A i \in DOMAIN P : SubSeq(input, Cursor(P, i) + 1, P[i].entity.start) \in Seq(Letter)
    BY WalkType, GapsAreCharacters
  <1>2. ASSUME NEW i \in DOMAIN P
        PROVE  Sub(F, Pieces(input, P, r)[i]) = Pieces(input, P, u)[i]
    <2> DEFINE gap == SubSeq(input, Cursor(P, i) + 1, P[i].entity.start)
    <2>1. Pieces(input, P, r)[i] = gap \o r[i] /\ Pieces(input, P, u)[i] = gap \o u[i]
      BY DEF Pieces
    <2>2. gap \in Seq(Letter) /\ gap \in Str /\ r[i] \in Str
      BY <1>1, Characters
    <2> HIDE DEF gap
    <2>3. Sub(F, gap \o r[i]) = Sub(F, gap) \o Sub(F, r[i])
      BY <2>2, SubConcat
    <2> QED BY <2>1, <2>2, <2>3
  <1>3. Each(F, Pieces(input, P, r)) = Pieces(input, P, u)
    <2>1. DOMAIN Pieces(input, P, r) = DOMAIN P
      BY DEF Pieces
    <2>2. Pieces(input, P, u) = [i \in DOMAIN P |-> Pieces(input, P, u)[i]]
      BY DEF Pieces
    <2> QED BY <1>2, <2>1, <2>2 DEF Each
  <1> DEFINE all == FlattenSeq(Pieces(input, P, r))
             rest == After(input, P)
  <1>4. all \in Str /\ rest \in Str /\ Sub(F, rest) = rest
    BY <1>1, FlattenType, Characters
  <1>5. Sub(F, all) = FlattenSeq(Pieces(input, P, u))
    BY <1>1, <1>3, SubFlatten
  <1>6. Walk(input, P, r) = all \o rest /\ Walk(input, P, u) = FlattenSeq(Pieces(input, P, u)) \o rest
    BY WalkIs
  <1> HIDE DEF all, rest
  <1>7. Sub(F, all \o rest) = Sub(F, all) \o Sub(F, rest)
    BY <1>4, SubConcat
  <1> QED BY <1>4, <1>5, <1>6, <1>7

(* What a built-in transformer hid is what a restore in its scope opens.    *)
LEMMA WalkOpens ==
  ASSUME TextInv, Issued, NEW g \in given, g.transformer # "process",
         \A m \in retired : m.token \notin Range(g.text) \cap Token
  PROVE  Opened(g.scope, g.text) =
           Walk(g.input, g.plan, [i \in DOMAIN g.plan |-> Unhide(g.transformer, g.plan[i])])
  <1> DEFINE how == g.transformer
             P == g.plan
             M == g.mappings
             F == Opening(g.scope)
             r == [i \in DOMAIN P |-> Replacement(how, P[i], M)]
             u == [i \in DOMAIN P |-> Unhide(how, P[i])]
  <1>1. /\ g.text \in Str /\ PlanFits(g.input, P)
        /\ how \in {"pseudonymize", "mask", "generalize"} /\ ~Has(P, "block")
        /\ Walkable(g.input, P) /\ g.text = Walk(g.input, P, r)
        /\ how = "pseudonymize" => Covers(M, P)
        /\ Known(g.scope, M)
    BY DEF TextInv, Written, Walkable
  <1>2. \A m \in M : m.scope = g.scope /\ m.token \in Token /\ m \in vault \cup retired
    BY <1>1 DEF Known, TextInv
  <1>3. F \in Maps /\ Opened(g.scope, g.text) = Sub(F, g.text)
    BY <1>1, OpeningIsMap
  <1>4. \A i \in DOMAIN P : r[i] \in Str
    BY <1>1, <1>2, ReplacementType
  <1>5. ASSUME NEW i \in DOMAIN P PROVE Sub(F, r[i]) = u[i]
    <2>1. r[i] = Replacement(how, P[i], M) /\ u[i] = Unhide(how, P[i])
      OBVIOUS
    <2>2. Range(r[i]) \subseteq Range(g.text)
      <3> HIDE DEF r, P
      <3> QED BY <1>1, <1>4, ReplacementInWalk
    <2>3. ASSUME NEW m \in M, r[i] = <<m.token>> PROVE m \in vault
      <3>1. m.token \in Range(r[i])
        BY <2>3 DEF Range
      <3> QED BY <1>2, <2>2, <3>1
    <2> HIDE DEF r, u, P, M, how, F
    <2>4. Sub(Opening(g.scope), Replacement(how, P[i], M)) = Unhide(how, P[i])
      BY <1>1, <1>2, <2>1, <2>3, ReplacementOpens
    <2> QED BY <2>1, <2>4 DEF F
  <1>6. \A t \in Seq(Letter) : Sub(F, t) = t
    BY LettersStay
  <1> HIDE DEF F, r, u, P
  <1>7. Sub(F, g.text) = Walk(g.input, P, u)
    BY <1>1, <1>3, <1>4, <1>5, <1>6, SubWalk
  <1> QED BY <1>3, <1>7 DEF P, u

(* What the child of a process transformer hid comes back.                  *)
LEMMA ReportedOpens ==
  ASSUME TextInv, Issued, NEW g \in given, g.transformer = "process",
         \A m \in retired : m.token \notin Range(g.text) \cap Token,
         NEW x \in Pseudonymized(g.plan)
  PROVE  Shows(Opened(g.scope, g.text), x[2])
  <1> DEFINE F == Opening(g.scope)
  <1>1. g.text \in Str /\ ShownIn(g.mappings, g.plan, g.text) /\ Known(g.scope, g.mappings)
    BY DEF TextInv, Written
  <1>2. PICK m \in g.mappings : m.original = x[2] /\ m.token \in Range(g.text)
    BY <1>1 DEF ShownIn
  <1>3. m \in vault /\ m.scope = g.scope /\ m.token \in Token
    BY <1>1, <1>2 DEF Known, TextInv
  <1>4. F \in Maps /\ Opened(g.scope, g.text) = Sub(F, g.text) /\ F[m.token] = x[2]
    BY <1>1, <1>2, <1>3, OpeningIsMap
  <1>5. PICK i \in DOMAIN g.text : g.text[i] = m.token
    BY <1>2 DEF Range
  <1> HIDE DEF F
  <1>6. Mapped(F, g.text) \in Seq(Str) /\ i \in DOMAIN Mapped(F, g.text)
        /\ Mapped(F, g.text)[i] = x[2]
    <2>1. PICK a \in Atom : a = m.token
      BY <1>3, Characters
    <2>2. Mapped(F, g.text) \in Seq(Str)
      BY <1>1, <1>4, <2>1, MappedAppend
    <2> QED BY <1>4, <1>5, <2>2 DEF Mapped
  <1> DEFINE ss == Mapped(F, g.text)
  <1>8. x[2] \in Str
    BY <1>6
  <1> HIDE DEF ss
  <1>a. \E u \in Str, v \in Str : FlattenSeq(ss) = (u \o ss[i]) \o v
    <2>1. ss \in Seq(Str) /\ i \in DOMAIN ss
      BY <1>6 DEF ss
    <2> QED BY ONLY <2>1, FlattenHolds
  <1>7. PICK u \in Str, v \in Str : FlattenSeq(ss) = (u \o x[2]) \o v
    BY <1>6, <1>a DEF ss
  <1>9. Shows((u \o x[2]) \o v, x[2])
    BY <1>8, PartShows
  <1> QED BY <1>4, <1>7, <1>9 DEF Sub, ss

(* A text opens where its tokens are from, and nowhere else.                *)
THEOREM TokensOpenInTheirScopeOnly == Spec => OpensInItsScopeOnly
  <1>1. ASSUME IInv, Issued, TextInv, NEW c \in Client, ResolveMany(c),
               NEW g \in given, g.text = call[c].text
        PROVE  text'[c] = Opened(call[c].scope, g.text) /\ g.text \in Str
    BY <1>1 DEF ResolveMany, IInv, Shape, TextInv, Written
  <1>2. ASSUME IInv, Issued, TextInv, NEW c \in Client, NEW g \in given, g.text \in Str,
               call[c].scope # g.scope,
               Range(g.text) \cap Token \subseteq {m.token : m \in g.mappings}
        PROVE  Opened(call[c].scope, g.text) = g.text
    <2> DEFINE s == call[c].scope
    <2>1. ASSUME NEW m \in vault, m.scope = s, m.token \in Range(g.text) \cap Token PROVE FALSE
      <3>1. PICK n \in g.mappings : n.token = m.token
        BY <1>2, <2>1
      <3>2. n \in vault \cup retired /\ n.scope = g.scope
        BY <1>2, <3>1 DEF TextInv, Known
      <3>3. n = m
        BY <1>2, <3>1, <3>2 DEF Issued
      <3> QED BY <1>2, <2>1, <3>2, <3>3
    <2> QED BY <1>2, <2>1, ForeignStays, OpeningIsMap
  <1>3. IInv /\ Issued /\ TextInv =>
          [\A c \in Client : ResolveMany(c) =>
             \A g \in {x \in given : x.text = call[c].text} :
               LET tokens == Range(g.text) \cap Token
                   lost == {m.token : m \in retired}
                   unhide(p) == IF p.action = "pseudonymize" /\ g.transformer = "pseudonymize"
                                THEN p.entity.value
                                ELSE Replacement(g.transformer, p, {})
                   unhidden == [i \in DOMAIN g.plan |-> unhide(g.plan[i])]
               IN /\ call[c].scope # g.scope /\ tokens \subseteq {m.token : m \in g.mappings}
                       => text'[c] = g.text
                  /\ call[c].scope = g.scope /\ tokens \cap lost = {}
                       => IF g.transformer = "process"
                          THEN \A x \in Pseudonymized(g.plan) : Shows(text'[c], x[2])
                          ELSE text'[c] = Walk(g.input, g.plan, unhidden)]_vars
    <2> SUFFICES ASSUME IInv, Issued, TextInv, NEW c \in Client, ResolveMany(c),
                        NEW g \in given, g.text = call[c].text
                 PROVE  /\ call[c].scope # g.scope
                             /\ Range(g.text) \cap Token \subseteq {m.token : m \in g.mappings}
                           => text'[c] = g.text
                        /\ call[c].scope = g.scope
                             /\ (Range(g.text) \cap Token) \cap {m.token : m \in retired} = {}
                           => IF g.transformer = "process"
                              THEN \A x \in Pseudonymized(g.plan) : Shows(text'[c], x[2])
                              ELSE text'[c] = Walk(g.input, g.plan,
                                     [i \in DOMAIN g.plan |-> Unhide(g.transformer, g.plan[i])])
      BY DEF Unhide
    <2>1. text'[c] = Opened(call[c].scope, g.text) /\ g.text \in Str
      BY <1>1
    <2>2. (Range(g.text) \cap Token) \cap {m.token : m \in retired} = {}
            => \A m \in retired : m.token \notin Range(g.text) \cap Token
      OBVIOUS
    <2>3. ASSUME call[c].scope # g.scope,
                 Range(g.text) \cap Token \subseteq {m.token : m \in g.mappings}
          PROVE  text'[c] = g.text
      BY <1>2, <2>1, <2>3
    <2>4. ASSUME call[c].scope = g.scope, g.transformer = "process",
                 \A m \in retired : m.token \notin Range(g.text) \cap Token,
                 NEW x \in Pseudonymized(g.plan)
          PROVE  Shows(text'[c], x[2])
      BY <2>1, <2>4, ReportedOpens
    <2>5. ASSUME call[c].scope = g.scope, g.transformer # "process",
                 \A m \in retired : m.token \notin Range(g.text) \cap Token
          PROVE  text'[c] = Walk(g.input, g.plan,
                              [i \in DOMAIN g.plan |-> Unhide(g.transformer, g.plan[i])])
      BY <2>1, <2>5, WalkOpens
    <2> QED BY <2>2, <2>3, <2>4, <2>5
  <1> QED BY <1>3, TextInvariant, PTL DEF OpensInItsScopeOnly
-----------------------------------------------------------------------------
(* What is left of the characters of the input.                             *)

\* The first n of a sequence.
First(ss, n) == [k \in 1 .. n |-> ss[k]]

LEMMA FirstAppend ==
  ASSUME NEW ss \in Seq(Str), NEW n \in Nat, n < Len(ss)
  PROVE  /\ First(ss, n) \in Seq(Str)
         /\ FlattenSeq(First(ss, n + 1)) = FlattenSeq(First(ss, n)) \o ss[n + 1]
  <1>1. Len(ss) \in Nat /\ \A k \in 1 .. Len(ss) : ss[k] \in Str
    OBVIOUS
  <1>2. First(ss, n) \in [1 .. n -> Str] /\ First(ss, n + 1) \in [1 .. n + 1 -> Str]
        /\ n + 1 \in Nat /\ ss[n + 1] \in Str
    BY <1>1 DEF First
  <1>3. /\ First(ss, n) \in Seq(Str) /\ Len(First(ss, n)) = n
        /\ First(ss, n + 1) \in Seq(Str) /\ Len(First(ss, n + 1)) = n + 1
    BY ONLY <1>2, n \in Nat, FunctionIsSeq
  <1>4. /\ Append(First(ss, n), ss[n + 1]) \in Seq(Str)
        /\ Len(Append(First(ss, n), ss[n + 1])) = n + 1
        /\ \A k \in 1 .. n : Append(First(ss, n), ss[n + 1])[k] = First(ss, n)[k]
        /\ Append(First(ss, n), ss[n + 1])[n + 1] = ss[n + 1]
    BY <1>2, <1>3, AppendProperties
  <1>5. /\ \A k \in 1 .. n : First(ss, n)[k] = ss[k]
        /\ \A k \in 1 .. n + 1 : First(ss, n + 1)[k] = ss[k]
    BY DEF First
  <1>6. \A k \in 1 .. n + 1 : First(ss, n + 1)[k] = Append(First(ss, n), ss[n + 1])[k]
    BY ONLY <1>4, <1>5, n \in Nat
  <1>7. First(ss, n + 1) = Append(First(ss, n), ss[n + 1])
    BY ONLY <1>3, <1>4, <1>6, SeqEqual
  <1> QED BY <1>2, <1>3, <1>7, FlattenAppend

LEMMA FirstNone == \A ss : FlattenSeq(First(ss, 0)) = <<>>
  <1>1. \A ss : First(ss, 0) = <<>>
    BY DEF First
  <1> QED BY <1>1, FlattenNone

LEMMA FirstAll ==
  ASSUME NEW ss \in Seq(Str)
  PROVE  First(ss, Len(ss)) = ss
  BY DEF First

\* The characters of a text, but for those at some positions.
Shown(t, hidden) == [n \in DOMAIN t |-> IF n \in hidden THEN <<>> ELSE <<t[n]>>]

LEMMA ShownType ==
  ASSUME NEW t \in Str, NEW hidden
  PROVE  Shown(t, hidden) \in Seq(Str) /\ Len(Shown(t, hidden)) = Len(t)
  <1>1. Len(t) \in Nat /\ DOMAIN t = 1 .. Len(t) /\ \A n \in 1 .. Len(t) : t[n] \in Atom
    BY Strings
  <1>2. Shown(t, hidden) \in [1 .. Len(t) -> Str]
    BY <1>1, Strings DEF Shown
  <1> QED BY ONLY <1>1, <1>2, FunctionIsSeq

LEMMA SubSeqGrows ==
  ASSUME NEW t \in Str, NEW m \in Nat, NEW n \in Nat, m <= n, n < Len(t)
  PROVE  /\ SubSeq(t, m + 1, n) \in Str
         /\ SubSeq(t, m + 1, n + 1) = SubSeq(t, m + 1, n) \o <<t[n + 1]>>
  <1>1. Len(t) \in Nat /\ \A k \in 1 .. Len(t) : t[k] \in Atom
    BY Strings
  <1>2. /\ m + 1 \in Int /\ n \in Int /\ n + 1 \in Int
        /\ \A k \in m + 1 .. n : t[k] \in Atom
        /\ \A k \in m + 1 .. n + 1 : t[k] \in Atom
    BY <1>1
  <1>3. /\ SubSeq(t, m + 1, n) \in Seq(Atom)
        /\ Len(SubSeq(t, m + 1, n)) = n - m
        /\ \A i \in 1 .. n - m : SubSeq(t, m + 1, n)[i] = t[m + i]
    <2>1. /\ SubSeq(t, m + 1, n) \in Seq(Atom)
          /\ Len(SubSeq(t, m + 1, n)) = IF m + 1 <= n THEN n - (m + 1) + 1 ELSE 0
          /\ \A i \in 1 .. n - (m + 1) + 1 : SubSeq(t, m + 1, n)[i] = t[(m + 1) + i - 1]
      BY ONLY <1>2, SubSeqProperties
    <2> QED BY <2>1
  <1>4. /\ SubSeq(t, m + 1, n + 1) \in Seq(Atom)
        /\ Len(SubSeq(t, m + 1, n + 1)) = n - m + 1
        /\ \A i \in 1 .. n - m + 1 : SubSeq(t, m + 1, n + 1)[i] = t[m + i]
    <2>1. /\ SubSeq(t, m + 1, n + 1) \in Seq(Atom)
          /\ Len(SubSeq(t, m + 1, n + 1)) = IF m + 1 <= n + 1 THEN (n + 1) - (m + 1) + 1 ELSE 0
          /\ \A i \in 1 .. (n + 1) - (m + 1) + 1 : SubSeq(t, m + 1, n + 1)[i] = t[(m + 1) + i - 1]
      BY ONLY <1>2, SubSeqProperties
    <2> QED BY <2>1
  <1> DEFINE u == SubSeq(t, m + 1, n)
             w == SubSeq(t, m + 1, n + 1)
             a == t[n + 1]
  <1>5. a \in Atom
    BY <1>1
  <1> HIDE DEF u, w, a
  <1>6. /\ Append(u, a) \in Seq(Atom) /\ Len(Append(u, a)) = n - m + 1
        /\ \A i \in 1 .. n - m : Append(u, a)[i] = u[i]
        /\ Append(u, a)[n - m + 1] = a
    BY <1>3, <1>5, AppendProperties DEF u
  <1>7. \A i \in 1 .. n - m + 1 : w[i] = Append(u, a)[i]
    <2> SUFFICES ASSUME NEW i \in 1 .. n - m + 1 PROVE w[i] = Append(u, a)[i]
      OBVIOUS
    <2>1. CASE i = n - m + 1
      <3>1. m + i = n + 1
        BY <2>1
      <3> QED BY <1>4, <1>6, <2>1, <3>1 DEF w, a
    <2>2. CASE i # n - m + 1
      <3>1. i \in 1 .. n - m
        BY <2>2
      <3> QED BY <1>3, <1>4, <1>6, <3>1 DEF u, w
    <2> QED BY <2>1, <2>2
  <1>8. w = Append(u, a)
    BY <1>4, <1>6, <1>7, SeqEqual DEF w
  <1> QED BY <1>3, <1>5, <1>8, Strings DEF Str, u, w, a

LEMMA SubSeqNone ==
  ASSUME NEW t, NEW m \in Nat
  PROVE  SubSeq(t, m + 1, m) = <<>>
  BY SubSeqEmpty

(* What a stretch adds to what is shown: itself, if none of it is hidden,   *)
(* and nothing, if all of it is.                                            *)
LEMMA StretchShown ==
  ASSUME NEW t \in Str, NEW hidden, NEW m \in Nat, NEW n \in Nat, m <= n, n <= Len(t),
         (m + 1 .. n) \cap hidden = {}
  PROVE  FlattenSeq(First(Shown(t, hidden), n))
           = FlattenSeq(First(Shown(t, hidden), m)) \o SubSeq(t, m + 1, n)
  <1> DEFINE sh == Shown(t, hidden)
             all(k) == FlattenSeq(First(sh, k))
             part(k) == SubSeq(t, m + 1, k)
             S == {d \in Nat : m + d <= n => all(m + d) = all(m) \o part(m + d)}
  <1>0. sh \in Seq(Str) /\ Len(sh) = Len(t) /\ Len(t) \in Nat
    BY ShownType, Strings
  <1>9. \A k \in 1 .. Len(t) : sh[k] = IF k \in hidden THEN <<>> ELSE <<t[k]>>
    BY Strings DEF Shown
  <1>a. \A k \in Nat : k < Len(t) => FlattenSeq(First(sh, k)) \in Str
    BY <1>0, FirstAppend, FlattenType
  <1> HIDE DEF sh
  <1>1. 0 \in S
    <2>1. m + 0 = m /\ part(m) = <<>>
      BY SubSeqNone
    <2>2. all(m) \in Str
      <3>1. CASE m < Len(t)
        BY <1>a, <3>1
      <3>2. CASE m = Len(t)
        BY <1>0, <3>2, FirstAll, FlattenType
      <3> QED BY <1>0, <3>1, <3>2
    <2> HIDE DEF all, part
    <2>3. all(m) \o <<>> = all(m)
      BY <2>2, Strings
    <2> QED BY <2>1, <2>3
  <1>2. ASSUME NEW d \in S PROVE d + 1 \in S
    <2>1. d \in Nat
      OBVIOUS
    <2>a. m + (d + 1) <= n => all(m + (d + 1)) = all(m) \o part(m + (d + 1))
      <3> SUFFICES ASSUME m + (d + 1) <= n
                   PROVE  all(m + (d + 1)) = all(m) \o part(m + (d + 1))
        OBVIOUS
      <3> DEFINE k == m + d
      <3>2. /\ k \in Nat /\ m <= k /\ k < Len(sh) /\ k < Len(t) /\ m < Len(t)
            /\ m + (d + 1) = k + 1 /\ k + 1 \in 1 .. Len(t) /\ k + 1 \in m + 1 .. n
        BY <1>0, <2>1
      <3>3. all(k) = all(m) \o part(k)
        <4> HIDE DEF all, part
        <4>1. m + d <= n
          BY <2>1
        <4> QED BY <4>1
      <3> HIDE DEF k
      <3>4. sh[k + 1] = <<t[k + 1]>>
        BY <1>9, <3>2
      <3>5. all(k + 1) = all(k) \o sh[k + 1]
        BY ONLY <1>0, <3>2, FirstAppend
      <3>6. part(k) \in Str /\ part(k + 1) = part(k) \o <<t[k + 1]>>
        BY ONLY <3>2, t \in Str, m \in Nat, SubSeqGrows
      <3>7. all(m) \in Str /\ <<t[k + 1]>> \in Str
        BY <1>a, <3>2, Strings
      <3> HIDE DEF all, part
      <3>8. (all(m) \o part(k)) \o <<t[k + 1]>> = all(m) \o (part(k) \o <<t[k + 1]>>)
        BY ONLY <3>6, <3>7, StrAssoc, Zenon
      <3> QED BY <3>2, <3>3, <3>4, <3>5, <3>6, <3>8
    <2> HIDE DEF all, part
    <2> QED BY <2>1, <2>a
  <1>3. S \in SUBSET Nat
    OBVIOUS
  <1> HIDE DEF S
  <1>4. \A d \in Nat : d \in S
    BY ONLY <1>1, <1>2, <1>3, Induct
  <1>5. PICK e \in Nat : m + e = n
    <2>1. n - m \in Nat /\ m + (n - m) = n
      OBVIOUS
    <2> QED BY <2>1
  <1> HIDE DEF all, part
  <1>6. m + e <= n => all(m + e) = all(m) \o part(m + e)
    BY <1>4 DEF S
  <1>7. m + e <= n
    BY <1>5
  <1>8. all(n) = all(m) \o part(n)
    BY ONLY <1>5, <1>6, <1>7, Zenon
  <1> QED BY <1>8 DEF all, part, sh

LEMMA StretchHidden ==
  ASSUME NEW t \in Str, NEW hidden, NEW m \in Nat, NEW n \in Nat, m <= n, n <= Len(t),
         m + 1 .. n \subseteq hidden
  PROVE  FlattenSeq(First(Shown(t, hidden), n)) = FlattenSeq(First(Shown(t, hidden), m))
  <1> DEFINE sh == Shown(t, hidden)
             S == {d \in Nat : m + d <= n =>
                     FlattenSeq(First(sh, m + d)) = FlattenSeq(First(sh, m))}
  <1>0. sh \in Seq(Str) /\ Len(sh) = Len(t) /\ Len(t) \in Nat
    BY ShownType, Strings
  <1>9. \A k \in 1 .. Len(t) : sh[k] = IF k \in hidden THEN <<>> ELSE <<t[k]>>
    BY Strings DEF Shown
  <1>a. \A k \in Nat : k < Len(t) => FlattenSeq(First(sh, k)) \in Str
    BY <1>0, FirstAppend, FlattenType
  <1> HIDE DEF sh
  <1>1. 0 \in S
    OBVIOUS
  <1>2. ASSUME NEW d \in S PROVE d + 1 \in S
    <2>1. d \in Nat
      OBVIOUS
    <2> SUFFICES ASSUME m + (d + 1) <= n
                 PROVE  FlattenSeq(First(sh, m + (d + 1))) = FlattenSeq(First(sh, m))
      BY <2>1
    <2> DEFINE k == m + d
    <2>2. /\ k \in Nat /\ k < Len(sh) /\ k < Len(t) /\ m + (d + 1) = k + 1
          /\ k + 1 \in 1 .. Len(t) /\ k + 1 \in m + 1 .. n
      BY <1>0, <2>1
    <2>3. FlattenSeq(First(sh, k)) = FlattenSeq(First(sh, m))
      BY <2>1
    <2> HIDE DEF k
    <2>4. sh[k + 1] = <<>>
      BY <1>9, <2>2
    <2>5. FlattenSeq(First(sh, k + 1)) = FlattenSeq(First(sh, k)) \o sh[k + 1]
      BY ONLY <1>0, <2>2, FirstAppend
    <2>6. FlattenSeq(First(sh, k)) \o <<>> = FlattenSeq(First(sh, k))
      BY <1>a, <2>2, Strings
    <2> QED BY <2>2, <2>3, <2>4, <2>5, <2>6
  <1>3. S \in SUBSET Nat
    OBVIOUS
  <1> HIDE DEF S
  <1>4. \A d \in Nat : d \in S
    BY ONLY <1>1, <1>2, <1>3, Induct
  <1>5. n - m \in Nat /\ m + (n - m) = n
    OBVIOUS
  <1> QED BY <1>4, <1>5 DEF S, sh

(* The spans of a plan that can be walked are in order.                     *)
LEMMA SpansInOrder ==
  ASSUME NEW input, NEW P, Walkable(input, P), NEW i \in DOMAIN P, NEW j \in DOMAIN P, i < j
  PROVE  P[i].entity.end <= P[j].entity.start
  <1>1. /\ Len(P) \in Nat /\ DOMAIN P = 1 .. Len(P)
        /\ \A k \in 1 .. Len(P) : /\ P[k].entity.start \in Nat /\ P[k].entity.end \in Nat
                                  /\ P[k].entity.start <= P[k].entity.end
                                  /\ Cursor(P, k) <= P[k].entity.start
    <2>1. P \in Seq(Planned) /\ Len(P) \in Nat /\ DOMAIN P = 1 .. Len(P)
      BY DEF Walkable, PlanFits
    <2>2. \A k \in 1 .. Len(P) : P[k] \in Planned
      BY <2>1
    <2>3. \A k \in 1 .. Len(P) : P[k].entity.start \in Nat /\ P[k].entity.end \in Nat
      BY <2>2 DEF Planned, Entity
    <2>4. \A k \in 1 .. Len(P) : P[k].entity.start <= P[k].entity.end
                                   /\ Cursor(P, k) <= P[k].entity.start
      BY <2>1 DEF Walkable, PlanFits
    <2> QED BY <2>1, <2>3, <2>4
  <1> DEFINE S == {d \in Nat : i + d + 1 <= Len(P) => P[i].entity.end <= P[i + d + 1].entity.start}
  <1>2. \A k \in 1 .. Len(P) : k + 1 <= Len(P) => P[k].entity.end <= P[k + 1].entity.start
    <2> SUFFICES ASSUME NEW k \in 1 .. Len(P), k + 1 <= Len(P)
                 PROVE  P[k].entity.end <= P[k + 1].entity.start
      OBVIOUS
    <2>1. k + 1 \in 1 .. Len(P) /\ k + 1 # 1 /\ (k + 1) - 1 = k
      BY <1>1
    <2>2. Cursor(P, k + 1) = P[k].entity.end
      BY ONLY <2>1 DEF Cursor
    <2> QED BY <1>1, <2>1, <2>2
  <1>3. 0 \in S
    BY <1>1, <1>2
  <1>4. ASSUME NEW d \in S PROVE d + 1 \in S
    <2> SUFFICES ASSUME i + (d + 1) + 1 <= Len(P)
                 PROVE  P[i].entity.end <= P[i + (d + 1) + 1].entity.start
      OBVIOUS
    <2> DEFINE k == i + d + 1
    <2>1. k \in 1 .. Len(P) /\ k + 1 <= Len(P) /\ k + 1 \in 1 .. Len(P) /\ i + (d + 1) + 1 = k + 1
      BY <1>1
    <2>2. P[i].entity.end <= P[k].entity.start
      BY <1>1
    <2> HIDE DEF k, S
    <2>3. P[k].entity.start <= P[k].entity.end /\ P[k].entity.end <= P[k + 1].entity.start
      BY <1>1, <1>2, <2>1
    <2>4. /\ P[i].entity.end \in Nat /\ P[k].entity.start \in Nat /\ P[k].entity.end \in Nat
          /\ P[k + 1].entity.start \in Nat
      BY <1>1, <2>1
    <2> QED BY <2>1, <2>2, <2>3, <2>4
  <1>5. S \in SUBSET Nat
    OBVIOUS
  <1> HIDE DEF S
  <1>6. \A d \in Nat : d \in S
    BY ONLY <1>3, <1>4, <1>5, Induct
  <1>7. j - i - 1 \in Nat /\ i + (j - i - 1) + 1 = j /\ j <= Len(P)
    BY <1>1
  <1> QED BY <1>6, <1>7 DEF S

(* An entity ends before the walk is past it.                               *)
LEMMA CursorPasses ==
  ASSUME NEW input, NEW P, Walkable(input, P), NEW i \in 1 .. Len(P) + 1
  PROVE  /\ Len(P) \in Nat /\ DOMAIN P = 1 .. Len(P)
         /\ Cursor(P, i) \in Nat /\ Cursor(P, i) <= Len(input) /\ Len(input) \in Nat
         /\ \A j \in DOMAIN P : P[j].entity.start \in Nat /\ P[j].entity.end \in Nat
         /\ \A j \in DOMAIN P : j < i => P[j].entity.end <= Cursor(P, i)
  <1>1. Len(P) \in Nat /\ DOMAIN P = 1 .. Len(P) /\ Len(input) \in Nat
    BY DEF Walkable, PlanFits
  <1>2. \A j \in DOMAIN P : P[j].entity.start \in Nat /\ P[j].entity.end \in Nat
    <2>1. \A j \in DOMAIN P : P[j] \in Planned
      BY DEF Walkable, PlanFits
    <2> QED BY <2>1 DEF Planned, Entity
  <1>3. \A j \in DOMAIN P : P[j].entity.start <= P[j].entity.end /\ P[j].entity.end <= Len(input)
    BY DEF Walkable, PlanFits
  <1>4. CASE i = 1
    BY <1>1, <1>2, <1>4 DEF Cursor
  <1>5. CASE i # 1
    <2>1. i - 1 \in DOMAIN P /\ Cursor(P, i) = P[i - 1].entity.end
      BY <1>1, <1>5 DEF Cursor
    <2>2. ASSUME NEW j \in DOMAIN P, j < i PROVE P[j].entity.end <= Cursor(P, i)
      <3>1. CASE j = i - 1
        BY <1>2, <2>1, <3>1
      <3>2. CASE j # i - 1
        <4>1. j < i - 1
          BY <1>1, <2>2, <3>2
        <4>2. P[j].entity.end <= P[i - 1].entity.start
          BY <2>1, <4>1, SpansInOrder
        <4>3. P[i - 1].entity.start <= P[i - 1].entity.end
          BY <1>3, <2>1
        <4>4. P[j].entity.end \in Nat /\ P[i - 1].entity.start \in Nat /\ P[i - 1].entity.end \in Nat
          BY <1>2, <2>1
        <4> QED BY <2>1, <4>2, <4>3, <4>4
      <3> QED BY <3>1, <3>2
    <2>3. Cursor(P, i) \in Nat /\ Cursor(P, i) <= Len(input)
      BY <1>2, <1>3, <2>1
    <2> QED BY <1>1, <1>2, <2>2, <2>3
  <1> QED BY <1>4, <1>5

\* The positions of what a plan does not keep.
Hidden(P) ==
  UNION {(P[i].entity.start + 1) .. P[i].entity.end :
           i \in {j \in DOMAIN P : P[j].action # "keep"}}

LEMMA HiddenBy ==
  ASSUME NEW P, NEW k \in Hidden(P)
  PROVE  \E j \in DOMAIN P : P[j].action # "keep" /\ k \in P[j].entity.start + 1 .. P[j].entity.end
  BY DEF Hidden

LEMMA GapsShown ==
  ASSUME NEW input, NEW P, Walkable(input, P)
  PROVE  /\ \A i \in DOMAIN P : (Cursor(P, i) + 1 .. P[i].entity.start) \cap Hidden(P) = {}
         /\ (Cursor(P, Len(P) + 1) + 1 .. Len(input)) \cap Hidden(P) = {}
         /\ \A i \in DOMAIN P : P[i].action = "keep" =>
              (P[i].entity.start + 1 .. P[i].entity.end) \cap Hidden(P) = {}
  <1>0. Len(P) \in Nat /\ DOMAIN P = 1 .. Len(P) /\ Len(input) \in Nat
    BY DEF Walkable, PlanFits
  <1>1. \A j \in DOMAIN P : /\ P[j].entity.start \in Nat /\ P[j].entity.end \in Nat
                            /\ P[j].entity.start <= P[j].entity.end
    <2>1. 1 \in 1 .. Len(P) + 1
      BY <1>0
    <2>2. \A j \in DOMAIN P : P[j].entity.start \in Nat /\ P[j].entity.end \in Nat
      BY <2>1, CursorPasses
    <2> QED BY <2>2 DEF Walkable, PlanFits
  <1>2. ASSUME NEW i \in DOMAIN P, NEW k \in Cursor(P, i) + 1 .. P[i].entity.start, k \in Hidden(P)
        PROVE  FALSE
    <2>1. PICK j \in DOMAIN P : k \in P[j].entity.start + 1 .. P[j].entity.end
      BY <1>2, HiddenBy
    <2>2. i \in 1 .. Len(P) + 1 /\ i \in Nat /\ j \in Nat
      BY <1>0
    <2>3. Cursor(P, i) \in Nat /\ (j < i => P[j].entity.end <= Cursor(P, i))
      BY <2>2, CursorPasses
    <2>4. i < j => P[i].entity.end <= P[j].entity.start
      BY SpansInOrder
    <2> QED BY <1>1, <1>2, <2>1, <2>2, <2>3, <2>4
  <1>3. ASSUME NEW k \in Cursor(P, Len(P) + 1) + 1 .. Len(input), k \in Hidden(P)
        PROVE  FALSE
    <2>1. PICK j \in DOMAIN P : k \in P[j].entity.start + 1 .. P[j].entity.end
      BY <1>3, HiddenBy
    <2>2. Len(P) + 1 \in 1 .. Len(P) + 1 /\ j < Len(P) + 1
      BY <1>0
    <2>3. Cursor(P, Len(P) + 1) \in Nat /\ P[j].entity.end <= Cursor(P, Len(P) + 1)
      BY <2>2, CursorPasses
    <2> QED BY <1>0, <1>1, <1>3, <2>1, <2>3
  <1>4. ASSUME NEW i \in DOMAIN P, P[i].action = "keep",
               NEW k \in P[i].entity.start + 1 .. P[i].entity.end, k \in Hidden(P)
        PROVE  FALSE
    <2>1. PICK j \in DOMAIN P :
            P[j].action # "keep" /\ k \in P[j].entity.start + 1 .. P[j].entity.end
      BY <1>4, HiddenBy
    <2>2. i # j /\ i \in Nat /\ j \in Nat
      BY <1>0, <1>4, <2>1
    <2>3. (i < j => P[i].entity.end <= P[j].entity.start)
          /\ (j < i => P[j].entity.end <= P[i].entity.start)
      BY SpansInOrder
    <2> QED BY <1>1, <1>4, <2>1, <2>2, <2>3
  <1> QED BY <1>2, <1>3, <1>4

(* A walk that leaves out what is not kept is what is shown of the input.   *)
LEMMA WalkShown ==
  ASSUME NEW input, NEW P, Walkable(input, P)
  PROVE  Walk(input, P, [i \in DOMAIN P |-> IF P[i].action = "keep" THEN P[i].entity.value ELSE <<>>])
           = FlattenSeq(Shown(input, Hidden(P)))
  <1> DEFINE r == [i \in DOMAIN P |-> IF P[i].action = "keep" THEN P[i].entity.value ELSE <<>>]
             pieces == Pieces(input, P, r)
             walked(n) == FlattenSeq(First(pieces, n))
             shown(n) == FlattenSeq(First(Shown(input, Hidden(P)), n))
  <1>0. Len(P) \in Nat /\ DOMAIN P = 1 .. Len(P) /\ Len(input) \in Nat /\ input \in Str
    BY Characters DEF Walkable, PlanFits
  <1>1. \A i \in DOMAIN P :
          /\ P[i].entity.start \in Nat /\ P[i].entity.end \in Nat /\ Cursor(P, i) \in Nat
          /\ Cursor(P, i) <= P[i].entity.start /\ P[i].entity.start <= P[i].entity.end
          /\ P[i].entity.end <= Len(input)
          /\ P[i].entity.value = SubSeq(input, P[i].entity.start + 1, P[i].entity.end)
          /\ P[i].entity.value \in Seq(Letter)
    <2>1. \A i \in DOMAIN P : i \in 1 .. Len(P) + 1
      BY <1>0
    <2>2. \A i \in DOMAIN P : P[i].entity.start \in Nat /\ P[i].entity.end \in Nat /\ Cursor(P, i) \in Nat
      BY <2>1, CursorPasses
    <2>3. \A i \in DOMAIN P : P[i] \in Planned
      BY DEF Walkable, PlanFits
    <2>4. \A i \in DOMAIN P : P[i].entity.value \in Seq(Letter)
      BY <2>3 DEF Planned, Entity
    <2> QED BY <2>2, <2>4 DEF Walkable, PlanFits
  <1>2. \A i \in DOMAIN P : r[i] \in Str
    BY <1>1, Characters, Strings
  <1>3. /\ pieces \in Seq(Str) /\ Len(pieces) = Len(P)
        /\ \A i \in DOMAIN P : pieces[i] = SubSeq(input, Cursor(P, i) + 1, P[i].entity.start) \o r[i]
    <2> HIDE DEF r
    <2>1. pieces \in Seq(Str) /\ Len(pieces) = Len(P)
      BY <1>2, WalkType
    <2>2. \A i \in DOMAIN P :
            pieces[i] = SubSeq(input, Cursor(P, i) + 1, P[i].entity.start) \o r[i]
      BY DEF Pieces
    <2> QED BY <2>1, <2>2
  <1>4. Shown(input, Hidden(P)) \in Seq(Str) /\ Len(Shown(input, Hidden(P))) = Len(input)
    BY <1>0, ShownType
  <1>5. \A n \in Nat : n <= Len(input) => shown(n) \in Str
    <2> SUFFICES ASSUME NEW n \in Nat, n <= Len(input) PROVE shown(n) \in Str
      OBVIOUS
    <2>1. CASE n = Len(input)
      BY <1>4, <2>1, FirstAll, FlattenType
    <2>2. CASE n < Len(input)
      BY <1>4, <2>2, FirstAppend, FlattenType
    <2> QED BY <1>0, <2>1, <2>2
  <1>a. ASSUME NEW m \in Nat, NEW n \in Nat, m <= n, n <= Len(input),
               (m + 1 .. n) \cap Hidden(P) = {}
        PROVE  shown(n) = shown(m) \o SubSeq(input, m + 1, n)
    <2>0. input \in Str
      BY <1>0
    <2>1. FlattenSeq(First(Shown(input, Hidden(P)), n))
            = FlattenSeq(First(Shown(input, Hidden(P)), m)) \o SubSeq(input, m + 1, n)
      BY ONLY <2>0, <1>a, StretchShown, Zenon
    <2> QED BY ONLY <2>1
  <1>6. ASSUME NEW i \in DOMAIN P
        PROVE  shown(P[i].entity.end) = shown(Cursor(P, i)) \o pieces[i]
    <2> DEFINE a == Cursor(P, i)
               b == P[i].entity.start
               e == P[i].entity.end
    <2>1. /\ a \in Nat /\ b \in Nat /\ e \in Nat /\ a <= b /\ b <= e /\ e <= Len(input)
          /\ b <= Len(input) /\ a <= Len(input)
      BY <1>0, <1>1
    <2>2. (a + 1 .. b) \cap Hidden(P) = {}
      BY GapsShown
    <2>3. SubSeq(input, a + 1, b) \in Str /\ r[i] \in Str
      BY <1>2, GapsAreCharacters, Characters
    <2>4. pieces[i] = SubSeq(input, a + 1, b) \o r[i]
      BY <1>3
    <2>5. r[i] = IF P[i].action = "keep" THEN SubSeq(input, b + 1, e) ELSE <<>>
      BY <1>1
    <2>6. P[i].action = "keep" => (b + 1 .. e) \cap Hidden(P) = {}
      BY GapsShown
    <2>7. P[i].action # "keep" => b + 1 .. e \subseteq Hidden(P)
      BY DEF Hidden
    <2> HIDE DEF a, b, e, r, pieces
    <2>8. shown(b) = shown(a) \o SubSeq(input, a + 1, b)
      BY ONLY <1>a, <2>1, <2>2
    <2>9. shown(e) = shown(b) \o r[i]
      <3>1. CASE P[i].action = "keep"
        <4>1. shown(e) = shown(b) \o SubSeq(input, b + 1, e)
          BY ONLY <1>0, <1>a, <2>1, <2>6, <3>1
        <4> HIDE DEF shown
        <4> QED BY <2>5, <3>1, <4>1
      <3>2. CASE P[i].action # "keep"
        <4>1. shown(e) = shown(b)
          BY <1>0, <2>1, <2>7, <3>2, StretchHidden DEF shown
        <4>2. shown(b) \in Str
          BY <1>5, <2>1
        <4> HIDE DEF shown
        <4> QED BY <2>5, <3>2, <4>1, <4>2, Strings
      <3> QED BY <3>1, <3>2
    <2>10. shown(a) \in Str
      BY <1>5, <2>1
    <2> HIDE DEF shown
    <2>11. (shown(a) \o SubSeq(input, a + 1, b)) \o r[i] = shown(a) \o (SubSeq(input, a + 1, b) \o r[i])
      BY ONLY <2>3, <2>10, StrAssoc, Zenon
    <2>12. shown(e) = shown(a) \o pieces[i]
      BY ONLY <2>4, <2>8, <2>9, <2>11
    <2> QED BY <2>12 DEF a, e
  <1> DEFINE S == {n \in Nat : n <= Len(P) => walked(n) = shown(Cursor(P, n + 1))}
  <1>7. 0 \in S
    <2>1. Cursor(P, 0 + 1) = 0
      BY DEF Cursor
    <2>2. walked(0) = <<>> /\ shown(0) = <<>>
      BY FirstNone
    <2> HIDE DEF walked, shown
    <2> QED BY <2>1, <2>2
  <1>8. ASSUME NEW n \in S PROVE n + 1 \in S
    <2>1. n \in Nat
      OBVIOUS
    <2>2. ASSUME n + 1 <= Len(P) PROVE walked(n + 1) = shown(Cursor(P, (n + 1) + 1))
      <3>1. /\ n + 1 \in DOMAIN P /\ n < Len(pieces) /\ n <= Len(P)
            /\ Cursor(P, (n + 1) + 1) = P[n + 1].entity.end
        <4>1. n + 1 \in DOMAIN P /\ n < Len(pieces) /\ n <= Len(P) /\ (n + 1) + 1 # 1
              /\ ((n + 1) + 1) - 1 = n + 1
          <5> HIDE DEF pieces, S
          <5> QED BY <1>0, <1>3, <2>1, <2>2
        <4> QED BY <4>1 DEF Cursor
      <3>2. walked(n + 1) = walked(n) \o pieces[n + 1]
        <4> HIDE DEF pieces
        <4> QED BY <1>3, <2>1, <3>1, FirstAppend
      <3>3. walked(n) = shown(Cursor(P, n + 1))
        <4> HIDE DEF walked, shown
        <4> QED BY <3>1
      <3>4. shown(P[n + 1].entity.end) = shown(Cursor(P, n + 1)) \o pieces[n + 1]
        BY <1>6, <3>1
      <3> HIDE DEF walked, shown, pieces
      <3> QED BY <3>1, <3>2, <3>3, <3>4
    <2> HIDE DEF walked, shown
    <2> QED BY <2>1, <2>2
  <1>9. S \in SUBSET Nat
    OBVIOUS
  <1> HIDE DEF S
  <1>10. \A n \in Nat : n \in S
    BY ONLY <1>7, <1>8, <1>9, Induct
  <1> HIDE DEF walked, shown
  <1>11. walked(Len(P)) = shown(Cursor(P, Len(P) + 1))
    BY <1>0, <1>10 DEF S
  <1>12. walked(Len(P)) = FlattenSeq(pieces)
    BY <1>3, FirstAll DEF walked
  <1>13. shown(Len(input)) = shown(Cursor(P, Len(P) + 1)) \o After(input, P)
    <2> DEFINE a == Cursor(P, Len(P) + 1)
    <2>1. Len(P) + 1 \in 1 .. Len(P) + 1
      BY <1>0
    <2>2. a \in Nat /\ a <= Len(input)
      BY <2>1, CursorPasses
    <2>3. (a + 1 .. Len(input)) \cap Hidden(P) = {}
      BY GapsShown
    <2> HIDE DEF a
    <2>4. shown(Len(input)) = shown(a) \o SubSeq(input, a + 1, Len(input))
      <3>1. Len(input) <= Len(input)
        BY <1>0
      <3> QED BY ONLY <1>0, <1>a, <2>2, <2>3, <3>1, Zenon
    <2> QED BY <2>4 DEF a, After
  <1>14. shown(Len(input)) = FlattenSeq(Shown(input, Hidden(P)))
    BY <1>4, FirstAll DEF shown
  <1>15. Walk(input, P, r) = FlattenSeq(pieces) \o After(input, P)
    BY WalkIs
  <1> HIDE DEF r, pieces
  <1>16. Walk(input, P, r) = FlattenSeq(Shown(input, Hidden(P)))
    BY <1>11, <1>12, <1>13, <1>14, <1>15
  <1> QED BY <1>16 DEF r

\* What is left of a text without its placeholders.
Raw == [a \in Atom |-> IF a \in Letter THEN <<a>> ELSE <<>>]

LEMMA RawIsMap ==
  /\ Raw \in Maps
  /\ \A a \in Letter : Sub(Raw, <<a>>) = <<a>>
  /\ \A a \in Token \cup Kind \cup {Redacted} : Sub(Raw, <<a>>) = <<>>
  /\ \A t \in Seq(Letter) : Sub(Raw, t) = t
  <1>1. Raw \in Maps
    BY Strings DEF Raw, Maps
  <1>2. \A a \in Letter : a \in Atom /\ Raw[a] = <<a>>
    BY Characters DEF Raw
  <1>3. \A a \in Token \cup Kind \cup {Redacted} : a \in Atom /\ Raw[a] = <<>>
    BY Characters, AtomAssumption DEF Raw
  <1>4. ASSUME NEW t \in Seq(Letter) PROVE Sub(Raw, t) = t
    <2>1. t \in Str /\ \A i \in DOMAIN t : t[i] \in Letter
      BY Characters
    <2> QED BY <1>1, <1>2, <2>1, SubSame
  <1> QED BY <1>1, <1>2, <1>3, <1>4, SubOne

(* What no decision touches comes back as it was, and nothing else does.    *)
THEOREM WhatIsNotPlannedSurvives == Spec => []RestIsUntouched
  <1>1. ASSUME TextInv, NEW g \in given, g.transformer \notin {"mask", "process"}
        PROVE  FlattenSeq(Mapped(Raw, g.text)) = FlattenSeq(Shown(g.input, Hidden(g.plan)))
    <2> DEFINE how == g.transformer
               P == g.plan
               M == g.mappings
               r == [i \in DOMAIN P |-> Replacement(how, P[i], M)]
               u == [i \in DOMAIN P |-> IF P[i].action = "keep" THEN P[i].entity.value ELSE <<>>]
    <2>1. /\ PlanFits(g.input, P) /\ Walkable(g.input, P) /\ ~Has(P, "block")
          /\ how \in {"pseudonymize", "generalize"} /\ g.text = Walk(g.input, P, r)
          /\ how = "pseudonymize" => Covers(M, P)
          /\ Known(g.scope, M)
      BY <1>1 DEF TextInv, Written, Walkable
    <2>2. \A m \in M : m.token \in Token
      BY <1>1, <2>1 DEF Known, TextInv
    <2>3. ASSUME NEW i \in DOMAIN P PROVE r[i] \in Str /\ Sub(Raw, r[i]) = u[i]
      <3>1. r[i] \in Str
        BY <2>1, <2>2, ReplacementType
      <3>2. /\ P[i].action \in Action \ {"block"}
            /\ P[i].entity.value \in Seq(Letter) /\ P[i].entity.kind \in Kind
        <4>1. P[i] \in Planned
          BY <2>1 DEF PlanFits
        <4> QED BY <2>1, <4>1 DEF Has, Planned, Entity
      <3>3. CASE P[i].action = "keep"
        <4>1. r[i] = P[i].entity.value /\ u[i] = P[i].entity.value
          BY <3>3 DEF Replacement
        <4> HIDE DEF r, u
        <4> QED BY <3>1, <3>2, <4>1, RawIsMap
      <3>4. CASE P[i].action = "redact"
        <4>1. r[i] = <<Redacted>> /\ u[i] = <<>>
          BY <3>4 DEF Replacement
        <4> QED BY <3>1, <4>1, RawIsMap
      <3>5. CASE P[i].action = "pseudonymize" /\ how = "pseudonymize"
        <4>1. <<P[i].entity.kind, P[i].entity.value>> \in Pseudonymized(P)
          BY <3>5 DEF Pseudonymized
        <4>2. \E m \in M : m.kind = P[i].entity.kind /\ m.original = P[i].entity.value
          BY <2>1, <3>5, <4>1 DEF Covers
        <4>3. PICK k \in Token : k = TokenFor(P[i].entity, M)
          BY <2>2, <4>2 DEF TokenFor
        <4>4. r[i] = <<k>> /\ u[i] = <<>>
          BY <3>5, <4>3 DEF Replacement
        <4> QED BY <3>1, <4>4, RawIsMap
      <3>6. CASE P[i].action = "pseudonymize" /\ how = "generalize"
        <4>1. r[i] = <<P[i].entity.kind>> /\ u[i] = <<>>
          BY <3>6 DEF Replacement, KindToken
        <4> QED BY <3>1, <3>2, <4>1, RawIsMap
      <3> HIDE DEF r, u
      <3> QED BY <2>1, <3>2, <3>3, <3>4, <3>5, <3>6, <3>1 DEF Action
    <2>4. Walk(g.input, P, u) = FlattenSeq(Shown(g.input, Hidden(P)))
      BY <2>1, WalkShown
    <2> HIDE DEF r, u, P
    <2>5. Sub(Raw, Walk(g.input, P, r)) = Walk(g.input, P, u)
      BY <2>1, <2>3, RawIsMap, SubWalk
    <2> QED BY <2>1, <2>4, <2>5 DEF Sub, P
  <1>2. TextInv => RestIsUntouched
    <2> SUFFICES ASSUME TextInv, NEW g \in given, g.transformer \notin {"mask", "process"}
                 PROVE  FlattenSeq([n \in DOMAIN g.text |->
                                      IF g.text[n] \in Letter THEN <<g.text[n]>> ELSE <<>>])
                          = FlattenSeq([n \in DOMAIN g.input |->
                              IF n \in Hidden(g.plan) THEN <<>> ELSE <<g.input[n]>>])
      BY DEF RestIsUntouched, Hidden
    <2>1. g.text \in Str
      BY DEF TextInv, Written
    <2>2. \A n \in DOMAIN g.text : g.text[n] \in Atom
      BY <2>1, Strings
    <2>3. Mapped(Raw, g.text) = [n \in DOMAIN g.text |->
            IF g.text[n] \in Letter THEN <<g.text[n]>> ELSE <<>>]
      BY <2>2 DEF Mapped, Raw
    <2>4. FlattenSeq(Mapped(Raw, g.text)) = FlattenSeq(Shown(g.input, Hidden(g.plan)))
      BY <1>1
    <2> QED BY <2>3, <2>4 DEF Shown
  <1> QED BY <1>2, TextInvariant, PTL
=============================================================================
