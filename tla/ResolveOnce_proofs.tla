------------------------ MODULE ResolveOnce_proofs -------------------------
(***************************************************************************)
(* What module ResolveOnce promises follows from its steps, for any        *)
(* questions and askers.  The fan-outs and the survey geolocation          *)
(* implement its specification, and so each of them keeps these promises.  *)
(***************************************************************************)
EXTENDS ResolveOnce, TLAPS

\* What was not put has no outcome.
OutcomesAreOfPut == \A q \in Questions : learned[q] # "open" => q \in put

PromiseInvariant == TypeOK /\ OutcomesAreOfPut /\ ToldIsLearned

LEMMA NextTypeOK == TypeOK /\ [Next]_vars => TypeOK'
<1> SUFFICES ASSUME TypeOK, [Next]_vars PROVE TypeOK'
  OBVIOUS
<1> USE DEF TypeOK
<1>1. ASSUME NEW q \in Questions, PutQuestion(q) PROVE TypeOK'
  BY <1>1 DEF PutQuestion
<1>2. ASSUME NEW q \in Questions, Lose(q) PROVE TypeOK'
  BY <1>2 DEF Lose
<1>3. ASSUME NEW q \in Questions, NEW outcome \in Outcomes, Learn(q, outcome) PROVE TypeOK'
  BY <1>3 DEF Learn
<1>4. ASSUME NEW some \in SUBSET Askers, NEW outcome \in Outcomes, Tell(some, outcome)
      PROVE  TypeOK'
  <2>1. \A a \in Askers : (IF a \in some THEN told[a] \cup {outcome} ELSE told[a]) \in SUBSET Outcomes
    BY <1>4
  <2> QED
    BY <1>4, <2>1 DEF Tell
<1>5. CASE UNCHANGED vars
  BY <1>5 DEF vars
<1> QED
  BY <1>1, <1>2, <1>3, <1>4, <1>5 DEF Next

\* The questions that have an outcome keep it in every step.
LEMMA OutcomesStay ==
  ASSUME TypeOK, [Next]_vars
  PROVE  /\ put \subseteq put'
         /\ \A q \in Questions : learned[q] # "open" => learned'[q] = learned[q]
         /\ \A a \in Askers : told[a] \subseteq told'[a]
<1> USE DEF TypeOK
<1>1. ASSUME NEW q \in Questions, PutQuestion(q) \/ Lose(q)
      PROVE  /\ put \subseteq put' /\ told' = told
             /\ \A p \in Questions : learned[p] # "open" => learned'[p] = learned[p]
  BY <1>1 DEF PutQuestion, Lose
<1>2. ASSUME NEW q \in Questions, NEW outcome \in Outcomes, Learn(q, outcome)
      PROVE  /\ put \subseteq put' /\ told' = told
             /\ \A p \in Questions : learned[p] # "open" => learned'[p] = learned[p]
  BY <1>2 DEF Learn
<1>3. ASSUME NEW some \in SUBSET Askers, NEW outcome \in Outcomes, Tell(some, outcome)
      PROVE  /\ UNCHANGED <<put, learned>>
             /\ \A a \in Askers : told[a] \subseteq told'[a]
  BY <1>3 DEF Tell
<1>4. CASE UNCHANGED vars
  BY <1>4 DEF vars
<1> QED
  BY <1>1, <1>2, <1>3, <1>4 DEF Next

LEMMA NextPromise ==
  ASSUME QuestionsOf \in [Askers -> SUBSET Questions], PromiseInvariant, [Next]_vars
  PROVE  PromiseInvariant'
<1> USE DEF PromiseInvariant
<1>1. TypeOK'
  BY NextTypeOK
<1>2. OutcomesAreOfPut'
  <2>1. ASSUME NEW q \in Questions, PutQuestion(q) PROVE OutcomesAreOfPut'
    BY <2>1 DEF PutQuestion, OutcomesAreOfPut
  <2>2. ASSUME NEW q \in Questions, Lose(q) PROVE OutcomesAreOfPut'
    BY <2>2 DEF Lose, OutcomesAreOfPut, TypeOK
  <2>3. ASSUME NEW q \in Questions, NEW outcome \in Outcomes, Learn(q, outcome)
        PROVE  OutcomesAreOfPut'
    BY <2>3 DEF Learn, OutcomesAreOfPut, TypeOK
  <2>4. ASSUME UNCHANGED <<put, learned>> PROVE OutcomesAreOfPut'
    BY <2>4 DEF OutcomesAreOfPut
  <2> QED
    BY <2>1, <2>2, <2>3, <2>4 DEF Next, Tell, vars
<1>3. ToldIsLearned'
  <2> SUFFICES ASSUME NEW a \in Askers, NEW outcome \in told'[a]
               PROVE  \E q \in QuestionsOf[a] : q \in put' /\ learned'[q] = outcome
    BY DEF ToldIsLearned
  <2>1. outcome \in Outcomes
    BY <1>1 DEF TypeOK
  <2>2. CASE outcome \in told[a]
    <3>1. PICK q \in QuestionsOf[a] : q \in put /\ learned[q] = outcome
      BY <2>2 DEF ToldIsLearned
    <3>2. q \in Questions /\ learned[q] # "open"
      BY <2>1, <3>1 DEF Outcomes
    <3> QED
      BY <3>1, <3>2, OutcomesStay
  <2>3. CASE outcome \notin told[a]
    <3>1. PICK some \in SUBSET Askers, said \in Outcomes : Tell(some, said)
      BY <2>3 DEF Next, PutQuestion, Lose, Learn, vars
    <3>2. a \in some /\ outcome = said
      BY <2>3, <3>1 DEF Tell
    <3>3. PICK q \in QuestionsOf[a] : learned[q] = outcome
      BY <3>1, <3>2 DEF Tell
    <3>4. q \in put
      BY <2>1, <3>3 DEF OutcomesAreOfPut, Outcomes
    <3> QED
      BY <3>1, <3>3, <3>4 DEF Tell
  <2> QED
    BY <2>2, <2>3
<1> QED
  BY <1>1, <1>2, <1>3

LEMMA PromiseInvariantHolds ==
  ASSUME QuestionsOf \in [Askers -> SUBSET Questions]
  PROVE  Spec => []PromiseInvariant
<1>1. Init => PromiseInvariant
  BY DEF Init, PromiseInvariant, TypeOK, OutcomesAreOfPut, ToldIsLearned
<1>2. PromiseInvariant /\ [Next]_vars => PromiseInvariant'
  BY NextPromise
<1> QED
  BY <1>1, <1>2, PTL DEF Spec

(***************************************************************************)
(* Who asks is told only outcomes of his own questions, for ever: the      *)
(* outcome that was current when he was told is never overtaken.           *)
(***************************************************************************)
THEOREM ToldWhatWasLearned ==
  ASSUME QuestionsOf \in [Askers -> SUBSET Questions]
  PROVE  Spec => []ToldIsLearned
<1>1. PromiseInvariant => ToldIsLearned
  BY DEF PromiseInvariant
<1> QED
  BY <1>1, PromiseInvariantHolds, PTL

(***************************************************************************)
(* Askers of the same single question are never told different outcomes.   *)
(***************************************************************************)
THEOREM NoSecondOpinion ==
  ASSUME QuestionsOf \in [Askers -> SUBSET Questions]
  PROVE  Spec => []AskersAgree
<1>1. PromiseInvariant => AskersAgree
  BY DEF PromiseInvariant, ToldIsLearned, AskersAgree
<1> QED
  BY <1>1, PromiseInvariantHolds, PTL

(***************************************************************************)
(* No step takes back what was put, learned, lost or told.                 *)
(***************************************************************************)
THEOREM OnlyAdds == Spec => NothingIsUndone
<1>1. Init => TypeOK
  BY DEF Init, TypeOK
<1>2. TypeOK /\ [Next]_vars => TypeOK'
  BY NextTypeOK
<1>3. TypeOK /\ [Next]_vars =>
        [/\ put \subseteq put'
         /\ \A q \in Questions : learned[q] # "open" => learned'[q] = learned[q]
         /\ \A a \in Askers : told[a] \subseteq told'[a]]_vars
  BY OutcomesStay
<1> QED
  BY <1>1, <1>2, <1>3, PTL DEF Spec, NothingIsUndone
=============================================================================
