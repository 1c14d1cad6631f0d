---------------------------- MODULE ResolveOnce ----------------------------
(***************************************************************************)
(* What the fan-outs and geolocation services promise, without queues,     *)
(* tables, caches and instances: a question is put to the third-party API  *)
(* at most once, however many ask it; the answer is learned once, or lost  *)
(* for good; and who asks is told nothing but what was learned about a     *)
(* question of his.                                                        *)
(***************************************************************************)
CONSTANTS
  Questions,   \* what the API can be asked
  Askers,
  QuestionsOf  \* the questions that answer an asker

VARIABLES
  put,      \* questions put to the API
  learned,  \* per question: what came of it
  told      \* per asker: what he was told

vars == <<put, learned, told>>

\* There is an answer, or the API has none.
Outcomes == {"found", "nothing"}

TypeOK ==
  /\ put \in SUBSET Questions
  /\ learned \in [Questions -> Outcomes \cup {"open", "lost"}]
  /\ told \in [Askers -> SUBSET Outcomes]

Init ==
  /\ put = {}
  /\ learned = [q \in Questions |-> "open"]
  /\ told = [a \in Askers |-> {}]

PutQuestion(q) ==
  /\ q \notin put
  /\ put' = put \cup {q}
  /\ UNCHANGED <<learned, told>>

Learn(q, outcome) ==
  /\ q \in put
  /\ learned[q] = "open"
  /\ learned' = [learned EXCEPT ![q] = outcome]
  /\ UNCHANGED <<put, told>>

\* Whoever asked the API fails before the answer is kept.
Lose(q) ==
  /\ q \in put
  /\ learned[q] = "open"
  /\ learned' = [learned EXCEPT ![q] = "lost"]
  /\ UNCHANGED <<put, told>>

\* Some are told at a time.
Tell(some, outcome) ==
  /\ \A a \in some : \E q \in QuestionsOf[a] : learned[q] = outcome
  /\ told' = [a \in Askers |-> IF a \in some THEN told[a] \cup {outcome} ELSE told[a]]
  /\ UNCHANGED <<put, learned>>

Next ==
  \/ \E q \in Questions : PutQuestion(q) \/ Lose(q)
  \/ \E q \in Questions, outcome \in Outcomes : Learn(q, outcome)
  \/ \E some \in SUBSET Askers, outcome \in Outcomes : Tell(some, outcome)

Spec == Init /\ [][Next]_vars

-----------------------------------------------------------------------------

(***************************************************************************)
(* Nobody is told an outcome that no question of his has: neither one of a *)
(* question that others asked, nor one that was overtaken by another.      *)
(***************************************************************************)
ToldIsLearned ==
  \A a \in Askers : \A outcome \in told[a] :
    \E q \in QuestionsOf[a] : q \in put /\ learned[q] = outcome

(***************************************************************************)
(* Whoever asks the same single question, and however often, is told the   *)
(* same: there is no second opinion.                                       *)
(***************************************************************************)
AskersAgree ==
  \A a, b \in Askers, q \in Questions :
    QuestionsOf[a] = {q} /\ QuestionsOf[b] = {q} =>
      \A one \in told[a], other \in told[b] : one = other

(***************************************************************************)
(* What was learned stays, a lost question is never put again, and nothing *)
(* that was told is taken back.                                            *)
(***************************************************************************)
NothingIsUndone ==
  [][/\ put \subseteq put'
     /\ \A q \in Questions : learned[q] # "open" => learned'[q] = learned[q]
     /\ \A a \in Askers : told[a] \subseteq told'[a]]_vars
=============================================================================
