------------------------ MODULE ResolveWhileUnknown ------------------------
(***************************************************************************)
(* What the geolocation of cells promises as long as nothing fails,        *)
(* without queue, deduplication window, workers, batches and executions:   *)
(* a question is put to the third-party API only while nothing is known of *)
(* it and nobody else has put it; the answer becomes known, and is         *)
(* forgotten after a while; who asks is told what is known at the time.    *)
(***************************************************************************)
CONSTANTS
  Questions,  \* what the API can be asked
  Askers,
  QuestionOf  \* the question of each asker

VARIABLES
  open,   \* questions put to the API and not answered yet
  known,  \* per question: what is known of it
  told    \* per asker: what he was told

vars == <<open, known, told>>

\* There is an answer, or the API has none.
Outcomes == {"found", "nothing"}

TypeOK ==
  /\ open \in SUBSET Questions
  /\ known \in [Questions -> Outcomes \cup {"unknown"}]
  /\ told \in [Askers -> Outcomes \cup {"unknown"}]

Init ==
  /\ open = {}
  /\ known = [q \in Questions |-> "unknown"]
  /\ told = [a \in Askers |-> "unknown"]

PutQuestion(q) ==
  /\ q \notin open
  /\ known[q] = "unknown"
  /\ open' = open \cup {q}
  /\ UNCHANGED <<known, told>>

Learn(q, outcome) ==
  /\ q \in open
  /\ known[q] = "unknown"
  /\ open' = open \ {q}
  /\ known' = [known EXCEPT ![q] = outcome]
  /\ UNCHANGED told

Forget(q) ==
  /\ q \notin open
  /\ known[q] # "unknown"
  /\ known' = [known EXCEPT ![q] = "unknown"]
  /\ UNCHANGED <<open, told>>

\* Who was told an answer does not ask again.
Tell(a) ==
  /\ told[a] = "unknown"
  /\ known[QuestionOf[a]] # "unknown"
  /\ told' = [told EXCEPT ![a] = known[QuestionOf[a]]]
  /\ UNCHANGED <<open, known>>

Next ==
  \/ \E q \in Questions : PutQuestion(q) \/ Forget(q)
  \/ \E q \in Questions, outcome \in Outcomes : Learn(q, outcome)
  \/ \E a \in Askers : Tell(a)

Spec == Init /\ [][Next]_vars
=============================================================================
