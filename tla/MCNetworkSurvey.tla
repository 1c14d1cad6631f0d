-------------------------- MODULE MCNetworkSurvey --------------------------
(***************************************************************************)
(* Small instances of the network surveys for TLC.                         *)
(***************************************************************************)
EXTENDS NetworkSurveyProperties, TLC

CONSTANTS u1, u2, s1

\* Two users who ask for the same survey.
SameSurvey == (u1 :> s1) @@ (u2 :> s1)

UserSymmetry == Permutations({u1, u2})
=============================================================================
