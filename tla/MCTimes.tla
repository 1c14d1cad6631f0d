------------------------------ MODULE MCTimes ------------------------------
(***************************************************************************)
(* The requeue delays and the life of the cache entries for TLC.  The two  *)
(* have no state in common: a behaviour follows the one or the other.      *)
(***************************************************************************)
EXTENDS RequeueBackoff, EntryLifetime

UpToNineSeconds == 0..9

TimesInit == Init /\ LifetimeInit

BackoffStep == LifetimeInit /\ Next /\ UNCHANGED lifetimeVars

LifetimeStep == Init /\ LifetimeNext /\ UNCHANGED vars

TimesNext == BackoffStep \/ LifetimeStep

TimesSpec == TimesInit /\ [][TimesNext]_<<vars, lifetimeVars>>
=============================================================================
