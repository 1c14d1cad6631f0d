------------------------- MODULE MCCellGeolocation -------------------------
(***************************************************************************)
(* Small instances of the cell geolocation for TLC.                        *)
(***************************************************************************)
EXTENDS CellGeolocationProperties, TLC

CONSTANTS u1, u2, here, w1, w2

\* Two users who ask for the same cell, or one.
SameCell == (u1 :> here) @@ (u2 :> here)

OneUser == u1 :> here
=============================================================================
