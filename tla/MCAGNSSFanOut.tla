--------------------------- MODULE MCAGNSSFanOut ---------------------------
(***************************************************************************)
(* Small instances of the A-GNSS fan-out for TLC.                          *)
(***************************************************************************)
EXTENDS AGNSSFanOutProperties, TLC

CONSTANTS r1, r2, here, there, i1, i2

\* Two devices in the same cell.
SameCell == (r1 :> here) @@ (r2 :> here)

\* Two devices in different cells, which one batch can hold.
TwoCells == (r1 :> here) @@ (r2 :> there)

\* One device.
OneDevice == r1 :> here

\* Instances are interchangeable.
InstanceSymmetry == Permutations({i1, i2})

\* So are devices together with their cells.
SameCells == (r1 :> r1) @@ (r2 :> r2) @@ (here :> here) @@ (there :> there)

SwappedCells == (r1 :> r2) @@ (r2 :> r1) @@ (here :> there) @@ (there :> here)

TwoCellsSymmetry == {i @@ c : i \in InstanceSymmetry, c \in {SameCells, SwappedCells}}
=============================================================================
