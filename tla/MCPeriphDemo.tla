--------------------------- MODULE MCPeriphDemo ---------------------------
(***************************************************************************)
(* Small instances of PeriphDemo for TLC.                                  *)
(***************************************************************************)
EXTENDS PeriphDemo

\* Two places whose upper bits differ.
MCPositions == {5, 9}

\* Full scale, and a place close to it.
MCNearFull == {AdcMax - 15, AdcMax}
=============================================================================
