--------------------------- MODULE MCMeasurements ---------------------------
(* The sizes of the firmware, and room for the record that is just not and  *)
(* just enough for each answer.                                             *)
EXTENDS Measurements

Sizes == {79, 39, 15, 135, 23, 329, 489}
Edges == {1200} \cup {n - 1 : n \in Sizes} \cup Sizes
=============================================================================
