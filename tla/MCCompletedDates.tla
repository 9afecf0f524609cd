--------------------------- MODULE MCCompletedDates --------------------------
(* Instances of CompletedDates.  Entry ids, correction keys and request slots *)
(* are symmetric.                                                             *)
EXTENDS CompletedDates, TLC

MCSymmetry == Permutations(Entries) \cup Permutations(Keys) \cup Permutations(Requests)
=============================================================================
