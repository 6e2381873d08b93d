-------------------------------- MODULE MCEnds --------------------------------
(* Ends with a message beyond the byte limit alone. *)
EXTENDS Ends

mailSizes == [m \in msMessages |-> IF m = "large" THEN 3 ELSE 1]

=============================================================================
