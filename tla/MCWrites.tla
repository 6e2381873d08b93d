------------------------------- MODULE MCWrites -------------------------------
(* Writes with interchangeable ids, actions, forms and calls. *)
EXTENDS Writes, TLC

\* Two approved saves under one action id, and a submission.
actionOfRequest == "save" :> 1 @@ "again" :> 1 @@ "submit" :> 2

\* Two photos on the first question, and a typed answer on the second.
photosAndText ==
  <<[q |-> 1, page |-> "photo"], [q |-> 1, page |-> "next"], [q |-> 2, page |-> "text"]>>

Symmetry ==
  Permutations(Ids) \cup Permutations(Actions) \cup Permutations(Forms)
    \cup Permutations(Calls)

=============================================================================
