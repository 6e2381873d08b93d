----------------------------- MODULE RoomLedger -----------------------------
(******************************************************************************)
(* What the owner is promised about study rooms, without locks, files or      *)
(* failures.  A request id is attempted once and only moves forward.  One     *)
(* request at a time stands for a signature, and stands for it until its      *)
(* cancellation is confirmed.                                                 *)
(******************************************************************************)
CONSTANTS Requests, Signatures, NoSig

VARIABLES
  fate,    \* how far the owner's request has come
  claim    \* the arguments it was attempted with

Fates == {"open", "booking", "confirmed", "cancelling", "cancelled"}

Standing == {"booking", "confirmed", "cancelling"}

Init ==
  /\ fate = [r \in Requests |-> "open"]
  /\ claim = [r \in Requests |-> NoSig]

Attempt(r, s) ==
  /\ fate[r] = "open"
  /\ \A q \in Requests : claim[q] = s => fate[q] \notin Standing
  /\ fate' = [fate EXCEPT ![r] = "booking"]
  /\ claim' = [claim EXCEPT ![r] = s]

Advance(r, from, to) ==
  /\ fate[r] = from
  /\ fate' = [fate EXCEPT ![r] = to]
  /\ UNCHANGED claim

Confirm(r) == Advance(r, "booking", "confirmed")

Withdraw(r) == Advance(r, "confirmed", "cancelling")

Cancelled(r) == Advance(r, "cancelling", "cancelled")

Next ==
  \E r \in Requests :
    \/ \E s \in Signatures : Attempt(r, s)
    \/ Confirm(r)
    \/ Withdraw(r)
    \/ Cancelled(r)

Spec == Init /\ [][Next]_<<fate, claim>>
=============================================================================
