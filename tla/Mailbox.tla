------------------------------ MODULE Mailbox ------------------------------
(******************************************************************************)
(* What the owner is promised about forwarded mail, without queues, files,    *)
(* caches or failures: a list of messages, the newest first.  A message       *)
(* that is not in it is put in front, and as many of the newest messages      *)
(* are kept as the limits allow, the new one always.                          *)
(******************************************************************************)
EXTENDS Naturals, SequencesExt

CONSTANTS Messages, Size, MaxMessages, MaxBytes

VARIABLE box

Bytes(s) == FoldSeq(LAMBDA m, n : Size[m] + n, 0, s)

Within(s) == Len(s) <= MaxMessages /\ Bytes(s) <= MaxBytes

Init == box = <<>>

\* The first n of the messages are the most that fit.
Newest(s, n) ==
  /\ n = 1 \/ Within(SubSeq(s, 1, n))
  /\ \A k \in (n + 1)..Len(s) : ~Within(SubSeq(s, 1, k))

Store(m) ==
  LET all == Cons(m, box)
  IN /\ m \notin ToSet(box)
     /\ \E n \in 1..Len(all) : Newest(all, n) /\ box' = SubSeq(all, 1, n)

Next == \E m \in Messages : Store(m)

Spec == Init /\ [][Next]_box
=============================================================================
