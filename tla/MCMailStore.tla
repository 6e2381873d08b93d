---------------------------- MODULE MCMailStore ----------------------------
(* MailStore with a few messages, one of them beyond the byte limit alone. *)
EXTENDS MailStore

CONSTANTS small, large, spam

ThreeMessages == {small, large, spam}

TwoMessages == {small, large}

Sizes == [m \in Messages |-> IF m = large THEN 3 ELSE 1]
=============================================================================
