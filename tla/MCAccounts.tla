------------------------------ MODULE MCAccounts ------------------------------
(* Accounts with two requests of one server process. *)
EXTENDS Accounts, TLC

CONSTANTS c1, c2, s1

OnOneServer == [c \in {c1, c2} |-> s1]

\* Requests, runs, commands and processes are interchangeable.
CallsAlike == Permutations({c1, c2})

=============================================================================
