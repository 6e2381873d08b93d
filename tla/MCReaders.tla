------------------------------ MODULE MCReaders -------------------------------
(* Readers with a mail store of a few messages. *)
EXTENDS Readers, MCMailStore, TLC

\* The first batch asks for one page twice.
batchRequests == "b1" :> <<"k1", "k2", "k1">> @@ "b2" :> <<"k1", "k2">>

\* Two forms of the owner, for two accounts.
formAccounts == "f1" :> "first" @@ "f2" :> "second"

=============================================================================
