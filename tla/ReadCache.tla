------------------------------ MODULE ReadCache -------------------------------
(******************************************************************************)
(* Batches of reads (src/src/batch-reads.mjs, src/gateway.mjs) and the cache  *)
(* of expensive ones (src/src/read-cache.mjs): up to three workers per batch  *)
(* take the next request, and reads of one key join the one in flight.        *)
(******************************************************************************)
EXTENDS Naturals, FiniteSets

CONSTANTS
  Batches,
  requests,     \* the keys each batch asks for, in order
  Keys,
  PerBatch,     \* workers of a batch (the code: 3)
  MaxBatches,   \* (the code: 2)
  Concurrency   \* reads in flight (the code: 4)

VARIABLES
  batch,    \* what each batch does: its state, the next index
  at,       \* the index each worker of a batch works on, and how far it is
  results,  \* the answers of each batch by index
  answers,  \* how often each index was answered (history)
  entries,  \* the cached keys
  pending,  \* the reads in flight, each with the workers that wait for it
  active, activeBatches

vars == <<batch, at, results, answers, entries, pending, active, activeBatches>>

-----------------------------------------------------------------------------

Indices(b) == DOMAIN requests[b]

Workers == 1..PerBatch

NoWork == [index |-> 0, step |-> "ended"]

Init ==
  /\ batch = [b \in Batches |-> [state |-> "idle", next |-> 1]]
  /\ at = [b \in Batches |-> [w \in Workers |-> NoWork]]
  /\ results = [b \in Batches |-> [i \in Indices(b) |-> "none"]]
  /\ answers = [b \in Batches |-> [i \in Indices(b) |-> 0]]
  /\ entries = {} /\ pending = [k \in Keys |-> {}]
  /\ active = 0 /\ activeBatches = 0

store == <<entries, pending, active>>

\* read_many: two batches at a time.
Begin(b) ==
  /\ batch[b].state = "idle"
  /\ IF activeBatches >= MaxBatches
     THEN batch' = [batch EXCEPT ![b].state = "busy"] /\ UNCHANGED <<at, activeBatches>>
     ELSE /\ batch' = [batch EXCEPT ![b].state = "running"]
          /\ at' = [at EXCEPT ![b] =
                      [w \in Workers |-> IF w <= Cardinality(Indices(b))
                                         THEN [index |-> 0, step |-> "next"] ELSE NoWork]]
          /\ activeBatches' = activeBatches + 1
  /\ UNCHANGED <<results, answers, store>>

\* const index = next++
TakeNext(b, w) ==
  /\ at[b][w].step = "next"
  /\ IF batch[b].next \in Indices(b)
     THEN /\ at' = [at EXCEPT ![b][w] = [index |-> batch[b].next, step |-> "get"]]
          /\ batch' = [batch EXCEPT ![b].next = @ + 1]
     ELSE at' = [at EXCEPT ![b][w] = NoWork] /\ UNCHANGED batch
  /\ UNCHANGED <<results, answers, store, activeBatches>>

Answer(b, w, what) ==
  /\ results' = [results EXCEPT ![b][at[b][w].index] = what]
  /\ answers' = [answers EXCEPT ![b][at[b][w].index] = @ + 1]

\* ReadCache.get: a fresh entry, a read to join, no place, or a new read.
Get(b, w) ==
  /\ at[b][w].step = "get"
  /\ LET k == requests[b][at[b][w].index] IN
     \/ /\ k \in entries
        /\ Answer(b, w, "value") /\ at' = [at EXCEPT ![b][w].step = "next"]
        /\ UNCHANGED store
     \/ /\ k \notin entries /\ (pending[k] # {} \/ active < Concurrency)
        /\ pending' = [pending EXCEPT ![k] = @ \cup {<<b, w>>}]
        /\ active' = IF pending[k] = {} THEN active + 1 ELSE active
        /\ at' = [at EXCEPT ![b][w].step = "waiting"]
        /\ UNCHANGED <<results, answers, entries>>
     \/ /\ k \notin entries /\ pending[k] = {} /\ active >= Concurrency
        /\ Answer(b, w, "busy") /\ at' = [at EXCEPT ![b][w].step = "next"]
        /\ UNCHANGED store
  /\ UNCHANGED <<batch, activeBatches>>

\* Mutant: only a read that ends well gives its place back.
leavesIfGood(k, what) ==
  /\ pending' = [pending EXCEPT ![k] = {}]
  /\ active' = IF what = "value" THEN active - 1 ELSE active

\* The finally of a read.
leaves(k, what) == pending' = [pending EXCEPT ![k] = {}] /\ active' = active - 1

\* The read settles for everyone who joined it; its place and key are free,
\* and only a good answer that is small enough is kept.
Settle(k, what) ==
  /\ pending[k] # {}
  /\ leaves(k, what)
  /\ entries' \in IF what = "value" THEN {entries, entries \cup {k}} ELSE {entries}
  /\ at' = [b \in Batches |-> [w \in Workers |->
              IF <<b, w>> \in pending[k] THEN [at[b][w] EXCEPT !.step = "next"] ELSE at[b][w]]]
  /\ LET joined(b, i) == \E w \in Workers : <<b, w>> \in pending[k] /\ at[b][w].index = i IN
     /\ results' = [b \in Batches |-> [i \in Indices(b) |->
                      IF joined(b, i) THEN what ELSE results[b][i]]]
     /\ answers' = [b \in Batches |-> [i \in Indices(b) |->
                      IF joined(b, i) THEN answers[b][i] + 1 ELSE answers[b][i]]]
  /\ UNCHANGED <<batch, activeBatches>>

\* Thirty seconds, or the oldest of 32 entries.
Forget(k) ==
  /\ k \in entries /\ entries' = entries \ {k}
  /\ UNCHANGED <<batch, at, results, answers, pending, active, activeBatches>>

\* Promise.all: the batch answers when its workers have ended.
End(b) ==
  /\ batch[b].state = "running" /\ \A w \in Workers : at[b][w] = NoWork
  /\ batch' = [batch EXCEPT ![b].state = "answered"]
  /\ activeBatches' = activeBatches - 1
  /\ UNCHANGED <<at, results, answers, store>>

Next ==
  \/ \E b \in Batches : Begin(b) \/ End(b)
  \/ \E b \in Batches, w \in Workers : TakeNext(b, w) \/ Get(b, w)
  \/ \E k \in Keys : Forget(k) \/ \E what \in {"value", "failed"} : Settle(k, what)

Spec == Init /\ [][Next]_vars

-----------------------------------------------------------------------------
(* Properties *)

TypeOK ==
  /\ batch \in [Batches -> [state : {"idle", "busy", "running", "answered"}, next : Nat]]
  /\ entries \subseteq Keys /\ active \in 0..Concurrency /\ activeBatches \in 0..MaxBatches

\* A batch is answered with one result for each request, and a read that has
\* ended, well or not, holds neither its place nor its key.
BatchIsComplete ==
  /\ \A b \in Batches : batch[b].state = "answered" =>
       \A i \in Indices(b) : results[b][i] # "none" /\ answers[b][i] = 1
  /\ active = Cardinality({k \in Keys : pending[k] # {}})

=============================================================================
