---------------------------- MODULE Readers_proofs ----------------------------
(* The components that answer reads: each keeps its inductive invariant, for every
   value of its constants, and what each promises follows from it.  The names of a
   component's definitions and lemmas here begin with the two letters of its instance
   in Readers.  The mail store's own proofs are in MailStore_proofs. *)
EXTENDS Readers, Loops, MailStore_proofs, FiniteSetTheorems

-----------------------------------------------------------------------------
(* The gateway's client of the LEARN worker: GatewayClient *)

\* A process of the LEARN worker, and the session it started with.
GCWorker == [state : {"new", "starting", "up", "closed"}, session : Nat]

\* Types.
GCShape ==
  /\ gcSession \in Nat /\ gcAnswered \in Nat /\ gcSettled \in Nat
  /\ gcWorkers \in [GC!Workers -> GCWorker]
  /\ gcUses \in [gcCalls -> GC!Workers \cup {0}]
  /\ gcSince \in [gcCalls -> Nat]
  /\ gcAt \in [gcCalls -> {"idle", "waiting", "calling", "joined", "done"}]
  /\ gcKind \in [gcCalls -> {"call", "list", "read", GC!Nil}]
  /\ gcSaves \in [gcImports -> Nat]
  /\ gcUpstream \in GC!Workers \cup {0}
  /\ gcListing \in gcCalls \cup {GC!Nil} /\ gcListed \in GC!Workers \cup {0}
  /\ gcReading \in gcCalls \cup {GC!Nil} /\ gcEntry \in GC!Workers \cup {0}
  /\ gcCloses \in [gcImports -> GC!Workers \cup {0}]
  /\ gcStep \in [gcImports -> {"idle", "saved", "closing", "closed", "connected", "rejected"}]

\* A worker that was started, with version v of the session or a newer one.
GCStarted(w, v) ==
  w \in GC!Workers /\ gcWorkers[w].state # "new" /\ gcWorkers[w].session >= v

\* The kept worker is as new as every answer; what is answered was saved before.
GCKeptInv ==
  /\ gcUpstream # 0 => GCStarted(gcUpstream, gcAnswered)
  /\ gcAnswered <= gcSession /\ gcSettled <= gcAnswered
  /\ \A i \in gcImports : gcSaves[i] <= gcSession
  /\ \A i \in gcImports : gcStep[i] = "closing" => gcCloses[i] # 0

\* The listing that is kept, or under way, is the kept worker's.
GCCatalogInv ==
  /\ gcListed # 0 => gcListed = gcUpstream
  /\ gcListing # GC!Nil =>
       /\ gcAt[gcListing] \in {"waiting", "calling"} /\ gcKind[gcListing] = "list"
       /\ gcUses[gcListing] = gcUpstream /\ gcUpstream # 0

\* The page that is kept, or read, is as new as the last 30 seconds demand.
GCCacheInv ==
  /\ gcEntry # 0 => GCStarted(gcEntry, gcSettled)
  /\ gcReading # GC!Nil =>
       /\ gcAt[gcReading] \in {"waiting", "calling"}
       /\ GCStarted(gcUses[gcReading], gcSettled)

\* A call in progress has a worker that was started, and as new as the answers
\* the call had seen.
GCCallInv ==
  \A c \in gcCalls : gcAt[c] \in {"waiting", "calling", "joined", "done"} =>
    GCStarted(gcUses[c], gcSince[c])

\* The inductive invariant of the client.
GCIInv == GCShape /\ GCKeptInv /\ GCCatalogInv /\ GCCacheInv /\ GCCallInv

\* Sizes are the same in the instance GC.
LEMMA GCCard == \A S : GC!Cardinality(S) = Cardinality(S)
  BY DEF GC!Cardinality, Cardinality

\* The gateway starts with no worker.
LEMMA GCInitInv == GC!Init => GCIInv
  BY DEF GC!Init, GCIInv, GCShape, GCKeptInv, GCCatalogInv, GCCacheInv, GCCallInv,
     GCWorker, GC!Workers, GC!Nil

\* A worker that was started keeps its session.
LEMMA GCGrows ==
  ASSUME GCShape, [GC!Next]_(GC!vars)
  PROVE  /\ gcWorkers' \in [GC!Workers -> GCWorker]
         /\ \A w \in GC!Workers, v \in Nat : GCStarted(w, v) => GCStarted(w, v)'
<1> USE DEF GCShape
<1>1. /\ gcWorkers' \in [GC!Workers -> GCWorker]
      /\ \A w \in GC!Workers : gcWorkers[w].state # "new" =>
           gcWorkers'[w].state # "new" /\ gcWorkers'[w].session = gcWorkers[w].session
  <2>1. CASE UNCHANGED gcWorkers
    BY <2>1
  <2>2. ASSUME NEW w \in GC!unused,
               gcWorkers' = [gcWorkers EXCEPT ![w] = [state |-> "starting", session |-> gcSession]]
        PROVE  <1>1
    BY <2>2 DEF GC!unused, GCWorker
  <2>3. ASSUME NEW w \in GC!Workers, NEW s \in {"up", "closed"},
               gcWorkers' = [gcWorkers EXCEPT ![w].state = s], gcWorkers[w].state # "new"
        PROVE  <1>1
    BY <2>3 DEF GCWorker
  <2>4. \/ UNCHANGED gcWorkers
        \/ \E w \in GC!unused :
             gcWorkers' = [gcWorkers EXCEPT ![w] = [state |-> "starting", session |-> gcSession]]
        \/ \E w \in GC!Workers, s \in {"up", "closed"} :
             gcWorkers' = [gcWorkers EXCEPT ![w].state = s] /\ gcWorkers[w].state # "new"
    <3>1. ASSUME NEW c \in gcCalls, GC!Begin(c) PROVE <2>4
      BY <3>1 DEF GC!Begin, GC!BeginCall, GC!BeginListing, GC!BeginRead, GC!Ask, GC!Client,
         GC!Hit, GC!Join
    <3>2. ASSUME NEW c \in gcCalls, GC!Resume(c) \/ GC!Call(c) PROVE <2>4
      BY <3>2 DEF GC!Resume, GC!Call
    <3>3. ASSUME NEW w \in GC!Workers, GC!Started(w) \/ GC!StartFails(w) PROVE <2>4
      BY <3>3 DEF GC!Started, GC!StartFails
    <3>4. ASSUME NEW i \in gcImports, GC!Close(i), ~ UNCHANGED gcWorkers PROVE <2>4
      <4>1. /\ gcWorkers[gcCloses[i]].state \in {"up", "closed"}
            /\ gcWorkers' = [gcWorkers EXCEPT ![gcCloses[i]].state = "closed"]
        BY <3>4 DEF GC!Close
      <4>2. gcCloses[i] \in GC!Workers
        BY <3>4, <4>1
      <4>3. QED
        BY <4>1, <4>2
    <3>5. ASSUME NEW i \in gcImports, GC!Save(i) \/ GC!LookUpstream(i) \/ GC!ResetUpstream(i)
          PROVE  <2>4
      BY <3>5 DEF GC!Save, GC!LookUpstream, GC!ResetUpstream
    <3>6. CASE GC!Expire \/ UNCHANGED GC!vars
      BY <3>6 DEF GC!Expire, GC!vars
    <3>7. QED
      BY <3>1, <3>2, <3>3, <3>4, <3>5, <3>6 DEF GC!Next
  <2>5. QED
    BY <2>1, <2>2, <2>3, <2>4
<1>2. QED
  BY <1>1 DEF GCStarted, GCWorker

\* What a call asks of a worker, the kept one or a new one.
LEMMA GCAsks ==
  ASSUME NEW c \in gcCalls, 0 \notin GC!Workers, GCShape, GCKeptInv, GC!Ask(c),
         UNCHANGED gcAnswered,
         \A w \in GC!Workers, v \in Nat : GCStarted(w, v) => GCStarted(w, v)'
  PROVE  /\ gcAt' = [gcAt EXCEPT ![c] = "waiting"]
         /\ gcSince' = [gcSince EXCEPT ![c] = gcAnswered]
         /\ gcUses' = [gcUses EXCEPT ![c] = gcUpstream']
         /\ gcUpstream' \in GC!Workers /\ gcUpstream \in {0, gcUpstream'}
         /\ GCStarted(gcUpstream, gcAnswered)'
         /\ UNCHANGED gcFollows
<1> USE DEF GCShape, GCKeptInv, GC!Ask, GC!Client
<1>1. CASE gcUpstream # 0
  BY <1>1
<1>2. CASE gcUpstream = 0
  <2>1. PICK w \in GC!unused :
          /\ gcWorkers' = [gcWorkers EXCEPT ![w] = [state |-> "starting", session |-> gcSession]]
          /\ gcUpstream' = w /\ gcUses' = [gcUses EXCEPT ![c] = w]
    BY <1>2
  <2>2. w \in GC!Workers
    BY DEF GC!unused
  <2>3. GCStarted(gcUpstream, gcAnswered)'
    BY <2>1, <2>2 DEF GCStarted
  <2>4. QED
    BY <1>2, <2>1, <2>2, <2>3
<1>3. QED
  BY <1>1, <1>2

\* What changes when a call begins.
GCBeginFrame ==
  UNCHANGED <<gcSession, gcListed, gcEntry, gcStep, gcCloses, gcSaves, gcAnswered, gcSettled>>

\* A call that asks a worker keeps the invariant.
LEMMA GCAskInv ==
  ASSUME NEW c \in gcCalls, 0 \notin GC!Workers, GC!Nil \notin gcCalls, GCIInv, GC!Ask(c),
         gcAt[c] \in {"idle", "done"}, GCBeginFrame,
         gcWorkers' \in [GC!Workers -> GCWorker],
         \A w \in GC!Workers, v \in Nat : GCStarted(w, v) => GCStarted(w, v)',
         NEW k \in {"call", "list", "read"}, gcKind' = [gcKind EXCEPT ![c] = k],
         UNCHANGED gcListing \/ (gcListed = 0 /\ gcListing' = c /\ k = "list"),
         UNCHANGED gcReading \/ (gcEntry = 0 /\ gcReading' = c)
  PROVE  GCIInv'
<1> USE DEF GCIInv, GCShape, GCBeginFrame
<1>1. /\ gcAt' = [gcAt EXCEPT ![c] = "waiting"]
      /\ gcSince' = [gcSince EXCEPT ![c] = gcAnswered]
      /\ gcUses' = [gcUses EXCEPT ![c] = gcUpstream']
      /\ gcUpstream' \in GC!Workers /\ gcUpstream \in {0, gcUpstream'}
      /\ GCStarted(gcUpstream, gcAnswered)'
  BY GCAsks
<1>2. GCShape'
  BY <1>1
<1>3. GCKeptInv'
  BY <1>1 DEF GCKeptInv
<1>4. GCCatalogInv'
  BY <1>1 DEF GCCatalogInv
<1>5. GCStarted(gcUpstream, gcSettled)'
  BY <1>1 DEF GCStarted, GCKeptInv, GCWorker
<1>6. GCCacheInv'
  <2>1. gcEntry' # 0 => GCStarted(gcEntry, gcSettled)'
    BY DEF GCCacheInv, GCStarted
  <2>2. ASSUME gcReading' # GC!Nil
        PROVE  /\ gcAt'[gcReading'] \in {"waiting", "calling"}
               /\ GCStarted(gcUses[gcReading], gcSettled)'
    <3>1. CASE gcReading' = c
      BY <1>1, <1>5, <3>1 DEF GCStarted
    <3>2. CASE gcReading' = gcReading /\ gcReading # c
      <4>1. gcReading \in gcCalls /\ gcAt[gcReading] \in {"waiting", "calling"}
            /\ GCStarted(gcUses[gcReading], gcSettled)
        BY <2>2, <3>2 DEF GCCacheInv
      <4>2. gcUses'[gcReading] = gcUses[gcReading] /\ gcAt'[gcReading] = gcAt[gcReading]
        BY <1>1, <3>2, <4>1
      <4>3. QED
        BY <3>2, <4>1, <4>2 DEF GCStarted
    <3>3. QED
      BY <3>1, <3>2
  <2>3. QED
    BY <2>1, <2>2 DEF GCCacheInv
<1>7. GCCallInv'
  <2> SUFFICES ASSUME NEW d \in gcCalls, gcAt'[d] \in {"waiting", "calling", "joined", "done"}
               PROVE  GCStarted(gcUses[d], gcSince[d])'
    BY DEF GCCallInv
  <2>1. CASE d = c
    BY <1>1, <2>1 DEF GCStarted
  <2>2. CASE d # c
    BY <1>1, <2>2 DEF GCCallInv, GCStarted
  <2>3. QED
    BY <2>1, <2>2
<1>8. QED
  BY <1>2, <1>3, <1>4, <1>6, <1>7

\* A call that is answered with what another got or will get keeps the invariant.
LEMMA GCShareInv ==
  ASSUME NEW c \in gcCalls, GC!Nil \notin gcCalls, GCIInv,
         gcAt[c] \in {"idle", "done"}, GCBeginFrame,
         NEW k \in {"call", "list", "read"}, gcKind' = [gcKind EXCEPT ![c] = k],
         NEW w \in GC!Workers, NEW v \in Nat, GCStarted(w, v),
         NEW place \in {"joined", "done"}, gcAt' = [gcAt EXCEPT ![c] = place],
         gcUses' = [gcUses EXCEPT ![c] = w], gcSince' = [gcSince EXCEPT ![c] = v],
         UNCHANGED <<gcWorkers, gcUpstream, gcListing, gcReading>>
  PROVE  GCIInv'
<1> USE DEF GCIInv, GCShape, GCBeginFrame
<1>1. GCShape'
  OBVIOUS
<1>2. GCKeptInv'
  BY DEF GCKeptInv, GCStarted
<1>3. GCCatalogInv'
  BY DEF GCCatalogInv
<1>4. GCCacheInv'
  BY DEF GCCacheInv, GCStarted
<1>5. GCCallInv'
  BY DEF GCCallInv, GCStarted
<1>6. QED
  BY <1>1, <1>2, <1>3, <1>4, <1>5

\* A call that begins keeps the invariant.
LEMMA GCBeginInv ==
  ASSUME NEW c \in gcCalls, 0 \notin GC!Workers, GC!Nil \notin gcCalls, GCIInv, GC!Begin(c),
         gcWorkers' \in [GC!Workers -> GCWorker],
         \A w \in GC!Workers, v \in Nat : GCStarted(w, v) => GCStarted(w, v)'
  PROVE  GCIInv'
<1>1. gcAt[c] \in {"idle", "done"} /\ GCBeginFrame
  BY DEF GC!Begin, GC!imports, GCBeginFrame
<1>2. CASE GC!BeginCall(c)
  BY <1>1, <1>2, GCAskInv DEF GC!BeginCall
<1>3. CASE GC!BeginListing(c)
  <2>1. gcKind' = [gcKind EXCEPT ![c] = "list"] /\ UNCHANGED gcReading
    BY <1>3 DEF GC!BeginListing
  <2>2. CASE gcListed # 0 /\ GC!Hit(c, gcListed, gcAnswered) /\ UNCHANGED gcListing
    <3>1. gcListed \in GC!Workers /\ gcAnswered \in Nat /\ GCStarted(gcListed, gcAnswered)
      BY <2>2 DEF GCIInv, GCShape, GCKeptInv, GCCatalogInv
    <3>2. QED
      BY <1>1, <2>1, <2>2, <3>1, GCShareInv DEF GC!Hit
  <2>3. CASE gcListing # GC!Nil /\ GC!Join(c, gcListing, gcAnswered) /\ UNCHANGED gcListing
    <3>1. /\ gcUses[gcListing] \in GC!Workers /\ gcAnswered \in Nat
          /\ GCStarted(gcUses[gcListing], gcAnswered)
      BY <2>3 DEF GCIInv, GCShape, GCKeptInv, GCCatalogInv
    <3>2. QED
      BY <1>1, <2>1, <2>3, <3>1, GCShareInv DEF GC!Join
  <2>4. CASE gcListed = 0 /\ gcListing = GC!Nil /\ GC!Ask(c) /\ gcListing' = c
    BY <1>1, <2>1, <2>4, GCAskInv
  <2>5. QED
    BY <1>3, <2>2, <2>3, <2>4 DEF GC!BeginListing
<1>4. CASE GC!BeginRead(c)
  <2>1. gcKind' = [gcKind EXCEPT ![c] = "read"] /\ UNCHANGED gcListing
    BY <1>4 DEF GC!BeginRead
  <2>2. CASE gcEntry # 0 /\ GC!Hit(c, gcEntry, gcSettled) /\ UNCHANGED gcReading
    <3>1. gcEntry \in GC!Workers /\ gcSettled \in Nat /\ GCStarted(gcEntry, gcSettled)
      BY <2>2 DEF GCIInv, GCShape, GCCacheInv
    <3>2. QED
      BY <1>1, <2>1, <2>2, <3>1, GCShareInv DEF GC!Hit
  <2>3. CASE gcReading # GC!Nil /\ GC!Join(c, gcReading, gcSettled) /\ UNCHANGED gcReading
    <3>1. /\ gcUses[gcReading] \in GC!Workers /\ gcSettled \in Nat
          /\ GCStarted(gcUses[gcReading], gcSettled)
      BY <2>3 DEF GCIInv, GCShape, GCCacheInv, GCStarted
    <3>2. QED
      BY <1>1, <2>1, <2>3, <3>1, GCShareInv DEF GC!Join
  <2>4. CASE gcEntry = 0 /\ gcReading = GC!Nil /\ GC!Ask(c) /\ gcReading' = c
    BY <1>1, <2>1, <2>4, GCAskInv
  <2>5. QED
    BY <1>4, <2>2, <2>3, <2>4 DEF GC!BeginRead
<1>5. QED
  BY <1>2, <1>3, <1>4 DEF GC!Begin

\* Calls that end keep what the invariant says of the others.
LEMMA GCEndInv ==
  ASSUME NEW ended \in SUBSET gcCalls, GC!Nil \notin gcCalls, GCIInv, GC!EndCalls(ended),
         UNCHANGED gcSettled, gcWorkers' \in [GC!Workers -> GCWorker],
         \A w \in GC!Workers, v \in Nat : GCStarted(w, v) => GCStarted(w, v)',
         gcEntry' # 0 => GCStarted(gcEntry, gcSettled)'
  PROVE  /\ gcAt' \in [gcCalls -> {"idle", "waiting", "calling", "joined", "done"}]
         /\ gcKind' \in [gcCalls -> {"call", "list", "read", GC!Nil}]
         /\ gcUses' \in [gcCalls -> GC!Workers \cup {0}] /\ gcSince' \in [gcCalls -> Nat]
         /\ gcReading' \in gcCalls \cup {GC!Nil}
         /\ \A c \in gcCalls \ ended : gcAt[c] \in {"waiting", "calling"} =>
              gcAt'[c] = gcAt[c] /\ gcKind'[c] = gcKind[c] /\ gcUses'[c] = gcUses[c]
         /\ GCCacheInv' /\ GCCallInv'
<1> USE DEF GCIInv, GCShape, GC!EndCalls
<1>1. /\ gcAt' \in [gcCalls -> {"idle", "waiting", "calling", "joined", "done"}]
      /\ gcKind' \in [gcCalls -> {"call", "list", "read", GC!Nil}]
      /\ gcReading' \in gcCalls \cup {GC!Nil}
  OBVIOUS
<1>2. gcUses' \in [gcCalls -> GC!Workers \cup {0}] /\ gcSince' \in [gcCalls -> Nat]
  OBVIOUS
<1>3. \A c \in gcCalls : gcAt'[c] # "idle" =>
        gcAt'[c] = gcAt[c] /\ gcUses'[c] = gcUses[c] /\ gcSince'[c] = gcSince[c]
  OBVIOUS
<1>4. \A c \in gcCalls \ ended : gcAt[c] \in {"waiting", "calling"} =>
        gcAt'[c] = gcAt[c] /\ gcKind'[c] = gcKind[c] /\ gcUses'[c] = gcUses[c]
  OBVIOUS
<1>5. GCCallInv'
  BY <1>2, <1>3 DEF GCCallInv, GCStarted
<1>6. GCCacheInv'
  <2>1. ASSUME gcReading' # GC!Nil
        PROVE  gcAt'[gcReading'] \in {"waiting", "calling"} /\ GCStarted(gcUses[gcReading], gcSettled)'
    <3>1. gcReading' = gcReading /\ gcReading \in gcCalls \ ended
      BY <2>1
    <3>2. gcAt[gcReading] \in {"waiting", "calling"} /\ GCStarted(gcUses[gcReading], gcSettled)
      BY <2>1, <3>1 DEF GCCacheInv
    <3>3. gcAt'[gcReading] = gcAt[gcReading] /\ gcUses'[gcReading] = gcUses[gcReading]
      BY <1>4, <3>1, <3>2
    <3>4. QED
      BY <3>1, <3>2, <3>3 DEF GCStarted
  <2>2. QED
    BY <2>1 DEF GCCacheInv
<1>7. QED
  BY <1>1, <1>2, <1>4, <1>5, <1>6

\* Every step keeps the invariant.
LEMMA GCNextInv ==
  ASSUME 0 \notin GC!Workers, GC!Nil \notin gcCalls, GCIInv, [GC!Next]_(GC!vars)
  PROVE  GCIInv'
<1> USE DEF GCIInv, GCShape
<1>0. /\ gcWorkers' \in [GC!Workers -> GCWorker]
      /\ \A w \in GC!Workers, v \in Nat : GCStarted(w, v) => GCStarted(w, v)'
  BY GCGrows
<1>1. ASSUME NEW c \in gcCalls, GC!Begin(c) PROVE GCIInv'
  BY <1>0, <1>1, GCBeginInv
<1>2. ASSUME NEW c \in gcCalls, GC!Resume(c) PROVE GCIInv'
  BY <1>2 DEF GC!Resume, GC!imports, GC!catalog, GC!cache, GCKeptInv, GCCatalogInv,
     GCCacheInv, GCCallInv, GCStarted
<1>3. ASSUME NEW c \in gcCalls, GC!Call(c) PROVE GCIInv'
  <2>1. /\ gcAt[c] = "calling" /\ GC!EndCalls({c})
        /\ UNCHANGED <<gcSession, gcWorkers, gcUpstream, gcAnswered, gcSettled>>
        /\ UNCHANGED <<gcStep, gcCloses, gcSaves>>
    BY <1>3 DEF GC!Call, GC!imports
  <2>2. gcEntry' \in GC!Workers \cup {0} /\ (gcEntry' # 0 => GCStarted(gcEntry, gcSettled)')
    <3>1. CASE gcEntry' = gcEntry
      BY <2>1, <3>1 DEF GCCacheInv, GCStarted
    <3>2. CASE gcReading = c /\ gcEntry' = gcUses[c]
      BY <2>1, <3>2 DEF GCCacheInv, GCStarted
    <3>3. CASE gcEntry' = 0
      BY <3>3
    <3>4. QED
      BY <1>3, <3>1, <3>2, <3>3 DEF GC!Call
  <2>3. {c} \in SUBSET gcCalls
    OBVIOUS
  <2>4. /\ gcAt' \in [gcCalls -> {"idle", "waiting", "calling", "joined", "done"}]
        /\ gcKind' \in [gcCalls -> {"call", "list", "read", GC!Nil}]
        /\ gcUses' \in [gcCalls -> GC!Workers \cup {0}] /\ gcSince' \in [gcCalls -> Nat]
        /\ gcReading' \in gcCalls \cup {GC!Nil}
        /\ \A d \in gcCalls \ {c} : gcAt[d] \in {"waiting", "calling"} =>
             gcAt'[d] = gcAt[d] /\ gcKind'[d] = gcKind[d] /\ gcUses'[d] = gcUses[d]
        /\ GCCacheInv' /\ GCCallInv'
    BY <1>0, <2>1, <2>2, <2>3, GCEndInv
  <2>5. \/ gcListing = c /\ gcListing' = GC!Nil /\ gcListed' = gcUses[c]
        \/ gcListing' = GC!Nil /\ gcListed' = 0
        \/ gcListing # c /\ gcListing' = gcListing /\ gcListed' = gcListed
    BY <1>3 DEF GC!Call, GC!catalog, GCCatalogInv
  <2>6. GCShape'
    BY <1>0, <2>1, <2>2, <2>4, <2>5
  <2>7. GCKeptInv'
    BY <2>1 DEF GCKeptInv, GCStarted
  <2>8. GCCatalogInv'
    <3>1. CASE gcListing = c /\ gcListing' = GC!Nil /\ gcListed' = gcUses[c]
      BY <2>1, <3>1 DEF GCCatalogInv
    <3>2. CASE gcListing' = GC!Nil /\ gcListed' = 0
      BY <3>2 DEF GCCatalogInv
    <3>3. CASE gcListing # c /\ gcListing' = gcListing /\ gcListed' = gcListed
      BY <2>1, <2>4, <3>3 DEF GCCatalogInv
    <3>4. QED
      BY <2>5, <3>1, <3>2, <3>3
  <2>9. QED
    BY <2>4, <2>6, <2>7, <2>8
<1>4. ASSUME NEW w \in GC!Workers, GC!Started(w) PROVE GCIInv'
  <2>1. /\ UNCHANGED <<gcSession, gcUpstream, gcListing, gcListed, gcReading, gcEntry>>
        /\ UNCHANGED <<gcSettled, gcKind, gcUses, gcSince, gcStep, gcCloses, gcSaves, gcAnswered>>
    BY <1>4 DEF GC!Started, GC!imports, GC!catalog, GC!cache
  <2>2. /\ gcAt' \in [gcCalls -> {"idle", "waiting", "calling", "joined", "done"}]
        /\ \A c \in gcCalls : gcAt'[c] = gcAt[c] \/ (gcAt[c] = "waiting" /\ gcAt'[c] = "calling")
    BY <1>4 DEF GC!Started, GC!waitingFor
  <2>3. GCShape'
    BY <1>0, <2>1, <2>2
  <2>4. GCKeptInv' /\ GCCatalogInv'
    BY <1>0, <2>1, <2>2 DEF GCKeptInv, GCCatalogInv
  <2>5. GCCacheInv'
    BY <1>0, <2>1, <2>2 DEF GCCacheInv, GCStarted
  <2>6. GCCallInv'
    BY <1>0, <2>1, <2>2 DEF GCCallInv, GCStarted
  <2>7. QED
    BY <2>3, <2>4, <2>5, <2>6
<1>5. ASSUME NEW w \in GC!Workers, GC!StartFails(w) PROVE GCIInv'
  <2>1. /\ gcUpstream' = 0 /\ gcListing' = GC!Nil /\ gcListed' = 0
        /\ GC!EndCalls(GC!waitingFor(w))
        /\ UNCHANGED <<gcSession, gcEntry, gcSettled, gcStep, gcCloses, gcSaves, gcAnswered>>
    BY <1>5 DEF GC!StartFails, GC!imports
  <2>2. GC!waitingFor(w) \in SUBSET gcCalls
    BY DEF GC!waitingFor
  <2>3. gcEntry' # 0 => GCStarted(gcEntry, gcSettled)'
    BY <1>0, <2>1 DEF GCCacheInv, GCStarted
  <2>4. /\ gcAt' \in [gcCalls -> {"idle", "waiting", "calling", "joined", "done"}]
        /\ gcKind' \in [gcCalls -> {"call", "list", "read", GC!Nil}]
        /\ gcUses' \in [gcCalls -> GC!Workers \cup {0}] /\ gcSince' \in [gcCalls -> Nat]
        /\ gcReading' \in gcCalls \cup {GC!Nil}
        /\ GCCacheInv' /\ GCCallInv'
    BY <1>0, <2>1, <2>2, <2>3, GCEndInv
  <2>5. GCShape'
    BY <1>0, <2>1, <2>4
  <2>6. GCKeptInv' /\ GCCatalogInv'
    BY <2>1 DEF GCKeptInv, GCCatalogInv
  <2>7. QED
    BY <2>4, <2>5, <2>6
<1>6. ASSUME NEW i \in gcImports, GC!Save(i) PROVE GCIInv'
  <2> USE DEF GC!Save, GC!calls, GC!catalog, GC!cache
  <2>1. GCShape'
    BY <1>6
  <2>2. GCKeptInv' /\ GCCatalogInv'
    BY <1>6 DEF GCKeptInv, GCCatalogInv, GCStarted
  <2>3. GCCacheInv' /\ GCCallInv'
    BY <1>6 DEF GCCacheInv, GCCallInv, GCStarted
  <2>4. QED
    BY <2>1, <2>2, <2>3
<1>7. ASSUME NEW i \in gcImports, GC!LookUpstream(i) PROVE GCIInv'
  <2> USE DEF GC!LookUpstream, GC!AnswerConnected, GC!calls, GC!catalog, GC!cache
  <2>1. GCShape'
    BY <1>7
  <2>2. GCKeptInv' /\ GCCatalogInv'
    BY <1>7 DEF GCKeptInv, GCCatalogInv, GCStarted
  <2>3. GCCacheInv' /\ GCCallInv'
    BY <1>7 DEF GCCacheInv, GCCallInv, GCStarted
  <2>4. QED
    BY <2>1, <2>2, <2>3
<1>8. ASSUME NEW i \in gcImports, GC!Close(i) PROVE GCIInv'
  <2>1. /\ gcStep' \in [gcImports -> {"idle", "saved", "closing", "closed", "connected", "rejected"}]
        /\ \A j \in gcImports : gcStep'[j] = "closing" => j # i /\ gcStep[j] = "closing"
        /\ gcCloses' = [gcCloses EXCEPT ![i] = 0]
    BY <1>8 DEF GC!Close
  <2>2. /\ UNCHANGED <<gcSession, gcUpstream, gcListing, gcListed, gcReading, gcEntry, gcSettled>>
        /\ UNCHANGED <<gcAt, gcKind, gcUses, gcSince, gcSaves, gcAnswered>>
    BY <1>8 DEF GC!Close, GC!calls, GC!catalog, GC!cache
  <2>3. GCShape'
    BY <1>0, <2>1, <2>2
  <2>4. GCKeptInv' /\ GCCatalogInv'
    BY <1>0, <2>1, <2>2 DEF GCKeptInv, GCCatalogInv
  <2>5. GCCacheInv'
    BY <1>0, <2>2 DEF GCCacheInv, GCStarted
  <2>6. GCCallInv'
    BY <1>0, <2>2 DEF GCCallInv, GCStarted
  <2>7. QED
    BY <2>3, <2>4, <2>5, <2>6
<1>9. ASSUME NEW i \in gcImports, GC!ResetUpstream(i) PROVE GCIInv'
  <2> USE DEF GC!ResetUpstream, GC!AnswerConnected, GC!calls, GC!cache
  <2>1. GCShape'
    BY <1>9
  <2>2. GCKeptInv' /\ GCCatalogInv'
    BY <1>9 DEF GCKeptInv, GCCatalogInv
  <2>3. GCCacheInv' /\ GCCallInv'
    BY <1>9 DEF GCCacheInv, GCCallInv, GCStarted
  <2>4. QED
    BY <2>1, <2>2, <2>3
<1>10. CASE GC!Expire
  <2> USE DEF GC!Expire, GC!calls, GC!catalog, GC!imports
  <2>1. GCShape' /\ GCKeptInv' /\ GCCatalogInv'
    BY <1>10 DEF GCKeptInv, GCCatalogInv, GCStarted
  <2>2. GCCacheInv' /\ GCCallInv'
    BY <1>10 DEF GCCacheInv, GCCallInv, GCStarted
  <2>3. QED
    BY <2>1, <2>2
<1>11. CASE UNCHANGED GC!vars
  BY <1>11 DEF GC!vars, GCKeptInv, GCCatalogInv, GCCacheInv, GCCallInv, GCStarted
<1>12. QED
  BY <1>1, <1>2, <1>3, <1>4, <1>5, <1>6, <1>7, <1>8, <1>9, <1>10, <1>11 DEF GC!Next

\* No more sessions are saved than imports have begun.
GCbegun == {i \in gcImports : gcStep[i] # "idle"}

\* A session is saved by an import that began.
GCSavedInv == gcSession <= Cardinality(GCbegun)

\* Each import saves one session at most.
LEMMA GCNextSaved ==
  ASSUME IsFiniteSet(gcImports), GCIInv, GCSavedInv, [GC!Next]_(GC!vars)
  PROVE  GCSavedInv'
<1> USE DEF GCIInv, GCShape
<1>0. IsFiniteSet(GCbegun) /\ Cardinality(GCbegun) \in Nat
  BY FS_Subset, FS_CardinalityType DEF GCbegun
<1>1. ASSUME NEW i \in gcImports, GC!Save(i) PROVE GCSavedInv'
  <2>1. i \notin GCbegun /\ GCbegun' = GCbegun \cup {i}
    BY <1>1 DEF GC!Save, GCbegun
  <2>2. Cardinality(GCbegun') = Cardinality(GCbegun) + 1
    BY <1>0, <2>1, FS_AddElement
  <2>3. gcSession' \in {gcSession, gcSession + 1}
    BY <1>1 DEF GC!Save
  <2>4. QED
    BY <1>0, <2>2, <2>3 DEF GCSavedInv
<1>2. CASE ~ \E i \in gcImports : GC!Save(i)
  <2>1. gcSession' = gcSession
    BY <1>2 DEF GC!Next, GC!vars, GC!Begin, GC!Resume, GC!Call, GC!Started,
       GC!StartFails, GC!LookUpstream, GC!Close, GC!ResetUpstream, GC!Expire
  <2>2. GCbegun' = GCbegun
    <3>1. CASE UNCHANGED gcStep
      BY <3>1 DEF GCbegun
    <3>2. CASE \E i \in gcImports : gcStep[i] # "idle" /\ gcStep'[i] # "idle" /\ gcStep' = [gcStep EXCEPT ![i] = gcStep'[i]]
      BY <3>2 DEF GCbegun
    <3>3. ASSUME NEW i \in gcImports, GC!LookUpstream(i) \/ GC!Close(i) \/ GC!ResetUpstream(i)
          PROVE  gcStep[i] # "idle" /\ gcStep'[i] # "idle" /\ gcStep' = [gcStep EXCEPT ![i] = gcStep'[i]]
      BY <3>3 DEF GC!LookUpstream, GC!Close, GC!ResetUpstream, GC!AnswerConnected
    <3>4. ASSUME ~ \E i \in gcImports : GC!LookUpstream(i) \/ GC!Close(i) \/ GC!ResetUpstream(i)
          PROVE  UNCHANGED gcStep
      BY <1>2, <3>4 DEF GC!Next, GC!vars, GC!imports, GC!Begin, GC!Resume, GC!Call, GC!Started,
         GC!StartFails, GC!Expire
    <3>5. CASE \E i \in gcImports : GC!LookUpstream(i) \/ GC!Close(i) \/ GC!ResetUpstream(i)
      BY <3>2, <3>3, <3>5
    <3>6. QED
      BY <3>1, <3>4, <3>5
  <2>3. QED
    BY <2>1, <2>2 DEF GCSavedInv
<1>3. QED
  BY <1>1, <1>2

\* No import has begun.
LEMMA GCInitSaved == GC!Init /\ IsFiniteSet(gcImports) => GCSavedInv
<1> SUFFICES ASSUME GC!Init, IsFiniteSet(gcImports) PROVE GCSavedInv
  OBVIOUS
<1>1. GCbegun = {}
  BY DEF GC!Init, GCbegun
<1>2. QED
  BY <1>1, FS_EmptySet DEF GC!Init, GCSavedInv

\* Types and the promise of a new session, from the invariant.
LEMMA GCFollows ==
  ASSUME IsFiniteSet(gcImports), GCIInv, GCSavedInv
  PROVE  GC!TypeOK /\ GC!NewSessionIsUsed
<1>1. GC!NewSessionIsUsed
  BY DEF GCIInv, GCCallInv, GCStarted, GC!NewSessionIsUsed
<1>2. Cardinality(GCbegun) \in Nat /\ Cardinality(gcImports) \in Nat /\ Cardinality(GCbegun) <= Cardinality(gcImports)
  BY FS_Subset, FS_CardinalityType DEF GCbegun
<1>3. gcSession \in 0..Cardinality(gcImports)
  BY <1>2 DEF GCIInv, GCShape, GCSavedInv
<1>4. QED
  BY <1>1, <1>3, GCCard DEF GCIInv, GCShape, GCKeptInv, GC!TypeOK, GCWorker

-----------------------------------------------------------------------------
(* The read cache and its batches: ReadCache *)

\* What is assumed of the constants.
RCSane ==
  /\ IsFiniteSet(rcBatches) /\ IsFiniteSet(rcKeys)
  /\ \A b \in rcBatches : rcRequests[b] \in Seq(rcKeys)
  /\ rcPerBatch \in Nat \ {0} /\ rcMaxBatches \in Nat /\ rcConcurrency \in Nat

\* What a worker of a batch does.
RCWork == [index : Nat, step : {"next", "get", "waiting", "ended"}]

\* Types.
RCShape ==
  /\ rcBatch \in [rcBatches -> [state : {"idle", "busy", "running", "answered"}, next : Nat]]
  /\ rcAt \in [rcBatches -> [RC!Workers -> RCWork]]
  /\ rcEntries \subseteq rcKeys
  /\ rcPending \in [rcKeys -> SUBSET (rcBatches \X RC!Workers)]
  /\ DOMAIN rcResults = rcBatches /\ DOMAIN rcAnswers = rcBatches
  /\ \A b \in rcBatches : /\ rcResults[b] \in [RC!Indices(b) -> {"none", "value", "busy", "failed"}]
                          /\ rcAnswers[b] \in [RC!Indices(b) -> Nat]

\* A worker that has taken a request and not answered it yet.
RCHolds(b, w, i) == rcAt[b][w].index = i /\ rcAt[b][w].step \in {"get", "waiting"}

\* What a worker holds has been taken, by it alone.
RCHeldInv ==
  /\ \A b \in rcBatches, w \in RC!Workers :
       rcAt[b][w].step \in {"get", "waiting"} =>
         rcAt[b][w].index \in RC!Indices(b) /\ rcAt[b][w].index < rcBatch[b].next
  /\ \A b \in rcBatches, v \in RC!Workers, w \in RC!Workers :
       rcAt[b][v].step \in {"get", "waiting"} /\ RCHolds(b, w, rcAt[b][v].index) => v = w

\* Every request is ahead, held by one worker, or answered once.
RCAnswerInv ==
  \A b \in rcBatches : \A i \in RC!Indices(b) :
    IF i >= rcBatch[b].next \/ \E w \in RC!Workers : RCHolds(b, w, i)
    THEN rcAnswers[b][i] = 0
    ELSE rcAnswers[b][i] = 1 /\ rcResults[b][i] # "none"

\* The workers of a batch end when there is nothing left to take.
RCEndInv ==
  \A b \in rcBatches :
    /\ rcBatch[b].next > 0
    /\ rcBatch[b].state \in {"idle", "busy"} => rcBatch[b].next = 1
    /\ rcBatch[b].state # "running" => \A w \in RC!Workers : rcAt[b][w].step = "ended"
    /\ rcBatch[b].state \in {"running", "answered"} /\ rcAt[b][1].step = "ended" =>
         rcBatch[b].next \notin RC!Indices(b)

\* Those who wait for a read are the ones that joined it.
RCPendingInv ==
  \A k \in rcKeys, b \in rcBatches, w \in RC!Workers :
    <<b, w>> \in rcPending[k] <=> rcAt[b][w].step = "waiting" /\ rcRequests[b][rcAt[b][w].index] = k

\* Keys that are being read.
RCreading == {k \in rcKeys : rcPending[k] # {}}

\* Batches that run.
RCrunning == {b \in rcBatches : rcBatch[b].state = "running"}

\* The counters count.
RCCountInv ==
  /\ rcActive = Cardinality(RCreading) /\ rcActive <= rcConcurrency
  /\ rcActiveBatches = Cardinality(RCrunning) /\ rcActiveBatches <= rcMaxBatches

\* The inductive invariant of the batches.
RCIInv == RCShape /\ RCHeldInv /\ RCAnswerInv /\ RCEndInv /\ RCPendingInv

\* Sizes are the same in the instance RC.
LEMMA RCCard == \A S : RC!Cardinality(S) = Cardinality(S)
  BY DEF RC!Cardinality, Cardinality

\* The requests of a batch are numbered from 1.
LEMMA RCRequests ==
  ASSUME RCSane, NEW b \in rcBatches
  PROVE  /\ RC!Indices(b) \subseteq Nat \ {0}
         /\ \A i \in RC!Indices(b) : rcRequests[b][i] \in rcKeys
         /\ \A i \in Nat \ {0} : i \notin RC!Indices(b) => \A j \in RC!Indices(b) : j < i
         /\ Cardinality(RC!Indices(b)) \in Nat
         /\ RC!Indices(b) # {} => 1 <= Cardinality(RC!Indices(b))
<1>1. PICK n \in Nat : rcRequests[b] \in [1..n -> rcKeys]
  <2>1. rcRequests[b] \in [1..Len(rcRequests[b]) -> rcKeys] /\ Len(rcRequests[b]) \in Nat
    BY DEF RCSane
  <2>2. QED
    BY <2>1
<1>2. RC!Indices(b) = 1..n
  BY <1>1 DEF RC!Indices
<1>3. Cardinality(1..n) = n
  BY FS_Interval
<1>4. QED
  BY <1>1, <1>2, <1>3

\* No batch has begun.
LEMMA RCInitInv == RCSane /\ RC!Init => RCIInv
<1> SUFFICES ASSUME RCSane, RC!Init PROVE RCIInv
  OBVIOUS
<1>1. \A b \in rcBatches : \A i \in RC!Indices(b) : i \in Nat \ {0}
  BY RCRequests
<1>2. RCShape
  BY DEF RC!Init, RCShape, RCWork, RC!NoWork
<1>3. \A b \in rcBatches, w \in RC!Workers : rcAt[b][w].step = "ended"
  BY DEF RC!Init, RC!NoWork
<1>4. RCHeldInv
  BY <1>3 DEF RCHeldInv
<1>5. RCAnswerInv
  BY <1>1, <1>3 DEF RC!Init, RCAnswerInv, RCHolds
<1>6. RCEndInv
  BY <1>3 DEF RC!Init, RCEndInv
<1>7. RCPendingInv
  BY <1>3 DEF RC!Init, RCPendingInv
<1>8. QED
  BY <1>2, <1>4, <1>5, <1>6, <1>7 DEF RCIInv

\* What the types say of each worker and batch.
LEMMA RCTyped ==
  ASSUME RCSane, RCShape
  PROVE  /\ \A b \in rcBatches, w \in RC!Workers :
              rcAt[b][w].index \in Nat /\ rcAt[b][w].step \in {"next", "get", "waiting", "ended"}
         /\ \A b \in rcBatches : rcBatch[b].next \in Nat /\ \A i \in RC!Indices(b) : i \in Nat \ {0}
         /\ 1 \in RC!Workers
  BY RCRequests DEF RCShape, RCWork, RCSane, RC!Workers

\* A worker that neither waited nor will wait leaves the waiting as it is.
LEMMA RCPendingFrame ==
  ASSUME RCPendingInv, NEW b \in rcBatches, NEW w \in RC!Workers, UNCHANGED rcPending,
         rcAt[b][w].step # "waiting", rcAt'[b][w].step # "waiting",
         \A c \in rcBatches, v \in RC!Workers : c # b \/ v # w => rcAt'[c][v] = rcAt[c][v]
  PROVE  RCPendingInv'
<1> SUFFICES \A k \in rcKeys, c \in rcBatches, v \in RC!Workers :
               <<c, v>> \in rcPending'[k] <=>
                 rcAt'[c][v].step = "waiting" /\ rcRequests[c][rcAt'[c][v].index] = k
  BY ZenonT(60) DEF RCPendingInv
<1> TAKE k \in rcKeys, c \in rcBatches, v \in RC!Workers
<1>1. <<c, v>> \in rcPending[k] <=>
        rcAt[c][v].step = "waiting" /\ rcRequests[c][rcAt[c][v].index] = k
  BY DEF RCPendingInv
<1>2. CASE c = b /\ v = w
  BY <1>1, <1>2
<1>3. CASE c # b \/ v # w
  BY <1>1, <1>3
<1>4. QED
  BY <1>2, <1>3

\* Where no worker ends or begins, the batches stay as they are.
LEMMA RCEndFrame ==
  ASSUME RCEndInv, 1 \in RC!Workers, UNCHANGED rcBatch,
         \A c \in rcBatches, v \in RC!Workers : rcAt'[c][v].step = "ended" <=> rcAt[c][v].step = "ended"
  PROVE  RCEndInv'
<1>1. \A c \in rcBatches : rcAt'[c][1].step = "ended" <=> rcAt[c][1].step = "ended"
  OBVIOUS
<1>2. QED
  BY <1>1 DEF RCEndInv

\* A worker takes its next step.
LEMMA RCStepTyped ==
  ASSUME RCShape, NEW b \in rcBatches, NEW w \in RC!Workers,
         NEW s \in {"next", "get", "waiting", "ended"},
         rcAt' = [rcAt EXCEPT ![b][w].step = s]
  PROVE  /\ rcAt' \in [rcBatches -> [RC!Workers -> RCWork]]
         /\ rcAt'[b][w].step = s /\ rcAt'[b][w].index = rcAt[b][w].index
         /\ \A c \in rcBatches, v \in RC!Workers : c # b \/ v # w => rcAt'[c][v] = rcAt[c][v]
<1> DEFINE r == [rcAt[b][w] EXCEPT !.step = s]
<1>1. rcAt[b][w] \in RCWork
  BY DEF RCShape
<1>2. r \in RCWork /\ r.step = s /\ r.index = rcAt[b][w].index
  BY <1>1 DEF RCWork
<1>3. rcAt' = [rcAt EXCEPT ![b] = [rcAt[b] EXCEPT ![w] = r]]
  BY DEF RCShape
<1> HIDE DEF r
<1>4. rcAt \in [rcBatches -> [RC!Workers -> RCWork]]
  BY DEF RCShape
<1>5. QED
  BY <1>2, <1>3, <1>4

\* A batch that begins, or is turned away, keeps the invariant.
LEMMA RCBeginInv == ASSUME RCSane, RCIInv, NEW b \in rcBatches, RC!Begin(b) PROVE RCIInv'
<1>0. RCShape /\ RCHeldInv /\ RCAnswerInv /\ RCEndInv /\ RCPendingInv
  BY DEF RCIInv
<1>1. CASE rcActiveBatches >= rcMaxBatches
  <2>1. /\ rcBatch' = [rcBatch EXCEPT ![b].state = "busy"] /\ rcBatch[b].state = "idle"
        /\ UNCHANGED <<rcAt, rcResults, rcAnswers, rcEntries, rcPending>>
    BY <1>1 DEF RC!Begin, RC!store
  <2>2. \A c \in rcBatches : /\ rcBatch'[c].next = rcBatch[c].next
                              /\ rcBatch'[c].state = IF c = b THEN "busy" ELSE rcBatch[c].state
    BY <1>0, <2>1 DEF RCShape
  <2>3. RCShape'
    BY <1>0, <2>1 DEF RCShape
  <2>4. RCHeldInv' /\ RCAnswerInv' /\ RCPendingInv'
    BY <1>0, <2>1, <2>2 DEF RCHeldInv, RCAnswerInv, RCPendingInv, RCHolds
  <2>5. RCEndInv'
    BY <1>0, <2>1, <2>2 DEF RCEndInv
  <2>6. QED
    BY <2>3, <2>4, <2>5 DEF RCIInv
<1>2. CASE ~(rcActiveBatches >= rcMaxBatches)
  <2>1. /\ rcBatch' = [rcBatch EXCEPT ![b].state = "running"] /\ rcBatch[b].state = "idle"
        /\ rcAt' = [rcAt EXCEPT ![b] = [w \in RC!Workers |-> IF w <= Cardinality(RC!Indices(b))
                                        THEN [index |-> 0, step |-> "next"] ELSE RC!NoWork]]
        /\ UNCHANGED <<rcResults, rcAnswers, rcEntries, rcPending, rcActive>>
    BY <1>2, RCCard DEF RC!Begin, RC!store
  <2>2. /\ \A w \in RC!Workers : rcAt[b][w].step = "ended" /\ rcAt'[b][w].step \in {"next", "ended"}
        /\ \A c \in rcBatches, v \in RC!Workers : c # b => rcAt'[c][v] = rcAt[c][v]
        /\ \A c \in rcBatches : /\ rcBatch'[c].next = rcBatch[c].next
                                 /\ rcBatch'[c].state = IF c = b THEN "running" ELSE rcBatch[c].state
    BY <1>0, <2>1 DEF RCShape, RCEndInv, RC!NoWork
  <2>3. RCShape'
    BY <1>0, <2>1 DEF RCShape, RCWork, RC!NoWork
  <2>4. RCHeldInv' /\ RCPendingInv'
    BY <1>0, <2>1, <2>2 DEF RCHeldInv, RCPendingInv, RCHolds
  <2>5. RCAnswerInv'
    BY <1>0, <2>1, <2>2 DEF RCAnswerInv, RCHolds
  <2>6. 1 \in RC!Workers /\ (rcAt'[b][1].step = "ended" => RC!Indices(b) = {})
    BY <1>0, <2>1, RCRequests DEF RCShape, RC!Workers, RCSane
  <2>7. RCEndInv'
    BY <1>0, <2>1, <2>2, <2>6 DEF RCEndInv
  <2>8. QED
    BY <2>3, <2>4, <2>5, <2>7 DEF RCIInv
<1>3. QED
  BY <1>1, <1>2

\* A worker that takes the next request, or ends, keeps the invariant.
LEMMA RCTakeInv ==
  ASSUME RCSane, RCIInv, NEW b \in rcBatches, NEW w \in RC!Workers, RC!TakeNext(b, w) PROVE RCIInv'
<1>0. RCShape /\ RCHeldInv /\ RCAnswerInv /\ RCEndInv /\ RCPendingInv
  BY DEF RCIInv
<1>1. rcAt[b][w].step = "next" /\ rcBatch[b].state = "running" /\ rcBatch[b].next \in Nat \ {0}
  BY <1>0, RCTyped DEF RC!TakeNext, RCEndInv
<1>2. UNCHANGED <<rcResults, rcAnswers, rcEntries, rcPending, rcActive, rcActiveBatches>>
  BY DEF RC!TakeNext, RC!store
<1>3. CASE rcBatch[b].next \in RC!Indices(b)
  <2>1. /\ rcAt' = [rcAt EXCEPT ![b][w] = [index |-> rcBatch[b].next, step |-> "get"]]
        /\ rcBatch' = [rcBatch EXCEPT ![b].next = rcBatch[b].next + 1]
    BY <1>3 DEF RC!TakeNext
  <2>2. RCShape'
    BY <1>0, <1>1, <2>1, <1>2 DEF RCWork, RCShape
  <2>3. /\ rcAt'[b][w].index = rcBatch[b].next /\ rcAt'[b][w].step = "get"
        /\ \A c \in rcBatches, v \in RC!Workers : c # b \/ v # w => rcAt'[c][v] = rcAt[c][v]
        /\ \A c \in rcBatches : rcBatch'[c].state = rcBatch[c].state
        /\ \A c \in rcBatches : c # b => rcBatch'[c].next = rcBatch[c].next
        /\ rcBatch'[b].next = rcBatch[b].next + 1
    BY <1>0, <2>1 DEF RCShape
  <2>4. RCHeldInv'
    BY <1>0, <1>1, <1>3, <2>3, RCTyped DEF RCHeldInv, RCHolds
  <2>5. RCAnswerInv'
    BY <1>0, <1>1, <1>2, <1>3, <2>3, RCTyped DEF RCAnswerInv, RCHolds
  <2>6. RCEndInv'
    BY <1>0, <1>1, <1>3, <2>3, RCTyped DEF RCEndInv
  <2>7. RCPendingInv'
    BY <1>0, <1>1, <1>2, <2>3, RCPendingFrame
  <2>8. QED
    BY <2>2, <2>4, <2>5, <2>6, <2>7 DEF RCIInv
<1>4. CASE rcBatch[b].next \notin RC!Indices(b)
  <2>1. rcAt' = [rcAt EXCEPT ![b][w] = RC!NoWork] /\ UNCHANGED rcBatch
    BY <1>4 DEF RC!TakeNext
  <2>2. RCShape'
    BY <1>0, <2>1, <1>2 DEF RCWork, RC!NoWork, RCShape
  <2>3. /\ rcAt'[b][w].step = "ended"
        /\ \A c \in rcBatches, v \in RC!Workers : c # b \/ v # w => rcAt'[c][v] = rcAt[c][v]
    BY <1>0, <2>1 DEF RC!NoWork, RCShape
  <2>4. RCHeldInv'
    BY <1>0, <1>1, <2>1, <2>3 DEF RCHeldInv, RCHolds
  <2>5. RCAnswerInv'
    BY <1>0, <1>1, <1>2, <2>1, <2>3 DEF RCAnswerInv, RCHolds
  <2>6. RCEndInv'
    BY <1>0, <1>1, <1>4, <2>1, <2>3 DEF RCEndInv
  <2>7. RCPendingInv'
    BY <1>0, <1>1, <1>2, <2>3, RCPendingFrame
  <2>8. QED
    BY <2>2, <2>4, <2>5, <2>6, <2>7 DEF RCIInv
<1>5. QED
  BY <1>3, <1>4

\* A worker that is answered from the cache, joins a read or is turned away keeps the invariant.
LEMMA RCGetInv ==
  ASSUME RCSane, RCIInv, NEW b \in rcBatches, NEW w \in RC!Workers, RC!Get(b, w) PROVE RCIInv'
<1> DEFINE i == rcAt[b][w].index
           k == rcRequests[b][i]
<1>0. RCShape /\ RCHeldInv /\ RCAnswerInv /\ RCEndInv /\ RCPendingInv
  BY DEF RCIInv
<1>1. /\ rcAt[b][w].step = "get" /\ i \in RC!Indices(b) /\ i < rcBatch[b].next
      /\ rcBatch[b].state = "running" /\ UNCHANGED <<rcBatch, rcActiveBatches>>
  BY <1>0, RCTyped DEF RC!Get, RCHeldInv, RCEndInv
<1>2. i \in Nat /\ k \in rcKeys
  BY <1>0, <1>1, RCTyped, RCRequests
<1>3. ASSUME NEW what \in {"value", "busy"}, RC!Answer(b, w, what),
             rcAt' = [rcAt EXCEPT ![b][w].step = "next"], UNCHANGED RC!store
      PROVE  RCIInv'
  <2>2. /\ rcAt' \in [rcBatches -> [RC!Workers -> RCWork]] /\ rcAt'[b][w].step = "next"
        /\ \A c \in rcBatches, v \in RC!Workers : c # b \/ v # w => rcAt'[c][v] = rcAt[c][v]
    BY <1>0, <1>3, RCStepTyped
  <2>1. RCShape'
    <3>1. UNCHANGED <<rcBatch, rcEntries, rcPending>>
      BY <1>1, <1>3 DEF RC!store
    <3>2. /\ DOMAIN rcResults' = rcBatches /\ DOMAIN rcAnswers' = rcBatches
          /\ \A c \in rcBatches : c # b => rcResults'[c] = rcResults[c] /\ rcAnswers'[c] = rcAnswers[c]
          /\ rcResults'[b] = [rcResults[b] EXCEPT ![i] = what]
          /\ rcAnswers'[b] = [rcAnswers[b] EXCEPT ![i] = rcAnswers[b][i] + 1]
      BY <1>0, <1>3 DEF RC!Answer, RCShape
    <3>3. /\ rcResults'[b] \in [RC!Indices(b) -> {"none", "value", "busy", "failed"}]
          /\ rcAnswers'[b] \in [RC!Indices(b) -> Nat]
      BY <1>0, <1>1, <1>3, <3>2 DEF RCShape
    <3>4. QED
      BY <1>0, <2>2, <3>1, <3>2, <3>3 DEF RCShape
  <2>3. /\ \A c \in rcBatches : \A j \in RC!Indices(c) : c # b \/ j # i =>
             rcResults'[c][j] = rcResults[c][j] /\ rcAnswers'[c][j] = rcAnswers[c][j]
        /\ rcResults'[b][i] # "none" /\ rcAnswers'[b][i] = rcAnswers[b][i] + 1
    BY <1>0, <1>1, <1>3 DEF RC!Answer, RCShape
  <2>4. rcAnswers[b][i] = 0
    BY <1>0, <1>1 DEF RCAnswerInv, RCHolds
  <2>5. \A c \in rcBatches, v \in RC!Workers : \A j \in RC!Indices(c) :
          RCHolds(c, v, j)' <=> RCHolds(c, v, j) /\ (c # b \/ j # i)
    BY <1>0, <1>1, <2>2 DEF RCHeldInv, RCHolds
  <2>6. RCHeldInv'
    BY <1>0, <1>1, <2>2 DEF RCHeldInv, RCHolds
  <2>7. RCAnswerInv'
    BY <1>0, <1>1, <1>2, <2>3, <2>4, <2>5, RCTyped DEF RCAnswerInv
  <2>8. RCEndInv'
    BY <1>0, <1>1, <2>2, RCTyped, RCEndFrame
  <2>9. RCPendingInv'
    BY <1>0, <1>1, <1>3, <2>2, RCPendingFrame DEF RC!store
  <2>10. QED
    BY <2>1, <2>6, <2>7, <2>8, <2>9 DEF RCIInv
<1>4. CASE /\ rcPending' = [rcPending EXCEPT ![k] = rcPending[k] \cup {<<b, w>>}]
           /\ rcAt' = [rcAt EXCEPT ![b][w].step = "waiting"]
           /\ UNCHANGED <<rcResults, rcAnswers, rcEntries>>
  <2>2. /\ rcAt' \in [rcBatches -> [RC!Workers -> RCWork]]
        /\ rcAt'[b][w].step = "waiting" /\ rcAt'[b][w].index = i
        /\ \A c \in rcBatches, v \in RC!Workers : c # b \/ v # w => rcAt'[c][v] = rcAt[c][v]
    BY <1>0, <1>4, RCStepTyped
  <2>1. RCShape'
    <3>1. rcPending' \in [rcKeys -> SUBSET (rcBatches \X RC!Workers)]
      BY <1>0, <1>2, <1>4 DEF RCShape
    <3>2. UNCHANGED rcBatch
      BY <1>1
    <3>3. QED
      BY <1>0, <1>4, <2>2, <3>1, <3>2 DEF RCShape
  <2>3. \A c \in rcBatches, v \in RC!Workers, j \in Nat : RCHolds(c, v, j)' <=> RCHolds(c, v, j)
    BY <1>1, <2>2 DEF RCHolds
  <2>4. /\ rcPending'[k] = rcPending[k] \cup {<<b, w>>}
        /\ \A l \in rcKeys : l # k => rcPending'[l] = rcPending[l]
    BY <1>0, <1>2, <1>4 DEF RCShape
  <2>6. RCHeldInv'
    BY <1>0, <1>1, <2>2 DEF RCHeldInv, RCHolds
  <2>7. RCAnswerInv'
    BY <1>0, <1>1, <1>4, <2>3, RCTyped DEF RCAnswerInv
  <2>8. RCEndInv'
    BY <1>0, <1>1, <2>2, RCTyped, RCEndFrame
  <2>9. RCPendingInv'
    <3> SUFFICES ASSUME NEW l \in rcKeys, NEW c \in rcBatches, NEW v \in RC!Workers
                 PROVE  <<c, v>> \in rcPending'[l] <=>
                          rcAt'[c][v].step = "waiting" /\ rcRequests[c][rcAt'[c][v].index] = l
      BY DEF RCPendingInv
    <3>1. <<c, v>> \in rcPending[l] <=>
            rcAt[c][v].step = "waiting" /\ rcRequests[c][rcAt[c][v].index] = l
      BY <1>0 DEF RCPendingInv
    <3>2. <<c, v>> \in rcPending'[l] <=> <<c, v>> \in rcPending[l] \/ (l = k /\ c = b /\ v = w)
      BY <2>4
    <3>3. CASE c = b /\ v = w
      BY <1>1, <2>2, <3>1, <3>2, <3>3
    <3>4. CASE c # b \/ v # w
      BY <2>2, <3>1, <3>2, <3>4
    <3>5. QED
      BY <3>3, <3>4
  <2>10. QED
    BY <2>1, <2>6, <2>7, <2>8, <2>9 DEF RCIInv
<1>5. QED
  BY <1>3, <1>4 DEF RC!Get

\* Whoever joined the read is answered: the invariant gives each its own request.
LEMMA RCSettleInv ==
  ASSUME RCSane, RCIInv, NEW k \in rcKeys, NEW what \in {"value", "failed"}, RC!Settle(k, what)
  PROVE  RCIInv'
<1> DEFINE joined(b, i) == \E w \in RC!Workers : <<b, w>> \in rcPending[k] /\ rcAt[b][w].index = i
<1>0. RCShape /\ RCHeldInv /\ RCAnswerInv /\ RCEndInv /\ RCPendingInv
  BY DEF RCIInv
<1>1. /\ UNCHANGED <<rcBatch, rcActiveBatches>>
      /\ rcPending' = [rcPending EXCEPT ![k] = {}]
      /\ rcEntries' \in {rcEntries, rcEntries \cup {k}}
      /\ rcResults' = [b \in rcBatches |-> [i \in RC!Indices(b) |->
                       IF joined(b, i) THEN what ELSE rcResults[b][i]]]
      /\ rcAnswers' = [b \in rcBatches |-> [i \in RC!Indices(b) |->
                       IF joined(b, i) THEN rcAnswers[b][i] + 1 ELSE rcAnswers[b][i]]]
      /\ rcAt' = [b \in rcBatches |-> [w \in RC!Workers |->
                  IF <<b, w>> \in rcPending[k] THEN [rcAt[b][w] EXCEPT !.step = "next"] ELSE rcAt[b][w]]]
  BY DEF RC!Settle, RC!leaves
<1>2. \A b \in rcBatches, w \in RC!Workers :
        /\ rcAt'[b][w] = IF <<b, w>> \in rcPending[k] THEN [rcAt[b][w] EXCEPT !.step = "next"]
                                                 ELSE rcAt[b][w]
        /\ rcAt[b][w] \in RCWork
  BY <1>0, <1>1 DEF RCShape
<1>3. \A b \in rcBatches, w \in RC!Workers :
        /\ <<b, w>> \in rcPending[k] => /\ rcAt'[b][w].step = "next" /\ rcAt[b][w].step = "waiting"
                                        /\ rcAt'[b][w].index = rcAt[b][w].index
        /\ <<b, w>> \notin rcPending[k] => rcAt'[b][w] = rcAt[b][w]
        /\ rcAt'[b][w] \in RCWork
  <2> SUFFICES ASSUME NEW b \in rcBatches, NEW w \in RC!Workers
               PROVE  /\ <<b, w>> \in rcPending[k] =>
                           /\ rcAt'[b][w].step = "next" /\ rcAt[b][w].step = "waiting"
                           /\ rcAt'[b][w].index = rcAt[b][w].index
                      /\ <<b, w>> \notin rcPending[k] => rcAt'[b][w] = rcAt[b][w]
                      /\ rcAt'[b][w] \in RCWork
    OBVIOUS
  <2>1. <<b, w>> \in rcPending[k] => rcAt[b][w].step = "waiting"
    BY <1>0 DEF RCPendingInv
  <2>2. CASE <<b, w>> \in rcPending[k]
    <3>1. rcAt'[b][w] = [rcAt[b][w] EXCEPT !.step = "next"]
      BY <1>2, <2>2
    <3>2. rcAt[b][w] \in RCWork
      BY <1>2
    <3>3. QED
      BY <2>1, <2>2, <3>1, <3>2 DEF RCWork
  <2>3. CASE <<b, w>> \notin rcPending[k]
    <3>1. rcAt'[b][w] = rcAt[b][w] /\ rcAt[b][w] \in RCWork
      BY <1>2, <2>3
    <3>2. QED
      BY <2>3, <3>1
  <2>4. QED
    BY <2>2, <2>3
<1>4. \A b \in rcBatches : \A i \in RC!Indices(b) :
        /\ joined(b, i) => rcAnswers'[b][i] = rcAnswers[b][i] + 1 /\ rcResults'[b][i] = what
        /\ ~joined(b, i) => rcAnswers'[b][i] = rcAnswers[b][i] /\ rcResults'[b][i] = rcResults[b][i]
  BY <1>1
<1>5. \A b \in rcBatches : \A i \in RC!Indices(b) :
        /\ joined(b, i) => /\ \E w \in RC!Workers : RCHolds(b, w, i)
                           /\ ~ \E w \in RC!Workers : RCHolds(b, w, i)'
        /\ ~joined(b, i) => \A w \in RC!Workers : RCHolds(b, w, i)' <=> RCHolds(b, w, i)
  <2> SUFFICES ASSUME NEW b \in rcBatches, NEW i \in RC!Indices(b)
               PROVE  /\ joined(b, i) => /\ \E w \in RC!Workers : RCHolds(b, w, i)
                                         /\ ~ \E w \in RC!Workers : RCHolds(b, w, i)'
                      /\ ~joined(b, i) => \A w \in RC!Workers : RCHolds(b, w, i)' <=> RCHolds(b, w, i)
    OBVIOUS
  <2>1. ASSUME NEW v \in RC!Workers, <<b, v>> \in rcPending[k], rcAt[b][v].index = i
        PROVE  RCHolds(b, v, i) /\ \A w \in RC!Workers : ~RCHolds(b, w, i)'
    <3>1. RCHolds(b, v, i)
      BY <1>3, <2>1 DEF RCHolds
    <3>2. \A w \in RC!Workers : RCHolds(b, w, i) => w = v
      BY <1>0, <1>3, <2>1 DEF RCHolds, RCHeldInv
    <3>3. QED
      BY <1>3, <2>1, <3>1, <3>2 DEF RCHolds
  <2>2. ASSUME NEW w \in RC!Workers, ~(<<b, w>> \in rcPending[k] /\ rcAt[b][w].index = i)
        PROVE  RCHolds(b, w, i)' <=> RCHolds(b, w, i)
    BY <1>3, <2>2 DEF RCHolds
  <2>3. QED
    BY <2>1, <2>2
<1>11. RCShape'
  <2>1. rcAt' \in [rcBatches -> [RC!Workers -> RCWork]]
    BY <1>1, <1>3
  <2>2. rcPending' \in [rcKeys -> SUBSET (rcBatches \X RC!Workers)]
    BY <1>0, <1>1 DEF RCShape
  <2>3. /\ DOMAIN rcResults' = rcBatches /\ DOMAIN rcAnswers' = rcBatches
        /\ \A b \in rcBatches : rcResults'[b] = [i \in RC!Indices(b) |->
                                           IF joined(b, i) THEN what ELSE rcResults[b][i]]
        /\ \A b \in rcBatches : rcAnswers'[b] = [i \in RC!Indices(b) |->
                       IF joined(b, i) THEN rcAnswers[b][i] + 1 ELSE rcAnswers[b][i]]
    BY <1>1
  <2> HIDE DEF joined
  <2>4. \A b \in rcBatches : /\ rcResults'[b] \in [RC!Indices(b) -> {"none", "value", "busy", "failed"}]
                              /\ rcAnswers'[b] \in [RC!Indices(b) -> Nat]
    BY <1>0, <2>3 DEF RCShape
  <2>5. QED
    BY <1>0, <1>1, <2>1, <2>2, <2>3, <2>4 DEF RCShape
<1>6. RCHeldInv'
  BY <1>0, <1>1, <1>3 DEF RCHeldInv, RCHolds
<1>7. RCAnswerInv'
  <2> HIDE DEF joined
  <2>1. QED
    <3> SUFFICES ASSUME NEW b \in rcBatches, NEW i \in RC!Indices(b)
                 PROVE  IF i >= rcBatch[b].next \/ \E w \in RC!Workers : RCHolds(b, w, i)'
                        THEN rcAnswers'[b][i] = 0
                        ELSE rcAnswers'[b][i] = 1 /\ rcResults'[b][i] # "none"
      BY <1>1 DEF RCAnswerInv
    <3>1. CASE joined(b, i)
      <4>1. \E w \in RC!Workers : RCHolds(b, w, i)
        BY <1>5, <3>1
      <4>2. i < rcBatch[b].next
        BY <1>0, <4>1 DEF RCHeldInv, RCHolds
      <4>3. rcAnswers[b][i] = 0
        BY <1>0, <4>1 DEF RCAnswerInv
      <4>4. ~(i >= rcBatch[b].next)
        BY <4>2, <1>0, RCTyped
      <4>5. QED
        BY <1>4, <1>5, <3>1, <4>3, <4>4
    <3>2. CASE ~joined(b, i)
      BY <1>0, <1>4, <1>5, <3>2 DEF RCAnswerInv
    <3>3. QED
      BY <3>1, <3>2
<1>8. RCEndInv'
  BY <1>0, <1>1, <1>3, RCTyped, RCEndFrame
<1>9. RCPendingInv'
  <2>1. \A l \in rcKeys : rcPending'[l] = IF l = k THEN {} ELSE rcPending[l]
    BY <1>0, <1>1 DEF RCShape
  <2>2. QED
    <3> SUFFICES ASSUME NEW l \in rcKeys, NEW c \in rcBatches, NEW v \in RC!Workers
                 PROVE  <<c, v>> \in rcPending'[l] <=>
                          rcAt'[c][v].step = "waiting" /\ rcRequests[c][rcAt'[c][v].index] = l
      BY DEF RCPendingInv
    <3>1. <<c, v>> \in rcPending[l] <=>
            rcAt[c][v].step = "waiting" /\ rcRequests[c][rcAt[c][v].index] = l
      BY <1>0 DEF RCPendingInv
    <3>2. <<c, v>> \in rcPending[k] <=>
            rcAt[c][v].step = "waiting" /\ rcRequests[c][rcAt[c][v].index] = k
      BY <1>0 DEF RCPendingInv
    <3>3. QED
      BY <1>3, <2>1, <3>1, <3>2
<1>10. QED
  BY <1>11, <1>6, <1>7, <1>8, <1>9 DEF RCIInv

\* Counting reads and batches.
LEMMA RCCounted ==
  ASSUME RCSane, RCShape
  PROVE  /\ IsFiniteSet(RCreading) /\ IsFiniteSet(RCrunning)
         /\ Cardinality(RCreading) \in Nat /\ Cardinality(RCrunning) \in Nat
         /\ \A k \in rcKeys : k \notin RCreading => Cardinality(RCreading \cup {k}) = Cardinality(RCreading) + 1
         /\ \A k \in RCreading : Cardinality(RCreading \ {k}) = Cardinality(RCreading) - 1 /\ Cardinality(RCreading) > 0
         /\ \A b \in rcBatches : b \notin RCrunning => Cardinality(RCrunning \cup {b}) = Cardinality(RCrunning) + 1
         /\ \A b \in RCrunning : Cardinality(RCrunning \ {b}) = Cardinality(RCrunning) - 1 /\ Cardinality(RCrunning) > 0
<1>1. IsFiniteSet(RCreading) /\ IsFiniteSet(RCrunning)
  BY FS_Subset DEF RCreading, RCrunning, RCSane
<1>2. Cardinality(RCreading) \in Nat /\ Cardinality(RCrunning) \in Nat
  BY <1>1, FS_CardinalityType
<1>3. \A S : IsFiniteSet(S) => /\ \A x : x \notin S => Cardinality(S \cup {x}) = Cardinality(S) + 1
                               /\ \A x \in S : Cardinality(S \ {x}) = Cardinality(S) - 1
                               /\ S # {} => Cardinality(S) # 0
  BY FS_AddElement, FS_RemoveElement, FS_EmptySet
<1>4. QED
  BY <1>1, <1>2, <1>3

\* Nothing is counted before the first batch.
LEMMA RCInitCount == RCSane /\ RC!Init => RCCountInv
<1> SUFFICES ASSUME RCSane, RC!Init PROVE RCCountInv
  OBVIOUS
<1>1. RCreading = {} /\ RCrunning = {}
  BY DEF RC!Init, RCreading, RCrunning
<1>2. QED
  BY <1>1, FS_EmptySet DEF RC!Init, RCCountInv, RCSane

\* A read takes its place when the first worker asks and gives it back at the end.
LEMMA RCNextCount ==
  ASSUME RCSane, RCIInv, RCCountInv, [RC!Next]_(RC!vars), RCIInv'
  PROVE  RCCountInv'
<1>0. RCShape
  BY DEF RCIInv
<1> DEFINE SameReads == RCreading' = RCreading /\ rcActive' = rcActive
           OneMore == \E k \in rcKeys : /\ k \notin RCreading /\ RCreading' = RCreading \cup {k}
                                        /\ rcActive' = rcActive + 1 /\ rcActive < rcConcurrency
           OneLess == \E k \in RCreading : RCreading' = RCreading \ {k} /\ rcActive' = rcActive - 1
           SameBatches == RCrunning' = RCrunning /\ rcActiveBatches' = rcActiveBatches
           Begun == \E b \in rcBatches : /\ b \notin RCrunning /\ RCrunning' = RCrunning \cup {b}
                                         /\ rcActiveBatches' = rcActiveBatches + 1
                                         /\ rcActiveBatches < rcMaxBatches
           Ended == \E b \in RCrunning : /\ RCrunning' = RCrunning \ {b}
                                         /\ rcActiveBatches' = rcActiveBatches - 1
<1>1. SameReads \/ OneMore \/ OneLess
  <2>1. ASSUME UNCHANGED <<rcPending, rcActive>> PROVE SameReads
    BY <2>1 DEF RCreading
  <2>2. ASSUME NEW b \in rcBatches, NEW w \in RC!Workers, RC!Get(b, w) PROVE SameReads \/ OneMore
    <3> DEFINE k == rcRequests[b][rcAt[b][w].index]
    <3>1. k \in rcKeys
      BY <2>2, <1>0, RCRequests DEF RCIInv, RCHeldInv, RC!Get
    <3>2. UNCHANGED RC!store \/ /\ rcPending[k] # {} \/ rcActive < rcConcurrency
                                /\ rcPending' = [rcPending EXCEPT ![k] = @ \cup {<<b, w>>}]
                                /\ rcActive' = IF rcPending[k] = {} THEN rcActive + 1 ELSE rcActive
      BY <2>2 DEF RC!Get
    <3> HIDE DEF k
    <3>3. CASE UNCHANGED RC!store
      BY <2>1, <3>3 DEF RC!store
    <3>4. CASE rcPending' = [rcPending EXCEPT ![k] = @ \cup {<<b, w>>}]
      <4>1. RCreading' = RCreading \cup {k}
        BY <3>1, <3>4, <1>0 DEF RCreading, RCShape
      <4>2. rcPending[k] # {} <=> k \in RCreading
        BY <3>1 DEF RCreading
      <4>3. QED
        BY <3>1, <3>2, <3>3, <4>1, <4>2
    <3>5. QED
      BY <3>2, <3>3, <3>4
  <2>3. ASSUME NEW k \in rcKeys, NEW what \in {"value", "failed"}, RC!Settle(k, what) PROVE OneLess
    <3>1. k \in RCreading /\ rcPending' = [rcPending EXCEPT ![k] = {}] /\ rcActive' = rcActive - 1
      BY <2>3 DEF RC!Settle, RC!leaves, RCreading
    <3>2. RCreading' = RCreading \ {k}
      BY <3>1, <1>0 DEF RCreading, RCShape
    <3>3. QED
      BY <3>1, <3>2
  <2>4. ASSUME NEW b \in rcBatches, NEW w \in RC!Workers, RC!TakeNext(b, w)
        PROVE  UNCHANGED <<rcPending, rcActive>>
    BY <2>4 DEF RC!TakeNext, RC!store
  <2>5. ASSUME NEW k \in rcKeys, RC!Forget(k) PROVE UNCHANGED <<rcPending, rcActive>>
    BY <2>5 DEF RC!Forget
  <2>6. ASSUME NEW b \in rcBatches, RC!Begin(b) \/ RC!End(b) PROVE UNCHANGED <<rcPending, rcActive>>
    BY <2>6 DEF RC!Begin, RC!End, RC!store
  <2>7. UNCHANGED RC!vars => UNCHANGED <<rcPending, rcActive>>
    BY DEF RC!vars
  <2> HIDE DEF SameReads, OneMore, OneLess
  <2>8. QED
    BY <2>1, <2>2, <2>3, <2>4, <2>5, <2>6, <2>7 DEF RC!Next
<1>2. SameBatches \/ Begun \/ Ended
  <2>1. ASSUME NEW S \in {"busy", "running", "answered"}, NEW b \in rcBatches, rcBatch' = [rcBatch EXCEPT ![b].state = S]
        PROVE  RCrunning' = IF S = "running" THEN RCrunning \cup {b} ELSE RCrunning \ {b}
    BY <2>1, <1>0 DEF RCrunning, RCShape
  <2>2. ASSUME NEW b \in rcBatches, RC!Begin(b) PROVE SameBatches \/ Begun
    <3>1. b \notin RCrunning
      BY <2>2 DEF RC!Begin, RCrunning
    <3>2. CASE rcBatch' = [rcBatch EXCEPT ![b].state = "busy"] /\ rcActiveBatches' = rcActiveBatches
      <4>1. RCrunning' = RCrunning \ {b}
        BY <2>1, <3>2
      <4>2. QED
        BY <3>1, <3>2, <4>1
    <3>3. CASE /\ rcBatch' = [rcBatch EXCEPT ![b].state = "running"]
               /\ rcActiveBatches' = rcActiveBatches + 1 /\ ~(rcActiveBatches >= rcMaxBatches)
      <4>1. rcActiveBatches < rcMaxBatches
        BY <3>3, <1>0, RCCounted DEF RCCountInv, RCSane
      <4>2. RCrunning' = RCrunning \cup {b}
        BY <3>3, <2>1
      <4>3. QED
        BY <3>1, <3>3, <4>1, <4>2
    <3>4. QED
      BY <2>2, <3>2, <3>3 DEF RC!Begin
  <2>3. ASSUME NEW b \in rcBatches, RC!End(b) PROVE Ended
    <3>1. /\ b \in RCrunning /\ rcActiveBatches' = rcActiveBatches - 1
          /\ rcBatch' = [rcBatch EXCEPT ![b].state = "answered"]
      BY <2>3 DEF RC!End, RCrunning
    <3>2. RCrunning' = RCrunning \ {b}
      BY <2>1, <3>1
    <3>3. QED
      BY <3>1, <3>2
  <2>4. ASSUME rcBatch' = rcBatch, rcActiveBatches' = rcActiveBatches PROVE SameBatches
    BY <2>4 DEF RCrunning
  <2>5. ASSUME NEW b \in rcBatches, NEW w \in RC!Workers, RC!TakeNext(b, w) PROVE SameBatches
    <3>1. \A c \in rcBatches : rcBatch'[c].state = rcBatch[c].state
      BY <2>5, <1>0 DEF RC!TakeNext, RCShape
    <3>2. rcActiveBatches' = rcActiveBatches
      BY <2>5 DEF RC!TakeNext
    <3>3. QED
      BY <3>1, <3>2 DEF RCrunning
  <2>6. ASSUME NEW b \in rcBatches, NEW w \in RC!Workers, RC!Get(b, w) PROVE SameBatches
    BY <2>4, <2>6 DEF RC!Get
  <2>7. ASSUME NEW k \in rcKeys, RC!Forget(k) PROVE SameBatches
    BY <2>4, <2>7 DEF RC!Forget
  <2>8. ASSUME NEW k \in rcKeys, NEW what \in {"value", "failed"}, RC!Settle(k, what) PROVE SameBatches
    BY <2>4, <2>8 DEF RC!Settle
  <2>9. UNCHANGED RC!vars => SameBatches
    BY <2>4 DEF RC!vars
  <2> HIDE DEF SameBatches, Begun, Ended
  <2>10. QED
    BY <2>2, <2>3, <2>5, <2>6, <2>7, <2>8, <2>9 DEF RC!Next
<1>3. rcActive' = Cardinality(RCreading') /\ rcActive' <= rcConcurrency
  BY <1>0, <1>1, RCCounted DEF RCCountInv, RCSane
<1>4. rcActiveBatches' = Cardinality(RCrunning') /\ rcActiveBatches' <= rcMaxBatches
  BY <1>0, <1>2, RCCounted DEF RCCountInv, RCSane
<1>5. QED
  BY <1>3, <1>4 DEF RCCountInv

\* A batch whose workers have ended keeps the invariant.
LEMMA RCEndBatchInv == ASSUME RCSane, RCIInv, NEW b \in rcBatches, RC!End(b) PROVE RCIInv'
<1>0. RCShape /\ RCHeldInv /\ RCAnswerInv /\ RCEndInv /\ RCPendingInv
  BY DEF RCIInv
<1>1. /\ \A w \in RC!Workers : rcAt[b][w].step = "ended"
      /\ rcBatch' = [rcBatch EXCEPT ![b].state = "answered"]
      /\ UNCHANGED <<rcAt, rcResults, rcAnswers, rcEntries, rcPending, rcActive>>
  BY DEF RC!End, RC!NoWork, RC!store
<1>2. RCShape'
  BY <1>0, <1>1 DEF RCShape
<1>3. \A c \in rcBatches : /\ rcBatch'[c].next = rcBatch[c].next
                            /\ rcBatch'[c].state = IF c = b THEN "answered" ELSE rcBatch[c].state
  BY <1>0, <1>1 DEF RCShape
<1>4. RCHeldInv' /\ RCAnswerInv' /\ RCPendingInv'
  BY <1>0, <1>1, <1>3 DEF RCHeldInv, RCAnswerInv, RCPendingInv, RCHolds
<1>5. RCEndInv'
  BY <1>0, <1>1, <1>3 DEF RCEndInv, RC!End
<1>6. QED
  BY <1>2, <1>4, <1>5 DEF RCIInv

\* Every step keeps the invariant.
LEMMA RCNextInv == RCSane /\ RCIInv /\ [RC!Next]_(RC!vars) => RCIInv'
<1> SUFFICES ASSUME RCSane, RCIInv, [RC!Next]_(RC!vars) PROVE RCIInv'
  OBVIOUS
<1>1. ASSUME NEW k \in rcKeys, RC!Forget(k) PROVE RCIInv'
  BY <1>1 DEF RC!Forget, RCIInv, RCShape, RCHeldInv, RCAnswerInv, RCEndInv, RCPendingInv,
     RCHolds
<1>2. CASE UNCHANGED RC!vars
  BY <1>2 DEF RC!vars, RCIInv, RCShape, RCHeldInv, RCAnswerInv, RCEndInv, RCPendingInv,
     RCHolds
<1>3. QED
  BY <1>1, <1>2, RCBeginInv, RCTakeInv, RCGetInv, RCSettleInv, RCEndBatchInv DEF RC!Next

\* Each request of an answered batch has its one result, from the invariant.
LEMMA RCFollows ==
  ASSUME RCSane, RCIInv, RCCountInv
  PROVE  RC!TypeOK /\ RC!BatchIsComplete
<1>1. ASSUME NEW b \in rcBatches, rcBatch[b].state = "answered"
      PROVE  \A i \in RC!Indices(b) : rcResults[b][i] # "none" /\ rcAnswers[b][i] = 1
  <2>1. rcBatch[b].next \in Nat \ {0} /\ rcBatch[b].next \notin RC!Indices(b)
    <3>1. RCEndInv /\ rcBatch[b].next \in Nat /\ 1 \in RC!Workers
      BY RCTyped DEF RCIInv
    <3>2. \A w \in RC!Workers : rcAt[b][w].step = "ended"
      BY <1>1, <3>1 DEF RCEndInv
    <3>3. rcAt[b][1].step = "ended"
      BY <3>1, <3>2
    <3>4. QED
      BY <1>1, <3>1, <3>3 DEF RCEndInv
  <2>2. \A i \in RC!Indices(b) : i < rcBatch[b].next /\ i \in Nat
    BY <2>1, RCRequests
  <2>3. \A w \in RC!Workers, i \in RC!Indices(b) : ~RCHolds(b, w, i)
    BY <1>1 DEF RCIInv, RCEndInv, RCHolds
  <2>4. QED
    BY <2>1, <2>2, <2>3 DEF RCIInv, RCAnswerInv
<1>2. rcActive = Cardinality({k \in rcKeys : rcPending[k] # {}})
  BY DEF RCCountInv, RCreading
<1>3. rcActive \in 0..rcConcurrency /\ rcActiveBatches \in 0..rcMaxBatches
  BY RCCounted DEF RCCountInv, RCIInv, RCSane
<1>4. QED
  BY <1>1, <1>2, <1>3, RCCard DEF RC!BatchIsComplete, RC!TypeOK, RCIInv, RCShape

-----------------------------------------------------------------------------
(* The shared browser: BrowserPool *)

\* Readers that wait for a page or read one.
BPpresent == {r \in bpReaders : bpAt[r] # "away"}

\* Types, and active counts those readers.
BPShape ==
  /\ bpBrowsers \in [BP!Ids -> {"none", "starting", "up", "gone", "idle"}]
  /\ bpLaunching \in BP!Ids \cup {0}
  /\ bpAt \in [bpReaders -> {"away", "waiting", "reading"}]
  /\ bpActive = Cardinality(BPpresent)

\* The pool keeps the one browser that lives.
BPOneInv == \A i \in BP!Ids : bpBrowsers[i] \in {"starting", "up"} => bpLaunching = i

\* A browser nobody reads has the timer that closes it.
BPTimerInv == bpActive = 0 /\ bpLaunching # 0 => bpIdleTimer = bpLaunching

\* A reader has the browser the pool keeps, or one that was lost.
BPReaderInv ==
  /\ bpIdleTimer \in BP!Ids \cup {0, BP!NoTimer}
  /\ bpUses \in [bpReaders -> BP!Ids \cup {0}]
  /\ bpLaunching # 0 => bpBrowsers[bpLaunching] \in {"starting", "up"}
  /\ \A r \in bpReaders : bpAt[r] # "away" =>
       bpUses[r] \in BP!Ids /\ bpBrowsers[bpUses[r]] \in {"starting", "up", "gone"}

\* The part that makes the counting right.
BPCountInv == BPShape /\ BPOneInv /\ BPTimerInv

\* The inductive invariant of the pool.
BPIInv == BPCountInv /\ BPReaderInv

\* Sizes are the same in the instance BP.
LEMMA BPCard == \A S : BP!Cardinality(S) = Cardinality(S)
  BY DEF BP!Cardinality, Cardinality

\* active counts the readers that are present.
LEMMA BPCounts ==
  ASSUME IsFiniteSet(bpReaders), BPShape
  PROVE  /\ bpActive \in Nat
         /\ \A r \in bpReaders : bpAt[r] = "away" => Cardinality(BPpresent \cup {r}) = bpActive + 1
         /\ \A r \in bpReaders : bpAt[r] # "away" =>
              Cardinality(BPpresent \ {r}) = bpActive - 1 /\ bpActive > 0
<1>1. IsFiniteSet(BPpresent)
  BY FS_Subset DEF BPpresent
<1>2. bpActive \in Nat
  BY <1>1, FS_CardinalityType DEF BPShape
<1>3. ASSUME NEW r \in bpReaders, bpAt[r] = "away"
      PROVE  Cardinality(BPpresent \cup {r}) = bpActive + 1
  BY <1>1, <1>3, FS_AddElement DEF BPpresent, BPShape
<1>4. ASSUME NEW r \in bpReaders, bpAt[r] # "away"
      PROVE  Cardinality(BPpresent \ {r}) = bpActive - 1 /\ bpActive > 0
  <2>1. r \in BPpresent
    BY <1>4 DEF BPpresent
  <2>2. BPpresent # {}
    BY <2>1
  <2>3. QED
    BY <1>1, <1>2, <2>1, <2>2, FS_RemoveElement, FS_EmptySet DEF BPShape
<1>5. QED
  BY <1>2, <1>3, <1>4

\* Nothing is counted before the first reader.
LEMMA BPInitCount == BP!Init => BPCountInv
<1> SUFFICES ASSUME BP!Init PROVE BPCountInv
  OBVIOUS
<1>1. BPpresent = {}
  BY DEF BP!Init, BPpresent
<1>2. QED
  BY <1>1, FS_EmptySet DEF BP!Init, BPCountInv, BPShape, BPOneInv, BPTimerInv

\* A step counts readers right and sets or clears the timer.
LEMMA BPNextCount ==
  ASSUME IsFiniteSet(bpReaders), BPCountInv, [BP!Next]_(BP!vars), 0 \notin BP!Ids
  PROVE  BPCountInv'
<1> USE DEF BPCountInv
<1>1. ASSUME NEW r \in bpReaders, BP!Acquire(r) PROVE BPCountInv'
  <2>1. bpAt' \in [bpReaders -> {"away", "waiting", "reading"}] /\ BPpresent' = BPpresent \cup {r}
    BY <1>1 DEF BP!Acquire, BPShape, BPpresent
  <2>2. bpActive' = Cardinality(BPpresent') /\ bpActive' # 0
    BY <1>1, <2>1, BPCounts DEF BP!Acquire
  <2>3. bpBrowsers' \in [BP!Ids -> {"none", "starting", "up", "gone", "idle"}] /\ bpLaunching' \in BP!Ids \cup {0}
    BY <1>1 DEF BP!Acquire, BPShape
  <2>4. BPOneInv'
    BY <1>1 DEF BP!Acquire, BPShape, BPOneInv
  <2>5. QED
    BY <2>1, <2>2, <2>3, <2>4 DEF BPShape, BPTimerInv
<1>2. ASSUME NEW r \in bpReaders, BP!Release(r) PROVE BPCountInv'
  <2>1. bpAt[r] # "away" /\ UNCHANGED <<bpBrowsers, bpLaunching>>
    BY <1>2 DEF BP!Release
  <2>2. bpAt' \in [bpReaders -> {"away", "waiting", "reading"}] /\ BPpresent' = BPpresent \ {r}
    BY <1>2, <2>1 DEF BP!Release, BPShape, BPpresent
  <2>3. bpActive' = Cardinality(BPpresent') /\ bpActive \in Nat /\ bpActive > 0
    BY <1>2, <2>1, <2>2, BPCounts DEF BP!Release
  <2>4. BPTimerInv'
    BY <1>2, <2>3 DEF BP!Release, BPTimerInv
  <2>5. QED
    BY <2>1, <2>2, <2>3, <2>4 DEF BPShape, BPOneInv
<1>3. ASSUME NEW i \in BP!Ids, BP!Launched(i) PROVE BPCountInv'
  <2>1. bpAt' \in [bpReaders -> {"away", "waiting", "reading"}] /\ BPpresent' = BPpresent
    BY <1>3 DEF BP!Launched, BPShape, BPpresent
  <2>2. QED
    BY <1>3, <2>1 DEF BP!Launched, BPShape, BPOneInv, BPTimerInv
<1>4. ASSUME NEW i \in BP!Ids, BP!Gone(i) PROVE BPCountInv'
  BY <1>4 DEF BP!Gone, BPShape, BPOneInv, BPTimerInv, BPpresent
<1>5. CASE BP!Idle
  <2>1. bpActive \in Nat
    BY BPCounts
  <2>2. BPpresent' = BPpresent
    BY <1>5 DEF BP!Idle, BPpresent
  <2>3. QED
    BY <1>5, <2>1, <2>2 DEF BP!Idle, BPShape, BPOneInv, BPTimerInv
<1>6. CASE BP!CloseShared
  BY <1>6 DEF BP!CloseShared, BPShape, BPOneInv, BPTimerInv, BPpresent
<1>7. CASE UNCHANGED BP!vars
  BY <1>7 DEF BP!vars, BPShape, BPOneInv, BPTimerInv, BPpresent
<1>8. QED
  BY <1>1, <1>2, <1>3, <1>4, <1>5, <1>6, <1>7 DEF BP!Next

\* The pool starts without a browser.
LEMMA BPInitInv == 0 \notin BP!Ids /\ BP!Init => BPIInv
  BY BPInitCount DEF BP!Init, BPIInv, BPReaderInv

\* The timer finds nobody present: a reader's browser is lost in other ways only.
LEMMA BPNextInv ==
  ASSUME IsFiniteSet(bpReaders), BPIInv, [BP!Next]_(BP!vars), 0 \notin BP!Ids
  PROVE  BPIInv'
<1>1. BPCountInv'
  BY BPNextCount DEF BPIInv
<1>0. bpActive \in Nat /\ (bpActive = 0 => \A r \in bpReaders : bpAt[r] = "away")
  <2>1. BPShape
    BY DEF BPIInv, BPCountInv
  <2>2. bpActive \in Nat /\ \A r \in bpReaders : bpAt[r] # "away" => bpActive > 0
    BY <2>1, BPCounts
  <2>3. QED
    BY <2>2
<1> SUFFICES BPReaderInv'
  BY <1>1 DEF BPIInv
<1> USE DEF BPIInv, BPCountInv, BPShape, BPReaderInv
<1>2. ASSUME NEW r \in bpReaders, BP!Acquire(r) PROVE BPReaderInv'
  BY <1>2 DEF BP!Acquire
<1>3. ASSUME NEW r \in bpReaders, BP!Release(r) PROVE BPReaderInv'
  BY <1>3 DEF BP!Release
<1>4. ASSUME NEW i \in BP!Ids, BP!Launched(i) PROVE BPReaderInv'
  BY <1>4 DEF BP!Launched
<1>5. ASSUME NEW i \in BP!Ids, BP!Gone(i) PROVE BPReaderInv'
  BY <1>5 DEF BP!Gone, BPOneInv
<1>6. CASE BP!Idle
  BY <1>6, <1>0 DEF BP!Idle
<1>7. CASE BP!CloseShared
  BY <1>7 DEF BP!CloseShared, BPOneInv
<1>8. CASE UNCHANGED BP!vars
  BY <1>8 DEF BP!vars
<1>9. QED
  BY <1>1, <1>2, <1>3, <1>4, <1>5, <1>6, <1>7, <1>8 DEF BP!Next

\* What the pool promises, from the invariant.
LEMMA BPFollows == bpMaxBrowsers \in Nat /\ BPIInv => BP!TypeOK /\ BP!IdleBrowserCloses
<1> SUFFICES ASSUME bpMaxBrowsers \in Nat, BPIInv PROVE BP!TypeOK /\ BP!IdleBrowserCloses
  OBVIOUS
<1> USE DEF BPIInv, BPCountInv
<1> DEFINE live == {i \in BP!Ids : bpBrowsers[i] \in {"starting", "up"}}
<1>1. live \subseteq {bpLaunching}
  BY DEF BPOneInv
<1>2. Cardinality(live) <= 1
  <2>1. live = {} \/ live = {bpLaunching}
    BY <1>1
  <2>2. Cardinality({bpLaunching}) = 1
    BY FS_Singleton
  <2>3. Cardinality({}) = 0
    BY FS_EmptySet
  <2>4. Cardinality(live) \in {0, 1}
    BY <2>1, <2>2, <2>3
  <2>5. QED
    BY <2>4
<1>3. BP!TypeOK
  BY DEF BPShape, BPTimerInv, BPReaderInv, BP!TypeOK, BP!Ids, BP!NoTimer
<1>4. QED
  BY <1>2, <1>3, BPCard DEF BPTimerInv, BPReaderInv, BP!IdleBrowserCloses

-----------------------------------------------------------------------------
(* One service read over HTTP: SessionHttp *)

\* Numbers of logins; 0 is none.
SHLogins == 0..shMaxLogins

\* The numbers stay within their bounds.
SHBounds == shLogins \in 1..shMaxLogins /\ Len(shQueue) <= shMaxPending

\* Types.
SHShape ==
  /\ shSource \in SHLogins /\ shLoaded \in SHLogins
  /\ shJar \in [login : SHLogins, aged : BOOLEAN]
  /\ shAt \in {"load", "read", "login", "reread"}
  /\ shRejected \in BOOLEAN /\ shTimer \in BOOLEAN /\ shPhase \in {"open", "closing", "closed"}
  /\ shQueue \in Seq(shCalls)
  /\ shReader \in [shCalls -> {"idle", "first", "renew", "second"}]

\* A read that is under way holds the queue and the login it found, and nothing is
\* left to read once the service is closed.
SHReadInv ==
  /\ shAt # "load" => shQueue # <<>> /\ shLoaded # 0
  /\ shAt \in {"read", "reread"} => shJar.login = shLoaded
  /\ shPhase = "closed" => shQueue = <<>> /\ shJar = SH!NoJar /\ shTimer = FALSE

\* The inductive invariant of the session.
SHIInv == SHShape /\ SHBounds /\ SHReadInv

\* The session starts with no cookies.
LEMMA SHInitInv == shMaxLogins \in Nat \ {0} /\ shMaxPending \in Nat /\ SH!Init => SHIInv
<1> SUFFICES ASSUME shMaxLogins \in Nat \ {0}, shMaxPending \in Nat, SH!Init PROVE SHIInv
  OBVIOUS
<1>1. shQueue \in Seq(shCalls) /\ Len(shQueue) = 0 /\ 0 \in SHLogins /\ 1 \in SHLogins
  BY DEF SH!Init, SHLogins
<1>2. SHShape
  BY <1>1 DEF SH!Init, SHShape, SH!NoJar
<1>3. SHBounds
  BY <1>1 DEF SH!Init, SHBounds
<1>4. SHReadInv
  BY DEF SH!Init, SHReadInv
<1>5. QED
  BY <1>2, <1>3, <1>4 DEF SHIInv

\* The end of a read keeps the types.
LEMMA SHEndTyped ==
  ASSUME shMaxPending \in Nat, SHShape, SHBounds, shQueue # <<>>,
         NEW outcome \in {"ok", "expired", "error"}, SH!End(outcome)
  PROVE  /\ shQueue' \in Seq(shCalls) /\ Len(shQueue') <= shMaxPending /\ shAt' = "load"
         /\ shRejected' \in BOOLEAN /\ shTimer' = TRUE
         /\ shReader' \in [shCalls -> {"idle", "first", "renew", "second"}]
<1>1. shQueue' \in Seq(shCalls) /\ Len(shQueue') = Len(shQueue) - 1 /\ Len(shQueue) \in Nat
  BY DEF SHShape, SH!End
<1>2. Len(shQueue') <= shMaxPending
  BY <1>1 DEF SHBounds
<1>3. shReader' \in [shCalls -> {"idle", "first", "renew", "second"}]
  BY DEF SHShape, SH!End
<1>4. shAt' = "load" /\ shRejected' \in BOOLEAN /\ shTimer' = TRUE
  BY DEF SH!End
<1>5. QED
  BY <1>1, <1>2, <1>3, <1>4

\* A read joins the queue of an open service only.
LEMMA SHEnqueueInv ==
  ASSUME shMaxPending \in Nat, SHIInv, NEW c \in shCalls, NEW try \in {"first", "second"},
         SH!Enqueue(c, try), shSource' \in SHLogins, shLogins' \in 1..shMaxLogins
  PROVE  SHIInv'
<1>1. UNCHANGED <<shJar, shAt, shLoaded, shRejected, shTimer, shPhase>>
  BY DEF SH!Enqueue
<1>2. shReader' \in [shCalls -> {"idle", "first", "renew", "second"}]
  BY DEF SH!Enqueue, SHIInv, SHShape
<1>3. /\ shQueue' \in Seq(shCalls) /\ Len(shQueue') <= shMaxPending
      /\ shQueue # <<>> => shQueue' # <<>>
      /\ shPhase = "closed" => shQueue' = shQueue
  <2>1. CASE shPhase # "open" \/ Len(shQueue) >= shMaxPending
    BY <2>1 DEF SH!Enqueue, SHIInv, SHShape, SHBounds
  <2>2. CASE shPhase = "open" /\ ~(Len(shQueue) >= shMaxPending)
    <3>1. shQueue' = Append(shQueue, c) /\ shQueue \in Seq(shCalls) /\ Len(shQueue) < shMaxPending
      BY <2>2 DEF SH!Enqueue, SHIInv, SHShape
    <3>2. QED
      BY <2>2, <3>1
  <2>3. QED
    BY <2>1, <2>2
<1>4. SHShape'
  BY <1>1, <1>2, <1>3 DEF SHIInv, SHShape, SHLogins
<1>5. SHBounds'
  BY <1>3 DEF SHBounds
<1>6. SHReadInv'
  BY <1>1, <1>3 DEF SHIInv, SHReadInv, SH!NoJar
<1>7. QED
  BY <1>4, <1>5, <1>6 DEF SHIInv

\* Every step keeps the invariant.
LEMMA SHNextInv == shMaxLogins \in Nat \ {0} /\ shMaxPending \in Nat /\ SHIInv /\ [SH!Next]_(SH!vars) => SHIInv'
<1> SUFFICES ASSUME shMaxLogins \in Nat \ {0}, shMaxPending \in Nat, SHIInv, [SH!Next]_(SH!vars) PROVE SHIInv'
  OBVIOUS
<1>0. SHShape /\ SHReadInv
  BY DEF SHIInv
<1>b. SHBounds /\ SH!NoJar \in [login : SHLogins, aged : BOOLEAN]
  BY DEF SHIInv, SH!NoJar, SHLogins
<1>c. UNCHANGED <<shLogins, shQueue>> => SHBounds'
  BY <1>b DEF SHBounds
<1>1. CASE SH!Replace
  <2>1. shSource' \in SHLogins /\ shLogins' \in 1..shMaxLogins
    BY <1>0, <1>b, <1>1 DEF SH!Replace, SHBounds, SHLogins
  <2>2. UNCHANGED <<shJar, shQueue, shAt, shLoaded, shRejected, shTimer, shPhase, shReader>>
    BY <1>1 DEF SH!Replace
  <2>3. SHShape' /\ SHReadInv'
    BY <1>0, <2>1, <2>2 DEF SHShape, SHReadInv, SHLogins, SH!NoJar
  <2>4. SHBounds'
    BY <1>b, <2>1, <2>2 DEF SHBounds
  <2>5. QED
    BY <2>3, <2>4 DEF SHIInv
<1>2. CASE SH!Age
  <2>1. shJar' \in [login : SHLogins, aged : BOOLEAN] /\ shJar'.login = shJar.login
    BY <1>0, <1>2 DEF SH!Age, SHShape
  <2>2. shJar # SH!NoJar
    BY <1>2 DEF SH!Age, SH!NoJar
  <2>3. SHShape' /\ SHReadInv'
    BY <1>0, <1>2, <2>1, <2>2 DEF SH!Age, SHShape, SHReadInv, SHLogins
  <2>4. QED
    BY <1>2, <1>c, <2>3 DEF SHIInv, SH!Age
<1>3. ASSUME NEW c \in shCalls, SH!Call(c) PROVE SHIInv'
  <2>1. shSource' \in SHLogins /\ shLogins' \in 1..shMaxLogins /\ SH!Enqueue(c, "first")
    BY <1>0, <1>b, <1>3 DEF SH!Call, SHShape, SHBounds
  <2>2. QED
    BY <2>1, SHEnqueueInv
<1>4. ASSUME NEW c \in shCalls, SH!Renew(c) PROVE SHIInv'
  <2>1. CASE shLogins < shMaxLogins /\ shLogins' = shLogins + 1 /\ shSource' = shLogins + 1 /\ SH!Enqueue(c, "second")
    <3>1. shSource' \in SHLogins /\ shLogins' \in 1..shMaxLogins
      BY <1>b, <2>1 DEF SHBounds, SHLogins
    <3>2. QED
      BY <2>1, <3>1, SHEnqueueInv
  <2>2. CASE /\ shReader' = [shReader EXCEPT ![c] = "idle"]
             /\ UNCHANGED <<shSource, shLogins, shJar, shQueue, shAt, shLoaded, shRejected, shTimer, shPhase>>
    <3>1. SHShape' /\ SHReadInv'
      BY <1>0, <2>2 DEF SHShape, SHReadInv, SH!NoJar, SHLogins
    <3>2. QED
      BY <1>c, <2>2, <3>1 DEF SHIInv
  <2>3. QED
    BY <1>4, <2>1, <2>2 DEF SH!Renew
<1>5. CASE SH!Load
  <2>1. /\ shQueue # <<>> /\ shAt = "load" /\ shLoaded' = shSource /\ UNCHANGED <<shSource, shLogins, shPhase>>
        /\ shPhase # "closed"
    BY <1>0, <1>5 DEF SH!Load, SHReadInv
  <2>2. CASE shJar' = SH!NoJar /\ \E outcome \in {"expired", "error"} : SH!End(outcome)
    <3>1. PICK outcome \in {"expired", "error"} : SH!End(outcome)
      BY <2>2
    <3>2. SHShape' /\ SHReadInv'
      BY <1>0, <1>b, <2>1, <2>2, <3>1, SHEndTyped DEF SHShape, SHReadInv, SHLogins
    <3>3. SHBounds'
      BY <1>0, <1>b, <2>1, <3>1, SHEndTyped DEF SHBounds
    <3>4. QED
      BY <3>2, <3>3 DEF SHIInv
  <2>3. CASE /\ shSource # 0 /\ SH!Go("read") /\ shTimer' = FALSE /\ shJar'.login = shSource
             /\ shJar' \in [login : SHLogins, aged : BOOLEAN]
    <3>1. SHShape' /\ SHReadInv'
      BY <1>0, <2>1, <2>3 DEF SHShape, SHReadInv, SH!Go, SHLogins
    <3>2. QED
      BY <1>c, <2>1, <2>3, <3>1 DEF SHIInv, SH!Go
  <2>4. shSource \in SHLogins /\ shJar \in [login : SHLogins, aged : BOOLEAN]
    BY <1>0 DEF SHShape
  <2>5. CASE shSource # 0 /\ SH!usable /\ SH!Go("read") /\ shTimer' = FALSE /\ UNCHANGED shJar
    BY <2>3, <2>4, <2>5 DEF SH!usable
  <2>6. CASE shSource # 0 /\ shJar' = [login |-> shSource, aged |-> FALSE] /\ SH!Go("read") /\ shTimer' = FALSE
    BY <2>3, <2>4, <2>6
  <2>7. QED
    BY <1>5, <2>2, <2>5, <2>6 DEF SH!Load
<1>6. CASE SH!Read
  <2>1. /\ shQueue # <<>> /\ shAt \in {"read", "reread"} /\ UNCHANGED <<shSource, shLogins, shLoaded, shPhase>>
        /\ shPhase # "closed" /\ shLoaded # 0
    BY <1>0, <1>6 DEF SH!Read, SHReadInv
  <2>2. shJar' \in {shJar, SH!NoJar}
    BY <1>6 DEF SH!Read
  <2>3. ASSUME NEW outcome \in {"ok", "expired", "error"}, SH!End(outcome) PROVE SHIInv'
    <3>1. SHShape' /\ SHReadInv'
      BY <1>0, <1>b, <2>1, <2>2, <2>3, SHEndTyped DEF SHShape, SHReadInv, SHLogins
    <3>2. SHBounds'
      BY <1>0, <1>b, <2>1, <2>3, SHEndTyped DEF SHBounds
    <3>3. QED
      BY <3>1, <3>2 DEF SHIInv
  <2>4. CASE SH!Go("login") /\ UNCHANGED shTimer
    <3>1. SHShape' /\ SHReadInv'
      BY <1>0, <1>b, <2>1, <2>2, <2>4 DEF SHShape, SHReadInv, SH!Go, SHLogins
    <3>2. QED
      BY <1>c, <2>1, <2>4, <3>1 DEF SHIInv, SH!Go
  <2>5. QED
    BY <1>6, <2>3, <2>4 DEF SH!Read
<1>7. CASE SH!Bootstrap
  <2>1. /\ shQueue # <<>> /\ shAt = "login" /\ UNCHANGED <<shSource, shLogins, shLoaded, shPhase>>
        /\ shPhase # "closed" /\ shLoaded # 0
    BY <1>0, <1>7 DEF SH!Bootstrap, SHReadInv
  <2>2. CASE shJar' = [login |-> shLoaded, aged |-> FALSE] /\ SH!Go("reread") /\ UNCHANGED shTimer
    <3>1. SHShape' /\ SHReadInv'
      BY <1>0, <2>1, <2>2 DEF SHShape, SHReadInv, SH!Go, SHLogins
    <3>2. QED
      BY <1>c, <2>1, <2>2, <3>1 DEF SHIInv, SH!Go
  <2>3. ASSUME NEW outcome \in {"expired", "error"}, SH!End(outcome), UNCHANGED shJar PROVE SHIInv'
    <3>1. SHShape' /\ SHReadInv'
      BY <1>0, <1>b, <2>1, <2>3, SHEndTyped DEF SHShape, SHReadInv, SHLogins
    <3>2. SHBounds'
      BY <1>0, <1>b, <2>1, <2>3, SHEndTyped DEF SHBounds
    <3>3. QED
      BY <3>1, <3>2 DEF SHIInv
  <2>4. QED
    BY <1>7, <2>2, <2>3 DEF SH!Bootstrap
<1>8. CASE SH!Idle
  <2>1. SHShape' /\ SHReadInv'
    BY <1>0, <1>b, <1>8 DEF SH!Idle, SHShape, SHReadInv, SHLogins
  <2>2. QED
    BY <1>c, <1>8, <2>1 DEF SHIInv, SH!Idle
<1>9. CASE SH!Close
  <2>1. SHShape' /\ SHReadInv'
    BY <1>0, <1>b, <1>9 DEF SH!Close, SHShape, SHReadInv, SHLogins
  <2>2. QED
    BY <1>c, <1>9, <2>1 DEF SHIInv, SH!Close
<1>10. CASE UNCHANGED SH!vars
  <2>1. SHShape' /\ SHReadInv'
    BY <1>0, <1>10 DEF SH!vars, SHShape, SHReadInv, SHLogins, SH!NoJar
  <2>2. QED
    BY <1>c, <1>10, <2>1 DEF SHIInv, SH!vars
<1>11. QED
  BY <1>1, <1>2, <1>3, <1>4, <1>5, <1>6, <1>7, <1>8, <1>9, <1>10 DEF SH!Next

\* Types and whose cookies are used, from the invariant.
LEMMA SHFollows == shMaxLogins \in Nat \ {0} /\ SHIInv => SH!TypeOK /\ SH!CookiesAreOfTheLogin
<1> SUFFICES ASSUME shMaxLogins \in Nat \ {0}, SHIInv PROVE SH!TypeOK /\ SH!CookiesAreOfTheLogin
  OBVIOUS
<1>1. shLogins \in SHLogins /\ Len(shQueue) <= shMaxPending
  BY DEF SHIInv, SHBounds, SHLogins
<1>2. {shSource, shLogins, shLoaded, shJar.login} \subseteq 0..shMaxLogins /\ shJar.aged \in BOOLEAN
  BY <1>1 DEF SHIInv, SHShape, SHLogins
<1>3. QED
  BY <1>1, <1>2 DEF SHIInv, SHShape, SHReadInv, SH!TypeOK, SH!CookiesAreOfTheLogin

-----------------------------------------------------------------------------
(* The Piazza session: PiazzaSession *)

\* A read works with the login of the account that is saved.
PSAccountInv ==
  /\ psSaved.account \in PS!Accounts \cup {psNoAccount}
  /\ psAt \in {"try", "login", "resave", "retry"} => psState.account = psSaved.account
  /\ PS!ConnectedAccountStands

\* A refusal is followed by the wait, which ends early with the process only, and no
\* login begins during it.
PSWaitInv ==
  /\ psFailures \in Nat /\ psCrashes \in Nat
  /\ psFailures <= psCrashes + 1
  /\ psFailures > psCrashes => psCooling
  /\ psAt \in {"login", "resave"} => psFailures <= psCrashes

\* The saved and the loaded login are logins.
PSShape == psSaved \in PS!Login /\ psState \in PS!Login

\* The inductive invariant of the session.
PSIInv == PSShape /\ PSAccountInv /\ PSWaitInv

\* What the actions make of a login is one.
LEMMA PSLogins ==
  /\ PS!NoLogin \in PS!Login /\ PS!NoLogin.account = psNoAccount
  /\ \A l \in PS!Login : l.account \in PS!Accounts \cup {psNoAccount}
  /\ \A l \in PS!Login, b \in BOOLEAN :
       [l EXCEPT !.live = b] \in PS!Login /\ [l EXCEPT !.live = b].account = l.account
  /\ \A f \in psForms : [account |-> psAccountOf[f], live |-> TRUE] \in PS!Login
  BY DEF PS!Login, PS!NoLogin, PS!Accounts

\* The session starts with the login on disk.
LEMMA PSInitInv == PS!Init => PSIInv
  BY PSLogins DEF PS!Init, PSIInv, PSShape, PSAccountInv, PSWaitInv,
     PS!ConnectedAccountStands

\* Every step keeps the invariant.
LEMMA PSNextInv == PSIInv /\ [PS!Next]_(PS!vars) => PSIInv'
<1> SUFFICES ASSUME PSIInv, [PS!Next]_(PS!vars) PROVE PSIInv'
  OBVIOUS
<1> USE DEF PSIInv, PSShape, PSAccountInv, PSWaitInv, PS!ConnectedAccountStands, PS!Go, PS!End
<1>1. CASE PS!Expire
  BY <1>1, PSLogins DEF PS!Expire
<1>2. CASE PS!Pass
  BY <1>2 DEF PS!Pass
<1>3. ASSUME NEW c \in PS!Callers, PS!Begin(c) PROVE PSIInv'
  BY <1>3 DEF PS!Begin
<1>4. CASE PS!Authenticate
  <2>1. psState' \in PS!Login /\ psAt' \in {"save", "start"}
    BY <1>4, PSLogins DEF PS!Authenticate
  <2>2. UNCHANGED <<psSaved, psCooling, psConnected, psFailures, psCrashes>>
    BY <1>4 DEF PS!Authenticate
  <2>3. QED
    BY <2>1, <2>2, PSLogins
<1>5. CASE PS!SaveConnect
  BY <1>5, PSLogins DEF PS!SaveConnect
<1>6. CASE PS!Load
  BY <1>6, PSLogins DEF PS!Load
<1>7. CASE PS!Try
  BY <1>7, PSLogins DEF PS!Try
<1>8. CASE PS!Relogin
  <2>1. PSShape'
    BY <1>8, PSLogins DEF PS!Relogin
  <2>2. psAt' \in {"resave", "start"} /\ (psAt' = "resave" => psState'.account = psState.account)
    BY <1>8, PSLogins DEF PS!Relogin
  <2>3. PSAccountInv'
    BY <1>8, <2>2 DEF PS!Relogin
  <2>4. PSWaitInv'
    BY <1>8 DEF PS!Relogin
  <2>5. QED
    BY <2>1, <2>3, <2>4
<1>9. CASE PS!Resave
  <2>1. \/ psSaved' = psState /\ psAt' = "retry" /\ psState' = psState /\ psCooling' = FALSE
        \/ psSaved' = psSaved /\ psAt' = "start" /\ psState' = PS!NoLogin /\ psCooling' = psCooling
    BY <1>9 DEF PS!Resave
  <2>2. psAt = "resave" /\ UNCHANGED <<psConnected, psFailures, psCrashes>>
    BY <1>9 DEF PS!Resave
  <2>3. PSShape'
    BY <2>1, PSLogins
  <2>4. PSAccountInv'
    BY <2>1, <2>2, PSLogins
  <2>5. PSWaitInv'
    BY <2>1, <2>2, PSLogins
  <2>6. QED
    BY <2>3, <2>4, <2>5
<1>10. CASE PS!Crash
  BY <1>10, PSLogins DEF PS!Crash
<1>11. CASE UNCHANGED PS!vars
  BY <1>11 DEF PS!vars
<1>12. QED
  BY <1>1, <1>2, <1>3, <1>4, <1>5, <1>6, <1>7, <1>8, <1>9, <1>10, <1>11 DEF PS!Next

\* Every action leaves each variable in its type.
LEMMA PSNextType == PS!TypeOK /\ [PS!Next]_(PS!vars) => PS!TypeOK'
<1> SUFFICES ASSUME PS!TypeOK, [PS!Next]_(PS!vars) PROVE PS!TypeOK'
  OBVIOUS
<1> USE PSLogins DEF PS!TypeOK, PS!Go, PS!End
<1>1. CASE PS!Expire
  BY <1>1 DEF PS!Expire
<1>2. CASE PS!Pass
  BY <1>2 DEF PS!Pass
<1>3. ASSUME NEW c \in PS!Callers, PS!Begin(c) PROVE PS!TypeOK'
  BY <1>3 DEF PS!Begin
<1>4. CASE PS!Authenticate
  BY <1>4 DEF PS!Authenticate
<1>5. CASE PS!SaveConnect
  BY <1>5 DEF PS!SaveConnect
<1>6. CASE PS!Load
  BY <1>6 DEF PS!Load
<1>7. CASE PS!Try
  BY <1>7 DEF PS!Try
<1>8. CASE PS!Relogin
  BY <1>8 DEF PS!Relogin
<1>9. CASE PS!Resave
  BY <1>9 DEF PS!Resave
<1>10. CASE PS!Crash
  BY <1>10 DEF PS!Crash
<1>11. CASE UNCHANGED PS!vars
  BY <1>11 DEF PS!vars
<1>12. QED
  BY <1>1, <1>2, <1>3, <1>4, <1>5, <1>6, <1>7, <1>8, <1>9, <1>10, <1>11 DEF PS!Next

\* The first state is in the types.
LEMMA PSInitType == PS!Init => PS!TypeOK
  BY PSLogins DEF PS!Init, PS!TypeOK

\* What the session promises is part of its invariant.
LEMMA PSFollows == PSIInv => PS!ConnectedAccountStands /\ PS!RefusedOncePerLife
  BY DEF PSIInv, PSAccountInv, PSWaitInv, PS!RefusedOncePerLife

-----------------------------------------------------------------------------
(* The Crowdmark session: CrowdmarkSession *)

\* The context that is at hand, at each place of the call.
CSContextInv ==
  /\ csContext # 0 => csTimer
  /\ csContext # 0 /\ csAt # "verify" => csContext \notin csForeign
  /\ csAt = "verify" => csContext = csLoaded /\ csAge # 2
  /\ csAt = "use" /\ csCall = "read" => csContext = csLoaded /\ csAge # 2
  /\ csAt = "use" /\ csContext # 0 => csContext = csLoaded
  /\ csAt = "edit" => csPage = csLoaded /\ csPage \notin csForeign

\* What the call has loaded was saved when it began, or later.
CSLoadedInv ==
  /\ csSource \in Nat /\ csSource > 0 /\ csSince \in Nat /\ csLoaded \in Nat
  /\ csSince <= csSource
  /\ csAt \in {"boot", "verify", "use", "edit"} => csLoaded >= csSince /\ csLoaded > 0
  /\ csAge \in {0, 1, 2}
  /\ csAt \in {"idle", "load", "boot", "verify", "use", "edit"}

\* The inductive invariant of the session.
CSIInv == CSContextInv /\ CSLoadedInv

\* The session starts without a context.
LEMMA CSInitInv == CS!Init => CSIInv
  BY DEF CS!Init, CSIInv, CSContextInv, CSLoadedInv

\* One step per action: the context is closed or made by the call, or dropped by
\* its timer, which a call that relies on it outruns.
LEMMA CSNextInv == CSIInv /\ [CS!Next]_(CS!vars) => CSIInv'
<1> SUFFICES ASSUME CSIInv, [CS!Next]_(CS!vars) PROVE CSIInv'
  OBVIOUS
<1> USE DEF CSIInv, CSContextInv, CSLoadedInv, CS!Go, CS!End, CS!Close, CS!kept
<1>1. CASE CS!Replace
  BY <1>1 DEF CS!Replace
<1>2. CASE CS!Begin
  BY <1>2 DEF CS!Begin
<1>3. CASE CS!Load
  BY <1>3 DEF CS!Load, CS!canReuse
<1>4. CASE CS!Boot
  BY <1>4 DEF CS!Boot
<1>5. CASE CS!Verify
  BY <1>5 DEF CS!Verify
<1>6. CASE CS!Read
  BY <1>6 DEF CS!Read
<1>7. CASE CS!OpenPage
  BY <1>7 DEF CS!OpenPage
<1>8. CASE CS!Edit
  BY <1>8 DEF CS!Edit
<1>9. CASE CS!Age
  BY <1>9 DEF CS!Age
<1>10. CASE CS!Expire
  BY <1>10 DEF CS!Expire
<1>11. CASE UNCHANGED CS!vars
  BY <1>11 DEF CS!vars
<1>12. QED
  BY <1>1, <1>2, <1>3, <1>4, <1>5, <1>6, <1>7, <1>8, <1>9, <1>10, <1>11 DEF CS!Next

\* Every action leaves each variable in its type.
CSCounted ==
  /\ csSource \in 1..csMaxLogins /\ csContext \in 0..csSource /\ csAge \in 0..2
  /\ csLoaded \in 0..csSource /\ csTries \in {0, 1} /\ csPage \in 0..csSource
  /\ csSince \in 0..csSource

\* Logins are those there may be.
CSNamed ==
  /\ csTimer \in BOOLEAN /\ csCall \in {"none", "read", "edit"}
  /\ csAt \in {"idle", "load", "boot", "verify", "use", "edit"}

\* Logins are numbered in order.
LEMMA CSNextCounted == csMaxLogins \in Nat /\ CSCounted /\ [CS!Next]_(CS!vars) => CSCounted'
<1> SUFFICES ASSUME csMaxLogins \in Nat, CSCounted, [CS!Next]_(CS!vars) PROVE CSCounted'
  OBVIOUS
<1> USE DEF CSCounted, CS!Go, CS!End, CS!Close, CS!kept
<1>1. CASE CS!Replace
  BY <1>1 DEF CS!Replace
<1>2. CASE CS!Begin
  BY <1>2 DEF CS!Begin
<1>3. CASE CS!Load
  BY <1>3 DEF CS!Load, CS!canReuse
<1>4. CASE CS!Boot
  BY <1>4 DEF CS!Boot
<1>5. CASE CS!Verify
  BY <1>5 DEF CS!Verify
<1>6. CASE CS!Read
  BY <1>6 DEF CS!Read
<1>7. CASE CS!OpenPage
  BY <1>7 DEF CS!OpenPage
<1>8. CASE CS!Edit
  BY <1>8 DEF CS!Edit
<1>9. CASE CS!Age
  BY <1>9 DEF CS!Age
<1>10. CASE CS!Expire
  BY <1>10 DEF CS!Expire
<1>11. CASE UNCHANGED CS!vars
  BY <1>11 DEF CS!vars
<1>12. QED
  BY <1>1, <1>2, <1>3, <1>4, <1>5, <1>6, <1>7, <1>8, <1>9, <1>10, <1>11 DEF CS!Next

\* A step knows no other login.
LEMMA CSNextNamed == CSNamed /\ [CS!Next]_(CS!vars) => CSNamed'
<1> SUFFICES ASSUME CSNamed, [CS!Next]_(CS!vars) PROVE CSNamed'
  OBVIOUS
<1>1. csAt' \in {"idle", "load", "boot", "verify", "use", "edit"} /\ csCall' \in {"none", "read", "edit"}
  BY DEF CSNamed, CS!Next, CS!vars, CS!Replace, CS!Begin, CS!Load, CS!Boot, CS!Verify,
     CS!Read, CS!OpenPage, CS!Edit, CS!Age, CS!Expire, CS!Go, CS!End
<1>2. csTimer' \in {TRUE, FALSE, csTimer}
  BY DEF CS!Next, CS!vars, CS!kept, CS!Replace, CS!Begin, CS!Load, CS!Boot, CS!Verify,
     CS!Read, CS!OpenPage, CS!Edit, CS!Age, CS!Expire, CS!Close
<1>3. QED
  BY <1>1, <1>2 DEF CSNamed

\* A step keeps the types.
LEMMA CSNextType == csMaxLogins \in Nat /\ CS!TypeOK /\ [CS!Next]_(CS!vars) => CS!TypeOK'
  BY CSNextCounted, CSNextNamed DEF CS!TypeOK, CSCounted, CSNamed

\* The first state is in the types.
LEMMA CSInitType == csMaxLogins \in Nat \ {0} /\ CS!Init => CS!TypeOK
<1>1. csMaxLogins \in Nat \ {0} /\ CS!Init => CSCounted
  BY DEF CS!Init, CSCounted
<1>2. CS!Init => CSNamed
  BY DEF CS!Init, CSNamed
<1>3. QED
  BY <1>1, <1>2 DEF CS!TypeOK, CSCounted, CSNamed

\* The owner's login is used, from the invariant.
LEMMA CSFollows == CSIInv => CS!OwnersLoginIsUsed
  BY DEF CSIInv, CSContextInv, CSLoadedInv, CS!OwnersLoginIsUsed

-----------------------------------------------------------------------------
(* The room list: RoomCatalog *)

\* Types.
ROShape ==
  /\ roNow \in 0..roSlots /\ roCached \in BOOLEAN /\ roPending \subseteq roLibraries
  /\ roAt \in [RO!Calls -> {"idle", "list", "found", "grid", "over", "failed"}]
  /\ roGrid \in RO!Grids /\ roSeen \in [RO!Calls -> RO!Grids \cup {<<>>}]

\* The inductive invariant of the room list.
ROIInv == ROShape /\ RO!ListIsAwaited

\* Nothing is listed at the start.
LEMMA ROInitInv == roSlots \in Nat /\ RO!Init => ROIInv
<1> SUFFICES ASSUME roSlots \in Nat, RO!Init PROVE ROIInv
  OBVIOUS
<1>1. roPending \subseteq roLibraries /\ roCached \in BOOLEAN /\ roGrid \in RO!Grids
  BY DEF RO!Init
<1>1a. roNow \in 0..roSlots
  BY DEF RO!Init
<1>2. /\ roAt \in [RO!Calls -> {"idle", "list", "found", "grid", "over", "failed"}]
      /\ roSeen \in [RO!Calls -> RO!Grids \cup {<<>>}]
  BY DEF RO!Init
<1>3. QED
  BY <1>1, <1>1a, <1>2 DEF RO!Init, ROIInv, ROShape, RO!ListIsAwaited

\* A call that finds the list, joins its read or begins one keeps the invariant.
LEMMA ROAskInv ==
  ASSUME roLibraries # {}, ROIInv, NEW c \in RO!Calls, RO!Ask(c)
  PROVE ROIInv'
<1>0. ROShape /\ RO!ListIsAwaited
  BY DEF ROIInv
<1>1. UNCHANGED <<roNow, roGrid, roCached, roSeen>>
  BY DEF RO!Ask
<1>2. \/ /\ roAt' = [roAt EXCEPT ![c] = IF roCached THEN "found" ELSE "list"]
         /\ roPending' = IF roCached \/ roPending # {} THEN roPending ELSE roLibraries
      \/ roAt' = [roAt EXCEPT ![c] = "failed"] /\ UNCHANGED roPending
  BY DEF RO!Ask
<1>3. roAt' \in [RO!Calls -> {"idle", "list", "found", "grid", "over", "failed"}]
  BY <1>0, <1>2 DEF ROShape
<1>4. ROShape'
  BY <1>0, <1>1, <1>2, <1>3 DEF ROShape
<1>5. \A d \in RO!Calls : roAt'[d] = "list" => roAt[d] = "list" \/ (d = c /\ ~roCached /\ roPending' # {})
  BY <1>0, <1>2 DEF ROShape
<1>6. roPending # {} => roPending' # {}
  BY <1>2
<1>7. QED
  BY <1>0, <1>4, <1>5, <1>6 DEF ROIInv, RO!ListIsAwaited

\* The end of the read of the list leaves nobody waiting.
LEMMA ROSettledInv ==
  ASSUME ROIInv, NEW place \in {"found", "failed"}, roPending' = {}, roCached' \in BOOLEAN,
         roAt' = [c \in RO!Calls |-> RO!settled(c, place)], UNCHANGED <<roNow, roGrid, roSeen>>
  PROVE  ROIInv'
<1>1. \A c \in RO!Calls : /\ RO!settled(c, place) # "list"
                           /\ RO!settled(c, place) \in {"idle", "list", "found", "grid", "over", "failed"}
  BY DEF ROIInv, ROShape, RO!settled
<1>2. ROShape'
  BY <1>1 DEF ROIInv, ROShape
<1>3. RO!ListIsAwaited'
  BY <1>1 DEF RO!ListIsAwaited
<1>4. QED
  BY <1>2, <1>3 DEF ROIInv

\* A call that has its list goes on by itself.
LEMMA ROCallInv ==
  ASSUME ROIInv, NEW c \in RO!Calls, NEW place \in {"grid", "over", "failed"},
         roAt' = [roAt EXCEPT ![c] = place], UNCHANGED <<roNow, roGrid, roCached, roPending>>,
         roSeen' \in [RO!Calls -> RO!Grids \cup {<<>>}]
  PROVE  ROIInv'
<1>1. /\ roAt' \in [RO!Calls -> {"idle", "list", "found", "grid", "over", "failed"}]
      /\ \A d \in RO!Calls : roAt'[d] = "list" => roAt[d] = "list"
  BY DEF ROIInv, ROShape
<1>2. ROShape'
  BY <1>1 DEF ROIInv, ROShape
<1>3. RO!ListIsAwaited'
  BY <1>1 DEF ROIInv, RO!ListIsAwaited
<1>4. QED
  BY <1>2, <1>3 DEF ROIInv

\* Every step keeps the invariant.
LEMMA RONextInv == roSlots \in Nat /\ roLibraries # {} /\ ROIInv /\ [RO!Next]_(RO!vars) => ROIInv'
<1> SUFFICES ASSUME roSlots \in Nat, roLibraries # {}, ROIInv, [RO!Next]_(RO!vars) PROVE ROIInv'
  OBVIOUS
<1>0. ROShape /\ RO!ListIsAwaited
  BY DEF ROIInv
<1>1. ASSUME NEW c \in RO!Calls, RO!Find(c) \/ RO!GridFails(c) PROVE ROIInv'
  <2>1. \E place \in {"grid", "over", "failed"} : roAt' = [roAt EXCEPT ![c] = place]
    BY <1>1 DEF RO!Find, RO!GridFails
  <2>2. UNCHANGED <<roNow, roGrid, roCached, roPending, roSeen>>
    BY <1>1 DEF RO!Find, RO!GridFails
  <2>3. QED
    BY <1>0, <2>1, <2>2, ROCallInv DEF ROShape
<1>2. ASSUME NEW c \in RO!Calls, RO!Availability(c) \/ RO!Prepare(c) PROVE ROIInv'
  <2>1. /\ roAt' = [roAt EXCEPT ![c] = "over"] /\ roSeen' = [roSeen EXCEPT ![c] = roGrid]
        /\ UNCHANGED <<roNow, roGrid, roCached, roPending>>
    BY <1>2 DEF RO!Availability, RO!Prepare
  <2>2. roSeen' \in [RO!Calls -> RO!Grids \cup {<<>>}]
    BY <1>0, <2>1 DEF ROShape
  <2>3. QED
    BY <2>1, <2>2, ROCallInv
<1>3. ASSUME NEW l \in roLibraries, RO!Page(l) PROVE ROIInv'
  <2>1. roPending' = roPending \ {l} /\ roPending # {l} /\ l \in roPending
        /\ UNCHANGED <<roNow, roGrid, roCached, roAt, roSeen>>
    BY <1>3 DEF RO!Page
  <2>2. roPending' # {} /\ roPending' \subseteq roLibraries
    BY <1>0, <2>1 DEF ROShape
  <2>3. QED
    BY <1>0, <2>1, <2>2 DEF ROIInv, ROShape, RO!ListIsAwaited
<1>4. ASSUME NEW l \in roLibraries, RO!PageFails(l) \/ RO!Parse(l) PROVE ROIInv'
  <2>1. /\ roPending' = {} /\ roCached' \in BOOLEAN /\ UNCHANGED <<roNow, roGrid, roSeen>>
        /\ \E place \in {"found", "failed"} : roAt' = [c \in RO!Calls |-> RO!settled(c, place)]
    BY <1>0, <1>4 DEF RO!PageFails, RO!Parse, ROShape
  <2>2. QED
    BY <2>1, ROSettledInv
<1>5. CASE RO!Expire
  BY <1>0, <1>5 DEF RO!Expire, ROIInv, ROShape, RO!ListIsAwaited
<1>6. CASE RO!Tick
  <2>1. roNow' \in 0..roSlots
    BY <1>0, <1>6 DEF RO!Tick, ROShape
  <2>2. QED
    BY <1>0, <1>6, <2>1 DEF RO!Tick, ROIInv, ROShape, RO!ListIsAwaited
<1>7. ASSUME NEW i \in 1..roSlots, RO!Change(i) PROVE ROIInv'
  <2>1. roGrid' \in RO!Grids
    BY <1>0, <1>7 DEF RO!Change, ROShape, RO!Grids
  <2>2. QED
    BY <1>0, <1>7, <2>1 DEF RO!Change, ROIInv, ROShape, RO!ListIsAwaited
<1>8. CASE UNCHANGED RO!vars
  BY <1>0, <1>8 DEF RO!vars, ROIInv, ROShape, RO!ListIsAwaited
<1>9. QED
  BY <1>1, <1>2, <1>3, <1>4, <1>5, <1>6, <1>7, <1>8, ROAskInv DEF RO!Next

\* Types and that whoever waits is answered, from the invariant.
LEMMA ROFollows == ROIInv => RO!TypeOK /\ RO!ListIsAwaited
  BY DEF ROIInv, ROShape, RO!TypeOK

-----------------------------------------------------------------------------
(* What is offered and what can be booked: the two algorithms of RoomCatalog *)

\* A slot that may be booked after the present.
ROfree(g, present, i) == g[i] = "free" /\ i > present

\* The slots from j to k are all free.
RORun(g, present, j, k) == \A i \in j..k : ROfree(g, present, i)

ROWindow == [start : 1..roSlots, end : Nat]

\* What the loop may hold; a window is open only if there is one.
ROHeld == {a \in [windows : Seq(ROWindow), open : BOOLEAN] : a.open => Len(a.windows) > 0}

\* A slot keeps what the loop holds in its type.
LEMMA ROWidenTyped ==
  ASSUME roSlots \in Nat, NEW g, NEW present, NEW a \in ROHeld, NEW i \in 1..roSlots
  PROVE  RO!Widen(g, present, a, i) \in ROHeld
<1> DEFINE n == Len(a.windows)
           new == [start |-> i, end |-> i + 1]
<1>1. a.windows \in Seq(ROWindow) /\ a.open \in BOOLEAN /\ n \in Nat /\ (a.open => n \in 1..n)
  BY DEF ROHeld
<1>2. CASE RO!Widen(g, present, a, i) = [a EXCEPT !.open = FALSE]
  BY <1>1, <1>2 DEF ROHeld
<1>3. CASE a.open /\ RO!Widen(g, present, a, i) = [a EXCEPT !.windows[n].end = i + 1]
  <2> DEFINE longer == [a.windows[n] EXCEPT !.end = i + 1]
  <2>0. longer \in ROWindow
    <3>1. a.windows[n] \in ROWindow
      BY <1>1, <1>3
    <3>2. \A w \in ROWindow : [w EXCEPT !.end = i + 1] \in ROWindow
      BY DEF ROWindow
    <3> HIDE DEF n
    <3>3. QED
      BY <3>1, <3>2
  <2>1. [a.windows EXCEPT ![n] = longer] \in Seq(ROWindow) /\ Len([a.windows EXCEPT ![n] = longer]) = n
    <3> HIDE DEF longer
    <3>1. QED
      BY <1>1, <1>3, <2>0
  <2>2. RO!Widen(g, present, a, i) = [a EXCEPT !.windows = [a.windows EXCEPT ![n] = longer]]
    BY <1>3
  <2> HIDE DEF longer
  <2>3. QED
    BY <1>1, <1>3, <2>1, <2>2 DEF ROHeld
<1>4. CASE RO!Widen(g, present, a, i) = [windows |-> Append(a.windows, new), open |-> TRUE]
  <2>1. new \in ROWindow
    BY DEF ROWindow
  <2>2. Append(a.windows, new) \in Seq(ROWindow) /\ Len(Append(a.windows, new)) = n + 1
    BY <1>1, <2>1
  <2>3. QED
    BY <1>1, <1>4, <2>2 DEF ROHeld
<1>5. QED
  BY <1>2, <1>3, <1>4 DEF RO!Widen

\* The windows come from a loop over the slots: each slot makes of them what the body does.
LEMMA ROWidened ==
  ASSUME roSlots \in Nat, NEW g, NEW present
  PROVE  /\ RO!widened(g, present) \in [0..roSlots -> ROHeld]
         /\ RO!widened(g, present)[0] = [windows |-> <<>>, open |-> FALSE]
         /\ \A i \in 1..roSlots :
              RO!widened(g, present)[i] =
                IF RO!isListed(g, i) THEN RO!Widen(g, present, RO!widened(g, present)[i - 1], i)
                ELSE RO!widened(g, present)[i - 1]
<1> DEFINE base == [windows |-> <<>>, open |-> FALSE]
           turn(a, i) == IF RO!isListed(g, i) THEN RO!Widen(g, present, a, i) ELSE a
           step == [i \in 1..roSlots |-> [a \in ROHeld |-> turn(a, i)]]
           IsLoop(f) == f = [i \in 0..roSlots |-> IF i = 0 THEN base ELSE turn(f[i - 1], i)]
<1>1. RO!widened(g, present) = CHOOSE f : IsLoop(f)
  BY DEF RO!widened
<1>2. base \in ROHeld
  BY DEF ROHeld
<1>3. \A i \in 1..roSlots, a \in ROHeld : turn(a, i) \in ROHeld
  BY ROWidenTyped
<1> HIDE DEF base, turn
<1>4. step \in Bodies(roSlots, ROHeld)
  BY <1>3 DEF Bodies
<1>4a. \A i \in 1..roSlots, a \in ROHeld : step[i][a] = turn(a, i)
  OBVIOUS
<1> HIDE DEF step
<1>5. PICK f : IsRun(f, roSlots, ROHeld, base, step)
  BY <1>2, <1>4, LoopRuns
<1>5a. f \in [0..roSlots -> ROHeld] /\ f[0] = base /\ \A i \in 1..roSlots : f[i] = step[i][f[i - 1]]
  BY <1>5 DEF IsRun
<1>6. \A i \in 0..roSlots : f[i] = IF i = 0 THEN base ELSE turn(f[i - 1], i)
  BY <1>4a, <1>5a
<1>7. IsLoop(f)
  BY <1>5a, <1>6
<1>8. ASSUME NEW h, IsLoop(h)
      PROVE  /\ h[0] = base /\ \A i \in 1..roSlots : h[i] = turn(h[i - 1], i)
             /\ h \in [0..roSlots -> ROHeld]
  <2>1. \A i \in 0..roSlots : h[i] = IF i = 0 THEN base ELSE turn(h[i - 1], i)
    BY <1>8
  <2> DEFINE S == {i \in 0..roSlots : h[i] \in ROHeld}
  <2>2. 0 \in S
    BY <1>2, <2>1
  <2>3. ASSUME NEW i \in (0 + 1)..roSlots, i - 1 \in S PROVE i \in S
    <3>1. i \in 1..roSlots
      OBVIOUS
    <3>2. QED
      BY <1>3, <2>1, <2>3, <3>1
  <2>4. 0..roSlots \subseteq S
    <3> HIDE DEF S
    <3>1. QED
      BY <2>2, <2>3, UpTo
  <2>5. h = [i \in 0..roSlots |-> h[i]]
    BY <1>8, <2>1
  <2>6. h[0] = base /\ \A i \in 1..roSlots : h[i] = turn(h[i - 1], i)
    BY <2>1
  <2>7. \A i \in 0..roSlots : h[i] \in ROHeld
    BY <2>4
  <2>8. QED
    BY <2>5, <2>6, <2>7
<1>9. IsLoop(RO!widened(g, present))
  <2> HIDE DEF IsLoop
  <2>1. QED
    BY <1>1, <1>7
<1>10. QED
  BY <1>8, <1>9 DEF base, turn

\* The cursor comes from a loop over the slots too.
LEMMA ROWalked ==
  ASSUME roSlots \in Nat, NEW g, NEW b \in RO!Bookings
  PROVE  /\ RO!walked(g, b)[0] = [cursor |-> b.start, over |-> FALSE]
         /\ \A i \in 1..roSlots :
              RO!walked(g, b)[i] =
                IF RO!isListed(g, i) THEN RO!Walk(g, b, RO!walked(g, b)[i - 1], i)
                ELSE RO!walked(g, b)[i - 1]
<1> DEFINE base == [cursor |-> b.start, over |-> FALSE]
           turn(a, i) == IF RO!isListed(g, i) THEN RO!Walk(g, b, a, i) ELSE a
           A == [cursor : Nat, over : BOOLEAN]
           step == [i \in 1..roSlots |-> [a \in A |-> turn(a, i)]]
           IsLoop(f) == f = [i \in 0..roSlots |-> IF i = 0 THEN base ELSE turn(f[i - 1], i)]
<1>1. RO!walked(g, b) = CHOOSE f : IsLoop(f)
  BY DEF RO!walked
<1>2. base \in A
  BY DEF RO!Bookings
<1>3. ASSUME NEW i \in 1..roSlots, NEW a \in A PROVE turn(a, i) \in A
  <2>1. a.over \in BOOLEAN /\ [a EXCEPT !.over = TRUE] \in A
    OBVIOUS
  <2>1a. [cursor |-> i + 1, over |-> i + 1 = b.start + b.length] \in A
    BY <2>1, i + 1 \in Nat
  <2> HIDE DEF A
  <2>2. QED
    BY <2>1, <2>1a DEF RO!Walk
<1> HIDE DEF base, turn, A
<1>4. step \in Bodies(roSlots, A)
  BY <1>3 DEF Bodies
<1>4a. \A i \in 1..roSlots, a \in A : step[i][a] = turn(a, i)
  OBVIOUS
<1> HIDE DEF step
<1>5. PICK f : IsRun(f, roSlots, A, base, step)
  BY <1>2, <1>4, LoopRuns
<1>5a. f \in [0..roSlots -> A] /\ f[0] = base /\ \A i \in 1..roSlots : f[i] = step[i][f[i - 1]]
  BY <1>5 DEF IsRun
<1>6. \A i \in 0..roSlots : f[i] = IF i = 0 THEN base ELSE turn(f[i - 1], i)
  BY <1>4a, <1>5a
<1>7. IsLoop(f)
  BY <1>5a, <1>6
<1>8. IsLoop(RO!walked(g, b))
  <2> HIDE DEF IsLoop
  <2>1. QED
    BY <1>1, <1>7
<1>9. \A i \in 0..roSlots : RO!walked(g, b)[i] = IF i = 0 THEN base ELSE turn(RO!walked(g, b)[i - 1], i)
  BY <1>8
<1>10. RO!walked(g, b)[0] = base /\ \A i \in 1..roSlots : RO!walked(g, b)[i] = turn(RO!walked(g, b)[i - 1], i)
  BY <1>9
<1>11. QED
  BY <1>10 DEF base, turn

\* After the slots to i each window is a run of free slots, the last one goes back as far
\* as the free slots before i + 1 do, and every run so far is in a window.
ROFreeInv(g, present, a, i) ==
  /\ \A m \in 1..Len(a.windows) :
       /\ a.windows[m].start < a.windows[m].end /\ a.windows[m].end <= i + 1
       /\ RORun(g, present, a.windows[m].start, a.windows[m].end - 1)
  /\ i > 0 /\ ROfree(g, present, i) =>
       /\ a.open /\ a.windows[Len(a.windows)].end = i + 1
       /\ \A j \in 1..i : RORun(g, present, j, i) => a.windows[Len(a.windows)].start <= j
  /\ \A j \in 1..i : \A k \in j..i : RORun(g, present, j, k) =>
       \E m \in 1..Len(a.windows) : a.windows[m].start <= j /\ k < a.windows[m].end

\* The windows are between slots.
LEMMA ROHeldNats ==
  ASSUME roSlots \in Nat, NEW a \in ROHeld
  PROVE  /\ a.windows \in Seq(ROWindow) /\ Len(a.windows) \in Nat /\ a.open \in BOOLEAN
         /\ \A m \in 1..Len(a.windows) :
              a.windows[m] \in ROWindow /\ a.windows[m].start \in Nat /\ a.windows[m].end \in Nat
<1>1. a.windows \in Seq(ROWindow) /\ a.open \in BOOLEAN
  BY DEF ROHeld
<1>2. \A w \in ROWindow : w.start \in Nat /\ w.end \in Nat
  BY DEF ROWindow
<1>3. QED
  BY <1>1, <1>2

\* A slot that is not free, or not listed, ends what was open.
LEMMA ROCloses ==
  ASSUME roSlots \in Nat, NEW g, NEW present, NEW a \in ROHeld, NEW i \in 1..roSlots,
         ROFreeInv(g, present, a, i - 1), ~ROfree(g, present, i), NEW b \in ROHeld, b.windows = a.windows
  PROVE  ROFreeInv(g, present, b, i)
<1>1. \A m \in 1..Len(a.windows) : a.windows[m].start \in Nat /\ a.windows[m].end \in Nat
  BY ROHeldNats
<1>2. \A m \in 1..Len(b.windows) :
        /\ b.windows[m].start < b.windows[m].end /\ b.windows[m].end <= i + 1
        /\ RORun(g, present, b.windows[m].start, b.windows[m].end - 1)
  BY <1>1 DEF ROFreeInv
<1>3. ASSUME NEW j \in 1..i, NEW k \in j..i, RORun(g, present, j, k)
      PROVE  \E m \in 1..Len(b.windows) : b.windows[m].start <= j /\ k < b.windows[m].end
  <2>1. k # i
    BY <1>3 DEF RORun
  <2>2. j \in 1..(i - 1) /\ k \in j..(i - 1)
    BY <2>1
  <2>3. QED
    BY <1>3, <2>2 DEF ROFreeInv
<1>4. QED
  BY <1>2, <1>3 DEF ROFreeInv

\* A free slot right behind the open window makes it longer.
LEMMA ROLengthens ==
  ASSUME roSlots \in Nat, NEW g, NEW present, NEW a \in ROHeld, NEW i \in 1..roSlots,
         ROFreeInv(g, present, a, i - 1), ROfree(g, present, i),
         a.open, a.windows[Len(a.windows)].end = i,
         NEW b \in ROHeld, b = [a EXCEPT !.windows[Len(a.windows)].end = i + 1]
  PROVE  ROFreeInv(g, present, b, i)
<1> DEFINE n == Len(a.windows)
           old == a.windows[n]
<1>1. a.windows \in Seq(ROWindow) /\ n \in Nat /\ n \in 1..n
  BY DEF ROHeld
<1>2. \A m \in 1..n : a.windows[m].start \in Nat /\ a.windows[m].end \in Nat
  BY ROHeldNats
<1>3. /\ b.open = a.open /\ b.windows = [a.windows EXCEPT ![n] = [old EXCEPT !.end = i + 1]]
  BY DEF ROHeld
<1>4. /\ Len(b.windows) = n /\ b.windows[n] = [old EXCEPT !.end = i + 1]
      /\ \A m \in 1..n : m # n => b.windows[m] = a.windows[m]
  BY <1>1, <1>3
<1>5. b.windows[n].start = old.start /\ b.windows[n].end = i + 1
  <2>1. old \in ROWindow
    BY <1>1
  <2> HIDE DEF old
  <2>2. QED
    BY <1>4, <2>1 DEF ROWindow
<1>6. old.start < i /\ RORun(g, present, old.start, i - 1) /\ old.start \in Nat
  BY <1>1, <1>2 DEF ROFreeInv
<1>7. RORun(g, present, old.start, i)
  BY <1>6 DEF RORun
<1>8. ASSUME NEW m \in 1..n
      PROVE  /\ b.windows[m].start = a.windows[m].start
             /\ a.windows[m].end <= b.windows[m].end
             /\ b.windows[m].start < b.windows[m].end /\ b.windows[m].end <= i + 1
             /\ RORun(g, present, b.windows[m].start, b.windows[m].end - 1)
  <2>1. CASE m = n
    BY <1>5, <1>6, <1>7, <2>1
  <2>2. CASE m # n
    BY <1>2, <1>4, <2>2 DEF ROFreeInv
  <2>3. QED
    BY <2>1, <2>2
<1>9. ASSUME NEW j \in 1..i, RORun(g, present, j, i) PROVE old.start <= j
  <2>1. CASE j = i
    BY <1>6, <2>1
  <2>2. CASE j # i
    <3>1. j \in 1..(i - 1) /\ i - 1 > 0 /\ RORun(g, present, j, i - 1)
      BY <1>9, <2>2 DEF RORun
    <3>2. ROfree(g, present, i - 1)
      BY <3>1 DEF RORun
    <3>3. QED
      BY <3>1, <3>2 DEF ROFreeInv
  <2>3. QED
    BY <2>1, <2>2
<1>10. ASSUME NEW j \in 1..i, NEW k \in j..i, RORun(g, present, j, k)
       PROVE  \E m \in 1..n : b.windows[m].start <= j /\ k < b.windows[m].end
  <2>1. CASE k = i
    BY <1>1, <1>5, <1>9, <1>10, <2>1
  <2>2. CASE k # i
    <3>1. j \in 1..(i - 1) /\ k \in j..(i - 1)
      BY <2>2
    <3>2. PICK m \in 1..n : a.windows[m].start <= j /\ k < a.windows[m].end
      BY <1>10, <3>1 DEF ROFreeInv
    <3>3. b.windows[m].start <= j /\ k < b.windows[m].end
      BY <1>2, <1>8, <3>2
    <3>4. QED
      BY <3>3
  <2>3. QED
    BY <2>1, <2>2
<1>11. QED
  BY <1>3, <1>4, <1>5, <1>8, <1>9, <1>10 DEF ROFreeInv

\* A free slot that follows no open window opens one.
LEMMA ROOpens ==
  ASSUME roSlots \in Nat, NEW g, NEW present, NEW a \in ROHeld, NEW i \in 1..roSlots,
         ROFreeInv(g, present, a, i - 1), ROfree(g, present, i),
         ~(a.open /\ a.windows[Len(a.windows)].end = i),
         NEW b \in ROHeld, b = [windows |-> Append(a.windows, [start |-> i, end |-> i + 1]), open |-> TRUE]
  PROVE  ROFreeInv(g, present, b, i)
<1> DEFINE n == Len(a.windows)
           new == [start |-> i, end |-> i + 1]
<1>1. a.windows \in Seq(ROWindow) /\ n \in Nat /\ new \in ROWindow
  BY DEF ROHeld, ROWindow
<1>2. \A m \in 1..n : a.windows[m].start \in Nat /\ a.windows[m].end \in Nat
  BY ROHeldNats
<1>3. /\ b.open /\ Len(b.windows) = n + 1 /\ b.windows[n + 1] = new
      /\ \A m \in 1..n : b.windows[m] = a.windows[m]
  <2> HIDE DEF new
  <2>1. QED
    BY <1>1 DEF new
<1>4. new.start = i /\ new.end = i + 1 /\ RORun(g, present, i, i)
  BY DEF RORun
<1> HIDE DEF new
<1>5. ASSUME NEW m \in 1..(n + 1)
      PROVE  /\ b.windows[m].start < b.windows[m].end /\ b.windows[m].end <= i + 1
             /\ RORun(g, present, b.windows[m].start, b.windows[m].end - 1)
  <2>1. CASE m = n + 1
    <3>1. b.windows[m].start = i /\ b.windows[m].end = i + 1
      BY <1>3, <1>4, <2>1
    <3>2. i < i + 1 /\ i + 1 <= i + 1 /\ (i + 1) - 1 = i
      OBVIOUS
    <3>3. RORun(g, present, i, (i + 1) - 1)
      BY <1>4, <3>2
    <3>4. QED
      BY <3>1, <3>2, <3>3
  <2>2. CASE m # n + 1
    <3>1. m \in 1..n
      BY <1>1, <2>2
    <3>2. /\ a.windows[m].start < a.windows[m].end /\ a.windows[m].end <= i - 1 + 1
          /\ RORun(g, present, a.windows[m].start, a.windows[m].end - 1)
      BY <3>1 DEF ROFreeInv
    <3>3. a.windows[m].end <= i + 1
      BY <1>2, <3>1, <3>2
    <3>4. b.windows[m] = a.windows[m]
      BY <1>3, <3>1
    <3>5. QED
      BY <3>2, <3>3, <3>4
  <2>3. QED
    BY <2>1, <2>2
<1>6. i - 1 > 0 => ~ROfree(g, present, i - 1)
  BY DEF ROFreeInv
<1>7. ASSUME NEW j \in 1..i, RORun(g, present, j, i) PROVE j = i
  BY <1>6, <1>7 DEF RORun
<1>8. ASSUME NEW j \in 1..i, NEW k \in j..i, RORun(g, present, j, k)
      PROVE  \E m \in 1..(n + 1) : b.windows[m].start <= j /\ k < b.windows[m].end
  <2>1. CASE k = i
    <3>1. n + 1 \in 1..(n + 1) /\ j = i
      BY <1>1, <1>7, <1>8, <2>1
    <3>2. QED
      BY <1>3, <1>4, <2>1, <3>1
  <2>2. CASE k # i
    <3>1. j \in 1..(i - 1) /\ k \in j..(i - 1)
      BY <2>2
    <3>2. PICK m \in 1..n : a.windows[m].start <= j /\ k < a.windows[m].end
      BY <1>8, <3>1 DEF ROFreeInv
    <3>3. m \in 1..(n + 1)
      BY <1>1
    <3>4. QED
      BY <1>3, <3>2, <3>3
  <2>3. QED
    BY <2>1, <2>2
<1>9. QED
  BY <1>3, <1>4, <1>5, <1>7, <1>8 DEF ROFreeInv

\* What the windows are after the last slot.
LEMMA ROWindowsRight ==
  ASSUME roSlots \in Nat, NEW g \in RO!Grids, NEW present \in Nat
  PROVE  ROFreeInv(g, present, RO!widened(g, present)[roSlots], roSlots)
<1> DEFINE W == RO!widened(g, present)
           S == {i \in 0..roSlots : ROFreeInv(g, present, W[i], i)}
<1>1. /\ W \in [0..roSlots -> ROHeld] /\ W[0] = [windows |-> <<>>, open |-> FALSE]
      /\ \A i \in 1..roSlots :
           W[i] = IF RO!isListed(g, i) THEN RO!Widen(g, present, W[i - 1], i) ELSE W[i - 1]
  BY ROWidened
<1> HIDE DEF W
<1>2. 0 \in S
  BY <1>1 DEF ROFreeInv
<1>3. ASSUME NEW i \in 1..roSlots, ROFreeInv(g, present, W[i - 1], i - 1)
      PROVE  ROFreeInv(g, present, W[i], i)
  <2>1. W[i - 1] \in ROHeld /\ W[i] \in ROHeld
    BY <1>1
  <2>2. g[i] \in {"free", "taken", "absent"}
    BY DEF RO!Grids
  <2>3. CASE ~ROfree(g, present, i)
    <3>1. W[i].windows = W[i - 1].windows
      <4>1. CASE ~RO!isListed(g, i)
        BY <1>1, <4>1
      <4>2. CASE RO!isListed(g, i)
        <5>1. g[i] = "taken" \/ i <= present
          BY <2>2, <2>3, <4>2 DEF ROfree, RO!isListed
        <5>2. W[i] = [W[i - 1] EXCEPT !.open = FALSE]
          BY <1>1, <4>2, <5>1 DEF RO!Widen
        <5>3. QED
          BY <2>1, <5>2 DEF ROHeld
      <4>3. QED
        BY <4>1, <4>2
    <3>2. QED
      BY <1>3, <2>1, <2>3, <3>1, ROCloses
  <2>4. CASE ROfree(g, present, i)
    <3>1. W[i] = IF W[i - 1].open /\ W[i - 1].windows[Len(W[i - 1].windows)].end = i
                 THEN [W[i - 1] EXCEPT !.windows[Len(W[i - 1].windows)].end = i + 1]
                 ELSE [windows |-> Append(W[i - 1].windows, [start |-> i, end |-> i + 1]), open |-> TRUE]
      <4>1. g[i] = "free" /\ ~(i <= present)
        BY <2>4 DEF ROfree
      <4>2. RO!isListed(g, i) /\ g[i] # "taken"
        BY <4>1 DEF RO!isListed
      <4>3. W[i] = RO!Widen(g, present, W[i - 1], i)
        BY <1>1, <4>2
      <4>4. QED
        BY <4>1, <4>2, <4>3 DEF RO!Widen
    <3>2. QED
      BY <1>3, <2>1, <2>4, <3>1, ROLengthens, ROOpens
  <2>5. QED
    BY <2>3, <2>4
<1>4. ASSUME NEW i \in (0 + 1)..roSlots, i - 1 \in S PROVE i \in S
  <2>1. i \in 1..roSlots
    OBVIOUS
  <2>2. QED
    BY <1>3, <1>4, <2>1
<1>5. 0..roSlots \subseteq S
  <2> HIDE DEF S
  <2>1. QED
    BY <1>2, <1>4, UpTo
<1>6. QED
  BY <1>5 DEF W


\* All slots of a booking are free.
ROAllFree(g, b) == \A j \in b.start..(b.start + b.length - 1) : g[j] = "free"

\* The cursor is in the booking and has passed free slots only.
ROPassed(g, b, a) ==
  /\ a \in [cursor : b.start..(b.start + b.length), over : BOOLEAN]
  /\ ~a.over => a.cursor < b.start + b.length
  /\ \A j \in b.start..(a.cursor - 1) : g[j] = "free"

\* Where all are free the cursor has passed the slots to i.
ROKeepsUp(b, a, i) ==
  /\ i < b.start => a.cursor = b.start /\ ~a.over
  /\ b.start <= i /\ i < b.start + b.length =>
       a.cursor = i + 1 /\ (a.over <=> i + 1 = b.start + b.length)
  /\ i >= b.start + b.length => a.cursor = b.start + b.length /\ a.over

\* assertAvailable answers whether all slots of the booking are free.
LEMMA ROAssertRight ==
  ASSUME roSlots \in Nat, NEW g \in RO!Grids, NEW b \in RO!Bookings
  PROVE  RO!assertAvailable(g, b) <=> ROAllFree(g, b)
<1> DEFINE W == RO!walked(g, b)
           e == b.start + b.length
           S == {i \in 0..roSlots : ROPassed(g, b, W[i]) /\ (ROAllFree(g, b) => ROKeepsUp(b, W[i], i))}
<1>0. b.start \in 1..roSlots /\ b.length \in 1..roSlots /\ e \in Nat /\ e <= roSlots + 1 /\ b.start < e
  BY DEF RO!Bookings, RO!EndOfDay
<1>1. /\ W[0] = [cursor |-> b.start, over |-> FALSE]
      /\ \A i \in 1..roSlots :
           W[i] = IF RO!isListed(g, i) THEN RO!Walk(g, b, W[i - 1], i) ELSE W[i - 1]
  BY ROWalked
<1> HIDE DEF W
<1>2. 0 \in S
  <2>1. W[0].cursor = b.start /\ W[0].over = FALSE /\ W[0] \in [cursor : b.start..e, over : BOOLEAN]
    BY <1>0, <1>1
  <2>2. ROPassed(g, b, W[0])
    BY <1>0, <2>1 DEF ROPassed
  <2>3. ROKeepsUp(b, W[0], 0)
    BY <1>0, <2>1 DEF ROKeepsUp
  <2>4. QED
    BY <2>2, <2>3
<1>3. ASSUME NEW i \in 1..roSlots, ROPassed(g, b, W[i - 1]),
             ROAllFree(g, b) => ROKeepsUp(b, W[i - 1], i - 1)
      PROVE  ROPassed(g, b, W[i]) /\ (ROAllFree(g, b) => ROKeepsUp(b, W[i], i))
  <2> DEFINE a == W[i - 1]
  <2>1. /\ a \in [cursor : b.start..e, over : BOOLEAN] /\ (~a.over => a.cursor < e)
        /\ a.cursor \in Nat /\ a.cursor \in b.start..e /\ a.over \in BOOLEAN
    BY <1>0, <1>3 DEF ROPassed
  <2>2. g[i] \in {"free", "taken", "absent"}
    BY DEF RO!Grids
  <2>3. ROAllFree(g, b) /\ b.start <= i /\ i < e => g[i] = "free"
    BY <1>0 DEF ROAllFree
  <2>4. CASE ~RO!isListed(g, i) \/ a.over \/ i < a.cursor
    <3>1. W[i] = a
      BY <1>1, <2>4 DEF RO!Walk
    <3>2. ASSUME ROAllFree(g, b) PROVE ROKeepsUp(b, a, i)
      <4>1. CASE i < b.start
        BY <1>0, <1>3, <3>2, <4>1 DEF ROKeepsUp
      <4>2. CASE i = b.start
        <5>1. a.cursor = b.start /\ ~a.over /\ g[i] = "free"
          BY <1>0, <1>3, <2>3, <3>2, <4>2 DEF ROKeepsUp
        <5>2. QED
          BY <2>1, <2>4, <4>2, <5>1 DEF RO!isListed
      <4>3. CASE b.start < i /\ i < e
        <5>1. a.cursor = i /\ ~a.over /\ g[i] = "free"
          BY <1>0, <1>3, <2>3, <3>2, <4>3 DEF ROKeepsUp
        <5>2. QED
          BY <2>1, <2>4, <4>3, <5>1 DEF RO!isListed
      <4>4. CASE i >= e
        <5>1. a.cursor = e /\ a.over
          BY <1>0, <1>3, <3>2, <4>4 DEF ROKeepsUp
        <5>2. QED
          BY <1>0, <4>4, <5>1 DEF ROKeepsUp
      <4>5. QED
        BY <1>0, <4>1, <4>2, <4>3, <4>4
    <3>3. QED
      BY <1>3, <3>1, <3>2
  <2>5. CASE RO!isListed(g, i) /\ ~a.over /\ ~(i < a.cursor) /\ (i # a.cursor \/ g[i] = "taken")
    <3>1. W[i] = [a EXCEPT !.over = TRUE]
      BY <1>1, <2>5 DEF RO!Walk
    <3>2. ~ROAllFree(g, b)
      BY <1>0, <1>3, <2>1, <2>3, <2>5 DEF ROKeepsUp
    <3>3. W[i] \in [cursor : b.start..e, over : BOOLEAN] /\ W[i].cursor = a.cursor /\ W[i].over = TRUE
      BY <2>1, <3>1
    <3>4. ROPassed(g, b, W[i])
      BY <1>3, <3>3 DEF ROPassed
    <3>5. QED
      BY <3>2, <3>4
  <2>6. CASE RO!isListed(g, i) /\ ~a.over /\ i = a.cursor /\ g[i] # "taken"
    <3>1. ~(i < a.cursor) /\ ~(i # a.cursor)
      BY <2>1, <2>6
    <3>2. RO!Walk(g, b, a, i) = [cursor |-> i + 1, over |-> i + 1 = b.start + b.length]
      BY <2>6, <3>1 DEF RO!Walk
    <3>3. W[i] = [cursor |-> i + 1, over |-> i + 1 = b.start + b.length]
      BY <1>1, <2>6, <3>2
    <3>4. g[i] = "free" /\ i < e /\ b.start <= i
      BY <1>0, <2>1, <2>2, <2>6 DEF RO!isListed
    <3>5. \A j \in b.start..i : g[j] = "free"
      BY <1>0, <1>3, <2>1, <2>6, <3>4 DEF ROPassed
    <3>6. /\ W[i].cursor = i + 1 /\ (W[i].over <=> i + 1 = e) /\ W[i].over \in BOOLEAN
          /\ W[i] \in [cursor : b.start..e, over : BOOLEAN]
      <4> DEFINE done == i + 1 = b.start + b.length
      <4>1. done \in BOOLEAN /\ i + 1 \in b.start..e /\ W[i] = [cursor |-> i + 1, over |-> done]
        BY <1>0, <3>3, <3>4
      <4>2. done <=> i + 1 = e
        OBVIOUS
      <4> HIDE DEF done, e
      <4>3. QED
        BY <4>1, <4>2
    <3>7. ROPassed(g, b, W[i])
      BY <1>0, <3>4, <3>5, <3>6 DEF ROPassed
    <3>8. ROKeepsUp(b, W[i], i)
      BY <1>0, <3>4, <3>6 DEF ROKeepsUp
    <3>9. QED
      BY <3>7, <3>8
  <2>7. QED
    BY <2>4, <2>5, <2>6
<1>4. ASSUME NEW i \in (0 + 1)..roSlots, i - 1 \in S PROVE i \in S
  <2>1. i \in 1..roSlots
    OBVIOUS
  <2>2. QED
    BY <1>3, <1>4, <2>1
<1>5. 0..roSlots \subseteq S
  <2> HIDE DEF S
  <2>1. QED
    BY <1>2, <1>4, UpTo
<1>6. ROPassed(g, b, W[roSlots]) /\ (ROAllFree(g, b) => ROKeepsUp(b, W[roSlots], roSlots))
  BY <1>5
<1>7. ASSUME W[roSlots].cursor = e PROVE ROAllFree(g, b)
  <2>1. \A j \in b.start..(W[roSlots].cursor - 1) : g[j] = "free"
    BY <1>6 DEF ROPassed
  <2>2. \A j \in b.start..(e - 1) : g[j] = "free"
    BY <1>7, <2>1
  <2>3. QED
    BY <1>0, <2>2 DEF ROAllFree
<1>8. ASSUME ROAllFree(g, b) PROVE W[roSlots].cursor = e
  <2>1. roSlots >= e \/ (b.start <= roSlots /\ roSlots < e /\ roSlots + 1 = e)
    BY <1>0
  <2>2. QED
    BY <1>6, <1>8, <2>1 DEF ROKeepsUp
<1>9. QED
  BY <1>7, <1>8 DEF RO!assertAvailable, W

\* A booking is in a window that is offered if its slots are free and after the present.
LEMMA ROOfferedRight ==
  ASSUME roSlots \in Nat, NEW g \in RO!Grids, NEW n \in Nat, NEW minutes \in Nat,
         NEW b \in RO!Bookings, b.length >= minutes
  PROVE  (\E w \in RO!availableWindows(g, minutes, n) :
            w.start <= b.start /\ b.start + b.length <= w.end)
           <=> RO!assertAvailable(g, b) /\ RO!bookingWindow(b, n)
<1> DEFINE a == RO!widened(g, n)[roSlots]
           e == b.start + b.length
<1>0. /\ b.start \in 1..roSlots /\ b.length \in 1..roSlots /\ e \in Nat /\ e - 1 \in b.start..roSlots
  BY DEF RO!Bookings, RO!EndOfDay
<1>1. ROFreeInv(g, n, a, roSlots)
  BY ROWindowsRight
<1>2. a \in ROHeld
  BY ROWidened
<1> HIDE DEF a
<1>2a. a.windows \in Seq(ROWindow) /\ Len(a.windows) \in Nat
       /\ \A m \in 1..Len(a.windows) :
            a.windows[m].start \in Nat /\ a.windows[m].end \in Nat
  BY <1>2, ROHeldNats
<1>3. /\ \A w \in RO!availableWindows(g, minutes, n) : \E m \in 1..Len(a.windows) : w = a.windows[m]
      /\ \A m \in 1..Len(a.windows) :
           a.windows[m].end - a.windows[m].start >= minutes
             => a.windows[m] \in RO!availableWindows(g, minutes, n)
  <2>1. RO!Range(a.windows) = {a.windows[m] : m \in 1..Len(a.windows)}
    BY <1>2a DEF RO!Range
  <2>2. RO!availableWindows(g, minutes, n) = {w \in RO!Range(a.windows) : w.end - w.start >= minutes}
    BY DEF RO!availableWindows, a
  <2>3. QED
    BY <2>1, <2>2
<1>4. ASSUME NEW m \in 1..Len(a.windows), a.windows[m].start <= b.start, e <= a.windows[m].end
      PROVE  ROAllFree(g, b) /\ RO!bookingWindow(b, n)
  <2>1. RORun(g, n, a.windows[m].start, a.windows[m].end - 1)
    BY <1>1 DEF ROFreeInv
  <2>2. ASSUME NEW j \in b.start..(e - 1) PROVE ROfree(g, n, j)
    <3>1. a.windows[m].start \in Nat /\ a.windows[m].end \in Nat /\ b.start \in Nat /\ j \in Int
      BY <1>0, <1>2a
    <3> HIDE DEF e
    <3>2. b.start <= j /\ j <= e - 1 /\ e \in Nat
      BY <1>0, <3>1
    <3>3. j \in a.windows[m].start..(a.windows[m].end - 1)
      BY <1>4, <3>1, <3>2
    <3>4. QED
      BY <2>1, <3>3 DEF RORun
  <2>3. b.start \in b.start..(e - 1)
    BY <1>0
  <2>4. QED
    BY <1>0, <2>2, <2>3 DEF ROfree, ROAllFree, RO!bookingWindow
<1>5. ASSUME ROAllFree(g, b), RO!bookingWindow(b, n)
      PROVE  \E m \in 1..Len(a.windows) :
               /\ a.windows[m].start <= b.start /\ e <= a.windows[m].end
               /\ a.windows[m].end - a.windows[m].start >= minutes
  <2>1. RORun(g, n, b.start, e - 1)
    BY <1>0, <1>5 DEF RORun, ROfree, ROAllFree, RO!bookingWindow
  <2>2. PICK m \in 1..Len(a.windows) : a.windows[m].start <= b.start /\ e - 1 < a.windows[m].end
    BY <1>0, <1>1, <2>1 DEF ROFreeInv
  <2>3. /\ a.windows[m].start <= b.start /\ e <= a.windows[m].end
        /\ a.windows[m].end - a.windows[m].start >= minutes
    BY <1>0, <1>2a, <2>2
  <2>4. QED
    BY <2>3
<1>6. QED
  BY <1>3, <1>4, <1>5, ROAssertRight

-----------------------------------------------------------------------------

\* Who has an answer has it from the grid it has read.
ROToldInv ==
  /\ roWanted \in [RO!Calls -> SUBSET RO!Bookings] /\ roLength \in [RO!Calls -> Nat]
  /\ DOMAIN roTold = RO!Calls
  /\ \A c \in roReaders : roAt[c] = "over" =>
       /\ roSeen[c] \in RO!Grids
       /\ \E n \in Nat : roTold[c] = [when |-> n,
                                      windows |-> RO!availableWindows(roSeen[c], roLength[c], n)]
  /\ \A d \in roBookers : roAt[d] = "over" =>
       /\ roSeen[d] \in RO!Grids
       /\ roTold[d] = {b \in roWanted[d] : RO!assertAvailable(roSeen[d], b)}

\* Nobody has an answer at the start.
LEMMA ROInitTold == RO!Init => ROToldInv
<1> SUFFICES ASSUME RO!Init PROVE ROToldInv
  OBVIOUS
<1>1. /\ roWanted = [c \in RO!Calls |-> {}] /\ roLength = [c \in RO!Calls |-> 1]
      /\ roAt = [c \in RO!Calls |-> "idle"] /\ DOMAIN roTold = RO!Calls
  BY DEF RO!Init
<1>2. roWanted \in [RO!Calls -> SUBSET RO!Bookings] /\ roLength \in [RO!Calls -> Nat]
  BY <1>1
<1>3. QED
  BY <1>1, <1>2 DEF ROToldInv, RO!Calls

\* An answer stays what it was as long as its call does.
LEMMA ROToldFrame ==
  ASSUME ROToldInv,
         roWanted' \in [RO!Calls -> SUBSET RO!Bookings], roLength' \in [RO!Calls -> Nat],
         UNCHANGED <<roSeen, roTold>>,
         \A c \in RO!Calls : roAt'[c] = "over" =>
           roAt[c] = "over" /\ roLength'[c] = roLength[c] /\ roWanted'[c] = roWanted[c]
  PROVE  ROToldInv'
<1>1. /\ RO!Calls' = RO!Calls /\ RO!Bookings' = RO!Bookings /\ RO!Grids' = RO!Grids
      /\ DOMAIN roTold' = RO!Calls
  BY DEF RO!Calls, RO!Bookings, RO!Grids, RO!EndOfDay, ROToldInv
<1>2. ASSUME NEW c \in roReaders, roAt'[c] = "over"
      PROVE  /\ roSeen'[c] \in RO!Grids
             /\ \E n \in Nat : roTold'[c] = [when |-> n,
                                             windows |-> RO!availableWindows(roSeen'[c], roLength'[c], n)]
  BY <1>2 DEF ROToldInv, RO!Calls
<1>3. ASSUME NEW d \in roBookers, roAt'[d] = "over"
      PROVE  /\ roSeen'[d] \in RO!Grids
             /\ roTold'[d] = {b \in roWanted'[d] : RO!assertAvailable(roSeen'[d], b)}
  BY <1>3 DEF ROToldInv, RO!Calls
<1>4. QED
  BY <1>1, <1>2, <1>3 DEF ROToldInv

\* Every step keeps the answers what they were.
LEMMA RONextTold ==
  ASSUME ROIInv, ROToldInv, roSlots \in Nat, roReaders \cap roBookers = {}, [RO!Next]_(RO!vars)
  PROVE  ROToldInv'
<1>0. /\ ROShape /\ roWanted \in [RO!Calls -> SUBSET RO!Bookings] /\ roLength \in [RO!Calls -> Nat]
      /\ roAt \in [RO!Calls -> {"idle", "list", "found", "grid", "over", "failed"}]
      /\ roNow \in Nat /\ roGrid \in RO!Grids /\ DOMAIN roTold = RO!Calls
  BY DEF ROIInv, ROShape, ROToldInv
<1>1. ASSUME UNCHANGED <<roAt, roLength, roWanted, roSeen, roTold>> PROVE ROToldInv'
  BY <1>0, <1>1, ROToldFrame
<1>2. ASSUME NEW c \in RO!Calls, RO!Ask(c) PROVE ROToldInv'
  <2>1. /\ roLength' = roLength \/ \E n \in 1..roSlots : roLength' = [roLength EXCEPT ![c] = n]
        /\ \E place \in {"found", "list", "failed"} : roAt' = [roAt EXCEPT ![c] = place]
        /\ UNCHANGED <<roWanted, roSeen, roTold>>
    BY <1>2 DEF RO!Ask
  <2>2. roLength' \in [RO!Calls -> Nat]
    BY <1>0, <2>1
  <2>3. \A d \in RO!Calls : roAt'[d] = "over" => d # c /\ roAt[d] = "over"
    BY <1>0, <2>1
  <2>4. \A d \in RO!Calls : roAt'[d] = "over" => roLength'[d] = roLength[d]
    BY <1>0, <2>1, <2>3
  <2>5. QED
    BY <1>0, <2>1, <2>2, <2>3, <2>4, ROToldFrame
<1>3. ASSUME NEW c \in RO!Calls, RO!Find(c) PROVE ROToldInv'
  <2>1. /\ \E place \in {"grid", "failed"} : roAt' = [roAt EXCEPT ![c] = place]
        /\ \E W \in SUBSET RO!Bookings : roWanted' = [roWanted EXCEPT ![c] = W] \/ roWanted' = roWanted
        /\ UNCHANGED <<roLength, roSeen, roTold>>
    BY <1>3 DEF RO!Find
  <2>2. roWanted' \in [RO!Calls -> SUBSET RO!Bookings]
    BY <1>0, <2>1
  <2>3. \A d \in RO!Calls : roAt'[d] = "over" => d # c /\ roAt[d] = "over"
    BY <1>0, <2>1
  <2>4. \A d \in RO!Calls : roAt'[d] = "over" => roWanted'[d] = roWanted[d]
    BY <1>0, <2>1, <2>3
  <2>5. QED
    BY <1>0, <2>1, <2>2, <2>3, <2>4, ROToldFrame
<1>4. ASSUME NEW c \in RO!Calls, RO!GridFails(c) PROVE ROToldInv'
  <2>1. roAt' = [roAt EXCEPT ![c] = "failed"] /\ UNCHANGED <<roLength, roWanted, roSeen, roTold>>
    BY <1>4 DEF RO!GridFails
  <2>2. \A d \in RO!Calls : roAt'[d] = "over" => roAt[d] = "over"
    BY <1>0, <2>1
  <2>3. QED
    BY <1>0, <2>1, <2>2, ROToldFrame
<1>5. ASSUME NEW l \in roLibraries, RO!PageFails(l) \/ RO!Parse(l) PROVE ROToldInv'
  <2>1. /\ \E place \in {"found", "failed"} : roAt' = [d \in RO!Calls |-> RO!settled(d, place)]
        /\ UNCHANGED <<roLength, roWanted, roSeen, roTold>>
    BY <1>5 DEF RO!PageFails, RO!Parse
  <2>2. \A d \in RO!Calls : roAt'[d] = "over" => roAt[d] = "over"
    BY <2>1 DEF RO!settled
  <2>3. QED
    BY <1>0, <2>1, <2>2, ROToldFrame
<1>6. ASSUME NEW l \in roLibraries, RO!Page(l) PROVE ROToldInv'
  BY <1>1, <1>6 DEF RO!Page
<1>7. CASE RO!Expire \/ RO!Tick
  BY <1>1, <1>7 DEF RO!Expire, RO!Tick
<1>8. ASSUME NEW i \in 1..roSlots, RO!Change(i) PROVE ROToldInv'
  BY <1>1, <1>8 DEF RO!Change
<1>9. CASE UNCHANGED RO!vars
  BY <1>1, <1>9 DEF RO!vars
<1>10. ASSUME NEW c \in RO!Calls, NEW answer,
              roAt' = [roAt EXCEPT ![c] = "over"], roSeen' = [roSeen EXCEPT ![c] = roGrid],
              roTold' = [roTold EXCEPT ![c] = answer], UNCHANGED <<roLength, roWanted>>,
              c \in roReaders =>
                answer = [when |-> roNow, windows |-> RO!availableWindows(roGrid, roLength[c], roNow)],
              c \in roBookers => answer = {b \in roWanted[c] : RO!assertAvailable(roGrid, b)}
       PROVE  ROToldInv'
  <2>1. /\ roSeen'[c] = roGrid /\ roTold'[c] = answer
        /\ \A d \in RO!Calls : d # c => roAt'[d] = roAt[d] /\ roSeen'[d] = roSeen[d] /\ roTold'[d] = roTold[d]
    BY <1>0, <1>10 DEF ROShape
  <2>2. RO!Calls' = RO!Calls /\ RO!Bookings' = RO!Bookings /\ RO!Grids' = RO!Grids
    BY DEF RO!Calls, RO!Bookings, RO!Grids, RO!EndOfDay
  <2>3. ASSUME NEW d \in roReaders, roAt'[d] = "over"
        PROVE  /\ roSeen'[d] \in RO!Grids
               /\ \E n \in Nat : roTold'[d] = [when |-> n,
                                              windows |-> RO!availableWindows(roSeen'[d], roLength'[d], n)]
    <3>1. CASE d = c
      BY <1>0, <1>10, <2>1, <2>3, <3>1
    <3>2. CASE d # c
      BY <1>10, <2>1, <2>3, <3>2 DEF ROToldInv, RO!Calls
    <3>3. QED
      BY <3>1, <3>2
  <2>4. ASSUME NEW d \in roBookers, roAt'[d] = "over"
        PROVE  /\ roSeen'[d] \in RO!Grids
               /\ roTold'[d] = {b \in roWanted'[d] : RO!assertAvailable(roSeen'[d], b)}
    <3>1. CASE d = c
      BY <1>0, <1>10, <2>1, <2>4, <3>1
    <3>2. CASE d # c
      BY <1>10, <2>1, <2>4, <3>2 DEF ROToldInv, RO!Calls
    <3>3. QED
      BY <3>1, <3>2
  <2>5. DOMAIN roTold' = RO!Calls
    BY <1>0, <1>10
  <2>6. QED
    BY <1>0, <1>10, <2>2, <2>3, <2>4, <2>5 DEF ROToldInv
<1>11. ASSUME NEW c \in RO!Calls, RO!Availability(c) \/ RO!Prepare(c) PROVE ROToldInv'
  BY <1>10, <1>11 DEF RO!Availability, RO!Prepare
<1>12. QED
  BY <1>2, <1>3, <1>4, <1>5, <1>6, <1>7, <1>8, <1>9, <1>11 DEF RO!Next

\* What is offered can be booked, from the invariant.
LEMMA ROToldFollows ==
  ASSUME ROToldInv, roSlots \in Nat, roReaders \cap roBookers = {} PROVE RO!OfferedCanBeBooked
<1> SUFFICES ASSUME NEW c \in roReaders, NEW d \in roBookers, roAt[c] = "over", roAt[d] = "over",
                    roSeen[c] = roSeen[d]
             PROVE  RO!offered(roTold[c].windows, roLength[c]) \cap roWanted[d]
                      = {b \in roTold[d] : b.length >= roLength[c] /\ RO!bookingWindow(b, roTold[c].when)}
  BY DEF RO!OfferedCanBeBooked
<1>1. PICK n \in Nat : roTold[c] = [when |-> n, windows |-> RO!availableWindows(roSeen[c], roLength[c], n)]
  BY DEF ROToldInv
<1>2. /\ roSeen[c] \in RO!Grids /\ roTold[d] = {b \in roWanted[d] : RO!assertAvailable(roSeen[c], b)}
      /\ roWanted[d] \subseteq RO!Bookings /\ roLength[c] \in Nat
  BY DEF ROToldInv, RO!Calls
<1>3. roTold[c].when = n /\ roTold[c].windows = RO!availableWindows(roSeen[c], roLength[c], n)
  BY <1>1
<1>4. ASSUME NEW b \in roWanted[d]
      PROVE  b \in RO!offered(roTold[c].windows, roLength[c])
               <=> /\ b.length >= roLength[c] /\ RO!assertAvailable(roSeen[c], b)
                   /\ RO!bookingWindow(b, n)
  <2>1. b \in RO!Bookings
    BY <1>2
  <2>2. b \in RO!offered(roTold[c].windows, roLength[c])
          <=> /\ b.length >= roLength[c]
              /\ \E w \in RO!availableWindows(roSeen[c], roLength[c], n) :
                   w.start <= b.start /\ b.start + b.length <= w.end
    BY <1>3, <2>1 DEF RO!offered
  <2>3. QED
    BY <1>2, <2>1, <2>2, ROOfferedRight
<1>5. QED
  BY <1>2, <1>3, <1>4

-----------------------------------------------------------------------------
(* The owner's portal: Portal *)

\* What is assumed of the constants.
POSane == PO!Nil \notin poCommands /\ poLimit \in Nat /\ poWindow \in Nat /\ poMaxTime \in Nat

\* Where a request may be: not begun, over, or with what it claims.
POClaims ==
  {PO!Idle, [kind |-> "over"]}
    \cup [kind : {"login", "cookie"}, version : Nat] \cup [kind : {"agent"}, agent : poAgents]

\* The commands and the files they replace.
POCommandShape ==
  /\ poRegistry \subseteq poAgents /\ poRevoked \subseteq poAgents
  /\ poLocks \in [{"clients", "owner"} -> poCommands \cup {PO!Nil}]
  /\ poAt \in [poCommands -> {"idle", "issue", "revoke", "rotate", "hand over", "over"}]
  /\ poRead \in [poCommands -> SUBSET poAgents] /\ poWhom \in [poCommands -> poAgents \cup {PO!Nil}]

\* A command that works holds its lock, and what it has read is what is there.
POCommandInv ==
  \A c \in poCommands :
    /\ poAt[c] \in {"issue", "revoke"} => poLocks["clients"] = c /\ poRead[c] = poRegistry /\ poWhom[c] \in poAgents
    /\ poAt[c] \in {"rotate", "hand over"} => poLocks["owner"] = c
    /\ poAt[c] = "rotate" => poPendingToken = poKey + 1
    /\ poAt[c] = "hand over" => poPendingToken = poKey

\* The key is no older than the one that was answered.
POKeyInv == poKey \in Nat \ {0} /\ poPendingToken \in Nat /\ poRotated \in Nat /\ poRotated <= poKey

\* A revoked agent is not registered.
POWithdrawnInv == poRevoked \cap poRegistry = {}

\* Types of the requests.
PORequestShape ==
  /\ poAsks \in [poRequests -> POClaims]
  /\ poSeen \in [poRequests -> Nat] /\ poStale \in [poRequests -> BOOLEAN]

\* A key that was withdrawn before a request began is not the one the request reads.
PORequestInv ==
  \A r \in poRequests :
    /\ poSeen[r] <= poKey /\ (poAsks[r] = PO!Idle => poSeen[r] = 0)
    /\ poStale[r] /\ poAsks[r].kind \in {"login", "cookie"} =>
         poAsks[r].version < poRotated /\ (poSeen[r] # 0 => poAsks[r].version < poSeen[r])

\* Logins refused in one window of time.
POInWindow(t) == {f \in poRefusals : f.time \in t..(t + poWindow - 1)}

\* The entries that were dropped are out of every window that is still open.
POFailureInv ==
  /\ poNow \in Nat
  /\ poRefusals \subseteq [by : poRequests, time : 0..poNow] /\ IsFiniteSet(poRefusals)
  /\ poFailures \subseteq poRefusals /\ Cardinality(poFailures) <= poLimit
  /\ \A f \in poRefusals \ poFailures : f.time + poWindow <= poNow
  /\ \A t \in Nat : Cardinality(POInWindow(t)) <= poLimit

\* The inductive invariant of the portal.
POIInv == POCommandShape /\ POKeyInv /\ POCommandInv /\ POWithdrawnInv /\ PORequestShape /\ PORequestInv
          /\ poIntrusions = {} /\ POFailureInv

\* Sizes are the same in the instance PO.
LEMMA POCard == \A S : PO!Cardinality(S) = Cardinality(S)
  BY DEF PO!Cardinality, Cardinality

\* The portal starts with one key.
LEMMA POInitInv == POSane /\ PO!Init => POIInv
<1> SUFFICES ASSUME POSane, PO!Init PROVE POIInv
  OBVIOUS
<1>1. POCommandShape
  BY DEF PO!Init, POCommandShape
<1>2. POCommandInv /\ POWithdrawnInv
  BY DEF PO!Init, POCommandInv, POWithdrawnInv
<1>2a. POKeyInv
  BY DEF PO!Init, POKeyInv
<1>3. PORequestShape
  BY DEF PO!Init, PORequestShape, POClaims
<1>4. PORequestInv
  BY DEF PO!Init, PORequestInv
<1>5. POFailureInv
  <2>1. \A t \in Nat : POInWindow(t) = {}
    BY DEF PO!Init, POInWindow
  <2>2. QED
    BY <2>1, FS_EmptySet DEF PO!Init, POFailureInv, POSane
<1>6. QED
  BY <1>1, <1>2, <1>2a, <1>3, <1>4, <1>5 DEF PO!Init, POIInv

\* What the commands do is no matter of the requests, but for the key and the registry.
LEMMA POCommandsFrame ==
  ASSUME POSane, POIInv, UNCHANGED <<PO!requests, poNow>>, POCommandShape', POCommandInv', POWithdrawnInv',
         POKeyInv', poKey' >= poKey, poRotated' >= poRotated
  PROVE  POIInv'
<1>1. UNCHANGED <<poAsks, poSeen, poStale, poFailures, poRefusals, poIntrusions, poNow>>
  BY DEF PO!requests
<1>2. PORequestShape' /\ poIntrusions' = {}
  BY <1>1 DEF POIInv, PORequestShape
<1>3. PORequestInv'
  <2>1. poKey \in Nat /\ poKey' \in Nat /\ poRotated \in Nat /\ poRotated' \in Nat
    BY DEF POIInv, POKeyInv
  <2>2. \A r \in poRequests : poSeen[r] \in Nat /\ (poAsks[r].kind \in {"login", "cookie"} => poAsks[r].version \in Nat)
    BY DEF POIInv, PORequestShape, POClaims, PO!Idle
  <2>3. QED
    BY <1>1, <2>1, <2>2 DEF POIInv, PORequestInv
<1>4. POFailureInv'
  BY <1>1 DEF POIInv, POFailureInv, POInWindow
<1>5. QED
  BY <1>2, <1>3, <1>4 DEF POIInv

\* Opening the registry keeps the invariant.
LEMMA POOpenInv == ASSUME POSane, POIInv, NEW c \in poCommands, PO!Open(c) PROVE POIInv'
<1>0. POCommandShape /\ POKeyInv /\ POCommandInv /\ POWithdrawnInv
  BY DEF POIInv
<1>1. PICK a \in poAgents, command \in {"issue", "revoke"} :
        poWhom' = [poWhom EXCEPT ![c] = a] /\ poAt' = [poAt EXCEPT ![c] = command]
  BY DEF PO!Open, PO!Goto
<1>2. /\ poLocks["clients"] = PO!Nil /\ poLocks' = [poLocks EXCEPT !["clients"] = c]
      /\ poRead' = [poRead EXCEPT ![c] = poRegistry]
      /\ UNCHANGED <<poRegistry, poKey, poToken, poPendingToken, poRevoked, poRotated, PO!requests, poNow>>
  BY DEF PO!Open
<1>3. POCommandShape'
  BY <1>0, <1>1, <1>2 DEF POCommandShape
<1>4. POCommandInv'
  <2>1. /\ poAt'[c] \in {"issue", "revoke"} /\ poWhom'[c] \in poAgents /\ poRead'[c] = poRegistry
        /\ \A d \in poCommands : d # c => poAt'[d] = poAt[d] /\ poWhom'[d] = poWhom[d] /\ poRead'[d] = poRead[d]
        /\ poLocks'["clients"] = c /\ poLocks'["owner"] = poLocks["owner"]
    BY <1>0, <1>1, <1>2 DEF POCommandShape
  <2>2. \A d \in poCommands : poAt[d] \notin {"issue", "revoke"}
    BY <1>0, <1>2 DEF POCommandInv, POSane
  <2>3. QED
    BY <1>0, <1>2, <2>1, <2>2 DEF POCommandInv
<1>5. POWithdrawnInv'
  BY <1>0, <1>2 DEF POWithdrawnInv
<1>6. POKeyInv' /\ poKey' >= poKey /\ poRotated' >= poRotated
  BY <1>0, <1>2 DEF POKeyInv
<1>7. QED
  BY <1>2, <1>3, <1>4, <1>5, <1>6, POCommandsFrame

\* Writing the registry back, with an agent or without, keeps the invariant.
LEMMA PORegisterInv ==
  ASSUME POSane, POIInv, NEW c \in poCommands, PO!Register(c)
  PROVE POIInv'
<1>0. POCommandShape /\ POKeyInv /\ POCommandInv /\ POWithdrawnInv
  BY DEF POIInv
<1>1. /\ poAt[c] \in {"issue", "revoke"} /\ poLocks' = [poLocks EXCEPT !["clients"] = PO!Nil]
      /\ poAt' = [poAt EXCEPT ![c] = "over"]
      /\ poRead' = [poRead EXCEPT ![c] = {}] /\ poWhom' = [poWhom EXCEPT ![c] = PO!Nil]
      /\ UNCHANGED <<poKey, poToken, poPendingToken, poRotated, PO!requests, poNow>>
  BY DEF PO!Register, PO!End, PO!Goto
<1>2. poRead[c] = poRegistry /\ poWhom[c] \in poAgents /\ poLocks["clients"] = c
  BY <1>0, <1>1 DEF POCommandInv
<1>3. \/ poRegistry' = poRegistry \cup {poWhom[c]} /\ poRevoked' = poRevoked \ {poWhom[c]}
      \/ poRegistry' = poRegistry \ {poWhom[c]} /\ poRevoked' = poRevoked \cup {poWhom[c]}
  BY <1>2 DEF PO!Register
<1>4. POCommandShape'
  BY <1>0, <1>1, <1>2, <1>3 DEF POCommandShape
<1>5. POCommandInv'
  <2>1. /\ poAt'[c] = "over" /\ poLocks'["owner"] = poLocks["owner"]
        /\ \A d \in poCommands : d # c => poAt'[d] = poAt[d]
    BY <1>0, <1>1 DEF POCommandShape
  <2>2. \A d \in poCommands : d # c => poAt[d] \notin {"issue", "revoke"}
    BY <1>0, <1>2 DEF POCommandInv
  <2>3. QED
    BY <1>0, <1>1, <2>1, <2>2 DEF POCommandInv
<1>6. POWithdrawnInv'
  BY <1>0, <1>1, <1>3 DEF POWithdrawnInv
<1>7. POKeyInv' /\ poKey' >= poKey /\ poRotated' >= poRotated
  BY <1>0, <1>1 DEF POKeyInv
<1>8. QED
  BY <1>1, <1>4, <1>5, <1>6, <1>7, POCommandsFrame

\* Replacing the key keeps the invariant.
LEMMA PORotateInv ==
  ASSUME POSane, POIInv, NEW c \in poCommands, PO!Rotate(c)
  PROVE POIInv'
<1>0. POCommandShape /\ POKeyInv /\ POCommandInv /\ POWithdrawnInv
  BY DEF POIInv
<1>1. UNCHANGED <<poRegistry, poRead, poWhom, poRevoked, PO!requests, poNow>>
  BY DEF PO!Rotate
<1>2. CASE /\ poAt[c] = "idle" /\ poLocks["owner"] = PO!Nil
           /\ poLocks' = [poLocks EXCEPT !["owner"] = c]
           /\ poPendingToken' = poKey + 1 /\ poAt' = [poAt EXCEPT ![c] = "rotate"]
           /\ UNCHANGED <<poKey, poToken, poRotated>>
  <2>1. POCommandShape'
    BY <1>0, <1>1, <1>2 DEF POCommandShape
  <2>2. /\ poAt'[c] = "rotate" /\ \A d \in poCommands : d # c => poAt'[d] = poAt[d]
        /\ poLocks'["owner"] = c /\ poLocks'["clients"] = poLocks["clients"]
    BY <1>0, <1>2 DEF POCommandShape
  <2>3. \A d \in poCommands : poAt[d] \notin {"rotate", "hand over"}
    BY <1>0, <1>2 DEF POCommandInv, POSane
  <2>4. POCommandInv'
    BY <1>0, <1>1, <1>2, <2>2, <2>3 DEF POCommandInv
  <2>5. POWithdrawnInv'
    BY <1>0, <1>1 DEF POWithdrawnInv
  <2>5a. POKeyInv' /\ poKey' >= poKey /\ poRotated' >= poRotated
    BY <1>0, <1>1, <1>2 DEF POKeyInv
  <2>6. QED
    BY <1>1, <2>1, <2>4, <2>5, <2>5a, POCommandsFrame
<1>3. CASE /\ poAt[c] = "rotate" /\ poKey' = poPendingToken /\ poAt' = [poAt EXCEPT ![c] = "hand over"]
           /\ UNCHANGED <<poLocks, poToken, poPendingToken, poRotated>>
  <2>1. poPendingToken = poKey + 1 /\ poLocks["owner"] = c
    BY <1>0, <1>3 DEF POCommandInv
  <2>2. POCommandShape'
    BY <1>0, <1>1, <1>3, <2>1 DEF POCommandShape
  <2>3. /\ poAt'[c] = "hand over" /\ \A d \in poCommands : d # c => poAt'[d] = poAt[d]
    BY <1>0, <1>3 DEF POCommandShape
  <2>4. \A d \in poCommands : d # c => poAt[d] \notin {"rotate", "hand over"}
    BY <1>0, <2>1 DEF POCommandInv
  <2>5. POCommandInv'
    BY <1>0, <1>1, <1>3, <2>1, <2>3, <2>4 DEF POCommandInv
  <2>6. POWithdrawnInv'
    BY <1>0, <1>1 DEF POWithdrawnInv
  <2>6b. poKey' = poKey + 1 /\ poRotated' = poRotated /\ poPendingToken' = poKey + 1
    BY <1>3, <2>1
  <2>6a. POKeyInv' /\ poKey' >= poKey /\ poRotated' >= poRotated
    BY <1>0, <2>6b DEF POKeyInv
  <2>7. QED
    BY <1>1, <2>2, <2>5, <2>6, <2>6a, POCommandsFrame
<1>4. CASE /\ poAt[c] = "hand over" /\ poPendingToken' = 0
           /\ poRotated' = poKey /\ poLocks' = [poLocks EXCEPT !["owner"] = PO!Nil]
           /\ poAt' = [poAt EXCEPT ![c] = "over"] /\ UNCHANGED poKey
  <2>1. POCommandShape'
    BY <1>0, <1>1, <1>4 DEF POCommandShape
  <2>2. /\ poAt'[c] = "over" /\ \A d \in poCommands : d # c => poAt'[d] = poAt[d]
        /\ poLocks'["clients"] = poLocks["clients"]
    BY <1>0, <1>4 DEF POCommandShape
  <2>3. \A d \in poCommands : d # c => poAt[d] \notin {"rotate", "hand over"}
    BY <1>0, <1>4 DEF POCommandInv
  <2>4. POCommandInv'
    BY <1>0, <1>1, <1>4, <2>2, <2>3 DEF POCommandInv
  <2>5. POWithdrawnInv'
    BY <1>0, <1>1 DEF POWithdrawnInv
  <2>5b. poKey' = poKey /\ poRotated' = poKey /\ poPendingToken' = 0
    BY <1>4
  <2>5a. POKeyInv' /\ poKey' >= poKey /\ poRotated' >= poRotated
    BY <1>0, <2>5b DEF POKeyInv
  <2>6. QED
    BY <1>1, <2>1, <2>4, <2>5, <2>5a, POCommandsFrame
<1>5. QED
  BY <1>2, <1>3, <1>4 DEF PO!Rotate, PO!Goto

\* A command that stops, wherever it is, keeps the invariant.
LEMMA POStopInv == ASSUME POSane, POIInv, NEW c \in poCommands, PO!Stop(c) PROVE POIInv'
<1>0. POCommandShape /\ POKeyInv /\ POCommandInv /\ POWithdrawnInv
  BY DEF POIInv
<1>1. /\ poAt' = [poAt EXCEPT ![c] = "over"]
      /\ poRead' = [poRead EXCEPT ![c] = {}] /\ poWhom' = [poWhom EXCEPT ![c] = PO!Nil]
      /\ UNCHANGED <<poRegistry, poKey, poToken, poPendingToken, poRevoked, poRotated, PO!requests, poNow>>
  BY DEF PO!Stop, PO!End, PO!Goto
<1>2. /\ poLocks' \in [{"clients", "owner"} -> poCommands \cup {PO!Nil}]
      /\ \A l \in {"clients", "owner"} : poLocks[l] # c => poLocks'[l] = poLocks[l]
  BY <1>0 DEF PO!Stop, POCommandShape
<1>3. POCommandShape'
  BY <1>0, <1>1, <1>2 DEF POCommandShape
<1>4. /\ poAt'[c] = "over"
      /\ \A d \in poCommands : d # c => poAt'[d] = poAt[d] /\ poRead'[d] = poRead[d] /\ poWhom'[d] = poWhom[d]
  BY <1>0, <1>1 DEF POCommandShape
<1>5. POCommandInv'
  BY <1>0, <1>1, <1>2, <1>4 DEF POCommandInv
<1>6. POWithdrawnInv'
  BY <1>0, <1>1 DEF POWithdrawnInv
<1>6a. POKeyInv' /\ poKey' >= poKey /\ poRotated' >= poRotated
  BY <1>0, <1>1 DEF POKeyInv
<1>7. QED
  BY <1>1, <1>3, <1>5, <1>6, <1>6a, POCommandsFrame

\* Removing a lock whose command has ended keeps the invariant.
LEMMA POClearLockInv ==
  ASSUME POSane, POIInv, NEW l \in DOMAIN poLocks, PO!ClearLock(l)
  PROVE POIInv'
<1>0. POCommandShape /\ POKeyInv /\ POCommandInv /\ POWithdrawnInv
  BY DEF POIInv
<1>1. /\ l \in {"clients", "owner"} /\ poLocks[l] # PO!Nil /\ poAt[poLocks[l]] = "over"
      /\ poLocks' = [poLocks EXCEPT ![l] = PO!Nil]
      /\ UNCHANGED <<poRegistry, poKey, poToken, poPendingToken, poAt, poRead, poWhom, poRevoked, poRotated, PO!requests, poNow>>
  BY <1>0 DEF PO!ClearLock, POCommandShape
<1>2. POCommandShape'
  BY <1>0, <1>1 DEF POCommandShape
<1>3. \A k \in {"clients", "owner"} : poLocks'[k] = poLocks[k] \/ poAt[poLocks[k]] = "over"
  BY <1>0, <1>1 DEF POCommandShape
<1>4. POCommandInv'
  BY <1>0, <1>1, <1>3 DEF POCommandInv
<1>5. POWithdrawnInv'
  BY <1>0, <1>1 DEF POWithdrawnInv
<1>5a. POKeyInv' /\ poKey' >= poKey /\ poRotated' >= poRotated
  BY <1>0, <1>1 DEF POKeyInv
<1>6. QED
  BY <1>1, <1>2, <1>4, <1>5, <1>5a, POCommandsFrame

\* Requests leave the commands alone.
LEMMA PORequestsFrame ==
  ASSUME POIInv, UNCHANGED PO!commands
  PROVE  POCommandShape' /\ POKeyInv' /\ POCommandInv' /\ POWithdrawnInv'
  BY DEF PO!commands, POIInv, POKeyInv, POCommandShape, POCommandInv, POWithdrawnInv

\* A request that arrives keeps the invariant.
LEMMA POArriveInv ==
  ASSUME POSane, POIInv, NEW r \in poRequests, PO!Arrive(r)
  PROVE POIInv'
<1>0. POCommandShape /\ POKeyInv /\ PORequestShape /\ PORequestInv /\ POFailureInv /\ poIntrusions = {}
  BY DEF POIInv
<1>1. PICK claim \in [kind : {"login", "cookie"}, version : 0..poKey] \cup [kind : {"agent"}, agent : poAgents] :
        /\ poAsks' = [poAsks EXCEPT ![r] = claim]
        /\ poFailures' = IF claim.kind # "login" THEN poFailures
                       ELSE {f \in poFailures : f.time + poWindow > poNow}
        /\ poStale' = [poStale EXCEPT ![r] = IF claim.kind = "agent" THEN claim.agent \in poRevoked
                                         ELSE claim.version < poRotated]
  BY DEF PO!Arrive
<1>2. UNCHANGED <<poSeen, poRefusals, poIntrusions, poNow, poKey, poRotated>> /\ UNCHANGED PO!commands
  BY DEF PO!Arrive, PO!commands
<1>3. PORequestShape'
  <2>1. claim \in POClaims
    BY <1>0 DEF POClaims, POKeyInv
  <2>2. poStale' \in [poRequests -> BOOLEAN]
    <3> DEFINE old == IF claim.kind = "agent" THEN claim.agent \in poRevoked
                      ELSE claim.version < poRotated
    <3>1. old \in BOOLEAN
      <4>1. claim.kind # "agent" => claim.version \in Nat /\ poRotated \in Nat
        BY <1>0 DEF POKeyInv
      <4>2. CASE claim.kind = "agent"
        BY <4>2
      <4>3. CASE claim.kind # "agent"
        BY <4>1, <4>3
      <4>4. QED
        BY <4>2, <4>3
    <3> HIDE DEF old
    <3>2. poStale' = [poStale EXCEPT ![r] = old]
      BY <1>1 DEF old
    <3>3. QED
      BY <1>0, <3>1, <3>2 DEF PORequestShape
  <2>3. QED
    BY <1>0, <1>1, <1>2, <2>1, <2>2 DEF PORequestShape
<1>4. PORequestInv'
  <2>1. /\ poAsks'[r] = claim /\ \A q \in poRequests : q # r => poAsks'[q] = poAsks[q] /\ poStale'[q] = poStale[q]
        /\ claim.kind # "agent" => poStale'[r] = (claim.version < poRotated)
    BY <1>0, <1>1 DEF PORequestShape
  <2>2. poSeen[r] = 0 /\ claim # PO!Idle
    BY <1>0 DEF PORequestInv, PO!Arrive, PO!Idle
  <2>3. QED
    BY <1>0, <1>2, <2>1, <2>2 DEF PORequestInv, POKeyInv
<1>5. POFailureInv'
  <2>1. /\ poFailures' \subseteq poFailures /\ IsFiniteSet(poFailures)
        /\ \A f \in poFailures \ poFailures' : ~(f.time + poWindow > poNow)
    BY <1>0, <1>1, FS_Subset DEF POFailureInv
  <2>2. Cardinality(poFailures') <= poLimit
    BY <1>0, <2>1, FS_Subset, FS_CardinalityType DEF POFailureInv, POSane
  <2>3. \A f \in poRefusals : f.time \in Nat
    BY <1>0 DEF POFailureInv
  <2>4. \A f \in poRefusals \ poFailures' : f.time + poWindow <= poNow
    BY <1>0, <2>1, <2>3 DEF POFailureInv, POSane
  <2>5. QED
    BY <1>0, <1>2, <2>1, <2>2, <2>4 DEF POFailureInv, POInWindow
<1>6. QED
  BY <1>0, <1>2, <1>3, <1>4, <1>5, PORequestsFrame DEF POIInv

\* Reading the key keeps the invariant.
LEMMA POReadKeyInv ==
  ASSUME POSane, POIInv, NEW r \in poRequests, PO!ReadKey(r)
  PROVE POIInv'
<1>0. PORequestShape /\ POKeyInv /\ POWithdrawnInv /\ PORequestInv /\ POFailureInv /\ poIntrusions = {}
  BY DEF POIInv
<1>1. /\ poAsks[r].kind \in {"login", "cookie", "agent"} /\ poSeen' = [poSeen EXCEPT ![r] = poKey]
      /\ UNCHANGED <<poAsks, poStale, poFailures, poRefusals, poIntrusions, poNow, poKey, poRotated>>
      /\ UNCHANGED PO!commands
  BY DEF PO!ReadKey, PO!commands
<1>2. PORequestShape'
  BY <1>0, <1>1 DEF PORequestShape, POKeyInv
<1>3. PORequestInv'
  <2>0. poAsks[r] # PO!Idle
    BY <1>1 DEF PO!Idle
  <2>1. poSeen'[r] = poKey /\ \A q \in poRequests : q # r => poSeen'[q] = poSeen[q]
    BY <1>0, <1>1 DEF PORequestShape
  <2>2. \A q \in poRequests : poAsks[q].kind \in {"login", "cookie"} => poAsks[q].version \in Nat
    BY <1>0 DEF PORequestShape, POClaims, PO!Idle
  <2>3. QED
    BY <1>0, <1>1, <2>0, <2>1, <2>2 DEF PORequestInv, POKeyInv
<1>4. POFailureInv'
  BY <1>0, <1>1 DEF POFailureInv, POInWindow
<1>5. QED
  BY <1>0, <1>1, <1>2, <1>3, <1>4, PORequestsFrame DEF POIInv

\* A request that is answered takes nothing with it, and lets nobody in.
LEMMA POAnswerInv ==
  ASSUME POSane, POIInv, NEW r \in poRequests, NEW accepted \in BOOLEAN, PO!Answer(r, accepted),
         UNCHANGED PO!commands, POFailureInv',
         accepted => ~PO!withdrawn(r)
  PROVE  POIInv'
<1>0. PORequestShape /\ POKeyInv /\ PORequestInv /\ poIntrusions = {}
  BY DEF POIInv
<1>1. /\ poAsks' = [poAsks EXCEPT ![r] = [kind |-> "over"]] /\ poSeen' = [poSeen EXCEPT ![r] = 0]
      /\ poStale' = [poStale EXCEPT ![r] = FALSE] /\ poIntrusions' = poIntrusions
      /\ UNCHANGED <<poKey, poRotated>>
  BY DEF PO!Answer, PO!commands
<1>2. PORequestShape'
  BY <1>0, <1>1 DEF PORequestShape, POClaims
<1>3. PORequestInv'
  <2>1. /\ ~poStale'[r] /\ poSeen'[r] = 0
        /\ \A q \in poRequests : q # r => poAsks'[q] = poAsks[q] /\ poStale'[q] = poStale[q] /\ poSeen'[q] = poSeen[q]
    BY <1>0, <1>1 DEF PORequestShape
  <2>2. QED
    BY <1>0, <1>1, <2>1 DEF PORequestInv, POKeyInv
<1>4. QED
  BY <1>0, <1>1, <1>2, <1>3, PORequestsFrame DEF POIInv

\* A login, let in, refused or over the limit, keeps the invariant.
LEMMA POLoginInv == ASSUME POSane, POIInv, NEW r \in poRequests, PO!Login(r) PROVE POIInv'
<1>0. PORequestShape /\ PORequestInv /\ POFailureInv
  BY DEF POIInv
<1>1. /\ poAsks[r].kind = "login" /\ poSeen[r] # 0 /\ UNCHANGED <<PO!commands, poNow>>
  BY DEF PO!Login
<1>2. CASE PO!Answer(r, TRUE) /\ poAsks[r].version = poSeen[r] /\ UNCHANGED <<poFailures, poRefusals>>
  <2>1. ~PO!withdrawn(r)
    <3>1. poAsks[r].version \in Nat
      BY <1>0, <1>1 DEF PORequestShape, POClaims, PO!Idle
    <3>2. QED
      BY <1>0, <1>1, <1>2, <3>1 DEF PORequestInv, PO!withdrawn
  <2>2. POFailureInv'
    BY <1>0, <1>1, <1>2 DEF POFailureInv, POInWindow
  <2>3. QED
    BY <1>1, <1>2, <2>1, <2>2, POAnswerInv
<1>3. CASE PO!Answer(r, FALSE) /\ UNCHANGED <<poFailures, poRefusals>>
  <2>1. POFailureInv'
    BY <1>0, <1>1, <1>3 DEF POFailureInv, POInWindow
  <2>2. QED
    BY <1>1, <1>3, <2>1, POAnswerInv
<1>4. CASE /\ PO!Answer(r, FALSE) /\ ~(Cardinality(poFailures) >= poLimit)
           /\ poFailures' = poFailures \cup {PO!entry(r)} /\ poRefusals' = poRefusals \cup {PO!entry(r)}
  <2>1. poNow' = poNow /\ poNow \in Nat /\ PO!entry(r).time = poNow /\ PO!entry(r) \in [by : poRequests, time : 0..poNow]
    BY <1>0, <1>1 DEF PO!entry, POFailureInv
  <2>2. IsFiniteSet(poRefusals') /\ IsFiniteSet(poFailures) /\ Cardinality(poFailures) \in Nat
    BY <1>0, <1>4, FS_AddElement, FS_Subset, FS_CardinalityType DEF POFailureInv
  <2>3. IsFiniteSet(poFailures') /\ Cardinality(poFailures') <= poLimit
    <3>1. /\ IsFiniteSet(poFailures')
          /\ Cardinality(poFailures') = IF PO!entry(r) \in poFailures THEN Cardinality(poFailures)
                                       ELSE Cardinality(poFailures) + 1
      BY <1>4, <2>2, FS_AddElement
    <3>2. QED
      BY <1>4, <2>2, <3>1 DEF POSane
  <2>4. ASSUME NEW t \in Nat PROVE Cardinality(POInWindow(t)') <= poLimit
    <3>1. \A f \in poRefusals : f.time \in 0..poNow
      BY <1>0 DEF POFailureInv
    <3>2. CASE poNow \in t..(t + poWindow - 1)
      <4>1. \A f \in poRefusals : f.time \in t..(t + poWindow - 1) => f \in poFailures
        BY <1>0, <2>1, <3>1, <3>2 DEF POFailureInv, POSane
      <4>2. POInWindow(t)' \subseteq poFailures'
        BY <1>4, <4>1 DEF POInWindow
      <4>3. QED
        BY <2>3, <4>2, FS_Subset, FS_CardinalityType DEF POSane
    <3>3. CASE poNow \notin t..(t + poWindow - 1)
      <4>1. POInWindow(t)' = POInWindow(t)
        BY <1>4, <2>1, <3>3 DEF POInWindow
      <4>2. QED
        BY <1>0, <4>1 DEF POFailureInv
    <3>4. QED
      BY <3>2, <3>3
  <2>5. /\ poRefusals' \subseteq [by : poRequests, time : 0..poNow'] /\ poFailures' \subseteq poRefusals'
        /\ \A f \in poRefusals' \ poFailures' : f.time + poWindow <= poNow'
    BY <1>0, <1>4, <2>1 DEF POFailureInv
  <2>6. POFailureInv'
    BY <2>1, <2>2, <2>3, <2>4, <2>5 DEF POFailureInv
  <2>7. QED
    BY <1>1, <1>4, <2>6, POAnswerInv
<1>5. QED
  BY <1>2, <1>3, <1>4, POCard DEF PO!Login

\* An agent's request keeps the invariant.
LEMMA POAuthenticateInv ==
  ASSUME POSane, POIInv, NEW r \in poRequests, PO!Authenticate(r)
  PROVE POIInv'
<1>0. PORequestShape /\ PORequestInv /\ POFailureInv /\ POWithdrawnInv
  BY DEF POIInv
<1> DEFINE accepted == IF poAsks[r].kind = "cookie" THEN poAsks[r].version = poSeen[r]
                       ELSE poAsks[r].agent \in poRegistry
<1>1. /\ poAsks[r].kind \in {"cookie", "agent"} /\ poSeen[r] # 0
      /\ PO!Answer(r, accepted)
      /\ UNCHANGED <<poFailures, poRefusals, poNow>> /\ UNCHANGED PO!commands
  BY DEF PO!Authenticate
<1>1a. accepted \in BOOLEAN
  <2>1. CASE poAsks[r].kind = "cookie"
    BY <2>1
  <2>2. CASE poAsks[r].kind # "cookie"
    BY <2>2
  <2>3. QED
    BY <2>1, <2>2
<1>2. POFailureInv'
  BY <1>0, <1>1 DEF POFailureInv, POInWindow
<1>3. accepted => ~PO!withdrawn(r)
  <2>1. poAsks[r].kind = "cookie" => poAsks[r].version \in Nat
    BY <1>0 DEF PORequestShape, POClaims, PO!Idle
  <2>2. QED
    BY <1>0, <1>1, <2>1 DEF PORequestInv, POWithdrawnInv, PO!withdrawn
<1>4. QED
  <2> HIDE DEF accepted
  <2>1. QED
    BY <1>1, <1>1a, <1>2, <1>3, POAnswerInv

\* Time passes, and failures keep their times.
LEMMA POTickInv == ASSUME POSane, POIInv, PO!Tick PROVE POIInv'
<1>0. PORequestShape /\ PORequestInv /\ POFailureInv /\ POKeyInv /\ poIntrusions = {}
  BY DEF POIInv
<1>1. /\ poNow' = poNow + 1
      /\ UNCHANGED <<poAsks, poSeen, poStale, poFailures, poRefusals, poIntrusions, poKey, poRotated>>
      /\ UNCHANGED PO!commands
  BY DEF PO!Tick, PO!requests, PO!commands
<1>2. PORequestShape' /\ PORequestInv'
  BY <1>0, <1>1 DEF PORequestShape, PORequestInv
<1>3. POFailureInv'
  <2>1. \A f \in poRefusals : f \in [by : poRequests, time : 0..poNow] /\ f.time \in 0..poNow
    BY <1>0 DEF POFailureInv
  <2>2. poNow \in Nat
    BY <1>0 DEF POFailureInv
  <2>3. \A f \in poRefusals : f \in [by : poRequests, time : 0..(poNow + 1)]
    BY <2>1, <2>2
  <2>4. \A f \in poRefusals \ poFailures : f.time + poWindow <= poNow + 1
    BY <1>0, <2>1, <2>2 DEF POFailureInv, POSane
  <2>5. QED
    BY <1>0, <1>1, <2>2, <2>3, <2>4 DEF POFailureInv, POInWindow
<1>4. QED
  BY <1>0, <1>1, <1>2, <1>3, PORequestsFrame DEF POIInv

\* Every step keeps the invariant.
LEMMA PONextInv == POSane /\ POIInv /\ [PO!Next]_(PO!vars) => POIInv'
<1> SUFFICES ASSUME POSane, POIInv, [PO!Next]_(PO!vars) PROVE POIInv'
  OBVIOUS
<1>1. CASE UNCHANGED PO!vars
  <2>1. UNCHANGED PO!commands /\ UNCHANGED <<poAsks, poSeen, poStale, poFailures, poRefusals, poIntrusions, poNow, poKey, poRotated>>
    BY <1>1 DEF PO!vars, PO!requests, PO!commands
  <2>2. PORequestShape' /\ PORequestInv' /\ POFailureInv' /\ poIntrusions' = {}
    BY <2>1 DEF POIInv, PORequestShape, PORequestInv, POFailureInv, POInWindow
  <2>3. QED
    BY <2>1, <2>2, PORequestsFrame DEF POIInv
<1>2. QED
  BY <1>1, POOpenInv, PORegisterInv, PORotateInv, POStopInv, POClearLockInv, POArriveInv,
     POReadKeyInv,
     POLoginInv, POAuthenticateInv, POTickInv DEF PO!Next

\* What the portal promises, from the invariant.
LEMMA POFollows == POSane /\ POIInv => PO!TypeOK /\ PO!AccessIsCurrent /\ PO!GuessesAreLimited
<1> SUFFICES ASSUME POSane, POIInv PROVE PO!TypeOK /\ PO!AccessIsCurrent /\ PO!GuessesAreLimited
  OBVIOUS
<1>1. \A r \in poRequests : poSeen[r] \in 0..poKey
  BY DEF POIInv, PORequestShape, PORequestInv, POKeyInv
<1>2. PO!TypeOK
  BY <1>1, POCard DEF PO!TypeOK, POIInv, POCommandShape, POFailureInv
<1>3. PO!GuessesAreLimited
  BY POCard DEF POIInv, POFailureInv, POInWindow, PO!GuessesAreLimited
<1>4. QED
  BY <1>2, <1>3 DEF POIInv, PO!AccessIsCurrent

-----------------------------------------------------------------------------
(* The components together *)

\* What is assumed of the constants of the cache and of the portal.
LEMMA Sanity == RCSane /\ POSane
  BY BatchesAssumption, PortalAssumption DEF RCSane, POSane, PO!Nil

\* Whichever component runs is in its invariant.
AllInv ==
  /\ part \in Parts /\ IInv /\ Counters
  /\ part = "gateway" => GCIInv /\ GCSavedInv
  /\ part = "cache" => RCIInv /\ RCCountInv
  /\ part = "pool" => BPIInv
  /\ part = "http" => SHIInv
  /\ part = "piazza" => PSIInv /\ PS!TypeOK
  /\ part = "crowdmark" => CSIInv /\ CS!TypeOK
  /\ part = "rooms" => ROIInv /\ ROToldInv
  /\ part = "portal" => POIInv

\* Each component starts in its invariant.
LEMMA AllInitInv == AllInit => AllInv
<1> SUFFICES ASSUME AllInit PROVE AllInv
  OBVIOUS
<1>1. /\ part \in Parts /\ Init
      /\ part = "gateway" => GC!Init
      /\ part = "cache" => RC!Init
      /\ part = "pool" => BP!Init
      /\ part = "http" => SH!Init
      /\ part = "piazza" => PS!Init
      /\ part = "crowdmark" => CS!Init
      /\ part = "rooms" => RO!Init
      /\ part = "portal" => PO!Init
  BY DEF AllInit
<1>2. IInv /\ Counters
  BY <1>1, InitInv, InitCounters
<1>3. part = "gateway" => GCIInv /\ GCSavedInv
  BY <1>1, GCInitInv, GCInitSaved, GatewayAssumption
<1>4. part = "cache" => RCIInv /\ RCCountInv
  BY <1>1, RCInitInv, RCInitCount, Sanity
<1>5. part = "pool" => BPIInv
  <2>1. 0 \notin BP!Ids
    BY BrowsersAssumption DEF BP!Ids
  <2>2. QED
    BY <1>1, <2>1, BPInitInv
<1>6. part = "http" => SHIInv
  BY <1>1, SHInitInv, HttpAssumption
<1>7. part = "piazza" => PSIInv /\ PS!TypeOK
  BY <1>1, PSInitInv, PSInitType
<1>8. part = "crowdmark" => CSIInv /\ CS!TypeOK
  BY <1>1, CSInitInv, CSInitType, CrowdmarkAssumption
<1>9. part = "rooms" => ROIInv /\ ROToldInv
  BY <1>1, ROInitInv, ROInitTold, RoomsAssumption
<1>10. part = "portal" => POIInv
  BY <1>1, POInitInv, Sanity
<1>11. QED
  BY <1>1, <1>2, <1>3, <1>4, <1>5, <1>6, <1>7, <1>8, <1>9, <1>10 DEF AllInv

\* A step is a step of each component, or leaves it as it is.
LEMMA Steps ==
  ASSUME [AllNext]_allVars
  PROVE  /\ part' = part /\ [Next]_vars
         /\ [GC!Next]_(GC!vars) /\ [RC!Next]_(RC!vars) /\ [BP!Next]_(BP!vars)
         /\ [SH!Next]_(SH!vars) /\ [PS!Next]_(PS!vars) /\ [CS!Next]_(CS!vars)
         /\ [RO!Next]_(RO!vars) /\ [PO!Next]_(PO!vars)
<1>1. /\ GC!vars = gcVars /\ GC!vars' = gcVars' /\ RC!vars = rcVars /\ RC!vars' = rcVars'
      /\ BP!vars = bpVars /\ BP!vars' = bpVars' /\ SH!vars = shVars /\ SH!vars' = shVars'
      /\ PS!vars = psVars /\ PS!vars' = psVars' /\ CS!vars = csVars /\ CS!vars' = csVars'
      /\ RO!vars = roVars /\ RO!vars' = roVars'
  BY DEF gcVars, GC!vars, rcVars, RC!vars, bpVars, BP!vars, shVars, SH!vars, psVars,
         PS!vars, csVars, CS!vars, roVars, RO!vars
<1>2. (UNCHANGED poVars) => UNCHANGED PO!vars
  BY DEF poVars, PO!vars, PO!commands, PO!requests
<1>3. CASE UNCHANGED allVars
  BY <1>1, <1>2, <1>3 DEF allVars
<1>4. CASE AllNext
  BY <1>1, <1>2, <1>4
     DEF AllNext, MailStep, GatewayStep, CacheStep, PoolStep, HttpStep, PiazzaStep,
         CrowdmarkStep, RoomsStep, PortalStep
<1>5. QED
  BY <1>3, <1>4

\* Every step keeps the invariant of the component that runs.
LEMMA AllNextInv == AllInv /\ [AllNext]_allVars => AllInv'
<1> SUFFICES ASSUME AllInv, [AllNext]_allVars PROVE AllInv'
  OBVIOUS
<1>0. part' = part /\ part \in Parts
  BY Steps DEF AllInv
<1>2. IInv' /\ Counters'
  BY Steps, NextInv, NextCounters DEF AllInv
<1>3. part = "gateway" => GCIInv' /\ GCSavedInv'
  <2>1. 0 \notin GC!Workers /\ GC!Nil \notin gcCalls
    BY GatewayAssumption DEF GC!Workers, GC!Nil
  <2>2. QED
    BY <2>1, Steps, GCNextInv, GCNextSaved, GatewayAssumption DEF AllInv
<1>4. part = "cache" => RCIInv' /\ RCCountInv'
  BY Steps, Sanity, RCNextInv, RCNextCount DEF AllInv
<1>5. part = "pool" => BPIInv'
  <2>1. 0 \notin BP!Ids
    BY BrowsersAssumption DEF BP!Ids
  <2>2. QED
    BY <2>1, Steps, BrowsersAssumption, BPNextInv DEF AllInv
<1>6. part = "http" => SHIInv'
  BY Steps, HttpAssumption, SHNextInv DEF AllInv
<1>7. part = "piazza" => PSIInv' /\ PS!TypeOK'
  BY Steps, PSNextInv, PSNextType DEF AllInv
<1>8. part = "crowdmark" => CSIInv' /\ CS!TypeOK'
  <2>1. csMaxLogins \in Nat
    BY CrowdmarkAssumption
  <2>2. QED
    BY <2>1, Steps, CSNextInv, CSNextType DEF AllInv
<1>9. part = "rooms" => ROIInv' /\ ROToldInv'
  BY Steps, RoomsAssumption, RONextInv, RONextTold DEF AllInv
<1>10. part = "portal" => POIInv'
  BY Steps, Sanity, PONextInv DEF AllInv
<1>11. QED
  BY <1>0, <1>2, <1>3, <1>4, <1>5, <1>6, <1>7, <1>8, <1>9, <1>10 DEF AllInv

\* The invariant holds of every behaviour of every component.
LEMMA AllInvariance == AllSpec => []AllInv
  BY AllInitInv, AllNextInv, PTL DEF AllSpec

\* What the invariant says of each component.
LEMMA AllFollows ==
  ASSUME AllInv
  PROVE  /\ TypeOK /\ AckedIsKept /\ ListedIsReadable /\ CacheIsCurrent /\ StrictKeepsOut
         /\ part = "gateway" => GC!TypeOK /\ GC!NewSessionIsUsed
         /\ part = "cache" => RC!TypeOK /\ RC!BatchIsComplete
         /\ part = "pool" => BP!TypeOK /\ BP!IdleBrowserCloses
         /\ part = "http" => SH!TypeOK /\ SH!CookiesAreOfTheLogin
         /\ part = "piazza" => PS!TypeOK /\ PS!ConnectedAccountStands /\ PS!RefusedOncePerLife
         /\ part = "crowdmark" => CS!TypeOK /\ CS!OwnersLoginIsUsed
         /\ part = "rooms" => RO!TypeOK /\ RO!ListIsAwaited
         /\ part = "portal" => PO!TypeOK /\ PO!AccessIsCurrent /\ PO!GuessesAreLimited
<1>1. TypeOK /\ AckedIsKept /\ ListedIsReadable /\ CacheIsCurrent /\ StrictKeepsOut
  BY Follows DEF AllInv
<1>2. part = "gateway" => GC!TypeOK /\ GC!NewSessionIsUsed
  BY GCFollows, GatewayAssumption DEF AllInv
<1>3. part = "cache" => RC!TypeOK /\ RC!BatchIsComplete
  BY RCFollows, Sanity DEF AllInv
<1>4. part = "pool" => BP!TypeOK /\ BP!IdleBrowserCloses
  BY BPFollows, BrowsersAssumption DEF AllInv
<1>5. part = "http" => SH!TypeOK /\ SH!CookiesAreOfTheLogin
  BY SHFollows, HttpAssumption DEF AllInv
<1>6. part = "piazza" => PS!TypeOK /\ PS!ConnectedAccountStands /\ PS!RefusedOncePerLife
  BY PSFollows DEF AllInv
<1>7. part = "crowdmark" => CS!TypeOK /\ CS!OwnersLoginIsUsed
  BY CSFollows DEF AllInv
<1>8. part = "rooms" => RO!TypeOK /\ RO!ListIsAwaited
  BY ROFollows DEF AllInv
<1>9. part = "portal" => PO!TypeOK /\ PO!AccessIsCurrent /\ PO!GuessesAreLimited
  BY POFollows, Sanity DEF AllInv
<1>10. QED
  BY <1>1, <1>2, <1>3, <1>4, <1>5, <1>6, <1>7, <1>8, <1>9

\* Type correctness of the mail store and of the eight components that answer reads.
THEOREM ReadersTypeCorrect == AllSpec => []ReadersTyped
<1>1. AllInv => ReadersTyped
  <2> SUFFICES ASSUME AllInv PROVE ReadersTyped
    OBVIOUS
  <2>1. part \in Parts
    BY DEF AllInv
  <2>2. QED
    BY <2>1, AllFollows DEF ReadersTyped, Parts
<1>2. QED
  BY <1>1, AllInvariance, PTL

\* mail-store.mjs: mail whose sender was told it is stored is kept until newer mail
\* pushes it out, whatever fails on disk and whenever the process is killed.
THEOREM AckedKept == AllSpec => []AckedIsKept
<1>1. AllInv => AckedIsKept
  BY AllFollows
<1>2. QED
  BY <1>1, AllInvariance, PTL

\* mail-store.mjs: what is listed can be read, the cached list is the one on disk, and
\* a strict policy keeps out mail that is not verified.
THEOREM ListsSound == AllSpec => []ListsAreSound
<1>1. AllInv => ListsAreSound
  BY AllFollows DEF ListsAreSound
<1>2. QED
  BY <1>1, AllInvariance, PTL

\* Gateway, HTTP, Crowdmark and Piazza sessions: a call that begins after a new login
\* was answered runs under that login or a newer one.
THEOREM NewSessionUsed == AllSpec => []NewSessionIsUsed
<1>1. AllInv => NewSessionIsUsed
  BY AllFollows DEF NewSessionIsUsed
<1>2. QED
  BY <1>1, AllInvariance, PTL

\* Batches, browser and room list: each request of an answered batch has one result,
\* an unused browser has its timer, and whoever waits for the list is answered.
THEOREM NobodyLeftOver == AllSpec => []NobodyIsLeftOver
<1>1. AllInv => NobodyIsLeftOver
  BY AllFollows DEF NobodyIsLeftOver
<1>2. QED
  BY <1>1, AllInvariance, PTL

\* libcal.mjs: the windows an agent is offered hold exactly the bookings that the check
\* before a booking lets through, for the same grid and while their start has not passed.
THEOREM RoomsBookable == AllSpec => []RoomsCanBeBooked
<1>1. AllInv => RoomsCanBeBooked
  BY RoomsAssumption, ROToldFollows DEF AllInv, RoomsCanBeBooked
<1>2. QED
  BY <1>1, AllInvariance, PTL

\* Portal: a withdrawn token or key lets nobody in, and wrong guesses are limited in
\* every window of time.
THEOREM AccessCurrent == AllSpec => []AccessIsCurrent
<1>1. AllInv => AccessIsCurrent
  BY AllFollows DEF AccessIsCurrent
<1>2. QED
  BY <1>1, AllInvariance, PTL

\* mail-store.mjs implements the mailbox, whatever else runs: each step of the code
\* changes the list on disk as one delivery does, or not at all.
THEOREM KeepsMailbox == AllSpec => ImplementsMailbox
<1>1. AllInit => Promised!Init
  BY DEF AllInit, Init, Promised!Init
<1>2. AllInv /\ [AllNext]_allVars => [Promised!Next]_index
  BY Steps, StepRefines DEF AllInv
<1>3. QED
  BY <1>1, <1>2, AllInvariance, PTL DEF AllSpec, ImplementsMailbox, Promised!Spec
=============================================================================
