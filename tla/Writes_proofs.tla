----------------------------- MODULE Writes_proofs -----------------------------
(* The writes that wait for an approval: each component keeps its inductive invariant, for
   every value of its constants, and what it promises follows from it.  The names of an
   instance's definitions and lemmas here begin with its two letters in Writes; those of
   Approvals are proved in Approvals_proofs. *)
EXTENDS Writes, Approvals_proofs, Loops, FiniteSetTheorems, TLAPS

-----------------------------------------------------------------------------
(* Writes to Crowdmark: CrowdmarkWrite *)

CWBefore == {"prepare", "authorize", "mark", "reread", "enter", "compare"}

CWShape ==
  /\ cwQueue \in Seq(cwRequests)
  /\ cwJob = [at |-> cwJob.at, next |-> cwJob.next, before |-> cwJob.before,
            current |-> cwJob.current, shown |-> cwJob.shown, unexpected |-> cwJob.unexpected,
            touched |-> cwJob.touched, alone |-> cwJob.alone]
  /\ cwJob.at \in CWBefore \cup {"act", "poll"}
  /\ cwBegun \in [CW!ActionIds -> Nat] /\ cwSent \in [cwRequests -> Nat]
  /\ cwArgs = [r \in cwRequests |-> cwArgs[r]]

\* Only requests with an approval are called, and a job belongs to a call.
CWQueueInv ==
  /\ cwQueue = <<>> => cwJob.at = "prepare"
  /\ \A i \in 1..Len(cwQueue) : cwArgs[cwQueue[i]] # CW!NoSite

\* The marker comes before the edit, and never goes.
CWMarkInv ==
  /\ \A a \in CW!ActionIds : cwBegun[a] <= 1 /\ (cwBegun[a] # 0 => a \in cwMarkers)
  /\ CW!At("reread") => cwBegun[cwActionOf[CW!running]] = 0 /\ cwActionOf[CW!running] \in cwMarkers

\* The approval comes before the first change, and each change is sent once.
CWSentInv ==
  /\ \A r \in cwRequests : r \notin cwConsumed => cwSent[r] = 0
  /\ \A r \in cwRequests : cwSent[r] <= (IF r \in cwSubmits THEN 1 ELSE Len(cwChanges))
  /\ cwJob.at \in CWBefore => cwJob.next = 1
  /\ cwQueue # <<>> /\ cwJob.at \in CWBefore \ {"prepare", "authorize"} =>
       CW!running \in cwConsumed /\ cwSent[CW!running] = 0
  /\ CW!At("act") => /\ CW!running \in cwConsumed
                     /\ CW!running \in cwSubmits => cwSent[CW!running] = 0
                     /\ CW!running \notin cwSubmits =>
                          cwJob.next \in 1..Len(cwChanges) /\ cwSent[CW!running] = cwJob.next - 1
  /\ CW!At("poll") => /\ CW!running \in cwConsumed
                      /\ CW!running \notin cwSubmits =>
                           cwJob.next \in 1..Len(cwChanges) /\ cwSent[CW!running] = cwJob.next

\* What is sent is compared with what was approved.
CWWireInv ==
  /\ \A w \in cwWire : w.r \in cwRequests /\ cwArgs[w.r] # CW!NoSite
  /\ CW!SubmittedAsReviewed
  /\ cwQueue # <<>> /\ cwJob.at \in {"enter", "compare", "act", "poll"} =>
       cwJob.before = cwArgs[CW!running]

CWIInv == CWShape /\ CWQueueInv /\ CWMarkInv /\ CWSentInv /\ CWWireInv

-----------------------------------------------------------------------------

\* At the start nothing was approved, begun or sent.
LEMMA CWInitInv == ASSUME Len(cwChanges) \in Nat PROVE CW!Init => CWIInv
<1> SUFFICES ASSUME CW!Init PROVE CWIInv
  OBVIOUS
<1> USE DEF CW!Init, CW!idle
<1>1. CWShape
  BY DEF CWShape, CWBefore
<1>2. CWQueueInv /\ CWMarkInv
  BY DEF CWQueueInv, CWMarkInv, CW!At
<1>3. CWSentInv
  BY DEF CWSentInv, CW!At, CWBefore
<1>4. CWWireInv
  BY DEF CWWireInv, CW!SubmittedAsReviewed
<1>5. QED
  BY <1>1, <1>2, <1>3, <1>4 DEF CWIInv

\* The call at the head of the queue is of a request, and stays there while others
\* join.
LEMMA CWHeads ==
  /\ \A s \in Seq(cwRequests) : s # <<>> =>
       /\ Head(s) \in cwRequests /\ Tail(s) \in Seq(cwRequests)
       /\ Head(s) = s[1] /\ 1 \in 1..Len(s)
       /\ \A i \in 1..Len(Tail(s)) : i + 1 \in 1..Len(s) /\ Tail(s)[i] = s[i + 1]
  /\ \A s \in Seq(cwRequests), r \in cwRequests :
       /\ Append(s, r) \in Seq(cwRequests) /\ Append(s, r) # <<>>
       /\ s # <<>> => Head(Append(s, r)) = Head(s)
       /\ \A i \in 1..Len(Append(s, r)) : \/ i \in 1..Len(s) /\ Append(s, r)[i] = s[i]
                                         \/ Append(s, r)[i] = r
<1>1. ASSUME NEW s \in Seq(cwRequests), s # <<>>
      PROVE  /\ Head(s) \in cwRequests /\ Tail(s) \in Seq(cwRequests)
             /\ Head(s) = s[1] /\ 1 \in 1..Len(s)
  BY <1>1
<1>2. ASSUME NEW s \in Seq(cwRequests), s # <<>>, NEW i \in 1..Len(Tail(s))
      PROVE  i + 1 \in 1..Len(s) /\ Tail(s)[i] = s[i + 1]
  BY <1>2
<1>3. ASSUME NEW s \in Seq(cwRequests), NEW r \in cwRequests
      PROVE  Append(s, r) \in Seq(cwRequests) /\ Append(s, r) # <<>>
  <2>1. Append(s, r) \in Seq(cwRequests) /\ Len(Append(s, r)) = Len(s) + 1 /\ Len(s) \in Nat
    OBVIOUS
  <2>2. Append(s, r) # <<>>
    BY <2>1
  <2>3. QED
    BY <2>1, <2>2
<1>4. ASSUME NEW s \in Seq(cwRequests), NEW r \in cwRequests, s # <<>>
      PROVE  Head(Append(s, r)) = Head(s)
  BY <1>4
<1>5. ASSUME NEW s \in Seq(cwRequests), NEW r \in cwRequests, NEW i \in 1..Len(Append(s, r))
      PROVE  (i \in 1..Len(s) /\ Append(s, r)[i] = s[i]) \/ Append(s, r)[i] = r
  BY <1>5
<1>6. QED
  BY <1>1, <1>2, <1>3, <1>4, <1>5

\* A call that ends leaves nothing behind that the next one could take for its own.
LEMMA CWEndInv ==
  ASSUME CWIInv, cwQueue # <<>>, NEW what, CW!End(what),
         UNCHANGED <<cwWire, cwArgs, cwConsumed, cwMarkers, cwBegun, cwSent>>
  PROVE  CWIInv'
<1> USE CWHeads DEF CWIInv, CW!End, CW!idle
<1>1. cwJob'.at = "prepare" /\ cwJob'.next = 1
  OBVIOUS
<1>2. CWShape'
  BY DEF CWShape, CWBefore
<1>3. CWQueueInv'
  BY DEF CWShape, CWQueueInv
<1>4. CWMarkInv'
  BY <1>1 DEF CWMarkInv, CW!At
<1>5. CWSentInv'
  BY <1>1 DEF CWSentInv, CW!At, CWBefore
<1>6. CWWireInv'
  BY <1>1 DEF CWWireInv, CW!SubmittedAsReviewed
<1>7. QED
  BY <1>2, <1>3, <1>4, <1>5, <1>6

\* A step that moves the job on and touches neither approvals nor what was sent.
LEMMA CWMoveInv ==
  ASSUME CWIInv, cwQueue # <<>>, UNCHANGED <<cwQueue, cwWire, cwArgs, cwConsumed, cwBegun, cwSent>>,
         CWShape', CWQueueInv', CWMarkInv',
         cwJob'.before = cwJob.before, cwJob'.next = cwJob.next,
         cwJob.at \in {"enter", "compare", "act", "poll"}
           \/ cwJob'.at \in {"authorize", "mark", "reread"},
         \/ cwJob'.at \in CWBefore /\ cwJob.at \in CWBefore \ {"prepare", "authorize"}
         \/ cwJob.at = "prepare" /\ cwJob'.at = "authorize"
  PROVE  CWIInv'
<1>1. CW!running' = CW!running
  BY DEF CW!running
<1>2. CWSentInv'
  BY <1>1 DEF CWIInv, CWSentInv, CW!At, CWBefore
<1>3. CWWireInv'
  BY <1>1 DEF CWIInv, CWWireInv, CW!SubmittedAsReviewed
<1>4. QED
  BY <1>2, <1>3 DEF CWIInv

-----------------------------------------------------------------------------
(* The student, Crowdmark and the cwCalls *)

\* Another editor changes the assignment, not the call.
LEMMA CWEditInv == CWIInv /\ CW!Edit => CWIInv'
<1> SUFFICES ASSUME CWIInv, CW!Edit PROVE CWIInv'
  OBVIOUS
<1>1. UNCHANGED <<cwWire, cwArgs, cwConsumed, cwMarkers, cwQueue, cwBegun, cwSent>> /\ CW!running' = CW!running
  BY DEF CW!Edit, CW!running
<1>2. cwJob' = [cwJob EXCEPT !.alone = cwQueue = <<>>]
  BY DEF CW!Edit
<1>3. CWShape' /\ cwJob'.at = cwJob.at /\ cwJob'.next = cwJob.next /\ cwJob'.before = cwJob.before
  BY <1>1, <1>2 DEF CWIInv, CWShape
<1>4. QED
  BY <1>1, <1>3
  DEF CWIInv, CWQueueInv, CWMarkInv, CWSentInv, CWWireInv, CW!SubmittedAsReviewed, CW!At

\* Crowdmark handles a change.
LEMMA CWLandInv == CWIInv /\ CW!Land => CWIInv'
<1> SUFFICES ASSUME CWIInv, CW!Land PROVE CWIInv'
  OBVIOUS
<1>1. UNCHANGED <<cwArgs, cwConsumed, cwMarkers, cwQueue, cwBegun, cwSent>> /\ CW!running' = CW!running
  BY DEF CW!Land, CW!running
<1>2. PICK w \in cwWire :
        /\ cwWire' = cwWire \ {w}
        /\ cwJob' = [cwJob EXCEPT !.alone = @ /\ (cwQueue = <<>> \/ w.r = Head(cwQueue))]
  BY DEF CW!Land
<1>3. CWShape' /\ cwJob'.at = cwJob.at /\ cwJob'.next = cwJob.next /\ cwJob'.before = cwJob.before
  BY <1>1, <1>2 DEF CWIInv, CWShape
<1>4. CWQueueInv' /\ CWMarkInv' /\ CWSentInv'
  BY <1>1, <1>3 DEF CWIInv, CWQueueInv, CWMarkInv, CWSentInv, CW!At
<1>5. CWWireInv'
  BY <1>1, <1>2, <1>3 DEF CWIInv, CWWireInv, CW!SubmittedAsReviewed
<1>6. QED
  BY <1>3, <1>4, <1>5 DEF CWIInv

\* A preview fixes the revision to approve.
LEMMA CWAskInv == ASSUME CWIInv, NEW r \in cwRequests, CW!Ask(r) PROVE CWIInv'
<1>1. cwArgs[r] = CW!NoSite /\ cwQueue = <<>> /\ cwArgs' = [cwArgs EXCEPT ![r] = cwSite]
  BY DEF CW!Ask
<1>2. UNCHANGED <<cwWire, cwConsumed, cwMarkers, cwQueue, cwJob, cwBegun, cwSent>>
  BY DEF CW!Ask
<1>3. CWShape'
  BY <1>1, <1>2 DEF CWIInv, CWShape
<1>4. CWQueueInv' /\ CWMarkInv' /\ CWSentInv'
  BY <1>1, <1>2 DEF CWIInv, CWShape, CWQueueInv, CWMarkInv, CWSentInv, CW!At
<1>5. CWWireInv'
  BY <1>1, <1>2 DEF CWIInv, CWShape, CWWireInv, CW!SubmittedAsReviewed
<1>6. QED
  BY <1>3, <1>4, <1>5 DEF CWIInv

\* A call joins the queue.
LEMMA CWCallStepInv == ASSUME CWIInv, NEW r \in cwRequests, CW!Call(r) PROVE CWIInv'
<1>1. UNCHANGED <<cwWire, cwArgs, cwConsumed, cwMarkers, cwJob, cwBegun, cwSent>>
  BY DEF CW!Call
<1>2. cwArgs[r] # CW!NoSite /\ cwQueue' \in {cwQueue, Append(cwQueue, r)}
  BY DEF CW!Call
<1>3. cwQueue # <<>> => CW!running' = CW!running
  BY <1>2, CWHeads DEF CWIInv, CWShape, CW!running
<1>4. cwQueue = <<>> => cwJob.at = "prepare"
  BY DEF CWIInv, CWQueueInv
<1>5. CWShape'
  <2>1. cwQueue \in Seq(cwRequests)
    BY DEF CWIInv, CWShape
  <2>2. Append(cwQueue, r) \in Seq(cwRequests)
    BY <2>1, CWHeads
  <2>3. cwQueue' \in Seq(cwRequests)
    BY <1>2, <2>1, <2>2
  <2>4. QED
    BY <1>1, <2>3 DEF CWIInv, CWShape
<1>6. CWQueueInv'
  <2>1. cwQueue' = <<>> => cwJob'.at = "prepare"
    BY <1>1, <1>2, <1>4, CWHeads DEF CWIInv, CWShape
  <2>2. \A i \in 1..Len(cwQueue') : cwArgs[cwQueue'[i]] # CW!NoSite
    BY <1>2, CWHeads DEF CWIInv, CWShape, CWQueueInv
  <2>3. QED
    BY <1>1, <2>1, <2>2 DEF CWQueueInv
<1>7. CWMarkInv' /\ CWSentInv'
  BY <1>1, <1>3, <1>4 DEF CWIInv, CWMarkInv, CWSentInv, CW!At
<1>8. CWWireInv'
  BY <1>1, <1>3, <1>4 DEF CWIInv, CWWireInv, CW!SubmittedAsReviewed
<1>9. QED
  BY <1>5, <1>6, <1>7, <1>8 DEF CWIInv

-----------------------------------------------------------------------------
(* The CW!running call *)

\* The checks before any write.
LEMMA CWPrepareInv == CWIInv /\ CW!Prepare => CWIInv'
<1> SUFFICES ASSUME CWIInv, CW!Prepare PROVE CWIInv'
  OBVIOUS
<1>1. cwQueue # <<>> /\ cwJob.at = "prepare" /\ UNCHANGED <<cwWire, cwArgs, cwConsumed, cwMarkers, cwBegun, cwSent>>
  BY DEF CW!Prepare, CW!At
<1>2. CASE \E what \in CW!Answers : CW!End(what)
  BY <1>1, <1>2, CWEndInv
<1>3. CASE CW!Move([cwJob EXCEPT !.at = "authorize"])
  <2>1. cwJob' = [cwJob EXCEPT !.at = "authorize"] /\ cwQueue' = cwQueue
    BY <1>3 DEF CW!Move
  <2>2. CWShape' /\ cwJob'.at = "authorize" /\ cwJob'.next = cwJob.next /\ cwJob'.before = cwJob.before
    BY <1>1, <2>1 DEF CWIInv, CWShape, CWBefore
  <2>3. CWQueueInv' /\ CWMarkInv'
    BY <1>1, <2>1, <2>2 DEF CWIInv, CWQueueInv, CWMarkInv, CW!At
  <2>4. QED
    BY <1>1, <2>1, <2>2, <2>3, CWMoveInv DEF CWBefore
<1>4. QED
  BY <1>2, <1>3 DEF CW!Prepare, CW!Answers

\* The approval is used.
LEMMA CWAuthorizeInv == CWIInv /\ CW!Authorize => CWIInv'
<1> SUFFICES ASSUME CWIInv, CW!Authorize PROVE CWIInv'
  OBVIOUS
<1>1. cwQueue # <<>> /\ cwJob.at = "authorize" /\ UNCHANGED <<cwWire, cwArgs, cwMarkers, cwBegun, cwSent>>
  BY DEF CW!Authorize, CW!At
<1>2. CASE CW!running \in cwConsumed
  BY <1>1, <1>2, CWEndInv DEF CW!Authorize
<1>3. CASE CW!running \notin cwConsumed
  <2>1. /\ cwJob' = [cwJob EXCEPT !.at = "mark"] /\ cwQueue' = cwQueue
        /\ CW!running' = CW!running
        /\ cwConsumed' = cwConsumed \cup {CW!running}
    BY <1>3 DEF CW!Authorize, CW!Move, CW!running
  <2>2. CWShape' /\ cwJob'.at = "mark" /\ cwJob'.next = cwJob.next
    BY <1>1, <2>1 DEF CWIInv, CWShape, CWBefore
  <2>3. CW!running \in cwRequests
    BY <1>1, CWHeads DEF CWIInv, CWShape, CW!running
  <2>4. CWQueueInv' /\ CWMarkInv'
    BY <1>1, <2>1, <2>2 DEF CWIInv, CWQueueInv, CWMarkInv, CW!At
  <2>5. CWSentInv'
    BY <1>1, <1>3, <2>1, <2>2, <2>3 DEF CWIInv, CWSentInv, CW!At, CWBefore
  <2>6. CWWireInv'
    BY <1>1, <2>1, <2>2 DEF CWIInv, CWWireInv, CW!SubmittedAsReviewed
  <2>7. QED
    BY <2>2, <2>4, <2>5, <2>6 DEF CWIInv
<1>4. QED
  BY <1>2, <1>3

\* The marker is created, once.
LEMMA CWMarkStepInv == CWIInv /\ CW!Mark => CWIInv'
<1> SUFFICES ASSUME CWIInv, CW!Mark PROVE CWIInv'
  OBVIOUS
<1> DEFINE a == cwActionOf[CW!running]
<1>1. cwQueue # <<>> /\ cwJob.at = "mark" /\ UNCHANGED <<cwWire, cwArgs, cwConsumed, cwBegun, cwSent>>
  BY DEF CW!Mark, CW!At
<1>2. CASE cwMarkers' = cwMarkers /\ \E what : CW!End(what)
  BY <1>1, <1>2, CWEndInv
<1>3. CASE a \notin cwMarkers /\ cwMarkers' = cwMarkers \cup {a}
  <2>1. CW!running \in cwRequests
    BY <1>1, CWHeads DEF CWIInv, CWShape, CW!running
  <2>2. a \in CW!ActionIds
    BY <2>1 DEF CW!ActionIds
  <2>3. cwBegun[a] = 0 /\ a \in cwMarkers' /\ \A b \in CW!ActionIds : cwBegun[b] <= 1 /\ (cwBegun[b] # 0 => b \in cwMarkers')
    BY <1>3, <2>2 DEF CWIInv, CWMarkInv
  <2>4. CASE CW!End("refused")
    <3>1. /\ cwQueue' = Tail(cwQueue) /\ cwJob' = CW!idle
          /\ cwJob'.at = "prepare" /\ cwJob'.next = 1
      BY <2>4 DEF CW!End, CW!idle
    <3>2. CWShape'
      BY <1>1, <3>1, CWHeads DEF CWIInv, CWShape, CW!idle, CWBefore
    <3>3. CWQueueInv'
      BY <1>1, <3>1, CWHeads DEF CWIInv, CWShape, CWQueueInv
    <3>4. CWMarkInv'
      BY <1>1, <2>3, <3>1 DEF CWMarkInv, CW!At
    <3>5. CWSentInv' /\ CWWireInv'
      BY <1>1, <3>1 DEF CWIInv, CWSentInv, CWWireInv, CW!SubmittedAsReviewed, CW!At,
         CWBefore
    <3>6. QED
      BY <3>2, <3>3, <3>4, <3>5 DEF CWIInv
  <2>5. CASE CW!Move([cwJob EXCEPT !.at = "reread"])
    <3>1. cwJob' = [cwJob EXCEPT !.at = "reread"] /\ cwQueue' = cwQueue /\ CW!running' = CW!running
      BY <2>5 DEF CW!Move, CW!running
    <3>2. CWShape' /\ cwJob'.at = "reread" /\ cwJob'.next = cwJob.next /\ cwJob'.before = cwJob.before
      BY <1>1, <3>1 DEF CWIInv, CWShape, CWBefore
    <3>3. CWQueueInv'
      BY <1>1, <3>1, <3>2 DEF CWIInv, CWQueueInv
    <3>4. CWMarkInv'
      BY <1>1, <2>3, <3>1 DEF CWMarkInv, CW!At
    <3>5. CWSentInv'
      BY <1>1, <3>1, <3>2 DEF CWIInv, CWSentInv, CW!At, CWBefore
    <3>6. CWWireInv'
      BY <1>1, <3>1, <3>2 DEF CWIInv, CWWireInv, CW!SubmittedAsReviewed
    <3>7. QED
      BY <3>2, <3>3, <3>4, <3>5, <3>6 DEF CWIInv
  <2>6. QED
    BY <1>3, <2>4, <2>5 DEF CW!Mark
<1>4. QED
  BY <1>2, <1>3 DEF CW!Mark, CW!creates

\* The edit begins with the approved revision.
LEMMA CWRereadInv == CWIInv /\ CW!Reread => CWIInv'
<1> SUFFICES ASSUME CWIInv, CW!Reread PROVE CWIInv'
  OBVIOUS
<1> DEFINE a == cwActionOf[CW!running]
<1>1. cwQueue # <<>> /\ cwJob.at = "reread" /\ UNCHANGED <<cwWire, cwArgs, cwConsumed, cwMarkers, cwSent>>
  BY DEF CW!Reread, CW!At
<1>2. CASE cwBegun' = cwBegun /\ CW!End("changed")
  BY <1>1, <1>2, CWEndInv
<1>3. CASE CW!assignment = cwArgs[CW!running]
  <2>1. /\ cwJob' = [cwJob EXCEPT !.at = "enter", !.before = CW!assignment]
        /\ cwQueue' = cwQueue /\ CW!running' = CW!running
        /\ cwBegun' = [cwBegun EXCEPT ![a] = @ + 1]
    BY <1>3 DEF CW!Reread, CW!Move, CW!running
  <2>2. /\ CWShape' /\ cwJob'.at = "enter" /\ cwJob'.next = cwJob.next
        /\ cwJob'.before = cwArgs[CW!running]
    <3>1. cwJob'.at = "enter" /\ cwJob'.next = cwJob.next /\ cwJob'.before = cwArgs[CW!running]
      BY <1>3, <2>1 DEF CWIInv, CWShape
    <3>2. cwBegun' \in [CW!ActionIds -> Nat]
      <4>1. cwBegun[a] = 0
        BY <1>1 DEF CWIInv, CWMarkInv, CW!At
      <4>2. cwBegun' = [cwBegun EXCEPT ![a] = 1]
        BY <2>1, <4>1
      <4>3. QED
        BY <4>2 DEF CWIInv, CWShape
    <3>3. CWShape'
      BY <1>1, <2>1, <3>1, <3>2 DEF CWIInv, CWShape, CWBefore
    <3>4. QED
      BY <3>1, <3>3
  <2>3. CWQueueInv'
    BY <1>1, <2>1 DEF CWIInv, CWQueueInv
  <2>4. CWMarkInv'
    <3>1. cwBegun[a] = 0 /\ a \in cwMarkers
      BY <1>1 DEF CWIInv, CWMarkInv, CW!At
    <3>2. \A b \in CW!ActionIds : cwBegun'[b] <= 1 /\ (cwBegun'[b] # 0 => b \in cwMarkers)
      BY <2>1, <3>1 DEF CWIInv, CWShape, CWMarkInv
    <3>3. QED
      BY <1>1, <2>2, <3>2 DEF CWMarkInv, CW!At
  <2>5. CWSentInv'
    BY <1>1, <2>1, <2>2 DEF CWIInv, CWSentInv, CW!At, CWBefore
  <2>6. CWWireInv'
    BY <1>1, <2>1, <2>2 DEF CWIInv, CWWireInv, CW!SubmittedAsReviewed
  <2>7. QED
    BY <2>2, <2>3, <2>4, <2>5, <2>6 DEF CWIInv
<1>4. QED
  BY <1>2, <1>3 DEF CW!Reread
-----------------------------------------------------------------------------
(* The browser *)

\* The browser opens the page.
LEMMA CWEnterInv == CWIInv /\ CW!Enter => CWIInv'
<1> SUFFICES ASSUME CWIInv, CW!Enter PROVE CWIInv'
  OBVIOUS
<1>1. /\ cwQueue # <<>> /\ cwJob.at = "enter"
      /\ UNCHANGED <<cwQueue, cwWire, cwArgs, cwConsumed, cwMarkers, cwBegun, cwSent>>
  BY DEF CW!Enter, CW!At, CW!Move
<1>2. PICK blocked \in BOOLEAN :
        cwJob' = [cwJob EXCEPT !.at = "compare", !.shown = cwSite.pages, !.unexpected = blocked]
  BY DEF CW!Enter, CW!Move
<1>3. CWShape' /\ cwJob'.at = "compare" /\ cwJob'.next = cwJob.next /\ cwJob'.before = cwJob.before
  BY <1>1, <1>2 DEF CWIInv, CWShape, CWBefore
<1>4. CWQueueInv' /\ CWMarkInv'
  BY <1>1, <1>3 DEF CWIInv, CWQueueInv, CWMarkInv, CW!At
<1>5. QED
  BY <1>1, <1>3, <1>4, CWMoveInv DEF CWBefore

\* The page is compared with what was approved.
LEMMA CWCompareInv ==
  ASSUME Len(cwChanges) \in Nat \ {0}, CWIInv, CW!Compare
  PROVE CWIInv'
<1>1. /\ cwQueue # <<>> /\ cwJob.at = "compare"
      /\ UNCHANGED <<cwWire, cwArgs, cwConsumed, cwMarkers, cwBegun, cwSent>>
  BY DEF CW!Compare, CW!At
<1>2. CASE \E what : CW!End(what)
  BY <1>1, <1>2, CWEndInv
<1>3. CASE CW!Move([cwJob EXCEPT !.at = "act", !.current = CW!assignment])
  <2>1. /\ cwJob' = [cwJob EXCEPT !.at = "act", !.current = CW!assignment]
        /\ cwQueue' = cwQueue /\ CW!running' = CW!running
    BY <1>3 DEF CW!Move, CW!running
  <2>2. CWShape' /\ cwJob'.at = "act" /\ cwJob'.next = cwJob.next /\ cwJob'.before = cwJob.before
    BY <1>1, <2>1 DEF CWIInv, CWShape, CWBefore
  <2>3. CWQueueInv' /\ CWMarkInv'
    BY <1>1, <2>1, <2>2 DEF CWIInv, CWQueueInv, CWMarkInv, CW!At
  <2>4. CWSentInv'
    BY <1>1, <2>1, <2>2 DEF CWIInv, CWSentInv, CW!At, CWBefore
  <2>5. CWWireInv'
    BY <1>1, <2>1, <2>2 DEF CWIInv, CWWireInv, CW!SubmittedAsReviewed
  <2>6. QED
    BY <2>2, <2>3, <2>4, <2>5 DEF CWIInv
<1>4. QED
  BY <1>2, <1>3 DEF CW!Compare

\* What is submitted is what was approved.
LEMMA CWClickInv == ASSUME Len(cwChanges) \in Nat \ {0}, CWIInv, CW!Click PROVE CWIInv'
<1>1. /\ cwQueue # <<>> /\ cwJob.at = "act" /\ CW!running \in cwSubmits
      /\ UNCHANGED <<cwArgs, cwConsumed, cwMarkers, cwBegun>>
  BY DEF CW!Click, CW!At
<1>2. CASE CW!End("changed") /\ UNCHANGED <<cwWire, cwSent>>
  BY <1>1, <1>2, CWEndInv
<1>3. CW!running \in cwRequests /\ cwArgs[CW!running] # CW!NoSite
  BY <1>1, CWHeads DEF CWIInv, CWShape, CWQueueInv, CW!running
<1>4. cwSent[CW!running] = 0 /\ CW!running \in cwConsumed /\ cwJob.before = cwArgs[CW!running]
  BY <1>1 DEF CWIInv, CWSentInv, CWWireInv, CW!At
<1>5. ASSUME cwQueue' = cwQueue, cwJob'.at = "poll", cwJob'.before = cwJob.before, CWShape',
             \/ UNCHANGED <<cwWire, cwSent>>
             \/ /\ cwJob.shown = cwJob.before.pages
                /\ cwWire' = cwWire \cup {[r |-> CW!running, pages |-> cwJob.shown]}
                /\ cwSent' = [cwSent EXCEPT ![CW!running] = @ + 1]
      PROVE  CWIInv'
  <2>1. CW!running' = CW!running
    BY <1>5 DEF CW!running
  <2>2. CWQueueInv' /\ CWMarkInv'
    BY <1>1, <1>5 DEF CWIInv, CWQueueInv, CWMarkInv, CW!At
  <2>3. CWSentInv'
    <3>1. cwSent' \in {cwSent, [cwSent EXCEPT ![CW!running] = 1]}
      BY <1>4, <1>5
    <3>2. /\ \A r \in cwRequests : r # CW!running => cwSent'[r] = cwSent[r]
          /\ cwSent'[CW!running] <= 1
      BY <1>3, <1>4, <3>1 DEF CWIInv, CWShape
    <3>3. \A r \in cwRequests : r \notin cwConsumed => cwSent'[r] = 0
      BY <1>4, <3>2 DEF CWIInv, CWSentInv
    <3>4. \A r \in cwRequests : cwSent'[r] <= (IF r \in cwSubmits THEN 1 ELSE Len(cwChanges))
      BY <1>1, <3>2 DEF CWIInv, CWSentInv
    <3>5. QED
      BY <1>1, <1>4, <1>5, <2>1, <3>3, <3>4 DEF CWSentInv, CW!At, CWBefore
  <2>4. CWWireInv'
    <3>1. \A w \in cwWire' \ cwWire : w.r = CW!running /\ w.pages = cwArgs[CW!running].pages
      BY <1>4, <1>5
    <3>2. QED
      BY <1>1, <1>3, <1>4, <1>5, <2>1, <3>1 DEF CWIInv, CWWireInv, CW!SubmittedAsReviewed
  <2>5. QED
    BY <1>5, <2>2, <2>3, <2>4 DEF CWIInv
<1>6. CASE ~(CW!End("changed") /\ UNCHANGED <<cwWire, cwSent>>)
  <2>1. /\ cwQueue' = cwQueue
        /\ \/ /\ cwJob' = [cwJob EXCEPT !.at = "poll", !.touched = TRUE]
              /\ cwJob.shown = cwJob.before.pages
              /\ cwWire' = cwWire \cup {[r |-> CW!running, pages |-> cwJob.shown]}
              /\ cwSent' = [cwSent EXCEPT ![CW!running] = @ + 1]
           \/ /\ cwJob' = [cwJob EXCEPT !.at = "poll", !.unexpected = TRUE]
              /\ UNCHANGED <<cwWire, cwSent>>
    BY <1>6 DEF CW!Click, CW!Move, CW!allowedCrowdmarkWrite
  <2>2. cwJob'.at = "poll" /\ cwJob'.before = cwJob.before
    BY <2>1 DEF CWIInv, CWShape
  <2>3. cwSent' \in [cwRequests -> Nat]
    BY <1>3, <2>1 DEF CWIInv, CWShape
  <2>4. CWShape'
    BY <1>1, <2>1, <2>2, <2>3 DEF CWIInv, CWShape
  <2>5. QED
    BY <1>5, <2>1, <2>2, <2>4
<1>7. QED
  BY <1>2, <1>6

\* The next change is sent.
LEMMA CWSetInputInv ==
  ASSUME Len(cwChanges) \in Nat \ {0}, CWIInv, CW!SetInput
  PROVE CWIInv'
<1>1. /\ cwQueue # <<>> /\ cwJob.at = "act" /\ CW!running \notin cwSubmits
      /\ UNCHANGED <<cwArgs, cwConsumed, cwMarkers, cwBegun>>
  BY DEF CW!SetInput, CW!At
<1>2. CASE CW!End("unknown") /\ UNCHANGED <<cwWire, cwSent>>
  BY <1>1, <1>2, CWEndInv
<1>3. CW!running \in cwRequests /\ cwArgs[CW!running] # CW!NoSite
  BY <1>1, CWHeads DEF CWIInv, CWShape, CWQueueInv, CW!running
<1>4. /\ cwJob.next \in 1..Len(cwChanges) /\ cwSent[CW!running] = cwJob.next - 1
      /\ CW!running \in cwConsumed /\ cwJob.before = cwArgs[CW!running]
  BY <1>1 DEF CWIInv, CWSentInv, CWWireInv, CW!At
<1>5. CASE ~(CW!End("unknown") /\ UNCHANGED <<cwWire, cwSent>>)
  <2>1. /\ cwWire' = cwWire \cup {[r |-> CW!running, n |-> cwJob.next, change |-> cwChanges[cwJob.next]]}
        /\ cwSent' = [cwSent EXCEPT ![CW!running] = @ + 1]
        /\ cwJob' = [cwJob EXCEPT !.at = "poll", !.touched = TRUE]
        /\ cwQueue' = cwQueue /\ CW!running' = CW!running
    BY <1>5 DEF CW!SetInput, CW!Move, CW!running
  <2>2. cwSent' = [cwSent EXCEPT ![CW!running] = cwJob.next] /\ cwSent' \in [cwRequests -> Nat]
    <3>1. cwJob.next \in Nat /\ cwSent[CW!running] + 1 = cwJob.next
      BY <1>4
    <3>2. cwSent' = [cwSent EXCEPT ![CW!running] = cwJob.next]
      BY <2>1, <3>1
    <3>3. QED
      BY <3>1, <3>2 DEF CWIInv, CWShape
  <2>3. CWShape' /\ cwJob'.at = "poll" /\ cwJob'.next = cwJob.next /\ cwJob'.before = cwJob.before
    BY <1>1, <2>1, <2>2 DEF CWIInv, CWShape
  <2>4. CWQueueInv' /\ CWMarkInv'
    BY <1>1, <2>1, <2>3 DEF CWIInv, CWQueueInv, CWMarkInv, CW!At
  <2>5. CWSentInv'
    BY <1>1, <1>3, <1>4, <2>1, <2>2, <2>3 DEF CWIInv, CWShape, CWSentInv, CW!At, CWBefore
  <2>6. CWWireInv'
    <3>1. \A w \in cwWire' \ cwWire : w.r = CW!running
      BY <2>1
    <3>2. QED
      BY <1>1, <1>3, <1>4, <2>1, <2>3, <3>1 DEF CWIInv, CWWireInv, CW!SubmittedAsReviewed
  <2>7. QED
    BY <2>3, <2>4, <2>5, <2>6 DEF CWIInv
<1>6. QED
  BY <1>2, <1>5

\* The change has arrived, and the next may be made.
LEMMA CWPollSavedInv ==
  ASSUME Len(cwChanges) \in Nat \ {0}, CWIInv, CW!PollSaved
  PROVE CWIInv'
<1>1. /\ cwQueue # <<>> /\ cwJob.at = "poll" /\ CW!running \notin cwSubmits
      /\ UNCHANGED <<cwWire, cwArgs, cwConsumed, cwMarkers, cwBegun, cwSent>>
  BY DEF CW!PollSaved, CW!At
<1>2. CASE \E what : CW!End(what)
  BY <1>1, <1>2, CWEndInv
<1>3. CASE cwJob.next < Len(cwChanges) /\ CW!Move([cwJob EXCEPT !.at = "act", !.next = @ + 1, !.current = cwSite])
  <2>1. /\ cwJob' = [cwJob EXCEPT !.at = "act", !.next = @ + 1, !.current = cwSite]
        /\ cwQueue' = cwQueue /\ CW!running' = CW!running
    BY <1>3 DEF CW!Move, CW!running
  <2>2. CWShape' /\ cwJob'.at = "act" /\ cwJob'.next = cwJob.next + 1 /\ cwJob'.before = cwJob.before
    BY <1>1, <2>1 DEF CWIInv, CWShape
  <2>3. CWQueueInv' /\ CWMarkInv'
    BY <1>1, <2>1, <2>2 DEF CWIInv, CWQueueInv, CWMarkInv, CW!At
  <2>4. CWSentInv'
    BY <1>1, <1>3, <2>1, <2>2 DEF CWIInv, CWSentInv, CW!At, CWBefore
  <2>5. CWWireInv'
    BY <1>1, <2>1, <2>2 DEF CWIInv, CWWireInv, CW!SubmittedAsReviewed
  <2>6. QED
    BY <2>2, <2>3, <2>4, <2>5 DEF CWIInv
<1>4. QED
  BY <1>2, <1>3 DEF CW!PollSaved

\* A kill leaves no call.
LEMMA CWCrashInv == CWIInv /\ CW!Crash => CWIInv'
<1> SUFFICES ASSUME CWIInv, CW!Crash PROVE CWIInv'
  OBVIOUS
<1>1. /\ cwQueue' = <<>> /\ cwJob' = CW!idle /\ cwJob'.at = "prepare" /\ cwJob'.next = 1
      /\ UNCHANGED <<cwWire, cwArgs, cwConsumed, cwMarkers, cwBegun, cwSent>>
  BY DEF CW!Crash, CW!idle
<1>2. CWShape' /\ CWQueueInv'
  BY <1>1 DEF CWIInv, CWShape, CWQueueInv, CW!idle, CWBefore
<1>3. CWMarkInv' /\ CWSentInv' /\ CWWireInv'
  BY <1>1 DEF CWIInv, CWMarkInv, CWSentInv, CWWireInv, CW!SubmittedAsReviewed, CW!At,
     CWBefore
<1>4. QED
  BY <1>2, <1>3 DEF CWIInv

\* Every step keeps the invariant.
LEMMA CWNextInv ==
  ASSUME Len(cwChanges) \in Nat \ {0}, CWIInv, [CW!Next]_(CW!vars)
  PROVE CWIInv'
<1>1. CASE CW!PollSubmitted
  BY <1>1, CWEndInv DEF CW!PollSubmitted, CW!At
<1>2. CASE CW!Fail
  BY <1>2, CWEndInv DEF CW!Fail, CW!At
<1>3. CASE UNCHANGED CW!vars
  <2>1. CW!running' = CW!running /\ CW!SubmittedAsReviewed' = CW!SubmittedAsReviewed
    BY <1>3 DEF CW!vars, CW!running, CW!SubmittedAsReviewed
  <2>2. QED
    BY <1>3, <2>1 DEF CW!vars, CWIInv, CWShape, CWQueueInv, CWMarkInv, CWSentInv,
       CWWireInv,
                      CW!SubmittedAsReviewed, CW!At
<1>4. QED
  BY <1>1, <1>2, <1>3, CWEditInv, CWLandInv, CWAskInv, CWCallStepInv, CWPrepareInv,
     CWAuthorizeInv,
     CWMarkStepInv, CWRereadInv, CWEnterInv, CWCompareInv, CWClickInv, CWSetInputInv, CWPollSavedInv,
     CWCrashInv
  DEF CW!Next

-----------------------------------------------------------------------------
(* Types *)

\* What is assumed of the constants: some change is to be made, each of a question.
CWSane ==
  /\ Len(cwChanges) \in Nat \ {0} /\ DOMAIN cwChanges = 1..Len(cwChanges)
  /\ \A i \in DOMAIN cwChanges : cwChanges[i].q \in cwQuestions
  /\ \A i, j \in DOMAIN cwChanges :
       cwChanges[i].q = cwChanges[j].q /\ cwChanges[i].q \in cwTextQuestions => i = j
  /\ cwMaxPending \in Nat

CWSite == [pages : [cwQuestions -> CW!Pages], drafting : BOOLEAN, submitted : BOOLEAN, open : BOOLEAN]

\* A change puts a page or a text on a question.
CWisChange(change) ==
  change.q \in cwQuestions /\ change.page \in {cwChanges[i].page : i \in DOMAIN cwChanges}

CWTyped ==
  /\ cwSite \in CWSite
  /\ \A r \in cwRequests : cwArgs[r] # CW!NoSite => cwArgs[r] \in CWSite
  /\ \A w \in cwWire : w.r \notin cwSubmits => CWisChange(w.change)
  /\ cwConsumed \subseteq cwRequests /\ cwMarkers \subseteq CW!ActionIds
  /\ Len(cwQueue) <= cwMaxPending
  /\ cwAnswer \in [cwRequests -> CW!Answers]
  /\ cwJob.next \in 1..Len(cwChanges)

\* At the start every question is empty and nobody has called.
LEMMA CWInitTyped == CWSane /\ CW!Init => CWTyped
<1> SUFFICES ASSUME CWSane, CW!Init PROVE CWTyped
  OBVIOUS
<1>1. cwSite \in CWSite
  <2>1. <<>> \in CW!Pages
    BY DEF CW!Pages
  <2>2. QED
    BY <2>1 DEF CW!Init, CWSite
<1>2. cwAnswer \in [cwRequests -> CW!Answers] /\ cwJob.next = 1
  BY DEF CW!Init, CW!Answers, CW!idle
<1>3. 1 \in 1..Len(cwChanges)
  BY DEF CWSane
<1>4. QED
  BY <1>1, <1>2, <1>3 DEF CW!Init, CWTyped, CWSane

\* A page added, and a page taken away.
LEMMA CWPagesKept ==
  ASSUME NEW pages \in [cwQuestions -> CW!Pages], NEW q \in cwQuestions
  PROVE  /\ \A page \in {cwForeign} \cup {cwChanges[i].page : i \in DOMAIN cwChanges} :
              CW!addPage(pages, q, page) \in [cwQuestions -> CW!Pages]
         /\ pages[q] # <<>> => [pages EXCEPT ![q] = CW!Front(@)] \in [cwQuestions -> CW!Pages]
<1> DEFINE P == {cwForeign} \cup {cwChanges[i].page : i \in DOMAIN cwChanges}
<1>1. CW!Pages = Seq(P) /\ pages[q] \in Seq(P)
  BY DEF CW!Pages
<1> HIDE DEF P
<1>2. ASSUME NEW page \in P PROVE CW!addPage(pages, q, page) \in [cwQuestions -> CW!Pages]
  <2>1. <<page>> \in Seq(P) /\ Append(pages[q], page) \in Seq(P)
    BY <1>1, <1>2
  <2>2. QED
    BY <1>1, <2>1 DEF CW!addPage
<1>3. pages[q] # <<>> => [pages EXCEPT ![q] = CW!Front(@)] \in [cwQuestions -> CW!Pages]
  <2> SUFFICES ASSUME pages[q] # <<>>
               PROVE  [pages EXCEPT ![q] = CW!Front(@)] \in [cwQuestions -> CW!Pages]
    OBVIOUS
  <2>1. CW!Front(pages[q]) = SubSeq(pages[q], 1, Len(pages[q]) - 1)
    BY DEF CW!Front
  <2>2. SubSeq(pages[q], 1, Len(pages[q]) - 1) \in Seq(P)
    <3>1. Len(pages[q]) \in Nat /\ Len(pages[q]) # 0
      BY <1>1
    <3>2. QED
      BY <1>1, <3>1
  <2>3. QED
    BY <1>1, <2>1, <2>2
<1>4. QED
  BY <1>2, <1>3 DEF P

\* The assignment keeps its shape, whoever changes it.
LEMMA CWSiteTyped == ASSUME CWSane, CWIInv, CWTyped, CW!Next PROVE cwSite' \in CWSite
<1>1. cwSite \in CWSite /\ cwSite.pages \in [cwQuestions -> CW!Pages]
  BY DEF CWTyped, CWSite
<1>2. ASSUME NEW pages \in [cwQuestions -> CW!Pages], NEW d \in BOOLEAN, NEW s \in BOOLEAN, NEW o \in BOOLEAN,
             \/ cwSite' = [cwSite EXCEPT !.pages = pages]
             \/ cwSite' = [cwSite EXCEPT !.submitted = s]
             \/ cwSite' = [cwSite EXCEPT !.submitted = s, !.pages = pages]
             \/ cwSite' = [cwSite EXCEPT !.open = o]
             \/ cwSite' = [cwSite EXCEPT !.drafting = d]
      PROVE  cwSite' \in CWSite
  BY <1>1, <1>2 DEF CWSite
<1>3. CASE CW!Edit
  <2>1. ASSUME NEW q \in cwQuestions, cwSite' = [cwSite EXCEPT !.pages = CW!addPage(@, q, cwForeign)]
        PROVE  cwSite' \in CWSite
    <3>1. CW!addPage(cwSite.pages, q, cwForeign) \in [cwQuestions -> CW!Pages]
      BY <1>1, CWPagesKept
    <3>2. cwSite' = [cwSite EXCEPT !.pages = CW!addPage(cwSite.pages, q, cwForeign)]
      BY <2>1
    <3>3. QED
      BY <1>2, <3>1, <3>2
  <2>2. ASSUME NEW q \in cwQuestions, cwSite.pages[q] # <<>>, cwSite' = [cwSite EXCEPT !.pages[q] = CW!Front(@)]
        PROVE  cwSite' \in CWSite
    <3>1. [cwSite.pages EXCEPT ![q] = CW!Front(@)] \in [cwQuestions -> CW!Pages]
      BY <1>1, <2>2, CWPagesKept
    <3>2. cwSite' = [cwSite EXCEPT !.pages = [cwSite.pages EXCEPT ![q] = CW!Front(@)]]
      BY <2>2
    <3>3. QED
      BY <1>2, <3>1, <3>2
  <2>3. CASE cwSite' = [cwSite EXCEPT !.submitted = TRUE]
    BY <1>1, <1>2, <2>3
  <2>4. CASE cwSite' = [cwSite EXCEPT !.open = FALSE]
    BY <1>1, <1>2, <2>4
  <2>5. QED
    BY <1>3, <2>1, <2>2, <2>3, <2>4 DEF CW!Edit
<1>4. CASE CW!Land
  <2>1. PICK w \in cwWire :
          \/ cwSite' = IF w.r \in cwSubmits
                     THEN [cwSite EXCEPT !.submitted = TRUE, !.pages = w.pages]
                     ELSE [cwSite EXCEPT !.pages = CW!addPage(@, w.change.q, w.change.page)]
          \/ UNCHANGED cwSite
    BY <1>4 DEF CW!Land
  <2>2. CASE w.r \in cwSubmits /\ cwSite' = [cwSite EXCEPT !.submitted = TRUE, !.pages = w.pages]
    <3>1. w.pages = cwArgs[w.r].pages /\ cwArgs[w.r] \in CWSite
      BY <2>2 DEF CWIInv, CWWireInv, CW!SubmittedAsReviewed, CWTyped
    <3>2. w.pages \in [cwQuestions -> CW!Pages]
      BY <3>1 DEF CWSite
    <3>3. QED
      BY <1>2, <2>2, <3>2
  <2>3. CASE w.r \notin cwSubmits /\ cwSite' = [cwSite EXCEPT !.pages = CW!addPage(@, w.change.q, w.change.page)]
    <3>1. CWisChange(w.change)
      BY <2>3 DEF CWTyped
    <3>2. CW!addPage(cwSite.pages, w.change.q, w.change.page) \in [cwQuestions -> CW!Pages]
      BY <1>1, <3>1, CWPagesKept DEF CWisChange
    <3>3. cwSite' = [cwSite EXCEPT !.pages = CW!addPage(cwSite.pages, w.change.q, w.change.page)]
      BY <2>3
    <3>4. QED
      BY <1>2, <3>2, <3>3
  <2>4. QED
    BY <1>1, <2>1, <2>2, <2>3
<1>5. CASE CW!Enter
  BY <1>1, <1>2, <1>5 DEF CW!Enter
<1>6. CASE cwSite' = cwSite
  BY <1>1, <1>6
<1>7. QED
  BY <1>3, <1>4, <1>5, <1>6
     DEF CW!Next, CW!Ask, CW!Call, CW!Prepare, CW!Authorize, CW!Mark, CW!Reread, CW!Compare, CW!Click, CW!SetInput,
         CW!PollSubmitted, CW!PollSaved, CW!Fail, CW!Crash

\* The queue and the answers: the call that ends has an answer of the protocol.
LEMMA CWQueueTyped ==
  ASSUME CWSane, CWIInv, CWTyped, CW!Next
  PROVE  Len(cwQueue') <= cwMaxPending /\ cwAnswer' \in [cwRequests -> CW!Answers] /\ cwJob'.next \in 1..Len(cwChanges)
<1>1. cwQueue \in Seq(cwRequests) /\ Len(cwQueue) \in Nat /\ 1 \in 1..Len(cwChanges)
  BY DEF CWIInv, CWShape, CWSane
<1>2. CASE UNCHANGED <<cwQueue, cwAnswer>> /\ cwJob'.next = cwJob.next
  BY <1>2 DEF CWTyped
<1>3. ASSUME NEW what \in CW!Answers, cwQueue # <<>>, CW!End(what)
      PROVE  Len(cwQueue') <= cwMaxPending /\ cwAnswer' \in [cwRequests -> CW!Answers] /\ cwJob'.next \in 1..Len(cwChanges)
  <2>1. cwQueue' = Tail(cwQueue) /\ cwAnswer' = [cwAnswer EXCEPT ![CW!running] = what] /\ cwJob'.next = 1
    BY <1>3 DEF CW!End, CW!idle
  <2>2. Len(Tail(cwQueue)) = Len(cwQueue) - 1
    BY <1>1, <1>3
  <2>3. cwAnswer' \in [cwRequests -> CW!Answers]
    BY <1>3, <2>1 DEF CWTyped
  <2>4. Len(cwQueue') <= cwMaxPending
    BY <1>1, <2>1, <2>2 DEF CWTyped, CWSane
  <2>5. QED
    BY <1>1, <2>1, <2>3, <2>4
<1>4. ASSUME NEW r \in cwRequests, CW!Call(r)
      PROVE  Len(cwQueue') <= cwMaxPending /\ cwAnswer' \in [cwRequests -> CW!Answers] /\ cwJob'.next \in 1..Len(cwChanges)
  <2>1. cwJob' = cwJob
    BY <1>4 DEF CW!Call
  <2>2. CASE Len(cwQueue) >= cwMaxPending /\ cwAnswer' = [cwAnswer EXCEPT ![r] = "busy"] /\ cwQueue' = cwQueue
    BY <2>1, <2>2 DEF CWTyped, CW!Answers
  <2>3. CASE ~(Len(cwQueue) >= cwMaxPending) /\ cwQueue' = Append(cwQueue, r) /\ cwAnswer' = cwAnswer
    <3>1. Len(Append(cwQueue, r)) = Len(cwQueue) + 1
      BY <1>1
    <3>2. Len(cwQueue') <= cwMaxPending
      BY <1>1, <2>3, <3>1 DEF CWSane
    <3>3. QED
      BY <2>1, <2>3, <3>2 DEF CWTyped
  <2>4. QED
    BY <1>4, <2>2, <2>3 DEF CW!Call
<1>5. CASE CW!Crash
  <2>1. cwQueue' = <<>> /\ cwAnswer' = cwAnswer /\ cwJob'.next = 1
    BY <1>5 DEF CW!Crash, CW!idle
  <2>2. QED
    BY <1>1, <2>1 DEF CWTyped, CWSane
<1>6. CASE CW!PollSaved
  <2>1. cwQueue # <<>>
    BY <1>6 DEF CW!PollSaved, CW!At
  <2>2. CASE CW!End("unknown") \/ CW!End("saved")
    BY <1>3, <2>1, <2>2 DEF CW!Answers
  <2>3. CASE cwJob.next < Len(cwChanges) /\ CW!Move([cwJob EXCEPT !.at = "act", !.next = @ + 1, !.current = cwSite])
    <3>1. cwJob'.next = cwJob.next + 1 /\ UNCHANGED <<cwQueue, cwAnswer>>
      BY <2>3 DEF CW!Move, CWIInv, CWShape
    <3>2. cwJob.next + 1 \in 1..Len(cwChanges)
      BY <2>3 DEF CWTyped, CWSane
    <3>3. QED
      BY <3>1, <3>2 DEF CWTyped
  <2>4. QED
    BY <1>6, <2>2, <2>3 DEF CW!PollSaved
<1>7. CASE CW!Edit \/ CW!Land \/ (\E r \in cwRequests : CW!Ask(r))
  <2>1. UNCHANGED <<cwQueue, cwAnswer>> /\ cwJob'.next = cwJob.next
    BY <1>7 DEF CW!Edit, CW!Land, CW!Ask, CWIInv, CWShape
  <2>2. QED
    BY <1>2, <2>1
<1>8. CASE CW!Prepare \/ CW!Authorize \/ CW!Mark \/ CW!Reread \/ CW!Enter \/ CW!Compare \/ CW!Click \/ CW!SetInput \/ CW!PollSubmitted \/ CW!Fail
  <2>1. cwQueue # <<>>
    BY <1>8 DEF CW!Prepare, CW!Authorize, CW!Mark, CW!Reread, CW!Enter, CW!Compare,
       CW!Click, CW!SetInput, CW!PollSubmitted, CW!Fail, CW!At
  <2>2. (\E what \in CW!Answers : CW!End(what)) \/ (UNCHANGED <<cwQueue, cwAnswer>> /\ cwJob'.next = cwJob.next)
    <3>1. cwJob = [at |-> cwJob.at, next |-> cwJob.next, before |-> cwJob.before,
                 current |-> cwJob.current, shown |-> cwJob.shown, unexpected |-> cwJob.unexpected,
                 touched |-> cwJob.touched, alone |-> cwJob.alone]
      BY DEF CWIInv, CWShape
    <3>2. {"busy", "changed", "refused", "used", "full", "unknown", "saved", "submitted"} \subseteq CW!Answers
      BY DEF CW!Answers
    <3>3. CASE CW!Prepare
      BY <3>1, <3>2, <3>3 DEF CW!Prepare, CW!Move
    <3>4. CASE CW!Authorize
      BY <3>1, <3>2, <3>4 DEF CW!Authorize, CW!Move
    <3>5. CASE CW!Mark
      BY <3>1, <3>2, <3>5 DEF CW!Mark, CW!Move
    <3>6. CASE CW!Reread
      BY <3>1, <3>2, <3>6 DEF CW!Reread, CW!Move
    <3>7. CASE CW!Enter
      BY <3>1, <3>2, <3>7 DEF CW!Enter, CW!Move
    <3>8. CASE CW!Compare
      BY <3>1, <3>2, <3>8 DEF CW!Compare, CW!Move
    <3>9. CASE CW!Click
      BY <3>1, <3>2, <3>9 DEF CW!Click, CW!Move
    <3>10. CASE CW!SetInput
      BY <3>1, <3>2, <3>10 DEF CW!SetInput, CW!Move
    <3>11. CASE CW!PollSubmitted
      BY <3>2, <3>11 DEF CW!PollSubmitted
    <3>12. CASE CW!Fail
      BY <3>2, <3>12 DEF CW!Fail
    <3>13. QED
      BY <1>8, <3>3, <3>4, <3>5, <3>6, <3>7, <3>8, <3>9, <3>10, <3>11, <3>12
  <2>3. QED
    BY <1>2, <1>3, <2>1, <2>2
<1>9. QED
  BY <1>4, <1>5, <1>6, <1>7, <1>8 DEF CW!Next

\* Every step keeps the types.
LEMMA CWNextTyped == CWSane /\ CWIInv /\ CWTyped /\ [CW!Next]_(CW!vars) => CWTyped'
<1> SUFFICES ASSUME CWSane, CWIInv, CWTyped, [CW!Next]_(CW!vars) PROVE CWTyped'
  OBVIOUS
<1>1. CASE UNCHANGED CW!vars
  BY <1>1 DEF CW!vars, CWTyped
<1>2. ASSUME CW!Next PROVE CWTyped'
  <2>1. cwSite' \in CWSite
    BY <1>2, CWSiteTyped
  <2>2. \A r \in cwRequests : cwArgs'[r] # CW!NoSite => cwArgs'[r] \in CWSite
    <3>1. CASE cwArgs' = cwArgs
      BY <3>1 DEF CWTyped
    <3>2. ASSUME NEW r \in cwRequests, CW!Ask(r)
          PROVE  \A s \in cwRequests : cwArgs'[s] # CW!NoSite => cwArgs'[s] \in CWSite
      <4>1. cwArgs' = [cwArgs EXCEPT ![r] = cwSite]
        BY <3>2 DEF CW!Ask
      <4>2. QED
        BY <4>1 DEF CWIInv, CWShape, CWTyped
    <3>3. QED
      BY <1>2, <3>1, <3>2
         DEF CW!Next, CW!Edit, CW!Land, CW!Call, CW!Prepare, CW!Authorize, CW!Mark, CW!Reread, CW!Enter, CW!Compare, CW!Click, CW!SetInput,
             CW!PollSubmitted, CW!PollSaved, CW!Fail, CW!Crash
  <2>3. \A w \in cwWire' : w.r \notin cwSubmits => CWisChange(w.change)
    <3>1. CASE cwWire' \subseteq cwWire
      BY <3>1 DEF CWTyped
    <3>2. CASE CW!Click
      <4>1. CW!running \in cwSubmits
        BY <3>2 DEF CW!Click
      <4>2. cwWire' \subseteq cwWire \cup {[r |-> CW!running, pages |-> cwJob.shown]}
        BY <3>2 DEF CW!Click
      <4>3. QED
        BY <4>1, <4>2 DEF CWTyped
    <3>3. CASE CW!SetInput
      <4>1. cwWire' \subseteq cwWire \cup {[r |-> CW!running, n |-> cwJob.next, change |-> cwChanges[cwJob.next]]}
        BY <3>3 DEF CW!SetInput
      <4>2. CWisChange(cwChanges[cwJob.next])
        BY DEF CWTyped, CWSane, CWisChange
      <4>3. QED
        BY <4>1, <4>2 DEF CWTyped
    <3>4. QED
      BY <1>2, <3>1, <3>2, <3>3
         DEF CW!Next, CW!Edit, CW!Land, CW!Ask, CW!Call, CW!Prepare, CW!Authorize, CW!Mark, CW!Reread, CW!Enter, CW!Compare,
             CW!PollSubmitted, CW!PollSaved, CW!Fail, CW!Crash
  <2>4. cwQueue # <<>> => CW!running \in cwRequests
    BY CWHeads DEF CWIInv, CWShape, CW!running
  <2>5. cwConsumed' \subseteq cwRequests
    <3>1. CASE CW!Authorize
      BY <2>4, <3>1 DEF CW!Authorize, CW!At, CWTyped
    <3>2. CASE cwConsumed' = cwConsumed
      BY <3>2 DEF CWTyped
    <3>3. QED
      BY <1>2, <3>1, <3>2
         DEF CW!Next, CW!Edit, CW!Land, CW!Ask, CW!Call, CW!Prepare, CW!Mark, CW!Reread, CW!Enter, CW!Compare, CW!Click, CW!SetInput,
             CW!PollSubmitted, CW!PollSaved, CW!Fail, CW!Crash
  <2>6. cwMarkers' \subseteq CW!ActionIds
    <3>1. CASE CW!Mark
      <4>1. CW!running \in cwRequests
        BY <2>4, <3>1 DEF CW!Mark, CW!At
      <4>2. cwActionOf[CW!running] \in CW!ActionIds
        BY <4>1 DEF CW!ActionIds
      <4>3. cwMarkers' \subseteq cwMarkers \cup {cwActionOf[CW!running]}
        BY <3>1 DEF CW!Mark
      <4>4. QED
        BY <4>2, <4>3 DEF CWTyped
    <3>2. CASE cwMarkers' = cwMarkers
      BY <3>2 DEF CWTyped
    <3>3. QED
      BY <1>2, <3>1, <3>2
         DEF CW!Next, CW!Edit, CW!Land, CW!Ask, CW!Call, CW!Prepare, CW!Authorize, CW!Reread, CW!Enter, CW!Compare, CW!Click, CW!SetInput,
             CW!PollSubmitted, CW!PollSaved, CW!Fail, CW!Crash
  <2>7. QED
    BY <1>2, <2>1, <2>2, <2>3, <2>5, <2>6, CWQueueTyped DEF CWTyped
<1>3. QED
  BY <1>1, <1>2

\* What the invariants say of a state.
LEMMA CWConsequences == CWSane /\ CWIInv /\ CWTyped => CW!TypeOK /\ CW!NeverReplayed /\ CW!SubmittedAsReviewed
<1> SUFFICES ASSUME CWSane, CWIInv, CWTyped
             PROVE  CW!TypeOK /\ CW!NeverReplayed /\ CW!SubmittedAsReviewed
  OBVIOUS
<1>1. CW!NeverReplayed /\ CW!SubmittedAsReviewed
  BY DEF CWIInv, CWMarkInv, CWSentInv, CWWireInv, CW!NeverReplayed
<1>2. /\ cwSite.pages \in [cwQuestions -> CW!Pages]
      /\ cwSite.drafting \in BOOLEAN /\ cwSite.submitted \in BOOLEAN /\ cwSite.open \in BOOLEAN
  BY DEF CWTyped, CWSite
<1>3. CW!Range(cwQueue) \subseteq cwRequests
  BY DEF CWIInv, CWShape, CW!Range
<1>4. cwJob.at \in {"prepare", "authorize", "mark", "reread", "enter", "compare", "act", "poll"}
  BY DEF CWIInv, CWShape, CWBefore
<1>5. cwJob.next \in DOMAIN cwChanges
  BY DEF CWTyped, CWSane
<1>6. QED
  BY <1>1, <1>2, <1>3, <1>4, <1>5 DEF CWTyped, CW!TypeOK

-----------------------------------------------------------------------------
(* The answers of a Crowdmark call: ChangedIsUntouched and SavedIsStored *)

\* Each change makes pages of pages.
LEMMA CWStored ==
  ASSUME CWSane, NEW pages \in [cwQuestions -> CW!Pages]
  PROVE  /\ CW!stored(pages) \in [0..Len(cwChanges) -> [cwQuestions -> CW!Pages]]
         /\ CW!stored(pages)[0] = pages
         /\ \A n \in 1..Len(cwChanges) :
              CW!stored(pages)[n] =
                CW!addPage(CW!stored(pages)[n - 1], cwChanges[n].q, cwChanges[n].page)
<1> DEFINE A == [cwQuestions -> CW!Pages]
           L == Len(cwChanges)
           body(a, n) == CW!addPage(a, cwChanges[n].q, cwChanges[n].page)
           step == [n \in 1..L |-> [a \in A |-> body(a, n)]]
           IsLoop(f) == f = [n \in 0..L |-> IF n = 0 THEN pages ELSE body(f[n - 1], n)]
<1>1. CW!stored(pages) = CHOOSE f : IsLoop(f)
  BY DEF CW!stored
<1>2. L \in Nat
  BY DEF CWSane
<1>3. ASSUME NEW n \in 1..L, NEW a \in A PROVE body(a, n) \in A
  <2>1. cwChanges[n].q \in cwQuestions /\ cwChanges[n].page \in {cwChanges[i].page : i \in DOMAIN cwChanges}
    BY DEF CWSane
  <2>2. QED
    BY <2>1, CWPagesKept
<1>4. pages \in A
  OBVIOUS
<1> HIDE DEF body, A, L
<1>5. step \in Bodies(L, A)
  BY <1>3 DEF Bodies
<1>6. \A n \in 1..L, a \in A : step[n][a] = body(a, n)
  OBVIOUS
<1> HIDE DEF step
<1>7. PICK f : IsRun(f, L, A, pages, step)
  BY <1>2, <1>4, <1>5, LoopRuns
<1>8. f \in [0..L -> A] /\ f[0] = pages /\ \A n \in 1..L : f[n] = step[n][f[n - 1]]
  BY <1>7 DEF IsRun
<1>9. \A n \in 0..L : f[n] = IF n = 0 THEN pages ELSE body(f[n - 1], n)
  BY <1>2, <1>6, <1>8
<1>10. IsLoop(f)
  BY <1>8, <1>9
<1>11. ASSUME NEW h, IsLoop(h)
       PROVE  h \in [0..L -> A] /\ h[0] = pages /\ \A n \in 1..L : h[n] = body(h[n - 1], n)
  <2>1. \A n \in 0..L : h[n] = IF n = 0 THEN pages ELSE body(h[n - 1], n)
    BY <1>11
  <2> DEFINE S == {n \in 0..L : h[n] \in A}
  <2>2. 0 \in S
    BY <1>2, <1>4, <2>1
  <2>3. ASSUME NEW n \in (0 + 1)..L, n - 1 \in S PROVE n \in S
    <3>1. n \in 1..L /\ n \in 0..L /\ n # 0
      BY <1>2
    <3>2. h[n] = body(h[n - 1], n)
      BY <2>1, <3>1
    <3>3. QED
      BY <1>3, <2>3, <3>1, <3>2
  <2>4. 0..L \subseteq S
    <3> HIDE DEF S
    <3>1. QED
      BY <1>2, <2>2, <2>3, UpTo
  <2>5. h = [n \in 0..L |-> h[n]]
    BY <1>11, <2>1
  <2>6. h[0] = pages /\ \A n \in 1..L : h[n] = body(h[n - 1], n)
    BY <1>2, <2>1
  <2>7. \A n \in 0..L : h[n] \in A
    BY <2>4
  <2>8. QED
    BY <2>5, <2>6, <2>7
<1>12. IsLoop(CW!stored(pages))
  <2> HIDE DEF IsLoop
  <2>1. QED
    BY <1>1, <1>10
<1>13. QED
  BY <1>11, <1>12 DEF body, A, L

\* A text stays what it was made, so that saving it again changes nothing.
LEMMA CWTextStays ==
  ASSUME CWSane, NEW pages \in [cwQuestions -> CW!Pages], NEW n \in 1..Len(cwChanges),
         cwChanges[n].q \in cwTextQuestions, NEW m \in n..Len(cwChanges)
  PROVE  CW!addPage(CW!stored(pages)[m], cwChanges[n].q, cwChanges[n].page) = CW!stored(pages)[m]
<1> DEFINE q == cwChanges[n].q
           page == cwChanges[n].page
           L == Len(cwChanges)
           W == CW!stored(pages)
           S == {i \in n..L : W[i][q] = <<page>>}
<1>0. L \in Nat /\ n \in Nat /\ n \in 1..L /\ q \in cwQuestions /\ q \in cwTextQuestions /\ DOMAIN cwChanges = 1..L
  BY DEF CWSane
<1>1. /\ W \in [0..L -> [cwQuestions -> CW!Pages]]
      /\ \A i \in 1..L : W[i] = CW!addPage(W[i - 1], cwChanges[i].q, cwChanges[i].page)
  BY CWStored
<1> HIDE DEF W
<1>2. n \in S
  <2>1. W[n] = CW!addPage(W[n - 1], q, page) /\ W[n - 1] \in [cwQuestions -> CW!Pages]
    BY <1>0, <1>1
  <2>2. QED
    BY <1>0, <2>1 DEF CW!addPage
<1>3. ASSUME NEW i \in (n + 1)..L, i - 1 \in S PROVE i \in S
  <2>1. i \in 1..L /\ i # n /\ i - 1 \in 0..L
    BY <1>0
  <2>2. cwChanges[i].q # q
    BY <1>0, <2>1 DEF CWSane
  <2>3. W[i] = CW!addPage(W[i - 1], cwChanges[i].q, cwChanges[i].page) /\ W[i - 1] \in [cwQuestions -> CW!Pages]
    BY <1>1, <2>1
  <2>4. W[i][q] = W[i - 1][q]
    BY <1>0, <2>2, <2>3 DEF CW!addPage
  <2>5. QED
    BY <1>0, <1>3, <2>1, <2>4
<1>4. n..L \subseteq S
  <2> HIDE DEF S
  <2>1. QED
    BY <1>0, <1>2, <1>3, UpTo
<1>5. W[m][q] = <<page>> /\ W[m] \in [cwQuestions -> CW!Pages]
  BY <1>0, <1>1, <1>4
<1>6. QED
  BY <1>0, <1>5 DEF CW!addPage, W

-----------------------------------------------------------------------------

\* The pages of the running call after its changes to n, if it is alone.
CWAfter(n) == CW!stored(cwArgs[CW!running].pages)[n]

\* A change on the way is of a text; sending that again would change nothing.
CWisText(w) == cwChanges[w.n].q \in cwTextQuestions

\* What is on the way was sent, and only a call that changes has touched anything.
CWChangeInv ==
  /\ \A w \in cwWire : w.r \notin cwSubmits =>
       w.n \in 1..cwSent[w.r] /\ w = [r |-> w.r, n |-> w.n, change |-> cwChanges[w.n]]
  /\ cwJob.touched => cwJob.at = "poll" \/ (cwJob.at = "act" /\ CW!running \notin cwSubmits)

\* A save that is alone finds what its changes so far have made, and before it goes on
\* the last one is there: only texts that were there before may still be on the way.
CWAloneInv ==
  cwQueue # <<>> /\ cwJob.alone /\ CW!running \notin cwSubmits =>
    /\ cwJob.at = "act" =>
         /\ cwSite.pages = CWAfter(cwJob.next - 1)
         /\ \A w \in cwWire : w.r = CW!running => CWisText(w)
    /\ cwJob.at = "poll" =>
         /\ cwJob.current.pages = CWAfter(cwJob.next - 1)
         /\ cwSite.pages \in {CWAfter(cwJob.next - 1), CWAfter(cwJob.next)}
         /\ \A w \in cwWire : w.r = CW!running =>
              IF w.n = cwJob.next THEN cwSite.pages = CWAfter(cwJob.next - 1) ELSE CWisText(w)

\* Nothing is on the way at the start.
LEMMA CWInitAlone == CW!Init => CWChangeInv /\ CWAloneInv
  BY DEF CW!Init, CW!idle, CWChangeInv, CWAloneInv

\* What was sent stays sent, and the touch is the call's.
LEMMA CWNextChange ==
  ASSUME CWSane, CWIInv, CWTyped, CWChangeInv, [CW!Next]_(CW!vars) PROVE CWChangeInv'
<1> USE CWHeads
<1>0. /\ CWShape /\ CWQueueInv
      /\ cwJob = [at |-> cwJob.at, next |-> cwJob.next, before |-> cwJob.before,
                  current |-> cwJob.current, shown |-> cwJob.shown, unexpected |-> cwJob.unexpected,
                  touched |-> cwJob.touched, alone |-> cwJob.alone]
      /\ cwSent \in [cwRequests -> Nat] /\ (cwQueue # <<>> => CW!running \in cwRequests)
  BY DEF CWIInv, CWShape, CW!running
<1>1. ASSUME cwWire' \subseteq cwWire, cwSent' = cwSent,
             cwJob'.touched => cwJob'.at = "poll" \/ (cwJob'.at = "act" /\ CW!running' \notin cwSubmits)
      PROVE  CWChangeInv'
  BY <1>1 DEF CWChangeInv
<1>2. CASE CW!Edit
  <2>1. /\ UNCHANGED <<cwWire, cwSent, cwQueue>> /\ cwJob'.touched = cwJob.touched /\ cwJob'.at = cwJob.at
    BY <1>0, <1>2 DEF CW!Edit
  <2>2. QED
    BY <1>1, <2>1 DEF CWChangeInv, CW!running
<1>3. CASE CW!Land
  <2>1. /\ cwWire' \subseteq cwWire /\ UNCHANGED <<cwSent, cwQueue>>
        /\ cwJob'.touched = cwJob.touched /\ cwJob'.at = cwJob.at
    BY <1>0, <1>3 DEF CW!Land
  <2>2. QED
    BY <1>1, <2>1 DEF CWChangeInv, CW!running
<1>4. ASSUME NEW r \in cwRequests, CW!Ask(r) PROVE CWChangeInv'
  BY <1>1, <1>4 DEF CW!Ask, CWChangeInv, CW!running
<1>5. ASSUME NEW r \in cwRequests, CW!Call(r) PROVE CWChangeInv'
  <2>1. UNCHANGED <<cwWire, cwSent, cwJob>> /\ cwQueue' \in {cwQueue, Append(cwQueue, r)}
    BY <1>5 DEF CW!Call
  <2>2. cwQueue # <<>> => CW!running' = CW!running
    BY <1>0, <2>1 DEF CWShape, CW!running
  <2>3. QED
    BY <1>0, <1>1, <2>1, <2>2 DEF CWChangeInv, CWQueueInv
<1>6. ASSUME NEW what, CW!End(what), cwWire' = cwWire, cwSent' = cwSent PROVE CWChangeInv'
  BY <1>1, <1>6 DEF CW!End, CW!idle
<1>7. CASE CW!Prepare \/ CW!Authorize \/ CW!Mark \/ CW!Reread \/ CW!Enter \/ CW!Compare
  <2>1. UNCHANGED <<cwWire, cwSent>> /\ cwJob.at \in CWBefore
    BY <1>7 DEF CW!Prepare, CW!Authorize, CW!Mark, CW!Reread, CW!Enter, CW!Compare, CW!At, CWBefore
  <2>2. ~cwJob.touched
    BY <2>1 DEF CWChangeInv, CWBefore
  <2>3. (\E what : CW!End(what)) \/ cwJob'.touched = cwJob.touched
    <3>1. CASE CW!Prepare \/ CW!Authorize \/ CW!Mark
      BY <1>0, <3>1 DEF CW!Prepare, CW!Authorize, CW!Mark, CW!Move
    <3>2. CASE CW!Reread \/ CW!Enter \/ CW!Compare
      BY <1>0, <3>2 DEF CW!Reread, CW!Enter, CW!Compare, CW!Move
    <3>3. QED
      BY <1>7, <3>1, <3>2
  <2>4. QED
    BY <1>1, <1>6, <2>1, <2>2, <2>3
<1>8. CASE CW!Click
  <2>1. CW!running \in cwSubmits /\ CW!running \in cwRequests
    BY <1>0, <1>8 DEF CW!Click, CW!At
  <2>2. CASE CW!End("changed") /\ UNCHANGED <<cwWire, cwSent>>
    BY <1>6, <2>2
  <2>3. CASE cwJob'.at = "poll"
    <3>1. \A w \in cwWire' : w \in cwWire \/ w.r = CW!running
      BY <1>8 DEF CW!Click
    <3>2. \A r \in cwRequests : r \notin cwSubmits => cwSent'[r] = cwSent[r]
      BY <1>0, <1>8, <2>1 DEF CW!Click
    <3>3. \A w \in cwWire' : w.r \notin cwSubmits => w \in cwWire /\ w.r \in cwRequests
      BY <2>1, <3>1 DEF CWIInv, CWWireInv
    <3>4. QED
      BY <2>3, <3>2, <3>3 DEF CWChangeInv
  <2>4. QED
    BY <1>0, <1>8, <2>2, <2>3 DEF CW!Click, CW!Move
<1>9. CASE CW!SetInput
  <2>1. /\ CW!running \notin cwSubmits /\ CW!running \in cwRequests /\ cwJob.at = "act" /\ cwQueue # <<>>
    BY <1>0, <1>9 DEF CW!SetInput, CW!At
  <2>2. CASE CW!End("unknown") /\ UNCHANGED <<cwWire, cwSent>>
    BY <1>6, <2>2
  <2>3. CASE /\ cwWire' = cwWire \cup {[r |-> CW!running, n |-> cwJob.next, change |-> cwChanges[cwJob.next]]}
             /\ cwSent' = [cwSent EXCEPT ![CW!running] = @ + 1]
             /\ CW!Move([cwJob EXCEPT !.at = "poll", !.touched = TRUE])
    <3>1. cwJob.next \in 1..Len(cwChanges) /\ cwSent[CW!running] = cwJob.next - 1
      BY <2>1 DEF CWIInv, CWSentInv, CW!At
    <3>2. /\ cwSent'[CW!running] = cwJob.next /\ cwJob.next \in Nat /\ cwJob.next > 0
          /\ \A r \in cwRequests : cwSent[r] \in Nat /\ cwSent'[r] \in Nat /\ cwSent[r] <= cwSent'[r]
      BY <1>0, <2>1, <2>3, <3>1 DEF CWSane
    <3>3. \A w \in cwWire : w.r \in cwRequests
      BY DEF CWIInv, CWWireInv
    <3>4. ASSUME NEW w \in cwWire', w.r \notin cwSubmits
          PROVE  w.n \in 1..cwSent'[w.r] /\ w = [r |-> w.r, n |-> w.n, change |-> cwChanges[w.n]]
      <4>1. CASE w \in cwWire
        BY <3>2, <3>3, <3>4, <4>1 DEF CWChangeInv
      <4>2. CASE w = [r |-> CW!running, n |-> cwJob.next, change |-> cwChanges[cwJob.next]]
        <5>1. w.r = CW!running /\ w.n = cwJob.next
          BY <4>2
        <5>2. cwJob.next \in 1..cwSent'[CW!running]
          BY <3>2
        <5>3. QED
          BY <4>2, <5>1, <5>2
      <4>3. QED
        BY <2>3, <4>1, <4>2
    <3>5. cwJob'.at = "poll"
      BY <1>0, <2>3 DEF CW!Move
    <3>6. QED
      BY <3>4, <3>5 DEF CWChangeInv
  <2>4. QED
    BY <1>9, <2>2, <2>3 DEF CW!SetInput
<1>10. CASE CW!PollSubmitted \/ CW!Fail
  BY <1>6, <1>10 DEF CW!PollSubmitted, CW!Fail
<1>11. CASE CW!PollSaved
  <2>1. UNCHANGED <<cwWire, cwSent>> /\ CW!running \notin cwSubmits
    BY <1>11 DEF CW!PollSaved
  <2>2. CASE \E what : CW!End(what)
    BY <1>6, <2>1, <2>2
  <2>3. CASE CW!Move([cwJob EXCEPT !.at = "act", !.next = @ + 1, !.current = cwSite])
    <3>1. cwJob'.at = "act" /\ CW!running' = CW!running
      BY <1>0, <2>3 DEF CW!Move, CW!running
    <3>2. QED
      BY <1>1, <2>1, <3>1
  <2>4. QED
    BY <1>11, <2>2, <2>3 DEF CW!PollSaved
<1>12. CASE CW!Crash
  BY <1>1, <1>12 DEF CW!Crash, CW!idle
<1>13. CASE UNCHANGED CW!vars
  BY <1>1, <1>13 DEF CW!vars, CWChangeInv, CW!running
<1>14. QED
  BY <1>2, <1>3, <1>4, <1>5, <1>7, <1>8, <1>9, <1>10, <1>11, <1>12, <1>13 DEF CW!Next

\* What a running save knows of its pages.
LEMMA CWRunningPages ==
  ASSUME CWSane, CWIInv, CWTyped, cwQueue # <<>>
  PROVE  /\ CW!running \in cwRequests /\ cwArgs[CW!running].pages \in [cwQuestions -> CW!Pages]
         /\ CWAfter(0) = cwArgs[CW!running].pages
         /\ \A n \in 0..Len(cwChanges) : CWAfter(n) \in [cwQuestions -> CW!Pages]
         /\ \A n \in 1..Len(cwChanges) :
              CWAfter(n) = CW!addPage(CWAfter(n - 1), cwChanges[n].q, cwChanges[n].page)
         /\ \A n \in 1..Len(cwChanges) : cwChanges[n].q \in cwTextQuestions =>
              \A m \in n..Len(cwChanges) :
                CW!addPage(CWAfter(m), cwChanges[n].q, cwChanges[n].page) = CWAfter(m)
<1>1. CW!running = cwQueue[1] /\ CW!running \in cwRequests /\ 1 \in 1..Len(cwQueue)
  BY CWHeads DEF CWIInv, CWShape, CW!running
<1>2. cwArgs[CW!running] \in CWSite
  BY <1>1 DEF CWIInv, CWQueueInv, CWTyped
<1>3. cwArgs[CW!running].pages \in [cwQuestions -> CW!Pages]
  BY <1>2 DEF CWSite
<1>4. QED
  BY <1>1, <1>3, CWStored, CWTextStays DEF CWAfter

\* A change that arrives is the next one, or a text that is there already.
LEMMA CWLandAlone ==
  ASSUME CWSane, CWIInv, CWTyped, CWChangeInv, CWAloneInv, CW!Land PROVE CWAloneInv'
<1> SUFFICES ASSUME cwQueue' # <<>>, cwJob'.alone, CW!running' \notin cwSubmits,
                    cwJob'.at \in {"act", "poll"}
             PROVE  CWAloneInv'
  BY DEF CWAloneInv
<1>1. PICK w \in cwWire :
        /\ cwWire' = cwWire \ {w}
        /\ cwJob' = [cwJob EXCEPT !.alone = @ /\ (cwQueue = <<>> \/ w.r = Head(cwQueue))]
        /\ \/ cwSite' = IF w.r \in cwSubmits
                        THEN [cwSite EXCEPT !.submitted = TRUE, !.pages = w.pages]
                        ELSE [cwSite EXCEPT !.pages = CW!addPage(@, w.change.q, w.change.page)]
           \/ UNCHANGED cwSite
  BY DEF CW!Land
<1>2. UNCHANGED <<cwArgs, cwQueue, cwSent>> /\ CW!running' = CW!running /\ cwQueue # <<>>
      /\ \A n : CWAfter(n)' = CWAfter(n)
  BY DEF CW!Land, CW!running, CWAfter
<1>3. /\ cwJob'.at = cwJob.at /\ cwJob'.next = cwJob.next /\ cwJob'.current = cwJob.current
      /\ cwJob.alone /\ w.r = CW!running
  BY <1>1, <1>2 DEF CWIInv, CWShape, CW!running
<1>4. w.r \notin cwSubmits /\ w.n \in 1..cwSent[w.r] /\ w = [r |-> w.r, n |-> w.n, change |-> cwChanges[w.n]]
  BY <1>2, <1>3 DEF CWChangeInv
<1>5. cwSite'.pages = cwSite.pages \/ cwSite'.pages = CW!addPage(cwSite.pages, cwChanges[w.n].q, cwChanges[w.n].page)
  <2>1. w.change = cwChanges[w.n] /\ cwSite \in CWSite
    BY <1>4 DEF CWTyped
  <2>2. QED
    BY <1>1, <1>4, <2>1 DEF CWSite
<1>6. /\ cwJob.next \in 1..Len(cwChanges) /\ Len(cwChanges) \in Nat
      /\ cwJob.at = "act" => cwSent[CW!running] = cwJob.next - 1
      /\ cwJob.at = "poll" => cwSent[CW!running] = cwJob.next
  BY <1>2, <1>3 DEF CWIInv, CWSentInv, CW!At, CWTyped, CWSane
<1>7. CASE cwJob.at = "act"
  <2>1. w.n \in 1..(cwJob.next - 1) /\ CWisText(w) /\ cwSite.pages = CWAfter(cwJob.next - 1)
    BY <1>2, <1>3, <1>4, <1>6, <1>7 DEF CWAloneInv
  <2>2. w.n \in 1..Len(cwChanges) /\ cwJob.next - 1 \in w.n..Len(cwChanges)
    BY <1>6, <2>1
  <2>3. cwSite'.pages = CWAfter(cwJob.next - 1)
    BY <1>2, <1>5, <2>1, <2>2, CWRunningPages DEF CWisText
  <2>4. \A v \in cwWire' : v.r = CW!running => CWisText(v)
    BY <1>1, <1>2, <1>3, <1>7 DEF CWAloneInv
  <2>5. QED
    BY <1>2, <1>3, <1>7, <2>3, <2>4 DEF CWAloneInv, CWisText
<1>8. CASE cwJob.at = "poll"
  <2>1. /\ cwJob.current.pages = CWAfter(cwJob.next - 1)
        /\ cwSite.pages \in {CWAfter(cwJob.next - 1), CWAfter(cwJob.next)}
        /\ \A v \in cwWire : v.r = CW!running =>
             IF v.n = cwJob.next THEN cwSite.pages = CWAfter(cwJob.next - 1) ELSE CWisText(v)
    BY <1>2, <1>3, <1>8 DEF CWAloneInv
  <2>2. CASE w.n = cwJob.next
    <3>1. cwSite'.pages \in {CWAfter(cwJob.next - 1), CWAfter(cwJob.next)}
      BY <1>2, <1>3, <1>5, <1>6, <2>1, <2>2, CWRunningPages
    <3>2. \A v \in cwWire' : v.r = CW!running => v.n # cwJob.next
      BY <1>1, <1>2, <1>3, <1>4, <2>2 DEF CWChangeInv
    <3>3. QED
      BY <1>1, <1>2, <1>3, <1>8, <2>1, <3>1, <3>2 DEF CWAloneInv, CWisText
  <2>3. CASE w.n # cwJob.next
    <3>1. CWisText(w) /\ w.n \in 1..Len(cwChanges)
          /\ cwJob.next - 1 \in w.n..Len(cwChanges) /\ cwJob.next \in w.n..Len(cwChanges)
      BY <1>3, <1>4, <1>6, <1>8, <2>1, <2>3
    <3>2. cwSite'.pages = cwSite.pages
      BY <1>2, <1>5, <2>1, <3>1, CWRunningPages DEF CWisText
    <3>3. QED
      BY <1>1, <1>2, <1>3, <1>8, <2>1, <3>2 DEF CWAloneInv, CWisText
  <2>4. QED
    BY <2>2, <2>3
<1>9. QED
  BY <1>3, <1>7, <1>8

\* The next change is sent.
LEMMA CWSetInputAlone ==
  ASSUME CWSane, CWIInv, CWTyped, CWChangeInv, CWAloneInv, CW!SetInput PROVE CWAloneInv'
<1> SUFFICES ASSUME cwQueue' # <<>>, cwJob'.alone, CW!running' \notin cwSubmits,
                    cwJob'.at \in {"act", "poll"}
             PROVE  CWAloneInv'
  BY DEF CWAloneInv
<1> DEFINE new == [r |-> CW!running, n |-> cwJob.next, change |-> cwChanges[cwJob.next]]
<1>1. /\ cwQueue # <<>> /\ cwJob.at = "act" /\ CW!running \notin cwSubmits
      /\ UNCHANGED <<cwSite, cwArgs>>
  BY DEF CW!SetInput, CW!At
<1>2. ~CW!End("unknown")
  BY DEF CW!End, CW!idle
<1>3. /\ cwSite = cwJob.current /\ cwWire' = cwWire \cup {new}
      /\ cwJob' = [cwJob EXCEPT !.at = "poll", !.touched = TRUE] /\ cwQueue' = cwQueue
  BY <1>2 DEF CW!SetInput, CW!Move, CW!assignment
<1>4. /\ cwJob'.at = "poll" /\ cwJob'.next = cwJob.next /\ cwJob'.current = cwSite /\ cwJob.alone
      /\ CW!running' = CW!running /\ \A n : CWAfter(n)' = CWAfter(n)
  BY <1>1, <1>3 DEF CWIInv, CWShape, CW!running, CWAfter
<1>5. cwSite.pages = CWAfter(cwJob.next - 1) /\ \A w \in cwWire : w.r = CW!running => CWisText(w)
  BY <1>1, <1>4 DEF CWAloneInv
<1>6. \A w \in cwWire' : w.r = CW!running => w.n = cwJob.next \/ CWisText(w)
  BY <1>3, <1>5
<1>7. QED
  BY <1>1, <1>4, <1>5, <1>6 DEF CWAloneInv, CWisText

\* A change that has arrived is there, and it is the one that was sent.
LEMMA CWArrived ==
  ASSUME CWSane, CWIInv, CWTyped, CWChangeInv, CWAloneInv, cwQueue # <<>>, cwJob.alone,
         CW!running \notin cwSubmits, cwJob.at = "poll", CW!arrived(cwChanges[cwJob.next])
  PROVE  /\ cwSite.pages = CWAfter(cwJob.next)
         /\ \A w \in cwWire : w.r = CW!running => CWisText(w)
<1> DEFINE n == cwJob.next
           q == cwChanges[n].q
           page == cwChanges[n].page
<1>1. n \in 1..Len(cwChanges) /\ Len(cwChanges) \in Nat /\ q \in cwQuestions
  BY DEF CWTyped, CWSane
<1>2. /\ cwJob.current.pages = CWAfter(n - 1) /\ cwSite.pages \in {CWAfter(n - 1), CWAfter(n)}
      /\ \A w \in cwWire : w.r = CW!running =>
           IF w.n = n THEN cwSite.pages = CWAfter(n - 1) ELSE CWisText(w)
  BY DEF CWAloneInv
<1>3. /\ CWAfter(n - 1) \in [cwQuestions -> CW!Pages]
      /\ CWAfter(n) = CW!addPage(CWAfter(n - 1), q, page)
  BY <1>1, CWRunningPages
<1>4. CASE q \in cwTextQuestions
  <2>1. cwSite.pages[q] = <<page>>
    BY <1>4 DEF CW!arrived
  <2>2. cwSite.pages = CWAfter(n - 1) => CWAfter(n) = CWAfter(n - 1)
    BY <1>1, <1>3, <1>4, <2>1 DEF CW!addPage
  <2>3. \A w \in cwWire : w.n = n => CWisText(w)
    BY <1>4 DEF CWisText
  <2>4. QED
    BY <1>2, <2>2, <2>3
<1>5. CASE q \notin cwTextQuestions
  <2>1. Len(cwSite.pages[q]) = Len(cwJob.current.pages[q]) + 1
    BY <1>5 DEF CW!arrived
  <2>2. Len(CWAfter(n - 1)[q]) \in Nat
    BY <1>1, <1>3 DEF CW!Pages
  <2>3. cwSite.pages # CWAfter(n - 1)
    BY <1>2, <2>1, <2>2
  <2>4. QED
    BY <1>2, <2>3
<1>6. QED
  BY <1>4, <1>5

\* Every step keeps what a save that is alone knows.
LEMMA CWNextAlone ==
  ASSUME CWSane, CWIInv, CWTyped, CWChangeInv, CWAloneInv, [CW!Next]_(CW!vars) PROVE CWAloneInv'
<1> USE CWHeads
<1>0. /\ CWShape /\ CWQueueInv
      /\ cwJob = [at |-> cwJob.at, next |-> cwJob.next, before |-> cwJob.before,
                  current |-> cwJob.current, shown |-> cwJob.shown, unexpected |-> cwJob.unexpected,
                  touched |-> cwJob.touched, alone |-> cwJob.alone]
  BY DEF CWIInv, CWShape
<1>1. ASSUME cwJob'.at \notin {"act", "poll"} \/ cwQueue' = <<>> PROVE CWAloneInv'
  BY <1>1 DEF CWAloneInv
<1>2. ASSUME UNCHANGED <<cwSite, cwWire, cwArgs, cwJob>>, CW!running' = CW!running, cwQueue # <<>>
      PROVE  CWAloneInv'
  <2>1. \A n : CWAfter(n)' = CWAfter(n)
    BY <1>2 DEF CWAfter
  <2>2. QED
    BY <1>2, <2>1 DEF CWAloneInv, CWisText
<1>3. CASE CW!Edit
  <2>1. cwJob'.at = cwJob.at /\ cwJob'.alone = (cwQueue = <<>>) /\ cwQueue' = cwQueue
    BY <1>0, <1>3 DEF CW!Edit
  <2>2. QED
    BY <2>1 DEF CWAloneInv
<1>4. CASE CW!Land
  BY <1>4, CWLandAlone
<1>5. ASSUME NEW r \in cwRequests, CW!Ask(r) PROVE CWAloneInv'
  BY <1>1, <1>5 DEF CW!Ask
<1>6. ASSUME NEW r \in cwRequests, CW!Call(r) PROVE CWAloneInv'
  <2>1. UNCHANGED <<cwSite, cwWire, cwArgs, cwJob>> /\ cwQueue' \in {cwQueue, Append(cwQueue, r)}
    BY <1>6 DEF CW!Call
  <2>2. CASE cwQueue = <<>>
    BY <1>0, <1>1, <2>1, <2>2 DEF CWQueueInv
  <2>3. CASE cwQueue # <<>>
    <3>1. CW!running' = CW!running
      BY <1>0, <2>1, <2>3 DEF CWShape, CW!running
    <3>2. QED
      BY <1>2, <2>1, <2>3, <3>1
  <2>4. QED
    BY <2>2, <2>3
<1>7. ASSUME NEW what, CW!End(what) PROVE CWAloneInv'
  BY <1>1, <1>7 DEF CW!End, CW!idle
<1>8. CASE CW!Prepare \/ CW!Authorize \/ CW!Mark \/ CW!Reread \/ CW!Enter
  <2>1. (\E what : CW!End(what)) \/ cwJob'.at \notin {"act", "poll"}
    <3>1. CASE CW!Prepare \/ CW!Authorize \/ CW!Mark
      BY <1>0, <3>1 DEF CW!Prepare, CW!Authorize, CW!Mark, CW!Move
    <3>2. CASE CW!Reread \/ CW!Enter
      BY <1>0, <3>2 DEF CW!Reread, CW!Enter, CW!Move
    <3>3. QED
      BY <1>8, <3>1, <3>2
  <2>2. QED
    BY <1>1, <1>7, <2>1
<1>9. CASE CW!Compare
  <2>1. cwQueue # <<>> /\ cwJob.at = "compare" /\ UNCHANGED <<cwSite, cwWire, cwArgs, cwSent>>
    BY <1>9 DEF CW!Compare, CW!At
  <2>2. CASE \E what : CW!End(what)
    BY <1>7, <2>2
  <2>3. CASE /\ [CW!assignment EXCEPT !.drafting = cwJob.before.drafting] = cwJob.before
             /\ CW!Move([cwJob EXCEPT !.at = "act", !.current = CW!assignment])
    <3>1. cwJob.before = cwArgs[CW!running] /\ cwJob.next = 1 /\ cwSent[CW!running] = 0
      BY <2>1 DEF CWIInv, CWWireInv, CWSentInv, CWBefore
    <3>2. cwSite.pages = cwArgs[CW!running].pages
      <4>1. [cwSite EXCEPT !.drafting = cwJob.before.drafting].pages = cwSite.pages
        BY DEF CWTyped, CWSite
      <4>2. QED
        BY <2>3, <3>1, <4>1 DEF CW!assignment
    <3>3. cwJob'.at = "act" /\ cwJob'.next = 1 /\ CW!running' = CW!running /\ \A n : CWAfter(n)' = CWAfter(n)
      BY <1>0, <2>1, <2>3, <3>1 DEF CW!Move, CW!running, CWAfter
    <3>4. cwSite.pages = CWAfter(1 - 1)
      BY <2>1, <3>2, CWRunningPages
    <3>5. ASSUME CW!running \notin cwSubmits, NEW w \in cwWire, w.r = CW!running PROVE FALSE
      <4>1. w.n \in 1..0
        BY <3>1, <3>5 DEF CWChangeInv
      <4>2. QED
        BY <4>1
    <3>6. QED
      BY <2>1, <3>3, <3>4, <3>5 DEF CWAloneInv
  <2>4. QED
    BY <1>9, <2>2, <2>3 DEF CW!Compare
<1>10. CASE CW!Click
  <2>1. CW!running \in cwSubmits
    BY <1>10 DEF CW!Click
  <2>2. (\E what : CW!End(what)) \/ CW!running' = CW!running
    BY <1>10 DEF CW!Click, CW!Move, CW!running
  <2>3. QED
    BY <1>7, <2>1, <2>2 DEF CWAloneInv
<1>11. CASE CW!SetInput
  BY <1>11, CWSetInputAlone
<1>12. CASE CW!PollSubmitted \/ CW!Fail
  BY <1>7, <1>12 DEF CW!PollSubmitted, CW!Fail
<1>13. CASE CW!PollSaved
  <2>1. /\ cwQueue # <<>> /\ cwJob.at = "poll" /\ CW!running \notin cwSubmits
        /\ CW!arrived(cwChanges[cwJob.next]) /\ UNCHANGED <<cwSite, cwWire, cwArgs>>
    BY <1>13 DEF CW!PollSaved, CW!At
  <2>2. CASE \E what : CW!End(what)
    BY <1>7, <2>2
  <2>3. CASE CW!Move([cwJob EXCEPT !.at = "act", !.next = @ + 1, !.current = cwSite])
    <3>1. /\ cwJob'.at = "act" /\ cwJob'.next = cwJob.next + 1 /\ cwJob'.alone = cwJob.alone
          /\ CW!running' = CW!running /\ \A n : CWAfter(n)' = CWAfter(n)
      BY <1>0, <2>1, <2>3 DEF CW!Move, CW!running, CWAfter
    <3>2. cwJob.next \in Nat
      BY DEF CWTyped, CWSane
    <3>3. cwJob.alone => /\ cwSite.pages = CWAfter(cwJob.next)
                         /\ \A w \in cwWire : w.r = CW!running => CWisText(w)
      BY <2>1, CWArrived
    <3>4. cwJob'.next - 1 = cwJob.next
      BY <3>1, <3>2
    <3>5. (CWAfter(cwJob.next - 1))' = CWAfter(cwJob.next)
      BY <2>1, <3>1, <3>4 DEF CWAfter
    <3>6. (\A w \in cwWire : w.r = CW!running => CWisText(w))'
            <=> \A w \in cwWire : w.r = CW!running => CWisText(w)
      BY <2>1, <3>1 DEF CWisText
    <3>7. QED
      BY <2>1, <3>1, <3>3, <3>5, <3>6 DEF CWAloneInv
  <2>4. QED
    BY <1>13, <2>2, <2>3 DEF CW!PollSaved
<1>14. CASE CW!Crash
  BY <1>1, <1>14 DEF CW!Crash
<1>15. CASE UNCHANGED CW!vars
  <2>1. UNCHANGED <<cwSite, cwWire, cwArgs, cwJob, cwQueue>> /\ CW!running' = CW!running
    BY <1>15 DEF CW!vars, CW!running
  <2>2. QED
    BY <1>2, <2>1 DEF CWAloneInv
<1>16. QED
  BY <1>3, <1>4, <1>5, <1>6, <1>8, <1>9, <1>10, <1>11, <1>12, <1>13, <1>14, <1>15 DEF CW!Next

\* The queue is another one when its first call is over.
LEMMA CWTailShorter == \A s \in Seq(cwRequests) : s # <<>> => Tail(s) # s
<1> SUFFICES ASSUME NEW s \in Seq(cwRequests), s # <<>> PROVE Tail(s) # s
  OBVIOUS
<1>1. Len(Tail(s)) = Len(s) - 1 /\ Len(s) \in Nat
  OBVIOUS
<1>2. ASSUME Tail(s) = s PROVE FALSE
  <2>1. Len(s) = Len(s) - 1
    BY <1>1, <1>2
  <2>2. QED
    BY <1>1, <2>1
<1>3. QED
  BY <1>2

\* A call is answered by the step that ends it.
LEMMA CWAnswerEnds ==
  ASSUME CWSane, CWIInv, CWTyped, [CW!Next]_(CW!vars), NEW what, CW!answers(what)
  PROVE  /\ cwQueue # <<>>
         /\ \/ /\ CW!Prepare \/ CW!Authorize \/ CW!Mark \/ CW!Reread \/ CW!Compare \/ CW!Click
                  \/ CW!SetInput \/ CW!PollSubmitted \/ CW!PollSaved \/ CW!Fail
               /\ cwAnswer'[CW!running] = what
<1> USE CWHeads
<1>1. cwQueue # <<>> /\ cwQueue \in Seq(cwRequests) /\ cwQueue' = Tail(cwQueue) /\ cwAnswer'[CW!running] = what
      /\ cwCrashes' = cwCrashes
  BY DEF CW!answers, CWIInv, CWShape
<1>2. Len(cwQueue') = Len(cwQueue) - 1 /\ Len(cwQueue) \in Nat
  BY <1>1
<1>3. cwQueue' # cwQueue
  BY <1>2
<1>4. ASSUME NEW r \in cwRequests, CW!Call(r) PROVE FALSE
  <2>1. cwQueue' = Append(cwQueue, r)
    BY <1>3, <1>4 DEF CW!Call
  <2>2. Len(cwQueue') = Len(cwQueue) + 1
    BY <1>1, <2>1
  <2>3. QED
    BY <1>2, <2>2
<1>5. ~CW!Crash
  <2>1. ASSUME CW!Crash PROVE FALSE
    <3>1. cwCrashes' = cwCrashes + 1
      BY <2>1 DEF CW!Crash
    <3>2. QED
      BY <1>1, <3>1
  <2>2. QED
    BY <2>1
<1>6. ~CW!Enter /\ ~CW!Edit /\ ~CW!Land /\ ~(UNCHANGED CW!vars) /\ \A r \in cwRequests : ~CW!Ask(r)
  BY <1>3 DEF CW!Enter, CW!Move, CW!Edit, CW!Land, CW!vars, CW!Ask
<1>7. QED
  BY <1>1, <1>4, <1>5, <1>6 DEF CW!Next

\* "changed" is answered before anything is sent, and "saved" with the last change there.
LEMMA CWTrueAnswers ==
  ASSUME CWSane, CWIInv, CWTyped, CWChangeInv, CWAloneInv, [CW!Next]_(CW!vars)
  PROVE  CW!ChangedIsUntouched /\ CW!SavedIsStored
<1>0. cwQueue # <<>> => CW!running \in cwRequests /\ cwAnswer \in [cwRequests -> CW!Answers]
  BY CWRunningPages DEF CWTyped
<1>1. ASSUME cwQueue # <<>>, NEW what, CW!End(what) PROVE cwAnswer'[CW!running] = what
  BY <1>0, <1>1 DEF CW!End
<1>2. ASSUME CW!answers("changed") PROVE ~cwJob.touched
  <2>1. cwQueue # <<>> /\ cwAnswer'[CW!running] = "changed"
    BY <1>2, CWAnswerEnds
  <2>2. CASE CW!Prepare \/ CW!Authorize \/ CW!Mark \/ CW!Reread \/ CW!Compare
    <3>1. cwJob.at \notin {"act", "poll"}
      BY <2>2 DEF CW!Prepare, CW!Authorize, CW!Mark, CW!Reread, CW!Compare, CW!At
    <3>2. QED
      BY <3>1 DEF CWChangeInv
  <2>3. CASE CW!Click
    BY <2>3 DEF CW!Click, CW!At, CWChangeInv
  <2>4. CASE CW!SetInput
    <3>1. CW!End("unknown") \/ UNCHANGED cwQueue
      BY <2>4 DEF CW!SetInput, CW!Move
    <3>2. cwQueue' # cwQueue
      BY <1>2, <2>1, CWHeads, CWTailShorter DEF CW!answers, CWIInv, CWShape
    <3>3. QED
      BY <1>1, <2>1, <3>1, <3>2
  <2>5. CASE CW!PollSubmitted \/ CW!Fail
    BY <1>1, <2>1, <2>5 DEF CW!PollSubmitted, CW!Fail
  <2>6. CASE CW!PollSaved
    <3>1. CW!End("unknown") \/ CW!End("saved") \/ UNCHANGED cwQueue
      BY <2>6 DEF CW!PollSaved, CW!Move
    <3>2. cwQueue' # cwQueue
      BY <1>2, <2>1, CWHeads, CWTailShorter DEF CW!answers, CWIInv, CWShape
    <3>3. QED
      BY <1>1, <2>1, <3>1, <3>2
  <2>7. QED
    BY <1>2, <2>2, <2>3, <2>4, <2>5, <2>6, CWAnswerEnds
<1>3. ASSUME CW!answers("saved"), cwJob.alone
      PROVE  cwSite.pages = CW!stored(cwArgs[CW!running].pages)[Len(cwChanges)]
  <2>1. cwQueue # <<>> /\ cwAnswer'[CW!running] = "saved" /\ cwQueue' # cwQueue
    BY <1>3, CWAnswerEnds, CWTailShorter DEF CW!answers, CWIInv, CWShape
  <2>2. \A what : CW!End(what) => what = "saved"
    BY <1>1, <2>1
  <2>3. ~(CW!Prepare \/ CW!Authorize \/ CW!Mark \/ CW!Reread \/ CW!Compare)
    BY <2>1, <2>2 DEF CW!Prepare, CW!Authorize, CW!Mark, CW!Reread, CW!Compare, CW!Move
  <2>4. ~(CW!Click \/ CW!SetInput \/ CW!PollSubmitted \/ CW!Fail)
    BY <2>1, <2>2 DEF CW!Click, CW!SetInput, CW!PollSubmitted, CW!Fail, CW!Move
  <2>5. CW!PollSaved
    BY <1>3, <2>3, <2>4, CWAnswerEnds
  <2>6. /\ CW!running \notin cwSubmits /\ cwJob.at = "poll" /\ CW!arrived(cwChanges[cwJob.next])
        /\ ~(cwJob.next < Len(cwChanges))
    BY <2>1, <2>2, <2>5 DEF CW!PollSaved, CW!At, CW!Move
  <2>7. cwJob.next = Len(cwChanges)
    BY <2>6 DEF CWTyped, CWSane
  <2>8. QED
    BY <1>3, <2>1, <2>6, <2>7, CWArrived DEF CWAfter
<1>4. QED
  BY <1>2, <1>3 DEF CW!ChangedIsUntouched, CW!SavedIsStored

-----------------------------------------------------------------------------
(* Photos uploaded for them: CrowdmarkFiles *)

\* Types, with the task as a whole.
CFShape ==
  /\ cfFiles \subseteq cfTickets \X CF!Extensions /\ cfTorn \subseteq cfFiles
  /\ cfExpired \subseteq cfClosed /\ cfClosed \subseteq cfTickets /\ cfReady \subseteq cfTickets
  /\ cfTask \in [do : CF!Tasks, id : SUBSET cfTickets, left : SUBSET (cfTickets \X CF!Extensions)]

\* A sweep removes only what had expired; a task is about at most one ticket.
CFSweepInv ==
  /\ cfTask.left \subseteq cfExpired \X CF!Extensions
  /\ cfTask.id = {} \/ \E t \in cfTickets : cfTask.id = {t}

\* A photo is written for a ticket that is still there, or has expired since; it stays
\* with it, and both are whole.
CFPhotoInv ==
  /\ cfTask.do \in {"mark", "write"} => \A t \in cfTask.id : CF!whole(t, "json") \/ t \in cfExpired
  /\ \A t \in cfReady : t \in cfExpired \/ (CF!whole(t, "json") /\ CF!whole(t, "encrypted"))

\* The limit on live tickets.
CFRowsInv == IsFiniteSet(CF!rows) /\ Cardinality(CF!rows) <= cfMaxRows

\* The inductive invariant of the uploads.
CFIInv == CFShape /\ CFSweepInv /\ CFPhotoInv /\ CFRowsInv

\* The instance's cardinality is that of FiniteSets.
LEMMA CFCard == \A S : CF!Cardinality(S) = Cardinality(S)
  BY DEF CF!Cardinality, Cardinality

\* The directory is empty.
LEMMA CFInitInv == cfMaxRows \in Nat /\ CF!Init => CFIInv
<1> SUFFICES ASSUME cfMaxRows \in Nat, CF!Init PROVE CFIInv
  OBVIOUS
<1>1. CF!NoTask \in [do : CF!Tasks, id : SUBSET cfTickets, left : SUBSET (cfTickets \X CF!Extensions)]
  BY DEF CF!NoTask, CF!Tasks
<1>2. CFShape /\ CFSweepInv /\ CFPhotoInv
  BY <1>1 DEF CF!Init, CF!NoTask, CFShape, CFSweepInv, CFPhotoInv
<1>3. CF!rows = {}
  BY DEF CF!Init, CF!rows, CF!whole, CF!exists
<1>4. CFRowsInv
  BY <1>3, FS_EmptySet DEF CFRowsInv
<1>5. QED
  BY <1>2, <1>4 DEF CFIInv

\* Fewer rows stay within the limit.
LEMMA CFFewerRows ==
  ASSUME cfMaxRows \in Nat, CFRowsInv, CF!rows' \subseteq CF!rows
  PROVE CFRowsInv'
<1>1. IsFiniteSet(CF!rows') /\ Cardinality(CF!rows') <= Cardinality(CF!rows)
  BY FS_Subset DEF CFRowsInv
<1>2. Cardinality(CF!rows') \in Nat /\ Cardinality(CF!rows) \in Nat
  BY <1>1, FS_CardinalityType DEF CFRowsInv
<1>3. QED
  BY <1>1, <1>2 DEF CFRowsInv

\* Time passes.
LEMMA CFPassInv == ASSUME cfMaxRows \in Nat, CFIInv, CF!Pass PROVE CFIInv'
<1>1. UNCHANGED <<cfFiles, cfTorn, cfTask, cfReady>>
  BY DEF CF!Pass
<1>2. /\ cfExpired \subseteq cfExpired' /\ cfExpired' \subseteq cfClosed'
      /\ cfClosed' \subseteq cfTickets
  BY DEF CF!Pass, CFIInv, CFShape
<1>3. CFShape' /\ CFSweepInv' /\ CFPhotoInv'
  BY <1>1, <1>2 DEF CFIInv, CFShape, CFSweepInv, CFPhotoInv, CF!whole, CF!exists
<1>4. CF!rows' \subseteq CF!rows
  BY <1>1, <1>2 DEF CF!rows, CF!whole, CF!exists
<1>5. QED
  BY <1>3, <1>4, CFFewerRows DEF CFIInv

\* A task starts.
LEMMA CFTaskInv ==
  ASSUME cfMaxRows \in Nat, CFIInv, UNCHANGED <<cfFiles, cfTorn, cfExpired, cfClosed, cfReady>>,
         cfTask' \in [do : CF!Tasks, id : SUBSET cfTickets, left : SUBSET (cfTickets \X CF!Extensions)],
         CFSweepInv',
         cfTask'.do \in {"mark", "write"} => \A t \in cfTask'.id : CF!whole(t, "json") \/ t \in cfExpired
  PROVE  CFIInv'
<1>1. CFShape' /\ CFPhotoInv'
  BY DEF CFIInv, CFShape, CFPhotoInv, CF!whole, CF!exists
<1>2. CF!rows' = CF!rows
  BY DEF CF!rows, CF!whole, CF!exists
<1>3. QED
  BY <1>1, <1>2, CFFewerRows DEF CFIInv

\* A sweep begins, or finds nothing.
LEMMA CFSweepStep == ASSUME cfMaxRows \in Nat, CFIInv, CF!Sweep PROVE CFIInv'
<1>1. UNCHANGED <<cfFiles, cfTorn, cfExpired, cfClosed, cfReady>>
  BY DEF CF!Sweep, CF!tornTicket
<1>2. /\ cfTask'.do = "remove" /\ CF!swept \subseteq cfTickets
      /\ cfTask' \in [do : CF!Tasks, id : SUBSET cfTickets, left : SUBSET (cfTickets \X CF!Extensions)]
      /\ cfTask'.left \subseteq CF!swept \X CF!Extensions
      /\ cfTask'.id = {} \/ \E t \in cfTickets : cfTask'.id = {t}
  <2>1. CF!swept \subseteq cfTickets
    BY DEF CF!swept, CFIInv, CFShape
  <2>2. CASE \E t \in cfTickets : <<t, "json">> \in cfTorn
    <3>1. PICK before \in SUBSET CF!swept :
            cfTask' = [do |-> "remove", id |-> {}, left |-> before \X CF!Extensions]
      BY <2>2 DEF CF!Sweep, CF!tornTicket
    <3>2. QED
      BY <2>1, <3>1 DEF CF!Tasks
  <2>3. CASE ~ \E t \in cfTickets : <<t, "json">> \in cfTorn
    <3>1. PICK id \in {{}} \cup {{t} : t \in {t \in cfTickets : ~CF!exists(t, "json") /\ t \notin cfClosed}} :
            cfTask' = [do |-> "remove", id |-> id, left |-> CF!swept \X CF!Extensions]
      BY <2>3 DEF CF!Sweep, CF!tornTicket
    <3>2. id \subseteq cfTickets /\ (id = {} \/ \E t \in cfTickets : id = {t})
      BY <3>1
    <3>3. QED
      BY <2>1, <3>1, <3>2 DEF CF!Tasks
  <2>4. QED
    BY <2>2, <2>3
<1>3. CF!swept \subseteq cfExpired
  BY DEF CF!swept
<1>4. CFSweepInv'
  BY <1>1, <1>2, <1>3 DEF CFSweepInv
<1>5. QED
  BY <1>1, <1>2, <1>4, CFTaskInv

\* Nothing runs any more.
LEMMA CFNothingRuns == CF!NoTask.left = {} /\ CF!NoTask.id = {} /\ CF!NoTask.do = "none" /\
  CF!NoTask \in [do : CF!Tasks, id : SUBSET cfTickets, left : SUBSET (cfTickets \X CF!Extensions)]
BY DEF CF!NoTask, CF!Tasks

\* The sweep removes a file that had expired.
LEMMA CFRemoveInv == ASSUME cfMaxRows \in Nat, CFIInv, CF!Remove PROVE CFIInv'
<1>1. UNCHANGED <<cfExpired, cfClosed, cfReady>> /\ cfTask.do = "remove"
  BY DEF CF!Remove
<1>2. PICK f \in cfTask.left :
        \/ /\ cfFiles' = cfFiles \ {f} /\ cfTorn' = cfTorn \ {f}
           /\ cfTask' = [cfTask EXCEPT !.left = @ \ {f}]
        \/ UNCHANGED <<cfFiles, cfTorn>> /\ cfTask' = CF!NoTask
  BY DEF CF!Remove
<1>3. CASE UNCHANGED <<cfFiles, cfTorn>> /\ cfTask' = CF!NoTask
  <2>1. CFSweepInv'
    BY <1>3, CFNothingRuns DEF CFSweepInv
  <2>2. QED
    BY <1>1, <1>3, <2>1, CFNothingRuns, CFTaskInv
<1>4. CASE /\ cfFiles' = cfFiles \ {f} /\ cfTorn' = cfTorn \ {f}
           /\ cfTask' = [cfTask EXCEPT !.left = @ \ {f}]
  <2>1. /\ cfTask' \in [do : CF!Tasks, id : SUBSET cfTickets, left : SUBSET (cfTickets \X CF!Extensions)]
        /\ cfTask'.do = "remove" /\ cfTask'.id = cfTask.id /\ cfTask'.left = cfTask.left \ {f}
    BY <1>1, <1>4 DEF CFIInv, CFShape
  <2>2. f \in cfExpired \X CF!Extensions
    BY <1>2 DEF CFIInv, CFSweepInv
  <2>3. \A t : t \notin cfExpired =>
          /\ CF!whole(t, "json") => CF!whole(t, "json")'
          /\ CF!whole(t, "encrypted") => CF!whole(t, "encrypted")'
    BY <1>4, <2>2 DEF CF!whole, CF!exists
  <2>4. CFShape' /\ CFSweepInv'
    BY <1>1, <1>4, <2>1 DEF CFIInv, CFShape, CFSweepInv
  <2>5. CFPhotoInv'
    <3>1. cfTask'.do \notin {"mark", "write"}
      BY <2>1
    <3>2. QED
      BY <1>1, <2>3, <3>1 DEF CFIInv, CFPhotoInv
  <2>6. CF!rows' \subseteq CF!rows
    <3>1. \A t \in CF!rows' : t \in cfTickets /\ t \notin cfExpired /\ <<t, "json">> \in cfFiles'
      BY <1>1 DEF CF!rows, CF!whole, CF!exists
    <3>2. \A t \in CF!rows' : <<t, "json">> \notin cfTorn'
      BY DEF CF!rows, CF!whole
    <3>3. \A t \in CF!rows' : <<t, "json">> # f
      BY <2>2, <3>1
    <3>4. QED
      BY <1>4, <3>1, <3>2, <3>3 DEF CF!rows, CF!whole, CF!exists
  <2>7. QED
    BY <2>4, <2>5, <2>6, CFFewerRows DEF CFIInv
<1>5. QED
  BY <1>2, <1>3, <1>4

\* A row is created, within the limit.
LEMMA CFCreateInv == ASSUME cfMaxRows \in Nat, CFIInv, CF!Create PROVE CFIInv'
<1>1. UNCHANGED <<cfExpired, cfClosed, cfReady>> /\ cfTask' = CF!NoTask
  BY DEF CF!Create
<1>2. CFSweepInv'
  BY <1>1, CFNothingRuns DEF CFSweepInv
<1>3. CASE UNCHANGED <<cfFiles, cfTorn>>
  BY <1>1, <1>2, <1>3, CFNothingRuns, CFTaskInv
<1>4. ASSUME NEW new, new = {<<t, "json">> : t \in cfTask.id} \ cfFiles,
             cfFiles' = cfFiles \cup new, cfTorn' \in {cfTorn, cfTorn \cup new},
             ~(Cardinality(CF!rows) >= cfMaxRows)
      PROVE  CFIInv'
  <2>1. cfTask.id \subseteq cfTickets /\ "json" \in CF!Extensions
    BY DEF CFIInv, CFShape, CF!Extensions
  <2>2. new \subseteq cfTickets \X CF!Extensions
    BY <1>4, <2>1
  <2>3. CFShape'
    BY <1>1, <1>4, <2>2, CFNothingRuns DEF CFIInv, CFShape
  <2>4. CFPhotoInv'
    <3>1. \A t, e : CF!whole(t, e) => CF!whole(t, e)'
      BY <1>4 DEF CF!whole, CF!exists
    <3>2. QED
      BY <1>1, <3>1, CFNothingRuns DEF CFIInv, CFPhotoInv
  <2>5. CF!rows' \subseteq CF!rows \cup cfTask.id
    <3>1. ASSUME NEW t \in CF!rows', t \notin cfTask.id PROVE t \in CF!rows
      <4>1. t \in cfTickets /\ t \notin cfExpired /\ <<t, "json">> \in cfFiles' /\ <<t, "json">> \notin cfTorn'
        BY <1>1, <3>1 DEF CF!rows, CF!whole, CF!exists
      <4>2. <<t, "json">> \notin new
        BY <1>4, <3>1
      <4>3. QED
        BY <1>4, <4>1, <4>2 DEF CF!rows, CF!whole, CF!exists
    <3>2. QED
      BY <3>1
  <2>6. /\ IsFiniteSet(CF!rows) /\ Cardinality(CF!rows) <= cfMaxRows
        /\ Cardinality(CF!rows) \in Nat
        /\ Cardinality(CF!rows) + 1 <= cfMaxRows
    BY <1>4, FS_CardinalityType DEF CFIInv, CFRowsInv
  <2>7. IsFiniteSet(CF!rows \cup cfTask.id) /\ Cardinality(CF!rows \cup cfTask.id) <= cfMaxRows
    <3>1. CASE cfTask.id = {}
      BY <2>6, <3>1
    <3>2. ASSUME NEW t \in cfTickets, cfTask.id = {t}
          PROVE IsFiniteSet(CF!rows \cup cfTask.id) /\ Cardinality(CF!rows \cup cfTask.id) <= cfMaxRows
      <4>1. /\ IsFiniteSet(CF!rows \cup {t})
            /\ Cardinality(CF!rows \cup {t}) = IF t \in CF!rows THEN Cardinality(CF!rows) ELSE Cardinality(CF!rows) + 1
        BY <2>6, FS_AddElement
      <4>2. QED
        BY <2>6, <3>2, <4>1
    <3>3. QED
      BY <3>1, <3>2 DEF CFIInv, CFSweepInv
  <2>8. IsFiniteSet(CF!rows') /\ Cardinality(CF!rows') <= Cardinality(CF!rows \cup cfTask.id)
    BY <2>5, <2>7, FS_Subset
  <2>9. Cardinality(CF!rows') \in Nat /\ Cardinality(CF!rows \cup cfTask.id) \in Nat
    BY <2>7, <2>8, FS_CardinalityType
  <2>10. CFRowsInv'
    BY <2>7, <2>8, <2>9 DEF CFRowsInv
  <2>11. QED
    BY <1>2, <2>3, <2>4, <2>10 DEF CFIInv
<1>5. CASE Cardinality(CF!rows) >= cfMaxRows
  BY <1>1, <1>2, <1>5, CFNothingRuns, CFTaskInv, CFCard DEF CF!Create
<1>6. QED
  BY <1>3, <1>4, <1>5, CFCard DEF CF!Create

\* The photo arrives.
LEMMA CFReceiveInv == ASSUME cfMaxRows \in Nat, CFIInv, CF!Receive PROVE CFIInv'
<1>1. UNCHANGED <<cfFiles, cfTorn, cfExpired, cfClosed, cfReady>>
  BY DEF CF!Receive
<1>2. PICK t \in CF!rows \ cfClosed : cfTask' = [CF!NoTask EXCEPT !.do = "mark", !.id = {t}]
  BY DEF CF!Receive
<1>3. t \in cfTickets /\ CF!whole(t, "json")
  BY <1>2 DEF CF!rows
<1>4. /\ cfTask' \in [do : CF!Tasks, id : SUBSET cfTickets, left : SUBSET (cfTickets \X CF!Extensions)]
      /\ cfTask'.do = "mark" /\ cfTask'.id = {t} /\ cfTask'.left = {}
  BY <1>2, <1>3 DEF CF!NoTask, CF!Tasks
<1>5. CFSweepInv'
  BY <1>3, <1>4 DEF CFSweepInv
<1>6. QED
  BY <1>1, <1>3, <1>4, <1>5, CFTaskInv

\* A file is added under a ticket.
LEMMA CFAddedInv ==
  ASSUME cfMaxRows \in Nat, CFIInv, NEW t \in cfTask.id, NEW e \in {"encrypted", "used"},
         cfFiles' = cfFiles \cup {<<t, e>>}, UNCHANGED <<cfExpired, cfClosed>>,
         UNCHANGED cfTorn \/ (cfTorn' = cfTorn \cup {<<t, e>>} /\ ~CF!exists(t, e) /\ UNCHANGED cfReady),
         cfTask' \in [do : CF!Tasks, id : SUBSET cfTickets, left : SUBSET (cfTickets \X CF!Extensions)],
         cfTask'.left \subseteq cfTask.left, cfTask'.id \in {{}, cfTask.id}, cfTask.do \in {"mark", "write"},
         \/ cfReady' = cfReady
         \/ cfReady' = cfReady \cup {t} /\ e = "encrypted" /\ ~CF!exists(t, e) /\ UNCHANGED cfTorn
  PROVE  CFIInv'
<1>1. t \in cfTickets /\ e \in CF!Extensions /\ "json" \in CF!Extensions
  BY DEF CFIInv, CFShape, CF!Extensions
<1>2. CFShape'
  BY <1>1 DEF CFIInv, CFShape
<1>3. CFSweepInv'
  BY DEF CFIInv, CFSweepInv
<1>4. \A k, x : CF!whole(k, x) => CF!whole(k, x)'
  BY DEF CF!whole, CF!exists
<1>5. cfReady' # cfReady => CF!whole(t, "encrypted")'
  BY DEF CFIInv, CFShape, CF!whole, CF!exists
<1>6. CFPhotoInv'
  BY <1>4, <1>5 DEF CFIInv, CFPhotoInv
<1>7. CF!rows' \subseteq CF!rows
  BY DEF CF!rows, CF!whole, CF!exists
<1>8. QED
  BY <1>2, <1>3, <1>6, <1>7, CFFewerRows DEF CFIInv

\* The ticket is marked.
LEMMA CFMarkUsedInv == ASSUME cfMaxRows \in Nat, CFIInv, CF!MarkUsed PROVE CFIInv'
<1>1. UNCHANGED <<cfTorn, cfExpired, cfClosed, cfReady>> /\ cfTask.do = "mark"
  BY DEF CF!MarkUsed
<1>2. PICK t \in cfTask.id :
        \/ cfTask' = CF!NoTask /\ UNCHANGED cfFiles
        \/ cfFiles' = cfFiles \cup {<<t, "used">>} /\ cfTask' = [cfTask EXCEPT !.do = "write"]
  BY DEF CF!MarkUsed
<1>3. CASE cfTask' = CF!NoTask /\ UNCHANGED cfFiles
  <2>1. CFSweepInv'
    BY <1>3, CFNothingRuns DEF CFSweepInv
  <2>2. QED
    BY <1>1, <1>3, <2>1, CFNothingRuns, CFTaskInv
<1>4. CASE cfFiles' = cfFiles \cup {<<t, "used">>} /\ cfTask' = [cfTask EXCEPT !.do = "write"]
  <2>1. /\ cfTask' \in [do : CF!Tasks, id : SUBSET cfTickets, left : SUBSET (cfTickets \X CF!Extensions)]
        /\ cfTask'.id = cfTask.id /\ cfTask'.left = cfTask.left
    BY <1>4 DEF CFIInv, CFShape, CF!Tasks
  <2>2. QED
    BY <1>1, <1>4, <2>1, CFAddedInv
<1>5. QED
  BY <1>2, <1>3, <1>4

\* The photo is written, and the upload is answered "ready", or a part of it stays.
LEMMA CFWriteInv == ASSUME cfMaxRows \in Nat, CFIInv, CF!Write PROVE CFIInv'
<1>1. UNCHANGED <<cfExpired, cfClosed>> /\ cfTask.do = "write" /\ cfTask' = CF!NoTask
  BY DEF CF!Write
<1>2. CASE UNCHANGED <<cfFiles, cfTorn, cfReady>>
  <2>1. CFSweepInv'
    BY <1>1, CFNothingRuns DEF CFSweepInv
  <2>2. QED
    BY <1>1, <1>2, <2>1, CFNothingRuns, CFTaskInv
<1>3. ASSUME NEW t \in cfTask.id, ~CF!exists(t, "encrypted"),
             cfFiles' = cfFiles \cup {<<t, "encrypted">>},
             \/ cfReady' = cfReady \cup {t} /\ UNCHANGED cfTorn
             \/ cfTorn' = cfTorn \cup {<<t, "encrypted">>} /\ UNCHANGED cfReady
      PROVE  CFIInv'
  BY <1>1, <1>3, CFNothingRuns, CFAddedInv
<1>4. QED
  BY <1>2, <1>3 DEF CF!Write

\* Every step keeps it; a kill leaves no task.
LEMMA CFNextInv == cfMaxRows \in Nat /\ CFIInv /\ [CF!Next]_(CF!vars) => CFIInv'
<1> SUFFICES ASSUME cfMaxRows \in Nat, CFIInv, [CF!Next]_(CF!vars) PROVE CFIInv'
  OBVIOUS
<1>1. CASE CF!Crash
  <2>1. UNCHANGED <<cfFiles, cfTorn, cfExpired, cfClosed, cfReady>> /\ cfTask' = CF!NoTask
    BY <1>1 DEF CF!Crash
  <2>2. CFSweepInv'
    BY <2>1, CFNothingRuns DEF CFSweepInv
  <2>3. QED
    BY <2>1, <2>2, CFNothingRuns, CFTaskInv
<1>2. CASE UNCHANGED CF!vars
  <2>1. UNCHANGED <<cfFiles, cfTorn, cfExpired, cfClosed, cfReady, cfTask>>
    BY <1>2 DEF CF!vars
  <2>2. CFSweepInv' /\ CFShape' /\ CFPhotoInv'
    BY <2>1 DEF CFIInv, CFSweepInv, CFShape, CFPhotoInv, CF!whole, CF!exists
  <2>3. CF!rows' = CF!rows
    BY <2>1 DEF CF!rows, CF!whole, CF!exists
  <2>4. QED
    BY <2>2, <2>3, CFFewerRows DEF CFIInv
<1>3. QED
  BY <1>1, <1>2, CFPassInv, CFSweepStep, CFRemoveInv, CFCreateInv, CFReceiveInv,
     CFMarkUsedInv, CFWriteInv DEF CF!Next

\* What it says of the properties.
LEMMA CFConsequences == cfMaxRows \in Nat /\ CFIInv => CF!TypeOK /\ CF!ReadyIsReadable
<1> SUFFICES ASSUME CFIInv PROVE CF!TypeOK /\ CF!ReadyIsReadable
  OBVIOUS
<1>1. CF!TypeOK
  BY DEF CFIInv, CFShape, CF!TypeOK
<1>2. \A t \in cfReady \ cfExpired : CF!readable(t)
  BY DEF CFIInv, CFPhotoInv, CF!readable
<1>3. QED
  BY <1>1, <1>2, CFCard DEF CFIInv, CFRowsInv, CF!ReadyIsReadable

-----------------------------------------------------------------------------
(* The Racket workspaces: RacketWorkspace *)

\* What is assumed of the constants.
RWSane == /\ rwMaxTexts \in Nat /\ rwMaxRuns \in Nat /\ rwOwnersPage \notin rwAgents

RWLabels == {"free", "ready", "read", "health", "authorize", "write", "post", "wait", "ok", "fail"}

RWDocument == [revision : Nat, text : 0..rwMaxTexts, base : 0..rwMaxTexts, output : 0..rwMaxTexts]

RWWork == [at : RWLabels, kind : {"save", "run"}, w : SUBSET rwWorkspaces, new : RWDocument,
         before : RWDocument, run : 0..rwMaxRuns]

RWEditor == [w : SUBSET rwWorkspaces, shown : RWDocument, text : 0..rwMaxTexts, seen : 0..rwMaxTexts,
           dirty : BOOLEAN, busy : BOOLEAN, poll : SUBSET RWDocument]

RWRun == [n : 1..rwMaxRuns, text : 0..rwMaxTexts]

RWShape ==
  /\ rwDisk \in [rwWorkspaces -> RWDocument] /\ rwLocked \in BOOLEAN
  /\ rwJob \in [RW!Callers -> RWWork] /\ rwConsumed \subseteq rwAgents
  /\ rwPosted \subseteq RWRun /\ rwRunning \subseteq RWRun /\ rwLost \subseteq 1..rwMaxRuns
  /\ rwPage \in RWEditor /\ rwTexts \in 0..rwMaxTexts /\ rwRuns \in 0..rwMaxRuns

\* c is between the lock and its release.
RWinside(c) == rwJob[c].at \notin {"free", "ready"}

\* One caller is between the lock and its release, and the lock file is there; a page
\* that is not busy has no call.
RWLockInv ==
  /\ \A c \in RW!Callers : RWinside(c) => rwLocked
  /\ \A c, d \in RW!Callers : RWinside(c) /\ RWinside(d) => c = d
  /\ ~rwPage.busy => rwJob[rwOwnersPage].at = "free"

\* A call is about one workspace, and the page shows at most one.
RWAboutInv ==
  /\ \A c \in RW!Callers : rwJob[c].at # "free" => \E w \in rwWorkspaces : rwJob[c].w = {w}
  /\ rwPage.w # {} => \E w \in rwWorkspaces : rwPage.w = {w}

\* Whoever knows w by this revision with this text knows its text while it has the revision.
RWknown(w, revision, words) ==
  /\ rwDisk[w].revision >= revision
  /\ rwDisk[w].revision = revision => rwDisk[w].text = words

\* What was read under the lock is what is on the disk, and the revision is the expected one.
RWisRead(c, w) ==
  /\ rwDisk[w].revision = rwJob[c].before.revision /\ rwDisk[w].text = rwJob[c].before.text
  /\ rwJob[c].before.output \in {0, rwJob[c].before.text}
  /\ rwJob[c].kind = "save" => rwDisk[w].revision = rwJob[c].new.revision - 1

\* A save names the revision its author knew; what it read stays true under the lock.
RWSound(c) ==
  \A w \in rwJob[c].w :
    /\ rwJob[c].kind = "save" =>
         /\ rwJob[c].new.revision > 0 /\ rwJob[c].new.output = 0
         /\ RWknown(w, rwJob[c].new.revision - 1, rwJob[c].new.base)
    /\ rwJob[c].at \in {"health", "authorize", "post", "wait", "write"} => RWisRead(c, w)
    /\ rwJob[c].at = "ok" => rwDisk[w] = rwJob[c].before

\* The page knows the text it shows and the text a poll answered.
RWPageInv ==
  /\ rwPage.w = {} => rwPage.shown.revision = 0 /\ rwPage.seen = 0 /\ rwPage.poll = {}
  /\ \A w \in rwPage.w :
       /\ RWknown(w, rwPage.shown.revision, rwPage.seen)
       /\ \A doc \in rwPage.poll : RWknown(w, doc.revision, doc.text)

RWDiskInv ==
  \A w \in rwWorkspaces : /\ rwDisk[w].output \in {0, rwDisk[w].text}
                          /\ rwDisk[w].revision = 0 => rwDisk[w].text = 0

RWTextInv == RWDiskInv /\ RWPageInv /\ \A c \in RW!Callers : RWSound(c)

\* c has found the runner free, and its run is not over.
RWcommitted(c) ==
  \/ rwJob[c].at \in {"post", "wait"}
  \/ (rwJob[c].at = "authorize" /\ rwJob[c].kind = "run")

\* Runs are numbered; at most one has the runner's lock.
RWNumbersInv ==
  /\ \A r \in rwPosted \cup rwRunning : r.n <= rwRuns
  /\ \A r, s \in rwPosted \cup rwRunning : r.n = s.n => r = s
  /\ rwPosted \cap rwRunning = {}
  /\ rwRunning # {} => \E r \in rwRunning : rwRunning = {r}
  /\ \A c \in RW!Callers : rwJob[c].at = "wait" => rwJob[c].run \in 1..rwRuns

\* Somebody waits for a posted run or has given it up, and a call that has found the
\* runner free finds it taken only by its own run or one that was given up.
RWWaitInv ==
  /\ \A r \in rwPosted : r.n \in rwLost \/ (\E c \in RW!Callers : RW!waiting(c, r))
  /\ \A c \in RW!Callers, r \in rwPosted \cup rwRunning : RW!waiting(c, r) => r.text = rwJob[c].before.text
  /\ \A c \in RW!Callers, r \in rwRunning : RWcommitted(c) => r.n \in rwLost \/ RW!waiting(c, r)

\* The inductive invariant of the Racket workspaces.
RWIInv == RWShape /\ RWLockInv /\ RWAboutInv /\ RWTextInv /\ RWNumbersInv /\ RWWaitInv

\* The instance's cardinality is that of FiniteSets.
LEMMA RWCard == \A S : RW!Cardinality(S) = Cardinality(S)
  BY DEF RW!Cardinality, Cardinality

\* The initial values.
LEMMA RWBlanks ==
  ASSUME RWSane
  PROVE  /\ RW!NoDoc \in RWDocument /\ RW!NoJob \in RWWork /\ RW!Blank \in RWEditor
         /\ RW!NoJob.at = "free" /\ RW!NoJob.w = {} /\ RW!NoDoc.revision = 0
         /\ RW!NoDoc.text = 0 /\ RW!NoDoc.output = 0
         /\ RW!Blank.w = {} /\ RW!Blank.shown = RW!NoDoc /\ RW!Blank.seen = 0
         /\ RW!Blank.poll = {} /\ ~RW!Blank.busy
<1>1. 0 \in 0..rwMaxTexts /\ 0 \in 0..rwMaxRuns
  BY DEF RWSane
<1>2. RW!NoDoc \in RWDocument
  BY <1>1 DEF RW!NoDoc, RWDocument
<1>3. RW!NoJob \in RWWork
  BY <1>1, <1>2 DEF RW!NoJob, RWWork, RWLabels
<1>4. RW!Blank \in RWEditor
  BY <1>1, <1>2 DEF RW!Blank, RWEditor
<1>5. QED
  BY <1>2, <1>3, <1>4 DEF RW!NoDoc, RW!NoJob, RW!Blank

\* Nothing is saved and nobody calls.
LEMMA RWInitInv == RWSane /\ RW!Init => RWIInv
<1> SUFFICES ASSUME RWSane, RW!Init PROVE RWIInv
  OBVIOUS
<1>1. /\ \A w \in rwWorkspaces : rwDisk[w] = RW!NoDoc
      /\ \A c \in RW!Callers : rwJob[c] = RW!NoJob
      /\ rwPage = RW!Blank /\ rwPosted = {} /\ rwRunning = {} /\ rwLost = {}
      /\ rwConsumed = {} /\ rwLocked = FALSE
  BY DEF RW!Init
<1>2. RWShape
  <2>1. rwDisk \in [rwWorkspaces -> RWDocument] /\ rwJob \in [RW!Callers -> RWWork]
    BY RWBlanks DEF RW!Init
  <2>2. 0 \in 0..rwMaxTexts /\ 0 \in 0..rwMaxRuns
    BY DEF RWSane
  <2>3. QED
    BY <1>1, <2>1, <2>2, RWBlanks DEF RW!Init, RWShape
<1>3. rwOwnersPage \in RW!Callers
  BY DEF RW!Callers
<1>4. RWLockInv
  BY <1>1, <1>3, RWBlanks DEF RWLockInv, RWinside
<1>5. RWAboutInv
  BY <1>1, RWBlanks DEF RWAboutInv
<1>6. RWDiskInv /\ RWPageInv
  BY <1>1, RWBlanks DEF RWDiskInv, RWPageInv
<1>7. \A c \in RW!Callers : RWSound(c)
  BY <1>1, RWBlanks DEF RWSound
<1>8. RWNumbersInv /\ RWWaitInv
  BY <1>1, RWBlanks DEF RWNumbersInv, RWWaitInv, RWcommitted
<1>9. QED
  BY <1>2, <1>4, <1>5, <1>6, <1>7, <1>8 DEF RWIInv, RWTextInv

\* The runs stay as they are when nobody begins or ends to wait.
LEMMA RWRunsStand ==
  ASSUME RWNumbersInv, RWWaitInv, UNCHANGED <<rwPosted, rwRunning, rwLost, rwRuns>>,
         \A c \in RW!Callers :
           /\ rwJob'[c].at = "wait" <=> rwJob[c].at = "wait"
           /\ rwJob[c].at = "wait" => rwJob'[c].run = rwJob[c].run /\ rwJob'[c].before.text = rwJob[c].before.text
           /\ RWcommitted(c)' => RWcommitted(c) \/ rwRunning = {}
  PROVE  RWNumbersInv' /\ RWWaitInv'
<1>1. RWNumbersInv'
  BY DEF RWNumbersInv
<1>2. \A c \in RW!Callers : \A r : RW!waiting(c, r)' <=> RW!waiting(c, r)
  BY DEF RW!waiting
<1>3. \A r \in rwPosted' : r.n \in rwLost' \/ (\E c \in RW!Callers : RW!waiting(c, r)')
  BY <1>2 DEF RWWaitInv
<1>4. \A c \in RW!Callers, r \in rwPosted' \cup rwRunning' : RW!waiting(c, r)' => r.text = rwJob'[c].before.text
  BY <1>2 DEF RWWaitInv, RW!waiting
<1>5. \A c \in RW!Callers, r \in rwRunning' : RWcommitted(c)' => r.n \in rwLost' \/ RW!waiting(c, r)'
  BY <1>2 DEF RWWaitInv
<1>6. QED
  BY <1>1, <1>3, <1>4, <1>5 DEF RWWaitInv

\* A call that has the lock goes on.
LEMMA RWCallsMove ==
  ASSUME RWLockInv, RWAboutInv, RWTextInv, UNCHANGED <<rwDisk, rwLocked, rwPage>>,
         \A c \in RW!Callers :
           \/ rwJob'[c] = rwJob[c]
           \/ /\ RWinside(c) /\ RWinside(c)' /\ RWSound(c)'
              /\ rwJob'[c].w = rwJob[c].w
  PROVE  RWLockInv' /\ RWAboutInv' /\ RWTextInv'
<1>1. \A c \in RW!Callers : (RWinside(c)' <=> RWinside(c)) /\ rwJob'[c].w = rwJob[c].w /\ (rwJob'[c].at = "free" <=> rwJob[c].at = "free")
  BY DEF RWinside
<1>2. rwOwnersPage \in RW!Callers
  BY DEF RW!Callers
<1>3. RWLockInv'
  BY <1>1, <1>2 DEF RWLockInv
<1>4. RWAboutInv'
  BY <1>1 DEF RWAboutInv
<1>5. \A c \in RW!Callers : RWSound(c)'
  <2> SUFFICES ASSUME NEW c \in RW!Callers PROVE RWSound(c)'
    OBVIOUS
  <2>1. CASE rwJob'[c] = rwJob[c]
    BY <2>1 DEF RWTextInv, RWSound, RWknown, RWisRead
  <2>2. QED
    BY <2>1
<1>6. RWDiskInv' /\ RWPageInv'
  BY DEF RWTextInv, RWDiskInv, RWPageInv, RWknown
<1>7. QED
  BY <1>3, <1>4, <1>5, <1>6 DEF RWTextInv

\* The editor after it showed a document.
LEMMA RWShowFields ==
  ASSUME NEW p \in RWEditor, NEW w \in rwWorkspaces, NEW doc \in RWDocument
  PROVE  /\ RW!show(p, w, doc) \in RWEditor /\ RW!show(p, w, doc).w = {w}
         /\ RW!show(p, w, doc).shown = doc
         /\ RW!show(p, w, doc).seen = doc.text /\ RW!show(p, w, doc).poll = {}
         /\ ~RW!show(p, w, doc).busy
BY DEF RW!show, RWEditor, RWDocument

\* One call changes.
LEMMA RWOneCall ==
  ASSUME rwJob \in [RW!Callers -> RWWork], NEW c \in RW!Callers, NEW j, rwJob' = [rwJob EXCEPT ![c] = j]
  PROVE  rwJob'[c] = j /\ (\A d \in RW!Callers : d # c => rwJob'[d] = rwJob[d])
         /\ (j \in RWWork => rwJob' \in [RW!Callers -> RWWork])
OBVIOUS

\* The label of a call changes.
LEMMA RWMoved ==
  ASSUME rwJob \in [RW!Callers -> RWWork], NEW c \in RW!Callers, NEW label \in RWLabels, RW!Move(c, label)
  PROVE  /\ \A d \in RW!Callers : d # c => rwJob'[d] = rwJob[d]
         /\ rwJob'[c] \in RWWork /\ rwJob' \in [RW!Callers -> RWWork]
         /\ rwJob'[c].at = label /\ rwJob'[c].w = rwJob[c].w /\ rwJob'[c].kind = rwJob[c].kind
         /\ rwJob'[c].new = rwJob[c].new /\ rwJob'[c].before = rwJob[c].before
         /\ rwJob'[c].run = rwJob[c].run
<1> DEFINE j == [rwJob[c] EXCEPT !.at = label]
<1>1. j \in RWWork /\ j.at = label /\ j.w = rwJob[c].w /\ j.kind = rwJob[c].kind
      /\ j.new = rwJob[c].new /\ j.before = rwJob[c].before /\ j.run = rwJob[c].run
  BY DEF RWWork
<1>2. rwJob' = [rwJob EXCEPT ![c] = j]
  BY DEF RW!Move
<1> HIDE DEF j
<1>3. QED
  BY <1>1, <1>2

\* Nobody's call changes: the page works by itself.
LEMMA RWPageMoves ==
  ASSUME RWIInv, UNCHANGED <<rwDisk, rwLocked, rwJob, rwConsumed, rwPosted, rwRunning, rwLost, rwRuns>>,
         rwPage' \in RWEditor, rwTexts' \in 0..rwMaxTexts, rwPage.busy => rwPage'.busy,
         rwPage'.w # {} => \E w \in rwWorkspaces : rwPage'.w = {w},
         RWPageInv'
  PROVE  RWIInv'
<1>1. RWShape'
  BY DEF RWIInv, RWShape
<1>2. RWLockInv' /\ RWAboutInv'
  BY DEF RWIInv, RWLockInv, RWAboutInv, RWinside
<1>3. RWDiskInv' /\ \A c \in RW!Callers : RWSound(c)'
  BY DEF RWIInv, RWTextInv, RWDiskInv, RWSound, RWknown, RWisRead
<1>4. RWNumbersInv' /\ RWWaitInv'
  <2>1. \A c \in RW!Callers : RWcommitted(c)' <=> RWcommitted(c)
    BY DEF RWcommitted
  <2>2. QED
    BY <2>1, RWRunsStand DEF RWIInv
<1>5. QED
  BY <1>1, <1>2, <1>3, <1>4 DEF RWIInv, RWTextInv

\* The owner types.
LEMMA RWTypeInv == ASSUME RWSane, RWIInv, RW!Type PROVE RWIInv'
<1>1. /\ UNCHANGED <<rwDisk, rwLocked, rwJob, rwConsumed, rwPosted, rwRunning, rwLost, rwRuns>> /\ rwTexts' = rwTexts + 1
      /\ rwTexts < rwMaxTexts /\ rwPage' = [rwPage EXCEPT !.text = rwTexts + 1, !.dirty = TRUE]
  BY DEF RW!Type, RW!PageOnly
<1>2. rwTexts' \in 0..rwMaxTexts /\ rwPage \in RWEditor
  BY <1>1 DEF RWIInv, RWShape, RWSane
<1>3. /\ rwPage' \in RWEditor /\ rwPage'.w = rwPage.w /\ rwPage'.shown = rwPage.shown
      /\ rwPage'.seen = rwPage.seen
      /\ rwPage'.poll = rwPage.poll /\ rwPage'.busy = rwPage.busy
  BY <1>1, <1>2 DEF RWEditor
<1>4. RWPageInv'
  BY <1>1, <1>3 DEF RWIInv, RWTextInv, RWPageInv, RWknown
<1>5. QED
  BY <1>1, <1>2, <1>3, <1>4, RWPageMoves DEF RWIInv, RWAboutInv

\* The page shows a document that is on the disk, or was and has been replaced since.
LEMMA RWShowInv ==
  ASSUME RWSane, RWIInv, UNCHANGED <<rwDisk, rwLocked, rwJob, rwConsumed, rwPosted, rwRunning, rwLost, rwRuns, rwTexts>>,
         ~rwPage.busy, NEW w \in rwWorkspaces, NEW doc \in RWDocument,
         RWknown(w, doc.revision, doc.text), rwPage' = RW!show(rwPage, w, doc)
  PROVE  RWIInv'
<1>1. rwPage \in RWEditor /\ rwTexts' \in 0..rwMaxTexts
  BY DEF RWIInv, RWShape
<1>2. /\ rwPage' \in RWEditor /\ rwPage'.w = {w} /\ rwPage'.shown = doc
      /\ rwPage'.seen = doc.text /\ rwPage'.poll = {}
  BY <1>1, RWShowFields
<1>3. RWPageInv'
  BY <1>2 DEF RWPageInv, RWknown
<1>4. QED
  BY <1>1, <1>2, <1>3, RWPageMoves

\* The owner opens a workspace, or begins a new one.
LEMMA RWOpenInv == ASSUME RWSane, RWIInv, RW!Open PROVE RWIInv'
<1>1. UNCHANGED <<rwDisk, rwLocked, rwJob, rwConsumed, rwPosted, rwRunning, rwLost, rwRuns, rwTexts>> /\ ~rwPage.busy
  BY DEF RW!Open, RW!PageOnly
<1>2. ASSUME NEW w \in rwWorkspaces, rwPage' = RW!show(rwPage, w, rwDisk[w]) PROVE RWIInv'
  <2>1. rwDisk[w] \in RWDocument
    BY DEF RWIInv, RWShape
  <2>2. RWknown(w, rwDisk[w].revision, rwDisk[w].text)
    BY <2>1 DEF RWknown, RWDocument
  <2>3. QED
    BY <1>1, <1>2, <2>1, <2>2, RWShowInv
<1>3. CASE rwPage' = [RW!Blank EXCEPT !.dirty = TRUE]
  <2>1. /\ rwPage' \in RWEditor /\ rwPage'.w = {} /\ rwPage'.shown = RW!NoDoc
        /\ rwPage'.seen = 0
        /\ rwPage'.poll = {} /\ ~rwPage'.busy
    BY <1>3, RWBlanks DEF RWEditor
  <2>2. RWPageInv'
    BY <2>1, RWBlanks DEF RWPageInv
  <2>3. rwTexts' \in 0..rwMaxTexts
    BY <1>1 DEF RWIInv, RWShape
  <2>4. QED
    BY <1>1, <2>1, <2>2, <2>3, RWPageMoves
<1>4. QED
  BY <1>2, <1>3 DEF RW!Open

\* The poll reads what is on the disk.
LEMMA RWPollReadInv == ASSUME RWSane, RWIInv, RW!PollRead PROVE RWIInv'
<1>1. /\ UNCHANGED <<rwDisk, rwLocked, rwJob, rwConsumed, rwPosted, rwRunning, rwLost, rwRuns, rwTexts>> /\ rwPage.w # {}
      /\ \E w \in rwPage.w : rwPage' = [rwPage EXCEPT !.poll = {rwDisk[w]} \ {rwPage.shown}]
  BY DEF RW!PollRead, RW!PageOnly
<1>2. rwPage \in RWEditor /\ rwTexts' \in 0..rwMaxTexts
  BY <1>1 DEF RWIInv, RWShape
<1>3. PICK w \in rwWorkspaces : rwPage.w = {w}
  BY <1>1 DEF RWIInv, RWAboutInv
<1>4. rwDisk[w] \in RWDocument
  BY DEF RWIInv, RWShape
<1>5. /\ rwPage' \in RWEditor /\ rwPage'.w = rwPage.w /\ rwPage'.shown = rwPage.shown
      /\ rwPage'.seen = rwPage.seen
      /\ rwPage'.poll \subseteq {rwDisk[w]} /\ rwPage'.busy = rwPage.busy
  BY <1>1, <1>2, <1>3, <1>4 DEF RWEditor
<1>6. RWPageInv'
  BY <1>1, <1>3, <1>4, <1>5 DEF RWIInv, RWTextInv, RWPageInv, RWknown, RWDocument
<1>7. QED
  BY <1>1, <1>2, <1>3, <1>5, <1>6, RWPageMoves

\* The answer to the poll is shown, unless the owner has typed or called meanwhile.
LEMMA RWPollShowInv == ASSUME RWSane, RWIInv, RW!PollShow PROVE RWIInv'
<1>1. UNCHANGED <<rwDisk, rwLocked, rwJob, rwConsumed, rwPosted, rwRunning, rwLost, rwRuns, rwTexts>>
  BY DEF RW!PollShow, RW!PageOnly
<1>2. rwPage \in RWEditor /\ rwTexts' \in 0..rwMaxTexts
  BY <1>1 DEF RWIInv, RWShape
<1>3. PICK doc \in rwPage.poll :
        rwPage' = IF rwPage.busy \/ rwPage.dirty THEN [rwPage EXCEPT !.poll = {}]
                ELSE RW!show(rwPage, CHOOSE w \in rwPage.w : TRUE, doc)
  BY DEF RW!PollShow
<1>4. CASE rwPage.busy \/ rwPage.dirty
  <2>1. /\ rwPage' \in RWEditor /\ rwPage'.w = rwPage.w /\ rwPage'.shown = rwPage.shown
        /\ rwPage'.seen = rwPage.seen
        /\ rwPage'.poll = {} /\ rwPage'.busy = rwPage.busy
    BY <1>2, <1>3, <1>4 DEF RWEditor
  <2>2. RWPageInv'
    BY <1>1, <2>1 DEF RWIInv, RWTextInv, RWPageInv, RWknown
  <2>3. QED
    BY <1>1, <1>2, <2>1, <2>2, RWPageMoves DEF RWIInv, RWAboutInv
<1>5. CASE ~(rwPage.busy \/ rwPage.dirty)
  <2>1. rwPage.w # {} /\ doc \in RWDocument
    BY <1>2 DEF RWIInv, RWTextInv, RWPageInv, RWEditor
  <2>2. PICK w \in rwWorkspaces : rwPage.w = {w}
    BY <2>1 DEF RWIInv, RWAboutInv
  <2>3. (CHOOSE v \in rwPage.w : TRUE) = w
    BY <2>2
  <2>4. RWknown(w, doc.revision, doc.text)
    BY <2>2 DEF RWIInv, RWTextInv, RWPageInv
  <2>5. QED
    BY <1>1, <1>3, <1>5, <2>1, <2>3, <2>4, RWShowInv
<1>6. QED
  BY <1>4, <1>5

\* A caller that did nothing calls.
LEMMA RWCallBegins ==
  ASSUME RWSane, RWIInv, UNCHANGED <<rwDisk, rwLocked, rwConsumed, rwPosted, rwRunning, rwLost, rwRuns>>,
         NEW c \in RW!Callers, rwJob[c].at = "free", NEW w \in rwWorkspaces, NEW j \in RWWork,
         rwJob' = [rwJob EXCEPT ![c] = j], j.at = "ready", j.w = {w},
         j.kind = "save" => /\ j.new.revision > 0 /\ j.new.output = 0
                            /\ RWknown(w, j.new.revision - 1, j.new.base),
         rwPage' \in RWEditor, rwTexts' \in 0..rwMaxTexts, rwPage'.w = rwPage.w,
         rwPage'.shown = rwPage.shown, rwPage'.seen = rwPage.seen, rwPage'.poll = rwPage.poll,
         ~rwPage'.busy => ~rwPage.busy /\ c # rwOwnersPage
  PROVE  RWIInv'
<1>1. /\ \A d \in RW!Callers : d # c => rwJob'[d] = rwJob[d]
      /\ rwJob'[c] = j /\ rwJob' \in [RW!Callers -> RWWork]
  BY DEF RWIInv, RWShape
<1>2. RWShape'
  BY <1>1 DEF RWIInv, RWShape
<1>3. RWLockInv'
  <2>1. rwOwnersPage \in RW!Callers
    BY DEF RW!Callers
  <2>2. \A d \in RW!Callers : RWinside(d)' => RWinside(d)
    BY <1>1 DEF RWinside
  <2>3. QED
    BY <1>1, <2>1, <2>2 DEF RWIInv, RWLockInv
<1>4. RWAboutInv'
  BY <1>1 DEF RWIInv, RWAboutInv
<1>5. \A d \in RW!Callers : RWSound(d)'
  <2>1. ASSUME NEW d \in RW!Callers, d # c PROVE RWSound(d)'
    <3>1. rwJob'[d] = rwJob[d] /\ RWSound(d)
      BY <1>1, <2>1 DEF RWIInv, RWTextInv
    <3>2. QED
      BY <3>1 DEF RWSound, RWknown, RWisRead
  <2>2. RWSound(c)'
    BY <1>1 DEF RWSound, RWknown
  <2>3. QED
    BY <2>1, <2>2
<1>6. RWDiskInv' /\ RWPageInv'
  BY DEF RWIInv, RWTextInv, RWDiskInv, RWPageInv, RWknown
<1>7. RWNumbersInv' /\ RWWaitInv'
  <2>1. \A d \in RW!Callers :
          /\ rwJob'[d].at = "wait" <=> rwJob[d].at = "wait"
          /\ rwJob[d].at = "wait" => rwJob'[d].run = rwJob[d].run /\ rwJob'[d].before.text = rwJob[d].before.text
          /\ RWcommitted(d)' => RWcommitted(d) \/ rwRunning = {}
    BY <1>1 DEF RWcommitted
  <2>2. QED
    BY <2>1, RWRunsStand DEF RWIInv
<1>8. QED
  BY <1>2, <1>3, <1>4, <1>5, <1>6, <1>7 DEF RWIInv, RWTextInv

\* An agent reads a workspace and proposes to save it or to run it.
LEMMA RWProposeInv ==
  ASSUME RWSane, RWIInv, NEW c \in rwAgents, RW!Propose(c)
  PROVE RWIInv'
<1>1. /\ rwJob[c].at = "free"
      /\ UNCHANGED <<rwDisk, rwLocked, rwConsumed, rwPosted, rwRunning, rwLost, rwPage, rwRuns>>
      /\ c \in RW!Callers /\ c # rwOwnersPage
  BY DEF RW!Propose, RW!Callers, RWSane
<1>2. rwPage' \in RWEditor
  BY <1>1 DEF RWIInv, RWShape
<1>3. ASSUME NEW w \in rwWorkspaces, rwTexts < rwMaxTexts, rwTexts' = rwTexts + 1,
             rwJob' = [rwJob EXCEPT ![c] = [RW!NoJob EXCEPT !.at = "ready", !.w = {w},
                                        !.new = RW!successor(rwDisk[w], rwTexts + 1)]]
      PROVE  RWIInv'
  <2> DEFINE new == RW!successor(rwDisk[w], rwTexts + 1)
             j == [RW!NoJob EXCEPT !.at = "ready", !.w = {w}, !.new = new]
  <2>1. rwDisk[w] \in RWDocument /\ rwTexts + 1 \in 0..rwMaxTexts
    BY <1>3 DEF RWIInv, RWShape, RWSane
  <2>2. /\ new \in RWDocument /\ new.revision = rwDisk[w].revision + 1
        /\ new.base = rwDisk[w].text /\ new.output = 0
    <3>1. /\ new = [revision |-> rwDisk[w].revision + 1, text |-> rwTexts + 1, base |-> rwDisk[w].text, output |-> 0]
          /\ rwDisk[w].revision + 1 \in Nat /\ rwDisk[w].text \in 0..rwMaxTexts
          /\ 0 \in 0..rwMaxTexts
      BY <2>1 DEF RW!successor, RWDocument, RWSane
    <3>2. QED
      BY <2>1, <3>1 DEF RWDocument
  <2> HIDE DEF new
  <2>3. j \in RWWork /\ j.at = "ready" /\ j.w = {w} /\ j.new = new
    BY <2>2, RWBlanks DEF RWWork, RWLabels
  <2>4. rwJob' = [rwJob EXCEPT ![c] = j]
    BY <1>3 DEF new
  <2> HIDE DEF j
  <2>5. new.revision > 0 /\ RWknown(w, new.revision - 1, new.base)
    BY <2>1, <2>2 DEF RWknown, RWDocument
  <2>6. /\ rwPage'.w = rwPage.w /\ rwPage'.shown = rwPage.shown /\ rwPage'.seen = rwPage.seen
        /\ rwPage'.poll = rwPage.poll /\ rwPage'.busy = rwPage.busy
        /\ rwTexts' \in 0..rwMaxTexts
    BY <1>1, <1>3, <2>1
  <2>7. ~rwPage'.busy => ~rwPage.busy /\ c # rwOwnersPage
    BY <1>1, <2>6
  <2>8. j.kind = "save" => j.new.revision > 0 /\ j.new.output = 0 /\ RWknown(w, j.new.revision - 1, j.new.base)
    BY <2>2, <2>3, <2>5
  <2>9. QED
    BY <1>1, <1>2, <2>3, <2>4, <2>6, <2>7, <2>8, RWCallBegins
<1>4. ASSUME NEW w \in rwWorkspaces, rwTexts' = rwTexts,
             rwJob' = [rwJob EXCEPT ![c] = [RW!NoJob EXCEPT !.at = "ready", !.kind = "run", !.w = {w},
                                        !.new = rwDisk[w]]]
      PROVE  RWIInv'
  <2> DEFINE j == [RW!NoJob EXCEPT !.at = "ready", !.kind = "run", !.w = {w}, !.new = rwDisk[w]]
  <2>1. rwDisk[w] \in RWDocument /\ rwTexts' \in 0..rwMaxTexts
    BY <1>4 DEF RWIInv, RWShape
  <2>2. j \in RWWork /\ j.at = "ready" /\ j.w = {w} /\ j.kind = "run"
    BY <2>1, RWBlanks DEF RWWork, RWLabels
  <2>3. rwJob' = [rwJob EXCEPT ![c] = j]
    BY <1>4
  <2> HIDE DEF j
  <2>4. QED
    BY <1>1, <1>2, <2>1, <2>2, <2>3, RWCallBegins
<1>5. QED
  BY <1>3, <1>4 DEF RW!Propose

\* The page calls.
LEMMA RWPageCallInv ==
  ASSUME RWSane, RWIInv, ~rwPage.busy, NEW kind \in {"save", "run"}, NEW w \in rwWorkspaces,
         NEW doc \in RWDocument, RW!PageCall(kind, w, doc),
         kind = "save" => /\ doc.revision > 0 /\ doc.output = 0
                          /\ RWknown(w, doc.revision - 1, doc.base)
  PROVE  RWIInv'
<1> DEFINE j == [RW!NoJob EXCEPT !.at = "ready", !.kind = kind, !.w = {w}, !.new = doc]
<1>1. /\ UNCHANGED <<rwDisk, rwLocked, rwConsumed, rwPosted, rwRunning, rwLost, rwTexts, rwRuns>>
      /\ rwPage' = [rwPage EXCEPT !.busy = TRUE] /\ rwJob' = [rwJob EXCEPT ![rwOwnersPage] = j]
  BY DEF RW!PageCall, RW!PageOnly
<1>2. j \in RWWork /\ j.at = "ready" /\ j.w = {w} /\ j.kind = kind /\ j.new = doc
  BY RWBlanks DEF RWWork, RWLabels
<1> HIDE DEF j
<1>3. rwPage \in RWEditor /\ rwTexts' \in 0..rwMaxTexts
  BY <1>1 DEF RWIInv, RWShape
<1>4. /\ rwPage' \in RWEditor /\ rwPage'.w = rwPage.w /\ rwPage'.shown = rwPage.shown
      /\ rwPage'.seen = rwPage.seen
      /\ rwPage'.poll = rwPage.poll /\ rwPage'.busy
  BY <1>1, <1>3 DEF RWEditor
<1>5. rwOwnersPage \in RW!Callers /\ rwJob[rwOwnersPage].at = "free"
  BY DEF RW!Callers, RWIInv, RWLockInv
<1>6. QED
  BY <1>1, <1>2, <1>3, <1>4, <1>5, RWCallBegins

\* The page saves what is in the editor, as the successor of the document it shows.
LEMMA RWPageSaveInv == ASSUME RWSane, RWIInv, RW!PageSave PROVE RWIInv'
<1>1. ~rwPage.busy
  BY DEF RW!PageSave
<1>2. PICK w \in IF rwPage.w = {} THEN rwWorkspaces ELSE rwPage.w :
        RW!PageCall("save", w, [RW!successor(rwPage.shown, rwPage.text) EXCEPT !.base = rwPage.seen])
  BY DEF RW!PageSave
<1> DEFINE doc == [RW!successor(rwPage.shown, rwPage.text) EXCEPT !.base = rwPage.seen]
<1>3. rwPage \in RWEditor
  BY DEF RWIInv, RWShape
<1>4. w \in rwWorkspaces
  BY <1>2, <1>3 DEF RWEditor
<1>5. rwPage.shown \in RWDocument /\ rwPage.text \in 0..rwMaxTexts /\ rwPage.seen \in 0..rwMaxTexts
  BY <1>3 DEF RWEditor
<1>6. /\ doc \in RWDocument /\ doc.revision = rwPage.shown.revision + 1
      /\ doc.base = rwPage.seen
      /\ doc.output = 0
  <2>1. /\ doc = [revision |-> rwPage.shown.revision + 1, text |-> rwPage.text, base |-> rwPage.seen, output |-> 0]
        /\ rwPage.shown.revision + 1 \in Nat /\ 0 \in 0..rwMaxTexts
    BY <1>5 DEF RW!successor, RWDocument, RWSane
  <2>2. QED
    BY <1>5, <2>1 DEF RWDocument
<1>7. RWknown(w, rwPage.shown.revision, rwPage.seen)
  <2>1. CASE rwPage.w = {}
    <3>1. rwDisk[w] \in RWDocument
      BY <1>4 DEF RWIInv, RWShape
    <3>2. QED
      BY <1>4, <2>1, <3>1 DEF RWIInv, RWTextInv, RWPageInv, RWDiskInv, RWknown, RWDocument
  <2>2. CASE rwPage.w # {}
    BY <1>2, <2>2 DEF RWIInv, RWTextInv, RWPageInv
  <2>3. QED
    BY <2>1, <2>2
<1>8. RW!PageCall("save", w, doc)
  BY <1>2
<1> HIDE DEF doc
<1>9. doc.revision > 0 /\ doc.revision - 1 = rwPage.shown.revision
  BY <1>5, <1>6 DEF RWDocument
<1>10. QED
  BY <1>1, <1>4, <1>6, <1>7, <1>8, <1>9, RWPageCallInv

\* The page runs the document it shows.
LEMMA RWPageRunInv == ASSUME RWSane, RWIInv, RW!PageRun PROVE RWIInv'
<1>1. ~rwPage.busy /\ \E w \in rwPage.w : RW!PageCall("run", w, rwPage.shown)
  BY DEF RW!PageRun
<1>2. rwPage \in RWEditor
  BY DEF RWIInv, RWShape
<1>3. rwPage.w \subseteq rwWorkspaces /\ rwPage.shown \in RWDocument
  BY <1>2 DEF RWEditor
<1>4. QED
  BY <1>1, <1>3, RWPageCallInv

\* A call that is over: an agent may call again, the page shows what it saved or a message.
LEMMA RWAnswerInv ==
  ASSUME RWSane, RWIInv, NEW c \in RW!Callers, NEW ok \in BOOLEAN, RW!AnswerTo(c, ok),
         rwJob[c].at \notin {"free", "wait"}, ok => rwJob[c].at = "ok",
         UNCHANGED <<rwDisk, rwConsumed, rwPosted, rwRunning, rwLost, rwTexts, rwRuns>>,
         rwLocked' \in BOOLEAN, \A d \in RW!Callers : d # c /\ RWinside(d) => rwLocked'
  PROVE  RWIInv'
<1>1. rwJob \in [RW!Callers -> RWWork] /\ rwPage \in RWEditor
  BY DEF RWIInv, RWShape
<1>2. PICK w \in rwWorkspaces : rwJob[c].w = {w}
  BY DEF RWIInv, RWAboutInv
<1>3. /\ RW!back(c, rwJob[c]) \in RWWork
      /\ c = rwOwnersPage => RW!back(c, rwJob[c]) = RW!NoJob
      /\ c # rwOwnersPage => /\ RW!back(c, rwJob[c]).at = "ready" /\ RW!back(c, rwJob[c]).w = rwJob[c].w
                             /\ RW!back(c, rwJob[c]).kind = rwJob[c].kind
                             /\ RW!back(c, rwJob[c]).new = rwJob[c].new
  <2>1. rwJob[c] \in RWWork /\ 0 \in 0..rwMaxRuns
    BY <1>1 DEF RWSane
  <2>2. QED
    BY <2>1, RWBlanks DEF RW!back, RWWork, RWLabels
<1>4. /\ \A d \in RW!Callers : d # c => rwJob'[d] = rwJob[d]
      /\ rwJob'[c] = RW!back(c, rwJob[c]) /\ rwJob' \in [RW!Callers -> RWWork]
  BY <1>1, <1>3 DEF RW!AnswerTo
<1>5. c # rwOwnersPage => rwPage' = rwPage
  BY DEF RW!AnswerTo
<1>6. ASSUME c = rwOwnersPage
      PROVE  /\ rwPage' \in RWEditor /\ ~rwPage'.busy
             /\ rwPage'.w # {} => \E v \in rwWorkspaces : rwPage'.w = {v}
             /\ RWPageInv'
  <2>1. CASE ok
    <3>1. (CHOOSE v \in rwJob[c].w : TRUE) = w /\ rwJob[c].before \in RWDocument
      BY <1>1, <1>2 DEF RWWork
    <3>2. rwPage' = RW!show(rwPage, w, rwJob[c].before)
      BY <1>6, <2>1, <3>1 DEF RW!AnswerTo
    <3>3. /\ rwPage' \in RWEditor /\ rwPage'.w = {w} /\ rwPage'.shown = rwJob[c].before
          /\ rwPage'.seen = rwJob[c].before.text /\ rwPage'.poll = {} /\ ~rwPage'.busy
      BY <1>1, <3>1, <3>2, RWShowFields
    <3>4. rwDisk[w] = rwJob[c].before
      BY <1>2, <2>1 DEF RWIInv, RWTextInv, RWSound
    <3>5. rwDisk'[w] \in RWDocument /\ rwDisk' = rwDisk
      BY DEF RWIInv, RWShape
    <3>6. RWPageInv'
      BY <3>3, <3>4, <3>5 DEF RWPageInv, RWknown, RWDocument
    <3>7. QED
      BY <3>3, <3>6
  <2>2. CASE ~ok
    <3>1. rwPage' = [rwPage EXCEPT !.busy = FALSE]
      BY <1>6, <2>2 DEF RW!AnswerTo
    <3>2. /\ rwPage' \in RWEditor /\ rwPage'.w = rwPage.w /\ rwPage'.shown = rwPage.shown
          /\ rwPage'.seen = rwPage.seen /\ rwPage'.poll = rwPage.poll /\ ~rwPage'.busy
      BY <1>1, <3>1 DEF RWEditor
    <3>3. RWPageInv'
      BY <3>2 DEF RWIInv, RWTextInv, RWPageInv, RWknown
    <3>4. QED
      BY <3>2, <3>3 DEF RWIInv, RWAboutInv
  <2>3. QED
    BY <2>1, <2>2
<1>7. RWShape'
  BY <1>1, <1>4, <1>5, <1>6 DEF RWIInv, RWShape
<1>8. RWLockInv'
  <2>1. \A d \in RW!Callers : RWinside(d)' => d # c /\ RWinside(d)
    BY <1>3, <1>4, RWBlanks DEF RWinside
  <2>2. rwOwnersPage \in RW!Callers
    BY DEF RW!Callers
  <2>3. ~rwPage'.busy => rwJob'[rwOwnersPage].at = "free"
    BY <1>3, <1>4, <1>5, <2>2, RWBlanks DEF RWIInv, RWLockInv
  <2>4. QED
    BY <2>1, <2>3 DEF RWIInv, RWLockInv
<1>9. RWAboutInv'
  <2>1. \A d \in RW!Callers : rwJob'[d].at # "free" => \E v \in rwWorkspaces : rwJob'[d].w = {v}
    BY <1>2, <1>3, <1>4, RWBlanks DEF RWIInv, RWAboutInv
  <2>2. rwPage'.w # {} => \E v \in rwWorkspaces : rwPage'.w = {v}
    BY <1>5, <1>6 DEF RWIInv, RWAboutInv
  <2>3. QED
    BY <2>1, <2>2 DEF RWAboutInv
<1>10. \A d \in RW!Callers : RWSound(d)'
  <2>1. ASSUME NEW d \in RW!Callers, d # c PROVE RWSound(d)'
    <3>1. rwJob'[d] = rwJob[d] /\ RWSound(d)
      BY <1>4, <2>1 DEF RWIInv, RWTextInv
    <3>2. QED
      BY <3>1 DEF RWSound, RWknown, RWisRead
  <2>2. RWSound(c)'
    <3>1. CASE c = rwOwnersPage
      BY <1>3, <1>4, <3>1, RWBlanks DEF RWSound
    <3>2. CASE c # rwOwnersPage
      <4>1. RWSound(c)
        BY DEF RWIInv, RWTextInv
      <4>2. QED
        BY <1>3, <1>4, <3>2, <4>1 DEF RWSound, RWknown
    <3>3. QED
      BY <3>1, <3>2
  <2>3. QED
    BY <2>1, <2>2
<1>11. RWDiskInv' /\ RWPageInv'
  <2>1. c # rwOwnersPage => RWPageInv'
    BY <1>5 DEF RWIInv, RWTextInv, RWPageInv, RWknown
  <2>2. QED
    BY <1>6, <2>1 DEF RWIInv, RWTextInv, RWDiskInv
<1>12. RWNumbersInv' /\ RWWaitInv'
  <2>1. \A d \in RW!Callers :
          /\ rwJob'[d].at = "wait" <=> rwJob[d].at = "wait"
          /\ rwJob[d].at = "wait" => rwJob'[d].run = rwJob[d].run /\ rwJob'[d].before.text = rwJob[d].before.text
          /\ RWcommitted(d)' => RWcommitted(d) \/ rwRunning = {}
    BY <1>3, <1>4, RWBlanks DEF RWcommitted
  <2>2. QED
    BY <2>1, RWRunsStand DEF RWIInv
<1>13. QED
  BY <1>7, <1>8, <1>9, <1>10, <1>11, <1>12 DEF RWIInv, RWTextInv

\* The lock file is created, or the caller is told to try later.
LEMMA RWLockStepInv ==
  ASSUME RWSane, RWIInv, NEW c \in RW!Callers, RW!Lock(c)
  PROVE RWIInv'
<1>1. /\ rwJob[c].at = "ready"
      /\ UNCHANGED <<rwDisk, rwConsumed, rwPosted, rwRunning, rwLost, rwTexts, rwRuns>>
  BY DEF RW!Lock
<1>2. CASE rwLocked /\ RW!AnswerTo(c, FALSE) /\ rwLocked' = rwLocked
  <2>1. rwLocked' \in BOOLEAN /\ rwLocked'
    BY <1>2 DEF RWIInv, RWShape
  <2>2. QED
    BY <1>1, <1>2, <2>1, RWAnswerInv
<1>3. CASE ~rwLocked /\ rwLocked' = TRUE /\ RW!Move(c, "read") /\ rwPage' = rwPage
  <2>1. rwJob \in [RW!Callers -> RWWork] /\ "read" \in RWLabels
    BY DEF RWIInv, RWShape, RWLabels
  <2>2. /\ \A d \in RW!Callers : d # c => rwJob'[d] = rwJob[d]
        /\ rwJob' \in [RW!Callers -> RWWork]
        /\ rwJob'[c].at = "read" /\ rwJob'[c].w = rwJob[c].w /\ rwJob'[c].kind = rwJob[c].kind
        /\ rwJob'[c].new = rwJob[c].new
    BY <1>3, <2>1, RWMoved
  <2>3. RWShape'
    BY <1>1, <1>3, <2>2 DEF RWIInv, RWShape
  <2>4. RWLockInv'
    <3>1. \A d \in RW!Callers : ~RWinside(d)
      BY <1>3 DEF RWIInv, RWLockInv
    <3>2. \A d \in RW!Callers : RWinside(d)' => d = c
      BY <2>2, <3>1 DEF RWinside
    <3>3. rwOwnersPage \in RW!Callers
      BY DEF RW!Callers
    <3>4. QED
      BY <1>1, <1>3, <2>2, <3>2, <3>3 DEF RWIInv, RWLockInv
  <2>5. RWAboutInv'
    BY <1>1, <1>3, <2>2 DEF RWIInv, RWAboutInv
  <2>6. \A d \in RW!Callers : RWSound(d)'
    <3>1. ASSUME NEW d \in RW!Callers, d # c PROVE RWSound(d)'
      <4>1. rwJob'[d] = rwJob[d] /\ RWSound(d)
        BY <2>2, <3>1 DEF RWIInv, RWTextInv
      <4>2. QED
        BY <1>1, <4>1 DEF RWSound, RWknown, RWisRead
    <3>2. RWSound(c)'
      <4>1. RWSound(c)
        BY DEF RWIInv, RWTextInv
      <4>2. QED
        BY <1>1, <2>2, <4>1 DEF RWSound, RWknown
    <3>3. QED
      BY <3>1, <3>2
  <2>7. RWDiskInv' /\ RWPageInv'
    BY <1>1, <1>3 DEF RWIInv, RWTextInv, RWDiskInv, RWPageInv, RWknown
  <2>8. RWNumbersInv' /\ RWWaitInv'
    <3>1. \A d \in RW!Callers :
            /\ rwJob'[d].at = "wait" <=> rwJob[d].at = "wait"
            /\ rwJob[d].at = "wait" => rwJob'[d].run = rwJob[d].run /\ rwJob'[d].before.text = rwJob[d].before.text
            /\ RWcommitted(d)' => RWcommitted(d) \/ rwRunning = {}
      BY <1>1, <2>2 DEF RWcommitted
    <3>2. QED
      BY <1>1, <3>1, RWRunsStand DEF RWIInv
  <2>9. QED
    BY <2>3, <2>4, <2>5, <2>6, <2>7, <2>8 DEF RWIInv, RWTextInv
<1>4. QED
  BY <1>2, <1>3 DEF RW!Lock

\* The call that has the lock goes on, and writes nothing.
LEMMA RWCallGoes ==
  ASSUME RWSane, RWIInv, NEW c \in RW!Callers, RWinside(c), RWinside(c)', RWSound(c)',
         UNCHANGED <<rwDisk, rwLocked, rwPage, rwTexts>>, rwJob' \in [RW!Callers -> RWWork],
         \A d \in RW!Callers : d # c => rwJob'[d] = rwJob[d],
         rwJob'[c].w = rwJob[c].w, rwConsumed' \subseteq rwAgents, rwPosted' \subseteq RWRun,
         rwRunning' \subseteq RWRun, rwLost' \subseteq 1..rwMaxRuns, rwRuns' \in 0..rwMaxRuns,
         RWNumbersInv', RWWaitInv'
  PROVE  RWIInv'
<1>1. RWShape'
  BY DEF RWIInv, RWShape
<1>2. RWLockInv' /\ RWAboutInv' /\ RWTextInv'
  BY RWCallsMove DEF RWIInv
<1>3. QED
  BY <1>1, <1>2 DEF RWIInv

\* The runs stand, and the call goes on.
LEMMA RWCallGoesOn ==
  ASSUME RWSane, RWIInv, NEW c \in RW!Callers, RWinside(c), RWinside(c)', RWSound(c)',
         UNCHANGED <<rwDisk, rwLocked, rwPage, rwTexts, rwPosted, rwRunning, rwLost, rwRuns>>,
         rwJob' \in [RW!Callers -> RWWork], \A d \in RW!Callers : d # c => rwJob'[d] = rwJob[d],
         rwJob'[c].w = rwJob[c].w, rwConsumed' \subseteq rwAgents,
         rwJob[c].at # "wait", rwJob'[c].at # "wait", RWcommitted(c)' => RWcommitted(c) \/ rwRunning = {}
  PROVE  RWIInv'
<1>1. \A d \in RW!Callers :
        /\ rwJob'[d].at = "wait" <=> rwJob[d].at = "wait"
        /\ rwJob[d].at = "wait" => rwJob'[d].run = rwJob[d].run /\ rwJob'[d].before.text = rwJob[d].before.text
        /\ RWcommitted(d)' => RWcommitted(d) \/ rwRunning = {}
  BY DEF RWcommitted
<1>2. RWNumbersInv' /\ RWWaitInv'
  BY <1>1, RWRunsStand DEF RWIInv
<1>3. rwPosted' \subseteq RWRun /\ rwRunning' \subseteq RWRun /\ rwLost' \subseteq 1..rwMaxRuns /\ rwRuns' \in 0..rwMaxRuns
  BY DEF RWIInv, RWShape
<1>4. QED
  BY <1>2, <1>3, RWCallGoes

\* A call that has nothing to say of the disk any more, or what it said before.
LEMMA RWStaysSound ==
  ASSUME NEW c \in RW!Callers, RWSound(c), UNCHANGED rwDisk, rwJob'[c].w = rwJob[c].w,
         rwJob'[c].kind = rwJob[c].kind, rwJob'[c].new = rwJob[c].new,
         \/ rwJob'[c].at \in {"free", "ready", "read", "fail"}
         \/ /\ rwJob'[c].before = rwJob[c].before
            /\ rwJob[c].at \in {"health", "authorize", "post", "wait"}
            /\ rwJob'[c].at \in {"authorize", "post", "wait", "write"}
  PROVE  RWSound(c)'
BY DEF RWSound, RWknown, RWisRead

\* The call fails.
LEMMA RWCallFails ==
  ASSUME RWSane, RWIInv, NEW c \in RW!Callers, RWinside(c), rwJob[c].at # "wait", RW!Move(c, "fail"),
         UNCHANGED <<rwDisk, rwLocked, rwPage, rwTexts, rwPosted, rwRunning, rwLost, rwRuns>>,
         rwConsumed' \subseteq rwAgents
  PROVE  RWIInv'
<1>1. rwJob \in [RW!Callers -> RWWork] /\ "fail" \in RWLabels
  BY DEF RWIInv, RWShape, RWLabels
<1>2. /\ \A d \in RW!Callers : d # c => rwJob'[d] = rwJob[d]
      /\ rwJob' \in [RW!Callers -> RWWork]
      /\ rwJob'[c].at = "fail" /\ rwJob'[c].w = rwJob[c].w /\ rwJob'[c].kind = rwJob[c].kind
      /\ rwJob'[c].new = rwJob[c].new
  BY <1>1, RWMoved
<1>3. RWSound(c)'
  <2>1. RWSound(c)
    BY DEF RWIInv, RWTextInv
  <2>2. QED
    BY <1>2, <2>1, RWStaysSound
<1>4. RWinside(c)' /\ ~RWcommitted(c)'
  BY <1>2 DEF RWinside, RWcommitted
<1>5. QED
  BY <1>2, <1>3, <1>4, RWCallGoesOn

\* The workspace is read, and its revision compared.
LEMMA RWReadInv == ASSUME RWSane, RWIInv, NEW c \in RW!Callers, RW!Read(c) PROVE RWIInv'
<1>1. /\ rwJob[c].at = "read" /\ RWinside(c)
      /\ UNCHANGED <<rwDisk, rwLocked, rwPage, rwTexts, rwConsumed, rwPosted, rwRunning, rwLost, rwRuns>>
  BY DEF RW!Read, RW!CallOnly, RWinside
<1>2. rwConsumed' \subseteq rwAgents /\ rwJob \in [RW!Callers -> RWWork]
  BY <1>1 DEF RWIInv, RWShape
<1>3. CASE RW!Move(c, "fail")
  BY <1>1, <1>2, <1>3, RWCallFails
<1>4. ASSUME NEW w \in rwJob[c].w, NEW label \in {"fail", "health", "authorize"},
             label = "health" => rwJob[c].kind = "run",
             label = "authorize" => rwJob[c].kind = "save",
             label # "fail" => rwDisk[w].revision = RW!expectedRevision(rwJob[c]),
             rwJob' = [rwJob EXCEPT ![c].before = rwDisk[w], ![c].at = label]
      PROVE  RWIInv'
  <2> DEFINE j == [rwJob[c] EXCEPT !.before = rwDisk[w], !.at = label]
  <2>1. w \in rwWorkspaces /\ rwDisk[w] \in RWDocument /\ label \in RWLabels
    BY <1>2, <1>4 DEF RWWork, RWIInv, RWShape, RWLabels
  <2>2. j \in RWWork /\ j.at = label /\ j.before = rwDisk[w] /\ j.w = rwJob[c].w /\ j.kind = rwJob[c].kind /\ j.new = rwJob[c].new
    BY <1>2, <2>1 DEF RWWork
  <2>3. rwJob' = [rwJob EXCEPT ![c] = j]
    BY <1>4
  <2> HIDE DEF j
  <2>4. /\ \A d \in RW!Callers : d # c => rwJob'[d] = rwJob[d]
        /\ rwJob'[c] = j /\ rwJob' \in [RW!Callers -> RWWork]
    BY <1>2, <2>2, <2>3
  <2>5. RWSound(c)'
    <3>1. RWSound(c) /\ rwJob[c].w = {w}
      BY <1>4, <1>1 DEF RWIInv, RWTextInv, RWAboutInv
    <3>2. rwDisk[w].output \in {0, rwDisk[w].text}
      BY <2>1 DEF RWIInv, RWTextInv, RWDiskInv
    <3>3. label # "fail" /\ rwJob[c].kind = "save" => rwDisk[w].revision = rwJob[c].new.revision - 1
      BY <1>4 DEF RW!expectedRevision
    <3>4. \A v \in rwJob'[c].w : v = w /\ v \in rwJob[c].w
      BY <2>2, <2>4, <3>1
    <3>5. ASSUME rwJob[c].kind = "save"
          PROVE  rwJob[c].new.revision > 0 /\ rwJob[c].new.output = 0 /\ RWknown(w, rwJob[c].new.revision - 1, rwJob[c].new.base)
      BY <3>1, <3>5 DEF RWSound
    <3>6. RWisRead(c, w)' \/ label = "fail"
      BY <1>1, <2>2, <2>4, <3>2, <3>3 DEF RWisRead
    <3>7. label # "ok"
      BY <1>4
    <3>8. ASSUME rwJob[c].kind = "save"
          PROVE  RWknown(w, rwJob[c].new.revision - 1, rwJob[c].new.base)'
      <4>1. rwDisk' = rwDisk /\ rwJob'[c].new = rwJob[c].new
        BY <1>1, <2>2, <2>4
      <4>2. QED
        BY <3>5, <3>8, <4>1 DEF RWknown
    <3>9. rwJob'[c].new = rwJob[c].new /\ rwJob'[c].kind = rwJob[c].kind /\ rwJob'[c].at = label
      BY <2>2, <2>4
    <3>10. QED
      BY <3>4, <3>5, <3>6, <3>7, <3>8, <3>9 DEF RWSound
  <2>6. RWinside(c)' /\ ~RWcommitted(c)'
    BY <1>4, <2>2, <2>4 DEF RWinside, RWcommitted
  <2>7. rwJob'[c].at # "wait" /\ rwJob'[c].w = rwJob[c].w
    BY <1>4, <2>2, <2>4
  <2>8. QED
    BY <1>1, <1>2, <2>4, <2>5, <2>6, <2>7, RWCallGoesOn
<1>5. ASSUME NEW w \in rwJob[c].w,
             rwJob' = [rwJob EXCEPT ![c].before = rwDisk[w],
               ![c].at =
                 IF \/ rwDisk[w].revision # RW!expectedRevision(rwJob[c])
                    \/ rwJob[c].kind = "run" /\ ~RW!saved(w)
                    \/ rwJob[c].kind = "save" /\ ~RW!saved(w)
                       /\ RW!Cardinality({v \in rwWorkspaces : RW!saved(v)}) >= rwMaxWorkspaces
                 THEN "fail"
                 ELSE IF rwJob[c].kind = "run" THEN "health" ELSE "authorize"]
      PROVE  RWIInv'
  <2> DEFINE refused == \/ rwDisk[w].revision # RW!expectedRevision(rwJob[c])
                        \/ rwJob[c].kind = "run" /\ ~RW!saved(w)
                        \/ rwJob[c].kind = "save" /\ ~RW!saved(w)
                           /\ RW!Cardinality({v \in rwWorkspaces : RW!saved(v)}) >= rwMaxWorkspaces
             label == IF refused THEN "fail" ELSE IF rwJob[c].kind = "run" THEN "health" ELSE "authorize"
  <2>1. rwJob' = [rwJob EXCEPT ![c].before = rwDisk[w], ![c].at = label]
    BY <1>5
  <2>2. ~refused => rwDisk[w].revision = RW!expectedRevision(rwJob[c])
    OBVIOUS
  <2>3. rwJob[c].kind \in {"save", "run"}
    BY <1>2 DEF RWWork
  <2> HIDE DEF refused
  <2>4. /\ label \in {"fail", "health", "authorize"}
        /\ label = "health" => rwJob[c].kind = "run"
        /\ label = "authorize" => rwJob[c].kind = "save"
        /\ label # "fail" => rwDisk[w].revision = RW!expectedRevision(rwJob[c])
    BY <2>2, <2>3
  <2> HIDE DEF label
  <2>5. QED
    BY <1>4, <2>1, <2>4
<1>6. QED
  BY <1>3, <1>5 DEF RW!Read

\* The runner answers that it is free.
LEMMA RWHealthInv ==
  ASSUME RWSane, RWIInv, NEW c \in RW!Callers, RW!Health(c)
  PROVE RWIInv'
<1>1. /\ rwJob[c].at = "health" /\ RWinside(c)
      /\ UNCHANGED <<rwDisk, rwLocked, rwPage, rwTexts, rwConsumed, rwPosted, rwRunning, rwLost, rwRuns>>
  BY DEF RW!Health, RW!CallOnly, RWinside
<1>2. rwConsumed' \subseteq rwAgents /\ rwJob \in [RW!Callers -> RWWork]
  BY <1>1 DEF RWIInv, RWShape
<1>3. CASE RW!Move(c, "fail")
  BY <1>1, <1>2, <1>3, RWCallFails
<1>4. CASE rwRunning = {} /\ RW!Move(c, "authorize")
  <2>1. "authorize" \in RWLabels
    BY DEF RWLabels
  <2>2. /\ \A d \in RW!Callers : d # c => rwJob'[d] = rwJob[d]
        /\ rwJob' \in [RW!Callers -> RWWork]
        /\ rwJob'[c].at = "authorize" /\ rwJob'[c].w = rwJob[c].w
        /\ rwJob'[c].kind = rwJob[c].kind
        /\ rwJob'[c].new = rwJob[c].new /\ rwJob'[c].before = rwJob[c].before
    BY <1>2, <1>4, <2>1, RWMoved
  <2>3. RWSound(c)'
    <3>1. RWSound(c)
      BY DEF RWIInv, RWTextInv
    <3>2. QED
      BY <1>1, <2>2, <3>1, RWStaysSound
  <2>4. RWinside(c)' /\ rwJob'[c].at # "wait" /\ rwJob[c].at # "wait"
    BY <1>1, <2>2 DEF RWinside
  <2>5. QED
    BY <1>1, <1>2, <1>4, <2>2, <2>3, <2>4, RWCallGoesOn
<1>5. QED
  BY <1>3, <1>4 DEF RW!Health

\* The approval is used.
LEMMA RWAuthorizeInv ==
  ASSUME RWSane, RWIInv, NEW c \in RW!Callers, RW!Authorize(c)
  PROVE RWIInv'
<1>1. /\ rwJob[c].at = "authorize" /\ RWinside(c)
      /\ UNCHANGED <<rwDisk, rwLocked, rwPage, rwTexts, rwPosted, rwRunning, rwLost, rwRuns>>
  BY DEF RW!Authorize, RW!CallOnly, RWinside
<1>2. rwConsumed \subseteq rwAgents /\ rwJob \in [RW!Callers -> RWWork]
  BY <1>1 DEF RWIInv, RWShape
<1>3. CASE RW!Move(c, "fail") /\ rwConsumed' = rwConsumed
  BY <1>1, <1>2, <1>3, RWCallFails
<1>4. CASE /\ rwConsumed' = rwConsumed \cup ({c} \ {rwOwnersPage})
           /\ RW!Move(c, IF rwJob[c].kind = "save" THEN "write" ELSE "post")
  <2> DEFINE label == IF rwJob[c].kind = "save" THEN "write" ELSE "post"
  <2>1. label \in RWLabels /\ label \in {"write", "post"}
    BY DEF RWLabels
  <2>2. label = "post" => rwJob[c].kind = "run"
    BY <1>2 DEF RWWork
  <2>3. RW!Move(c, label)
    BY <1>4
  <2> HIDE DEF label
  <2>4. /\ \A d \in RW!Callers : d # c => rwJob'[d] = rwJob[d]
        /\ rwJob' \in [RW!Callers -> RWWork]
        /\ rwJob'[c].at = label /\ rwJob'[c].w = rwJob[c].w /\ rwJob'[c].kind = rwJob[c].kind
        /\ rwJob'[c].new = rwJob[c].new /\ rwJob'[c].before = rwJob[c].before
    BY <1>2, <2>1, <2>3, RWMoved
  <2>5. RWSound(c)'
    <3>1. RWSound(c)
      BY DEF RWIInv, RWTextInv
    <3>2. QED
      BY <1>1, <2>1, <2>4, <3>1, RWStaysSound
  <2>6. RWinside(c)' /\ rwJob'[c].at # "wait" /\ rwJob[c].at # "wait"
    BY <1>1, <2>1, <2>4 DEF RWinside
  <2>7. RWcommitted(c)' => RWcommitted(c)
    BY <1>1, <2>1, <2>2, <2>4 DEF RWcommitted
  <2>8. rwConsumed' \subseteq rwAgents
    BY <1>2, <1>4 DEF RW!Callers
  <2>9. QED
    BY <1>1, <1>2, <2>4, <2>5, <2>6, <2>7, <2>8, RWCallGoesOn
<1>5. QED
  BY <1>3, <1>4 DEF RW!Authorize

\* The workspace is replaced: by the successor that was approved, or by itself with the
\* output of its run.
LEMMA RWWriteFacts ==
  ASSUME RWSane, RWIInv, NEW c \in RW!Callers, RW!Write(c)
  PROVE  \/ RW!Move(c, "fail") /\ rwDisk' = rwDisk
         \/ \E w \in rwWorkspaces :
              /\ rwJob[c].w = {w} /\ rwDisk'[w] \in RWDocument
              /\ rwDisk' \in [rwWorkspaces -> RWDocument]
              /\ \A v \in rwWorkspaces : v # w => rwDisk'[v] = rwDisk[v]
              /\ rwDisk'[w].revision >= rwDisk[w].revision
              /\ rwDisk'[w].revision = rwDisk[w].revision => rwDisk'[w].text = rwDisk[w].text
              /\ rwDisk'[w].text # rwDisk[w].text => rwDisk'[w].base = rwDisk[w].text
              /\ rwDisk'[w].output \in {0, rwDisk'[w].text}
              /\ rwJob' = [rwJob EXCEPT ![c].at = "ok", ![c].before = rwDisk'[w]]
<1>1. CASE RW!Move(c, "fail") /\ rwDisk' = rwDisk
  BY <1>1
<1>2. ASSUME NEW w \in rwJob[c].w,
             rwDisk' = [rwDisk EXCEPT ![w] = IF rwJob[c].kind = "save" THEN rwJob[c].new ELSE rwJob[c].before],
             rwJob' = [rwJob EXCEPT ![c].at = "ok", ![c].before = rwDisk'[w]]
      PROVE  \E v \in rwWorkspaces :
               /\ rwJob[c].w = {v} /\ rwDisk'[v] \in RWDocument
               /\ rwDisk' \in [rwWorkspaces -> RWDocument]
               /\ \A u \in rwWorkspaces : u # v => rwDisk'[u] = rwDisk[u]
               /\ rwDisk'[v].revision >= rwDisk[v].revision
               /\ rwDisk'[v].revision = rwDisk[v].revision => rwDisk'[v].text = rwDisk[v].text
               /\ rwDisk'[v].text # rwDisk[v].text => rwDisk'[v].base = rwDisk[v].text
               /\ rwDisk'[v].output \in {0, rwDisk'[v].text}
               /\ rwJob' = [rwJob EXCEPT ![c].at = "ok", ![c].before = rwDisk'[v]]
  <2> DEFINE doc == IF rwJob[c].kind = "save" THEN rwJob[c].new ELSE rwJob[c].before
  <2>1. rwJob \in [RW!Callers -> RWWork] /\ rwDisk \in [rwWorkspaces -> RWDocument]
    BY DEF RWIInv, RWShape
  <2>2. /\ w \in rwWorkspaces /\ rwJob[c].new \in RWDocument /\ rwJob[c].before \in RWDocument
        /\ rwJob[c].kind \in {"save", "run"}
    BY <2>1 DEF RWWork
  <2>3. doc \in RWDocument
    BY <2>2
  <2>4. rwJob[c].at = "write"
    BY DEF RW!Write
  <2>5. rwJob[c].w = {w}
    BY <2>4 DEF RWIInv, RWAboutInv
  <2>6. RWisRead(c, w) /\ RWSound(c)
    BY <2>4 DEF RWIInv, RWTextInv, RWSound
  <2>7. rwDisk[w] \in RWDocument
    BY <2>1, <2>2
  <2>8. CASE rwJob[c].kind = "save"
    <3>1. /\ rwDisk[w].revision = rwJob[c].new.revision - 1 /\ rwJob[c].new.output = 0
          /\ rwDisk[w].text = rwJob[c].new.base
      BY <2>6, <2>8 DEF RWisRead, RWSound, RWknown
    <3>2. doc = rwJob[c].new
      BY <2>8
    <3>3. /\ doc.revision = rwDisk[w].revision + 1 /\ doc.base = rwDisk[w].text
          /\ doc.output = 0
          /\ rwDisk[w].revision \in Nat
      BY <2>2, <2>7, <3>1, <3>2 DEF RWDocument
    <3> HIDE DEF doc
    <3>4. /\ doc.revision >= rwDisk[w].revision /\ doc.revision # rwDisk[w].revision
          /\ doc.base = rwDisk[w].text /\ doc.output \in {0, doc.text}
      BY <3>3
    <3>5. rwDisk'[w] = doc /\ rwDisk' \in [rwWorkspaces -> RWDocument] /\ \A u \in rwWorkspaces : u # w => rwDisk'[u] = rwDisk[u]
      BY <1>2, <2>1, <2>2, <2>3 DEF doc
    <3>6. QED
      BY <1>2, <2>2, <2>3, <2>5, <3>4, <3>5
  <2>9. CASE rwJob[c].kind = "run"
    <3>1. doc = rwJob[c].before
      BY <2>9
    <3>2. doc.revision = rwDisk[w].revision /\ doc.text = rwDisk[w].text /\ doc.output \in {0, doc.text}
      BY <2>6, <3>1 DEF RWisRead
    <3>3. rwDisk[w].revision \in Nat
      BY <2>7 DEF RWDocument
    <3> HIDE DEF doc
    <3>4. rwDisk'[w] = doc /\ rwDisk' \in [rwWorkspaces -> RWDocument] /\ \A u \in rwWorkspaces : u # w => rwDisk'[u] = rwDisk[u]
      BY <1>2, <2>1, <2>2, <2>3 DEF doc
    <3>5. rwDisk'[w].revision >= rwDisk[w].revision
      BY <3>2, <3>3, <3>4
    <3>6. QED
      BY <1>2, <2>2, <2>3, <2>5, <3>2, <3>4, <3>5
  <2>10. QED
    BY <2>2, <2>8, <2>9
<1>3. QED
  BY <1>1, <1>2 DEF RW!Write

\* The write keeps what everybody knows.
LEMMA RWWriteInv == ASSUME RWSane, RWIInv, NEW c \in RW!Callers, RW!Write(c) PROVE RWIInv'
<1>1. /\ rwJob[c].at = "write" /\ RWinside(c)
      /\ UNCHANGED <<rwLocked, rwPage, rwTexts, rwConsumed, rwPosted, rwRunning, rwLost, rwRuns>>
  BY DEF RW!Write, RW!CallOnly, RWinside
<1>2. rwConsumed' \subseteq rwAgents /\ rwJob \in [RW!Callers -> RWWork] /\ rwDisk \in [rwWorkspaces -> RWDocument]
  BY <1>1 DEF RWIInv, RWShape
<1>3. CASE RW!Move(c, "fail") /\ rwDisk' = rwDisk
  BY <1>1, <1>2, <1>3, RWCallFails
<1>4. ASSUME NEW w \in rwWorkspaces,
             rwJob[c].w = {w}, rwDisk'[w] \in RWDocument, rwDisk' \in [rwWorkspaces -> RWDocument],
             \A v \in rwWorkspaces : v # w => rwDisk'[v] = rwDisk[v],
             rwDisk'[w].revision >= rwDisk[w].revision,
             rwDisk'[w].revision = rwDisk[w].revision => rwDisk'[w].text = rwDisk[w].text,
             rwDisk'[w].output \in {0, rwDisk'[w].text},
             rwJob' = [rwJob EXCEPT ![c].at = "ok", ![c].before = rwDisk'[w]]
      PROVE  RWIInv'
  <2> DEFINE j == [rwJob[c] EXCEPT !.at = "ok", !.before = rwDisk'[w]]
  <2>1. "ok" \in RWLabels
    BY DEF RWLabels
  <2>2. j \in RWWork /\ j.at = "ok" /\ j.w = {w} /\ j.before = rwDisk'[w] /\ j.kind = rwJob[c].kind /\ j.new = rwJob[c].new
    BY <1>2, <1>4, <2>1 DEF RWWork
  <2>3. rwJob' = [rwJob EXCEPT ![c] = j]
    BY <1>4
  <2> HIDE DEF j
  <2>4. /\ \A d \in RW!Callers : d # c => rwJob'[d] = rwJob[d]
        /\ rwJob'[c] = j /\ rwJob' \in [RW!Callers -> RWWork]
    BY <1>2, <2>2, <2>3
  <2>5. \A v \in rwWorkspaces :
          /\ rwDisk[v].revision \in Nat /\ rwDisk'[v].revision \in Nat
          /\ rwDisk'[v].revision >= rwDisk[v].revision
          /\ rwDisk'[v].revision = rwDisk[v].revision => rwDisk'[v].text = rwDisk[v].text
    <3>1. \A v \in rwWorkspaces : rwDisk[v].revision \in Nat /\ rwDisk'[v].revision \in Nat
      BY <1>2, <1>4 DEF RWDocument
    <3>2. QED
      BY <1>4, <3>1
  <2>6. RWShape'
    BY <1>1, <1>4, <2>4 DEF RWIInv, RWShape
  <2>7. \A d \in RW!Callers : RWinside(d)' <=> RWinside(d)
    BY <1>1, <2>2, <2>4 DEF RWinside
  <2>8. RWLockInv' /\ RWAboutInv'
    <3>1. rwOwnersPage \in RW!Callers
      BY DEF RW!Callers
    <3>2. ~rwPage.busy => rwJob'[rwOwnersPage].at = "free"
      BY <1>1, <2>4, <3>1 DEF RWIInv, RWLockInv
    <3>3. QED
      BY <1>1, <1>4, <2>2, <2>4, <2>7, <3>2 DEF RWIInv, RWLockInv, RWAboutInv
  <2>9. \A d \in RW!Callers : RWSound(d)'
    <3>1. ASSUME NEW d \in RW!Callers, d # c PROVE RWSound(d)'
      <4>1. rwJob'[d] = rwJob[d] /\ rwJob[d].at \in {"free", "ready"} /\ RWSound(d)
        BY <1>1, <2>4, <3>1 DEF RWIInv, RWLockInv, RWTextInv, RWinside
      <4>2. rwJob[d].w \subseteq rwWorkspaces /\ rwJob[d].new.revision \in Nat
        BY <1>2, <3>1 DEF RWWork, RWDocument
      <4>3. ASSUME NEW v \in rwJob[d].w, rwJob[d].kind = "save"
            PROVE  /\ rwDisk'[v].revision >= rwJob[d].new.revision - 1
                   /\ rwDisk'[v].revision = rwJob[d].new.revision - 1 => rwDisk'[v].text = rwJob[d].new.base
        <5>1. /\ rwDisk[v].revision >= rwJob[d].new.revision - 1
              /\ rwDisk[v].revision = rwJob[d].new.revision - 1 => rwDisk[v].text = rwJob[d].new.base
          BY <4>1, <4>3 DEF RWSound, RWknown
        <5>2. v \in rwWorkspaces
          BY <4>2
        <5>3. QED
          BY <2>5, <4>2, <5>1, <5>2
      <4>4. QED
        BY <4>1, <4>3 DEF RWSound, RWknown
    <3>2. RWSound(c)'
      <4>1. RWSound(c) /\ rwJob[c].new.revision \in Nat
        BY <1>2 DEF RWIInv, RWTextInv, RWWork, RWDocument
      <4>2. rwJob[c].kind = "save" =>
              /\ rwJob[c].new.revision > 0 /\ rwJob[c].new.output = 0
              /\ rwDisk[w].revision >= rwJob[c].new.revision - 1
              /\ rwDisk[w].revision = rwJob[c].new.revision - 1 => rwDisk[w].text = rwJob[c].new.base
        BY <1>4, <4>1 DEF RWSound, RWknown
      <4>3. rwJob[c].kind = "save" =>
              /\ rwDisk'[w].revision >= rwJob[c].new.revision - 1
              /\ rwDisk'[w].revision = rwJob[c].new.revision - 1 => rwDisk'[w].text = rwJob[c].new.base
        BY <2>5, <4>1, <4>2
      <4>4. QED
        BY <2>2, <2>4, <4>2, <4>3 DEF RWSound, RWknown
    <3>3. QED
      BY <3>1, <3>2
  <2>10. RWDiskInv'
    BY <1>4, <2>5 DEF RWIInv, RWTextInv, RWDiskInv
  <2>11. RWPageInv'
    <3>1. rwPage \in RWEditor
      BY DEF RWIInv, RWShape
    <3>2. /\ rwPage.w \subseteq rwWorkspaces /\ rwPage.shown.revision \in Nat
          /\ \A doc \in rwPage.poll : doc.revision \in Nat
      BY <3>1 DEF RWEditor, RWDocument
    <3>3. \A v \in rwPage.w :
            /\ rwDisk[v].revision >= rwPage.shown.revision
            /\ rwDisk[v].revision = rwPage.shown.revision => rwDisk[v].text = rwPage.seen
      BY DEF RWIInv, RWTextInv, RWPageInv, RWknown
    <3>4. \A v \in rwPage.w :
            /\ rwDisk'[v].revision >= rwPage.shown.revision
            /\ rwDisk'[v].revision = rwPage.shown.revision => rwDisk'[v].text = rwPage.seen
      BY <2>5, <3>2, <3>3
    <3>5. \A v \in rwPage.w : \A doc \in rwPage.poll :
            /\ rwDisk[v].revision >= doc.revision
            /\ rwDisk[v].revision = doc.revision => rwDisk[v].text = doc.text
      BY DEF RWIInv, RWTextInv, RWPageInv, RWknown
    <3>6. \A v \in rwPage.w : \A doc \in rwPage.poll :
            /\ rwDisk'[v].revision >= doc.revision
            /\ rwDisk'[v].revision = doc.revision => rwDisk'[v].text = doc.text
      BY <2>5, <3>2, <3>5
    <3>7. rwPage.w = {} => rwPage.shown.revision = 0 /\ rwPage.seen = 0 /\ rwPage.poll = {}
      BY DEF RWIInv, RWTextInv, RWPageInv
    <3>8. QED
      BY <1>1, <3>4, <3>6, <3>7 DEF RWPageInv, RWknown
  <2>12. RWNumbersInv' /\ RWWaitInv'
    <3>1. \A d \in RW!Callers :
            /\ rwJob'[d].at = "wait" <=> rwJob[d].at = "wait"
            /\ rwJob[d].at = "wait" => rwJob'[d].run = rwJob[d].run /\ rwJob'[d].before.text = rwJob[d].before.text
            /\ RWcommitted(d)' => RWcommitted(d) \/ rwRunning = {}
      BY <1>1, <2>2, <2>4 DEF RWcommitted
    <3>2. QED
      BY <1>1, <3>1, RWRunsStand DEF RWIInv
  <2>13. QED
    BY <2>6, <2>8, <2>9, <2>10, <2>11, <2>12 DEF RWIInv, RWTextInv
<1>5. QED
  BY <1>3, <1>4, RWWriteFacts

\* The run is posted, under a number of its own.
LEMMA RWPostInv == ASSUME RWSane, RWIInv, NEW c \in RW!Callers, RW!Post(c) PROVE RWIInv'
<1> DEFINE r0 == [n |-> rwRuns + 1, text |-> rwJob[c].before.text]
           j == [rwJob[c] EXCEPT !.at = "wait", !.run = rwRuns + 1]
<1>1. /\ rwJob[c].at = "post" /\ RWinside(c) /\ rwRuns < rwMaxRuns /\ rwRuns' = rwRuns + 1
      /\ UNCHANGED <<rwDisk, rwLocked, rwPage, rwTexts, rwConsumed, rwRunning, rwLost>>
      /\ rwPosted' = rwPosted \cup {r0} /\ rwJob' = [rwJob EXCEPT ![c] = j]
  BY DEF RW!Post, RW!CallOnly, RWinside
<1>2. /\ rwConsumed' \subseteq rwAgents /\ rwJob \in [RW!Callers -> RWWork]
      /\ rwRuns \in 0..rwMaxRuns
      /\ rwPosted \subseteq RWRun /\ rwRunning \subseteq RWRun /\ rwLost' \subseteq 1..rwMaxRuns
  BY <1>1 DEF RWIInv, RWShape
<1>3. rwJob[c] \in RWWork /\ rwJob[c].before \in RWDocument /\ rwJob[c].before.text \in 0..rwMaxTexts
  BY <1>2 DEF RWWork, RWDocument
<1>4. rwRuns' \in 0..rwMaxRuns /\ rwRuns + 1 \in 1..rwMaxRuns /\ rwRuns + 1 \in 0..rwMaxRuns
  BY <1>1, <1>2 DEF RWSane
<1>5. r0 \in RWRun /\ r0.n = rwRuns + 1 /\ r0.text = rwJob[c].before.text
  BY <1>3, <1>4 DEF RWRun
<1>6. /\ j \in RWWork /\ j.at = "wait" /\ j.run = rwRuns + 1 /\ j.w = rwJob[c].w
      /\ j.kind = rwJob[c].kind
      /\ j.new = rwJob[c].new /\ j.before = rwJob[c].before
  BY <1>3, <1>4 DEF RWWork, RWLabels
<1> HIDE DEF r0, j
<1>7. /\ \A d \in RW!Callers : d # c => rwJob'[d] = rwJob[d]
      /\ rwJob'[c] = j /\ rwJob' \in [RW!Callers -> RWWork]
  BY <1>1, <1>2, <1>6
<1>8. RWSound(c)'
  <2>1. RWSound(c)
    BY DEF RWIInv, RWTextInv
  <2>2. QED
    BY <1>1, <1>6, <1>7, <2>1, RWStaysSound
<1>9. \A r \in rwPosted \cup rwRunning : r.n \in Nat /\ r.n <= rwRuns /\ r.n # rwRuns + 1
  <2>1. \A r \in rwPosted \cup rwRunning : r.n \in Nat /\ r.n <= rwRuns
    BY <1>2 DEF RWRun, RWIInv, RWNumbersInv
  <2>2. QED
    BY <1>2, <2>1
<1>10. \A d \in RW!Callers : d # c /\ rwJob[d].at = "wait" => rwJob[d].run \in 1..rwRuns /\ rwJob[d].run # rwRuns + 1
  BY <1>2 DEF RWIInv, RWNumbersInv
<1>11. RWNumbersInv'
  <2>1. \A r \in rwPosted' \cup rwRunning' : r.n <= rwRuns'
    BY <1>1, <1>2, <1>5, <1>9
  <2>2. \A r, s \in rwPosted' \cup rwRunning' : r.n = s.n => r = s
    BY <1>1, <1>5, <1>9 DEF RWIInv, RWNumbersInv
  <2>3. rwPosted' \cap rwRunning' = {}
    BY <1>1, <1>5, <1>9 DEF RWIInv, RWNumbersInv
  <2>4. \A d \in RW!Callers : rwJob'[d].at = "wait" => rwJob'[d].run \in 1..rwRuns'
    <3>1. \A d \in RW!Callers : d # c /\ rwJob[d].at = "wait" => rwJob[d].run \in 1..rwRuns'
      BY <1>1, <1>2, <1>10
    <3>2. rwRuns + 1 \in 1..rwRuns'
      BY <1>1, <1>2
    <3>3. QED
      BY <1>6, <1>7, <3>1, <3>2
  <2>5. QED
    BY <1>1, <2>1, <2>2, <2>3, <2>4 DEF RWIInv, RWNumbersInv
<1>12. RWWaitInv'
  <2>1. \A d \in RW!Callers : \A r \in rwPosted \cup rwRunning : RW!waiting(d, r)' <=> RW!waiting(d, r)
    BY <1>1, <1>6, <1>7, <1>9 DEF RW!waiting
  <2>2. \A d \in RW!Callers : \A r : r = r0 => (RW!waiting(d, r)' <=> d = c)
    BY <1>5, <1>6, <1>7, <1>10 DEF RW!waiting
  <2>3. \A r \in rwPosted' : r.n \in rwLost' \/ (\E d \in RW!Callers : RW!waiting(d, r)')
    BY <1>1, <2>1, <2>2 DEF RWIInv, RWWaitInv
  <2>4. \A d \in RW!Callers : rwJob[d].at = "wait" => rwJob'[d] = rwJob[d]
    BY <1>1, <1>7
  <2>5. \A d \in RW!Callers, r \in rwPosted' \cup rwRunning' : RW!waiting(d, r)' => r.text = rwJob'[d].before.text
    <3>1. \A d \in RW!Callers, r \in rwPosted \cup rwRunning : RW!waiting(d, r)' => r.text = rwJob'[d].before.text
      BY <2>1, <2>4 DEF RWIInv, RWWaitInv, RW!waiting
    <3>2. \A d \in RW!Callers : \A r : r = r0 /\ RW!waiting(d, r)' => r.text = rwJob'[d].before.text
      BY <1>5, <1>6, <1>7, <2>2
    <3>3. QED
      BY <1>1, <3>1, <3>2
  <2>6. \A d \in RW!Callers : RWcommitted(d)' => RWcommitted(d)
    BY <1>1, <1>7 DEF RWcommitted
  <2>7. \A d \in RW!Callers, r \in rwRunning' : RWcommitted(d)' => r.n \in rwLost' \/ RW!waiting(d, r)'
    BY <1>1, <2>1, <2>6 DEF RWIInv, RWWaitInv
  <2>8. QED
    BY <2>3, <2>5, <2>7 DEF RWWaitInv
<1>13. rwPosted' \subseteq RWRun /\ rwRunning' \subseteq RWRun
  BY <1>1, <1>2, <1>5
<1>14. RWinside(c)' /\ rwJob'[c].w = rwJob[c].w
  BY <1>6, <1>7 DEF RWinside
<1>15. QED
  BY <1>1, <1>2, <1>4, <1>7, <1>8, <1>11, <1>12, <1>13, <1>14, RWCallGoes

\* The answer did not come in time.
LEMMA RWGiveUpInv ==
  ASSUME RWSane, RWIInv, NEW c \in RW!Callers, RW!GiveUp(c)
  PROVE RWIInv'
<1>1. /\ rwJob[c].at = "wait" /\ RWinside(c) /\ RW!Move(c, "fail")
      /\ rwLost' = rwLost \cup {rwJob[c].run}
      /\ UNCHANGED <<rwDisk, rwLocked, rwPage, rwTexts, rwConsumed, rwPosted, rwRunning, rwRuns>>
  BY DEF RW!GiveUp, RW!CallOnly, RWinside
<1>2. /\ rwJob \in [RW!Callers -> RWWork] /\ "fail" \in RWLabels /\ rwRuns \in 0..rwMaxRuns
      /\ rwConsumed' \subseteq rwAgents /\ rwPosted' \subseteq RWRun
      /\ rwRunning' \subseteq RWRun
      /\ rwRuns' \in 0..rwMaxRuns
  BY <1>1 DEF RWIInv, RWShape, RWLabels
<1>3. /\ \A d \in RW!Callers : d # c => rwJob'[d] = rwJob[d]
      /\ rwJob' \in [RW!Callers -> RWWork]
      /\ rwJob'[c].at = "fail" /\ rwJob'[c].w = rwJob[c].w /\ rwJob'[c].kind = rwJob[c].kind
      /\ rwJob'[c].new = rwJob[c].new
  BY <1>1, <1>2, RWMoved
<1>4. RWSound(c)'
  <2>1. RWSound(c)
    BY DEF RWIInv, RWTextInv
  <2>2. QED
    BY <1>1, <1>3, <2>1, RWStaysSound
<1>5. rwLost' \subseteq 1..rwMaxRuns
  <2>1. rwJob[c].run \in 1..rwRuns
    BY <1>1 DEF RWIInv, RWNumbersInv
  <2>2. rwJob[c].run \in 1..rwMaxRuns
    BY <1>2, <2>1 DEF RWSane
  <2>3. QED
    BY <1>1, <2>2 DEF RWIInv, RWShape
<1>6. RWNumbersInv'
  BY <1>1, <1>3 DEF RWIInv, RWNumbersInv
<1>7. RWWaitInv'
  <2>1. \A d \in RW!Callers : \A r : (RW!waiting(d, r)' <=> RW!waiting(d, r) /\ d # c)
    BY <1>3 DEF RW!waiting
  <2>2. \A r : RW!waiting(c, r) => r.n \in rwLost'
    BY <1>1 DEF RW!waiting
  <2>3. \A d \in RW!Callers : RWcommitted(d)' => RWcommitted(d) /\ d # c
    BY <1>3 DEF RWcommitted
  <2>4. \A r \in rwPosted' : r.n \in rwLost' \/ (\E d \in RW!Callers : RW!waiting(d, r)')
    BY <1>1, <2>1, <2>2 DEF RWIInv, RWWaitInv
  <2>5. \A d \in RW!Callers, r \in rwPosted' \cup rwRunning' : RW!waiting(d, r)' => r.text = rwJob'[d].before.text
    BY <1>1, <1>3, <2>1 DEF RWIInv, RWWaitInv
  <2>6. \A d \in RW!Callers, r \in rwRunning' : RWcommitted(d)' => r.n \in rwLost' \/ RW!waiting(d, r)'
    BY <1>1, <2>1, <2>3 DEF RWIInv, RWWaitInv
  <2>7. QED
    BY <2>4, <2>5, <2>6 DEF RWWaitInv
<1>8. RWinside(c)'
  BY <1>3 DEF RWinside
<1>9. QED
  BY <1>1, <1>2, <1>3, <1>4, <1>5, <1>6, <1>7, <1>8, RWCallGoes

\* The lock is released, or stays when the unlink fails.
LEMMA RWUnlockInv ==
  ASSUME RWSane, RWIInv, NEW c \in RW!Callers, RW!Unlock(c)
  PROVE RWIInv'
<1>1. /\ rwJob[c].at \in {"ok", "fail"}
      /\ \/ rwLocked' = FALSE /\ RW!AnswerTo(c, rwJob[c].at = "ok")
         \/ UNCHANGED rwLocked /\ RW!AnswerTo(c, FALSE)
      /\ UNCHANGED <<rwDisk, rwConsumed, rwPosted, rwRunning, rwLost, rwTexts, rwRuns>>
  BY DEF RW!Unlock
<1>2. \A d \in RW!Callers : d # c => ~RWinside(d)
  BY <1>1 DEF RWIInv, RWLockInv, RWinside
<1>3. rwLocked' \in BOOLEAN
  BY <1>1 DEF RWIInv, RWShape
<1>4. CASE RW!AnswerTo(c, rwJob[c].at = "ok")
  BY <1>1, <1>2, <1>3, <1>4, RWAnswerInv
<1>5. CASE RW!AnswerTo(c, FALSE)
  BY <1>1, <1>2, <1>3, <1>5, RWAnswerInv
<1>6. QED
  BY <1>1, <1>4, <1>5

\* The runner takes a run, or answers that it is busy.
LEMMA RWTakeInv == ASSUME RWSane, RWIInv, RW!Take PROVE RWIInv'
<1>1. /\ UNCHANGED <<rwDisk, rwLocked, rwPage, rwTexts, rwConsumed, rwLost, rwRuns>>
      /\ rwJob \in [RW!Callers -> RWWork] /\ rwPosted \subseteq RWRun
      /\ rwRunning \subseteq RWRun
  BY DEF RW!Take, RW!CallOnly, RWIInv, RWShape
<1>2. PICK r \in rwPosted :
        /\ rwPosted' = rwPosted \ {r}
        /\ IF rwRunning = {}
           THEN rwRunning' = {r} /\ UNCHANGED rwJob
           ELSE /\ rwJob' = [c \in RW!Callers |-> IF RW!waiting(c, r)
                                             THEN [rwJob[c] EXCEPT !.at = "fail"] ELSE rwJob[c]]
                /\ UNCHANGED rwRunning
  BY DEF RW!Take
<1>3. CASE rwRunning = {}
  <2>1. rwRunning' = {r} /\ rwJob' = rwJob /\ rwPosted' = rwPosted \ {r}
    BY <1>2, <1>3
  <2>2. RWShape'
    BY <1>1, <2>1 DEF RWIInv, RWShape
  <2>3. RWLockInv' /\ RWAboutInv' /\ RWTextInv'
    BY <1>1, <2>1, RWCallsMove DEF RWIInv
  <2>4. RWNumbersInv'
    BY <1>1, <2>1 DEF RWIInv, RWNumbersInv
  <2>5. RWWaitInv'
    <3>1. \A c \in RW!Callers : /\ RWcommitted(c)' <=> RWcommitted(c)
                                /\ \A s : RW!waiting(c, s)' <=> RW!waiting(c, s)
      BY <2>1 DEF RWcommitted, RW!waiting
    <3>2. \A s \in rwPosted' : s.n \in rwLost' \/ (\E c \in RW!Callers : RW!waiting(c, s)')
      BY <1>1, <2>1, <3>1 DEF RWIInv, RWWaitInv
    <3>3. \A c \in RW!Callers, s \in rwPosted' \cup rwRunning' : RW!waiting(c, s)' => s.text = rwJob'[c].before.text
      BY <1>1, <2>1, <3>1 DEF RWIInv, RWWaitInv
    <3>4. \A c \in RW!Callers : RWcommitted(c) => r.n \in rwLost \/ RW!waiting(c, r)
      <4> SUFFICES ASSUME NEW c \in RW!Callers, RWcommitted(c), r.n \notin rwLost
                   PROVE  RW!waiting(c, r)
        OBVIOUS
      <4>1. PICK d \in RW!Callers : RW!waiting(d, r)
        BY DEF RWIInv, RWWaitInv
      <4>2. RWinside(c) /\ RWinside(d)
        BY <4>1 DEF RWcommitted, RW!waiting, RWinside
      <4>3. QED
        BY <4>1, <4>2 DEF RWIInv, RWLockInv
    <3>5. \A c \in RW!Callers, s \in rwRunning' : RWcommitted(c)' => s.n \in rwLost' \/ RW!waiting(c, s)'
      BY <1>1, <2>1, <3>1, <3>4
    <3>6. QED
      BY <3>2, <3>3, <3>5 DEF RWWaitInv
  <2>6. QED
    BY <2>2, <2>3, <2>4, <2>5 DEF RWIInv
<1>4. CASE rwRunning # {}
  <2>1. /\ rwRunning' = rwRunning /\ rwPosted' = rwPosted \ {r}
        /\ rwJob' = [c \in RW!Callers |-> IF RW!waiting(c, r) THEN [rwJob[c] EXCEPT !.at = "fail"] ELSE rwJob[c]]
    BY <1>2, <1>4
  <2>2. \A c \in RW!Callers :
          /\ RW!waiting(c, r) => /\ rwJob'[c] \in RWWork /\ rwJob'[c].at = "fail" /\ rwJob'[c].w = rwJob[c].w
                                 /\ rwJob'[c].kind = rwJob[c].kind
                                 /\ rwJob'[c].new = rwJob[c].new
          /\ ~RW!waiting(c, r) => rwJob'[c] = rwJob[c]
    <3> SUFFICES ASSUME NEW c \in RW!Callers, RW!waiting(c, r)
                 PROVE  /\ rwJob'[c] \in RWWork /\ rwJob'[c].at = "fail"
                        /\ rwJob'[c].w = rwJob[c].w
                        /\ rwJob'[c].kind = rwJob[c].kind /\ rwJob'[c].new = rwJob[c].new
      BY <2>1
    <3>1. rwJob'[c] = [rwJob[c] EXCEPT !.at = "fail"] /\ rwJob[c] \in RWWork
      BY <1>1, <2>1
    <3>2. QED
      BY <3>1 DEF RWWork, RWLabels
  <2>3. rwJob' \in [RW!Callers -> RWWork]
    BY <1>1, <2>1, <2>2
  <2>4. RWShape'
    BY <1>1, <2>1, <2>3 DEF RWIInv, RWShape
  <2>5. RWLockInv' /\ RWAboutInv' /\ RWTextInv'
    <3>1. ASSUME NEW c \in RW!Callers, RW!waiting(c, r)
          PROVE  RWinside(c) /\ RWinside(c)' /\ RWSound(c)' /\ rwJob'[c].w = rwJob[c].w
      <4>1. RWSound(c) /\ rwJob[c].at = "wait"
        BY <3>1 DEF RWIInv, RWTextInv, RW!waiting
      <4>2. RWSound(c)'
        BY <1>1, <2>2, <3>1, <4>1, RWStaysSound
      <4>3. QED
        BY <2>2, <3>1, <4>1, <4>2 DEF RWinside
    <3>2. QED
      BY <1>1, <2>2, <3>1, RWCallsMove DEF RWIInv
  <2>6. RWNumbersInv'
    <3>1. \A c \in RW!Callers : rwJob'[c].at = "wait" => rwJob'[c].run \in 1..rwRuns'
      BY <1>1, <2>2 DEF RWIInv, RWNumbersInv
    <3>2. QED
      BY <1>1, <2>1, <3>1 DEF RWIInv, RWNumbersInv
  <2>7. RWWaitInv'
    <3>1. \A c \in RW!Callers : RWcommitted(c)' => RWcommitted(c) /\ rwJob'[c] = rwJob[c]
      BY <2>2 DEF RWcommitted
    <3>2. \A c \in RW!Callers : \A s : RW!waiting(c, s)' => RW!waiting(c, s) /\ rwJob'[c] = rwJob[c]
      BY <2>2 DEF RW!waiting
    <3>3. \A c \in RW!Callers : \A s \in rwPosted' \cup rwRunning' : RW!waiting(c, s) => RW!waiting(c, s)'
      <4> SUFFICES ASSUME NEW c \in RW!Callers, NEW s \in rwPosted' \cup rwRunning', RW!waiting(c, s)
                   PROVE  RW!waiting(c, s)'
        OBVIOUS
      <4>1. s # r /\ s \in rwPosted \cup rwRunning
        BY <2>1 DEF RWIInv, RWNumbersInv
      <4>2. s.n # r.n
        BY <4>1 DEF RWIInv, RWNumbersInv
      <4>3. ~RW!waiting(c, r)
        BY <4>2 DEF RW!waiting
      <4>4. QED
        BY <2>2, <4>3 DEF RW!waiting
    <3>4. \A s \in rwPosted' : s.n \in rwLost' \/ (\E c \in RW!Callers : RW!waiting(c, s)')
      BY <1>1, <2>1, <3>3 DEF RWIInv, RWWaitInv
    <3>5. \A c \in RW!Callers, s \in rwPosted' \cup rwRunning' : RW!waiting(c, s)' => s.text = rwJob'[c].before.text
      BY <1>1, <2>1, <3>2 DEF RWIInv, RWWaitInv
    <3>6. \A c \in RW!Callers, s \in rwRunning' : RWcommitted(c)' => s.n \in rwLost' \/ RW!waiting(c, s)'
      BY <1>1, <2>1, <3>1, <3>3 DEF RWIInv, RWWaitInv
    <3>7. QED
      BY <3>4, <3>5, <3>6 DEF RWWaitInv
  <2>8. QED
    BY <2>4, <2>5, <2>6, <2>7 DEF RWIInv
<1>5. QED
  BY <1>3, <1>4

\* The runner answers: the output is that of the text that was read.
LEMMA RWRespondInv == ASSUME RWSane, RWIInv, RW!Respond PROVE RWIInv'
<1>1. PICK r \in rwRunning, c \in RW!Callers :
        RW!waiting(c, r) /\ rwJob' = [rwJob EXCEPT ![c].at = "write", ![c].before.output = r.text]
  BY DEF RW!Respond
<1>2. /\ UNCHANGED <<rwDisk, rwLocked, rwPage, rwTexts, rwConsumed, rwPosted, rwRunning, rwLost, rwRuns>>
      /\ rwJob[c].at = "wait" /\ RWinside(c)
  BY <1>1 DEF RW!Respond, RW!CallOnly, RW!waiting, RWinside
<1>3. /\ rwJob \in [RW!Callers -> RWWork] /\ rwPosted \subseteq RWRun
      /\ rwRunning \subseteq RWRun
      /\ rwConsumed' \subseteq rwAgents /\ rwPosted' \subseteq RWRun
      /\ rwRunning' \subseteq RWRun
      /\ rwRuns' \in 0..rwMaxRuns /\ rwLost' \subseteq 1..rwMaxRuns
  BY <1>2 DEF RWIInv, RWShape
<1> DEFINE b == [rwJob[c].before EXCEPT !.output = r.text]
           j == [rwJob[c] EXCEPT !.at = "write", !.before = b]
<1>4. rwJob[c] \in RWWork /\ rwJob[c].before \in RWDocument /\ r.text \in 0..rwMaxTexts
  BY <1>3 DEF RWWork, RWRun
<1>5. /\ b \in RWDocument /\ b.output = r.text /\ b.text = rwJob[c].before.text
      /\ b.revision = rwJob[c].before.revision
  BY <1>4 DEF RWDocument
<1>6. rwJob' = [rwJob EXCEPT ![c] = j]
  BY <1>1
<1> HIDE DEF b
<1>7. /\ j \in RWWork /\ j.at = "write" /\ j.before = b /\ j.w = rwJob[c].w
      /\ j.kind = rwJob[c].kind
      /\ j.new = rwJob[c].new
  BY <1>4, <1>5 DEF RWWork, RWLabels
<1> HIDE DEF j
<1>8. /\ \A d \in RW!Callers : d # c => rwJob'[d] = rwJob[d]
      /\ rwJob'[c] = j /\ rwJob' \in [RW!Callers -> RWWork]
  BY <1>3, <1>6, <1>7
<1>9. RWSound(c)'
  <2>1. RWSound(c) /\ r.text = rwJob[c].before.text
    BY <1>1 DEF RWIInv, RWTextInv, RWWaitInv
  <2>2. \A w \in rwJob[c].w : RWisRead(c, w)'
    BY <1>2, <1>5, <1>7, <1>8, <2>1 DEF RWSound, RWisRead
  <2>3. QED
    BY <1>2, <1>7, <1>8, <2>1, <2>2 DEF RWSound, RWknown
<1>10. RWNumbersInv'
  BY <1>2, <1>7, <1>8 DEF RWIInv, RWNumbersInv
<1>11. RWWaitInv'
  <2>1. \A d \in RW!Callers : RWcommitted(d)' => RWcommitted(d) /\ d # c
    BY <1>7, <1>8 DEF RWcommitted
  <2>2. \A d \in RW!Callers : \A s : (RW!waiting(d, s)' <=> RW!waiting(d, s) /\ d # c)
    BY <1>7, <1>8 DEF RW!waiting
  <2>3. \A s \in rwPosted : ~RW!waiting(c, s)
    <3> SUFFICES ASSUME NEW s \in rwPosted, RW!waiting(c, s) PROVE FALSE
      OBVIOUS
    <3>1. s.n = r.n
      BY <1>1 DEF RW!waiting
    <3>2. QED
      BY <3>1 DEF RWIInv, RWNumbersInv
  <2>4. \A s \in rwPosted' : s.n \in rwLost' \/ (\E d \in RW!Callers : RW!waiting(d, s)')
    BY <1>2, <2>2, <2>3 DEF RWIInv, RWWaitInv
  <2>5. \A d \in RW!Callers, s \in rwPosted' \cup rwRunning' : RW!waiting(d, s)' => s.text = rwJob'[d].before.text
    BY <1>2, <1>8, <2>2 DEF RWIInv, RWWaitInv
  <2>6. \A d \in RW!Callers, s \in rwRunning' : RWcommitted(d)' => s.n \in rwLost' \/ RW!waiting(d, s)'
    BY <1>2, <2>1, <2>2 DEF RWIInv, RWWaitInv
  <2>7. QED
    BY <2>4, <2>5, <2>6 DEF RWWaitInv
<1>12. RWinside(c)' /\ rwJob'[c].w = rwJob[c].w
  BY <1>7, <1>8 DEF RWinside
<1>13. QED
  BY <1>2, <1>3, <1>8, <1>9, <1>10, <1>11, <1>12, RWCallGoes

\* The runner's lock is released.
LEMMA RWReleaseInv == ASSUME RWSane, RWIInv, RW!Release PROVE RWIInv'
<1>1. rwRunning' = {} /\ UNCHANGED <<rwDisk, rwLocked, rwJob, rwPage, rwTexts, rwConsumed, rwPosted, rwLost, rwRuns>>
  BY DEF RW!Release, RW!CallOnly
<1>2. RWShape'
  BY <1>1 DEF RWIInv, RWShape
<1>3. RWLockInv' /\ RWAboutInv' /\ RWTextInv'
  BY <1>1, RWCallsMove DEF RWIInv
<1>4. RWNumbersInv' /\ RWWaitInv'
  <2>1. \A c \in RW!Callers : \A r : RW!waiting(c, r)' <=> RW!waiting(c, r)
    BY <1>1 DEF RW!waiting
  <2>2. QED
    BY <1>1, <2>1 DEF RWIInv, RWNumbersInv, RWWaitInv
<1>5. QED
  BY <1>2, <1>3, <1>4 DEF RWIInv

\* The gateway is killed: the calls are over, and their runs given up.
LEMMA RWCrashInv == ASSUME RWSane, RWIInv, RW!Crash PROVE RWIInv'
<1>1. /\ UNCHANGED <<rwDisk, rwLocked, rwTexts, rwConsumed, rwPosted, rwRunning, rwRuns>>
      /\ rwJob' = [c \in RW!Callers |-> IF rwJob[c].at = "free" THEN rwJob[c] ELSE RW!back(c, rwJob[c])]
      /\ rwLost' = rwLost \cup {rwJob[c].run : c \in {d \in RW!Callers : rwJob[d].at = "wait"}}
      /\ rwPage' = [rwPage EXCEPT !.busy = FALSE]
  BY DEF RW!Crash
<1>2. rwJob \in [RW!Callers -> RWWork] /\ rwPage \in RWEditor /\ rwRuns \in 0..rwMaxRuns
  BY DEF RWIInv, RWShape
<1>3. \A c \in RW!Callers :
        /\ rwJob'[c] \in RWWork /\ rwJob'[c].at \in {"free", "ready"}
        /\ \/ rwJob'[c] = RW!NoJob
           \/ /\ c # rwOwnersPage /\ rwJob[c].at # "free" /\ rwJob'[c].at = "ready" /\ rwJob'[c].w = rwJob[c].w
              /\ rwJob'[c].kind = rwJob[c].kind /\ rwJob'[c].new = rwJob[c].new
           \/ rwJob'[c] = rwJob[c] /\ rwJob[c].at = "free"
  <2> SUFFICES ASSUME NEW c \in RW!Callers
               PROVE  /\ rwJob'[c] \in RWWork /\ rwJob'[c].at \in {"free", "ready"}
                      /\ \/ rwJob'[c] = RW!NoJob
                         \/ /\ c # rwOwnersPage /\ rwJob[c].at # "free" /\ rwJob'[c].at = "ready" /\ rwJob'[c].w = rwJob[c].w
                            /\ rwJob'[c].kind = rwJob[c].kind /\ rwJob'[c].new = rwJob[c].new
                         \/ rwJob'[c] = rwJob[c] /\ rwJob[c].at = "free"
    OBVIOUS
  <2>1. rwJob[c] \in RWWork /\ 0 \in 0..rwMaxRuns
    BY <1>2 DEF RWSane
  <2>2. CASE rwJob[c].at = "free"
    BY <1>1, <2>1, <2>2
  <2>3. CASE rwJob[c].at # "free" /\ c = rwOwnersPage
    BY <1>1, <2>3, RWBlanks DEF RW!back
  <2>4. CASE rwJob[c].at # "free" /\ c # rwOwnersPage
    <3>1. rwJob'[c] = [rwJob[c] EXCEPT !.at = "ready", !.before = RW!NoDoc, !.run = 0]
      BY <1>1, <2>4 DEF RW!back
    <3>2. QED
      BY <2>1, <2>4, <3>1, RWBlanks DEF RWWork, RWLabels
  <2>5. QED
    BY <2>2, <2>3, <2>4
<1>4. rwJob' \in [RW!Callers -> RWWork]
  <2>1. \A c \in RW!Callers : rwJob'[c] \in RWWork
    BY <1>3
  <2>2. QED
    BY <1>1, <2>1
<1>5. /\ rwPage' \in RWEditor /\ rwPage'.w = rwPage.w /\ rwPage'.shown = rwPage.shown
      /\ rwPage'.seen = rwPage.seen
      /\ rwPage'.poll = rwPage.poll /\ rwPage'.busy = FALSE
  BY <1>1, <1>2 DEF RWEditor
<1>6. \A c \in RW!Callers : rwJob[c].at = "wait" => rwJob[c].run \in rwLost' /\ rwJob[c].run \in 1..rwMaxRuns
  <2> SUFFICES ASSUME NEW c \in RW!Callers, rwJob[c].at = "wait"
               PROVE  rwJob[c].run \in rwLost' /\ rwJob[c].run \in 1..rwMaxRuns
    OBVIOUS
  <2>1. rwJob[c].run \in 1..rwRuns
    BY DEF RWIInv, RWNumbersInv
  <2>2. QED
    BY <1>1, <1>2, <2>1 DEF RWSane
<1>7. rwLost' \subseteq 1..rwMaxRuns
  BY <1>1, <1>6 DEF RWIInv, RWShape
<1>8. RWShape'
  BY <1>1, <1>4, <1>5, <1>7 DEF RWIInv, RWShape
<1>9. RWLockInv'
  <2>1. \A c \in RW!Callers : ~RWinside(c)'
    BY <1>3 DEF RWinside
  <2>2. rwOwnersPage \in RW!Callers
    BY DEF RW!Callers
  <2>3. rwJob'[rwOwnersPage].at = "free"
    BY <1>3, <2>2, RWBlanks
  <2>4. QED
    BY <2>1, <2>3 DEF RWLockInv
<1>10. RWAboutInv'
  BY <1>3, <1>5, RWBlanks DEF RWIInv, RWAboutInv
<1>11. \A c \in RW!Callers : RWSound(c)'
  <2> SUFFICES ASSUME NEW c \in RW!Callers PROVE RWSound(c)'
    OBVIOUS
  <2>1. RWSound(c)
    BY DEF RWIInv, RWTextInv
  <2>2. CASE rwJob'[c] = RW!NoJob
    BY <2>2, RWBlanks DEF RWSound
  <2>3. CASE rwJob'[c] # RW!NoJob
    <3>1. /\ rwJob'[c].w = rwJob[c].w /\ rwJob'[c].kind = rwJob[c].kind
          /\ rwJob'[c].new = rwJob[c].new
          /\ rwJob'[c].at \in {"free", "ready"}
      BY <1>3, <2>3
    <3>2. QED
      BY <1>1, <2>1, <3>1, RWStaysSound
  <2>4. QED
    BY <2>2, <2>3
<1>12. RWDiskInv' /\ RWPageInv'
  BY <1>1, <1>5 DEF RWIInv, RWTextInv, RWDiskInv, RWPageInv, RWknown
<1>13. \A c \in RW!Callers : rwJob'[c].at # "wait" /\ ~RWcommitted(c)'
  BY <1>3 DEF RWcommitted
<1>14. RWNumbersInv'
  BY <1>1, <1>13 DEF RWIInv, RWNumbersInv
<1>15. RWWaitInv'
  <2>1. \A r \in rwPosted : r.n \in rwLost'
    BY <1>1, <1>6 DEF RWIInv, RWWaitInv, RW!waiting
  <2>2. \A c \in RW!Callers : \A r : ~RW!waiting(c, r)'
    BY <1>13 DEF RW!waiting
  <2>3. QED
    BY <1>1, <1>13, <2>1, <2>2 DEF RWWaitInv
<1>16. QED
  BY <1>8, <1>9, <1>10, <1>11, <1>12, <1>14, <1>15 DEF RWIInv, RWTextInv

\* An administrator removes the lock file, when nobody has it.
LEMMA RWClearLockInv == ASSUME RWSane, RWIInv, RW!ClearLock PROVE RWIInv'
<1>1. /\ UNCHANGED <<rwDisk, rwJob, rwPage, rwTexts, rwConsumed, rwPosted, rwRunning, rwLost, rwRuns>>
      /\ rwLocked' = FALSE /\ \A c \in RW!Callers : ~RWinside(c)
  BY DEF RW!ClearLock, RW!CallOnly, RWinside
<1>2. RWShape' /\ RWAboutInv'
  BY <1>1 DEF RWIInv, RWShape, RWAboutInv
<1>3. RWLockInv'
  BY <1>1 DEF RWIInv, RWLockInv, RWinside
<1>4. RWTextInv'
  BY <1>1 DEF RWIInv, RWTextInv, RWDiskInv, RWPageInv, RWSound, RWknown, RWisRead
<1>5. RWNumbersInv' /\ RWWaitInv'
  <2>1. \A c \in RW!Callers : RWcommitted(c)' <=> RWcommitted(c)
    BY <1>1 DEF RWcommitted
  <2>2. QED
    BY <1>1, <2>1, RWRunsStand DEF RWIInv
<1>6. QED
  BY <1>2, <1>3, <1>4, <1>5 DEF RWIInv

\* Every step keeps the invariant.
LEMMA RWNextInv == RWSane /\ RWIInv /\ [RW!Next]_(RW!vars) => RWIInv'
<1> SUFFICES ASSUME RWSane, RWIInv, [RW!Next]_(RW!vars) PROVE RWIInv'
  OBVIOUS
<1>1. CASE UNCHANGED RW!vars
  <2>1. UNCHANGED <<rwDisk, rwLocked, rwJob, rwConsumed, rwPosted, rwRunning, rwLost, rwPage, rwTexts, rwRuns>>
    BY <1>1 DEF RW!vars
  <2>2. rwPage' \in RWEditor /\ rwTexts' \in 0..rwMaxTexts /\ RWPageInv'
    BY <2>1 DEF RWIInv, RWShape, RWTextInv, RWPageInv, RWknown
  <2>3. QED
    BY <2>1, <2>2, RWPageMoves DEF RWIInv, RWAboutInv
<1>2. CASE \E c \in rwAgents : RW!Propose(c)
  BY <1>2, RWProposeInv
<1>3. CASE RW!Type \/ RW!Open \/ RW!PageSave \/ RW!PageRun \/ RW!PollRead \/ RW!PollShow
  BY <1>3, RWTypeInv, RWOpenInv, RWPageSaveInv, RWPageRunInv, RWPollReadInv, RWPollShowInv
<1>4. CASE \E c \in RW!Callers : \/ RW!Lock(c) \/ RW!Read(c) \/ RW!Health(c) \/ RW!Authorize(c) \/ RW!Write(c)
                                 \/ RW!Post(c) \/ RW!GiveUp(c) \/ RW!Unlock(c)
  BY <1>4, RWLockStepInv, RWReadInv, RWHealthInv, RWAuthorizeInv, RWWriteInv, RWPostInv,
     RWGiveUpInv, RWUnlockInv
<1>5. CASE RW!Take \/ RW!Respond \/ RW!Release \/ RW!Crash \/ RW!ClearLock
  BY <1>5, RWTakeInv, RWRespondInv, RWReleaseInv, RWCrashInv, RWClearLockInv
<1>6. QED
  BY <1>1, <1>2, <1>3, <1>4, <1>5 DEF RW!Next

\* What the invariant says of a state: types, the free runner, the output of a text.
LEMMA RWConsequences == RWSane /\ RWIInv => RW!TypeOK /\ RW!RunnerIsFree /\ RW!OutputIsOfItsText
<1> SUFFICES ASSUME RWSane, RWIInv PROVE RW!TypeOK /\ RW!RunnerIsFree /\ RW!OutputIsOfItsText
  OBVIOUS
<1>1. Cardinality(rwRunning) <= 1
  <2>1. CASE rwRunning = {}
    <3>1. Cardinality(rwRunning) = 0
      BY <2>1, FS_EmptySet
    <3>2. QED
      BY <3>1
  <2>2. CASE rwRunning # {}
    <3>1. PICK r : rwRunning = {r}
      BY <2>2 DEF RWIInv, RWNumbersInv
    <3>2. Cardinality(rwRunning) = 1
      BY <3>1, FS_Singleton
    <3>3. QED
      BY <3>2
  <2>3. QED
    BY <2>1, <2>2
<1>2. /\ \A w \in rwWorkspaces : rwDisk[w] \in RWDocument
      /\ \A c \in RW!Callers : rwJob[c].at \in RWLabels
  BY DEF RWIInv, RWShape, RWWork
<1>3. rwPage.text \in 0..rwMaxTexts /\ rwPage.dirty \in BOOLEAN /\ rwPage.busy \in BOOLEAN
  BY DEF RWIInv, RWShape, RWEditor
<1>4. RW!TypeOK
  BY <1>1, <1>2, <1>3, RWCard DEF RWIInv, RWShape, RW!TypeOK, RWDocument, RWLabels
<1>5. RW!RunnerIsFree
  <2> SUFFICES ASSUME NEW c \in RW!Callers, NEW r \in rwPosted, NEW b \in rwRunning, RW!waiting(c, r)
               PROVE  b.n \in rwLost
    BY DEF RW!RunnerIsFree
  <2>1. RWcommitted(c)
    BY DEF RW!waiting, RWcommitted
  <2>2. ~RW!waiting(c, b)
    <3> SUFFICES ASSUME RW!waiting(c, b) PROVE FALSE
      OBVIOUS
    <3>1. b.n = r.n
      BY DEF RW!waiting
    <3>2. QED
      BY <3>1 DEF RWIInv, RWNumbersInv
  <2>3. QED
    BY <2>1, <2>2 DEF RWIInv, RWWaitInv
<1>6. RW!OutputIsOfItsText
  BY DEF RWIInv, RWTextInv, RWDiskInv, RW!OutputIsOfItsText
<1>7. QED
  BY <1>4, <1>5, <1>6

\* A step replaces a text only by one whose author had seen it.
LEMMA RWUnseenInv == RWSane /\ RWIInv /\ [RW!Next]_(RW!vars) => RW!NothingUnseenIsReplaced
<1> SUFFICES ASSUME RWSane, RWIInv, [RW!Next]_(RW!vars) PROVE RW!NothingUnseenIsReplaced
  OBVIOUS
<1>1. CASE rwDisk' = rwDisk
  BY <1>1 DEF RW!NothingUnseenIsReplaced
<1>2. CASE \E c \in RW!Callers : RW!Write(c)
  BY <1>2, RWWriteFacts DEF RW!NothingUnseenIsReplaced
<1>3. QED
  BY <1>1, <1>2
     DEF RW!vars, RW!Next, RW!Propose, RW!Type, RW!Open, RW!PageSave, RW!PageRun, RW!PageCall, RW!PageOnly, RW!PollRead, RW!PollShow,
         RW!Lock, RW!Read, RW!Health, RW!Authorize, RW!Post, RW!GiveUp, RW!Unlock, RW!Take, RW!Respond, RW!Release, RW!Crash,
         RW!ClearLock, RW!CallOnly

-----------------------------------------------------------------------------
(* The components together *)

\* What is assumed of the constants.
LEMMA Sanity == CWSane /\ cfMaxRows \in Nat /\ RWSane
  BY CrowdmarkAssumption, FilesAssumption, WorkspacesAssumption DEF CWSane, RWSane

\* Whichever of the three runs is in its invariant.
AllInv ==
  /\ part \in Parts
  /\ part = "write" => CWIInv /\ CWTyped /\ CWChangeInv /\ CWAloneInv
  /\ part = "files" => CFIInv
  /\ part = "racket" => RWIInv

\* Each component starts in its invariant.
LEMMA AllInitInv == AllInit => AllInv
<1> SUFFICES ASSUME AllInit PROVE AllInv
  OBVIOUS
<1>1. /\ part \in Parts
      /\ part = "write" => CW!Init
      /\ part = "files" => CF!Init
      /\ part = "racket" => RW!Init
  BY DEF AllInit
<1>2. part = "write" => CWIInv /\ CWTyped /\ CWChangeInv /\ CWAloneInv
  BY <1>1, CWInitInv, CWInitTyped, CWInitAlone, Sanity DEF CWSane
<1>3. part = "files" => CFIInv
  BY <1>1, CFInitInv, Sanity
<1>4. part = "racket" => RWIInv
  BY <1>1, RWInitInv, Sanity
<1>5. QED
  BY <1>1, <1>2, <1>3, <1>4 DEF AllInv

\* A step is a step of each component, or leaves it as it is.
LEMMA Steps ==
  ASSUME [AllNext]_allVars
  PROVE  /\ part' = part /\ [Next]_vars
         /\ [CW!Next]_(CW!vars) /\ [CF!Next]_(CF!vars) /\ [RW!Next]_(RW!vars)
<1>1. /\ CW!vars = cwVars /\ CW!vars' = cwVars' /\ CF!vars = cfVars /\ CF!vars' = cfVars'
      /\ RW!vars = rwVars /\ RW!vars' = rwVars'
  BY DEF cwVars, CW!vars, cfVars, CF!vars, rwVars, RW!vars
<1>2. CASE UNCHANGED allVars
  BY <1>1, <1>2 DEF allVars
<1>3. CASE AllNext
  BY <1>1, <1>3 DEF AllNext, ApprovalsStep, WriteStep, FilesStep, RacketStep
<1>4. QED
  BY <1>2, <1>3

\* Every step keeps the invariant of the component that runs.
LEMMA AllNextInv == AllInv /\ [AllNext]_allVars => AllInv'
<1> SUFFICES ASSUME AllInv, [AllNext]_allVars PROVE AllInv'
  OBVIOUS
<1>1. part' = part /\ part \in Parts
  BY Steps DEF AllInv
<1>2. part = "write" => CWIInv' /\ CWTyped' /\ CWChangeInv' /\ CWAloneInv'
  BY Steps, Sanity, CWNextInv, CWNextTyped, CWNextChange, CWNextAlone DEF AllInv, CWSane
<1>3. part = "files" => CFIInv'
  BY Steps, Sanity, CFNextInv DEF AllInv
<1>4. part = "racket" => RWIInv'
  BY Steps, Sanity, RWNextInv DEF AllInv
<1>5. QED
  BY <1>1, <1>2, <1>3, <1>4 DEF AllInv

\* The invariant holds of every behaviour of every component.
LEMMA AllInvariance == AllSpec => []AllInv
  BY AllInitInv, AllNextInv, PTL DEF AllSpec

\* What the invariant says of each component.
LEMMA AllFollows ==
  ASSUME AllInv
  PROVE  /\ part = "write" => CW!TypeOK /\ CW!NeverReplayed /\ CW!SubmittedAsReviewed
         /\ part = "files" => CF!TypeOK /\ CF!ReadyIsReadable
         /\ part = "racket" => RW!TypeOK /\ RW!RunnerIsFree /\ RW!OutputIsOfItsText
<1>1. part = "write" => CW!TypeOK /\ CW!NeverReplayed /\ CW!SubmittedAsReviewed
  BY CWConsequences, Sanity DEF AllInv
<1>2. part = "files" => CF!TypeOK /\ CF!ReadyIsReadable
  BY CFConsequences, Sanity DEF AllInv
<1>3. part = "racket" => RW!TypeOK /\ RW!RunnerIsFree /\ RW!OutputIsOfItsText
  BY RWConsequences, Sanity DEF AllInv
<1>4. QED
  BY <1>1, <1>2, <1>3

\* The approvals behave as they do alone.
LEMMA ApprovalsAlone == AllSpec => Spec
<1>1. AllInit => Init
  BY DEF AllInit
<1>2. [AllNext]_allVars => [Next]_vars
  BY Steps
<1>3. QED
  BY <1>1, <1>2, PTL DEF AllSpec, Spec

\* Type correctness of the approvals and of the three writers; in particular the queue of
\* Crowdmark calls and the runner's lock keep their limits.
THEOREM WritesTypeCorrect == AllSpec => []WritesTyped
<1>1. AllInv /\ TypeOK => WritesTyped
  <2> SUFFICES ASSUME AllInv, TypeOK PROVE WritesTyped
    OBVIOUS
  <2>1. part \in Parts
    BY DEF AllInv
  <2>2. QED
    BY <2>1, AllFollows DEF WritesTyped, Parts
<1>2. QED
  BY <1>1, AllInvariance, ApprovalsAlone, TypeCorrect, PTL

\* crowdmark.mjs: an action id is carried out once, each photo or text is sent once, and
\* what is submitted is what the owner approved, over retries, further approvals, unknown
\* outcomes, kills and whatever another editor changes meanwhile.
THEOREM NeverTwice == AllSpec => []NeverReplayed
<1>1. AllInv => NeverReplayed
  BY AllFollows DEF NeverReplayed
<1>2. QED
  BY <1>1, AllInvariance, PTL

\* crowdmark.mjs: a call answered "changed" has sent nothing, and one answered "saved"
\* while nobody else was at work has stored every photo and text, in order, after the
\* pages that were there, although a text may still be on its way.
THEOREM AnswersTrue == AllSpec => AnswersAreTrue
<1>1. AllInv /\ [AllNext]_allVars
        => [part = "write" => CW!ChangedIsUntouched /\ CW!SavedIsStored]_allVars
  BY Steps, Sanity, CWTrueAnswers DEF AllInv
<1>2. QED
  BY <1>1, AllInvariance, PTL DEF AllSpec, AnswersAreTrue

\* crowdmark-files.mjs: an upload answered "ready" keeps its row and its photo until it
\* expires, beside sweeps, other uploads and kills, and the rows keep their limit.
THEOREM ReadyReadable == AllSpec => []ReadyIsReadable
<1>1. AllInv => ReadyIsReadable
  BY AllFollows DEF ReadyIsReadable
<1>2. QED
  BY <1>1, AllInvariance, PTL

\* racket-workspace.mjs, server.py: a run whose approval is used finds the runner free
\* unless an earlier run was given up, and the output kept with a text is that text's.
THEOREM RunsSound == AllSpec => []RunsAreSound
<1>1. AllInv => RunsAreSound
  BY AllFollows DEF RunsAreSound
<1>2. QED
  BY <1>1, AllInvariance, PTL

\* racket-workspace.mjs, racket.js: a save replaces only the text its author has seen,
\* however long an approval or the owner's page took.
THEOREM UnseenIsKept == AllSpec => NothingUnseenIsReplaced
<1>1. AllInv /\ [AllNext]_allVars => [part = "racket" => RW!NothingUnseenIsReplaced]_allVars
  BY Steps, Sanity, RWUnseenInv DEF AllInv
<1>2. QED
  BY <1>1, AllInvariance, PTL DEF AllSpec, NothingUnseenIsReplaced

=============================================================================
