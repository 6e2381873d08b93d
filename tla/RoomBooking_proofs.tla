------------------------ MODULE RoomBooking_proofs ------------------------
(******************************************************************************)
(* Safety of study-room booking for any number of calls, requests, slots,     *)
(* parties and process kills.                                                 *)
(******************************************************************************)
EXTENDS RoomBooking, TLAPS

Working == Labels \ {"idle", "bookLoad", "cancelLoad", "release"}

live == wire \cup held

\* The write.lock directory makes the calls take turns.
OneHolder ==
  /\ \A c, d \in Calls : pc[c] # "idle" /\ pc[d] # "idle" => c = d
  /\ \A c \in Calls : pc[c] # "idle" => lock

\* A call changes only its own record of the journal.
OthersKept ==
  \A c \in Calls : pc[c] \in Working =>
    \A q \in Requests : q # req[c] => mem[c][q] = journal[q]

saved(c) == journal[req[c]]

\* The call may still attempt: nothing outstanding under its request or
\* its signature, and its own copy is at the given status.
Before(c, status) ==
  /\ mayAttempt(journal, req[c], sig[c])
  /\ mine(c).status = status
  /\ mine(c).sig = sig[c]

\* What each await of book() knows.
BookInv(c) ==
  /\ pc[c] = "prepare" => mayAttempt(journal, req[c], sig[c])
  /\ pc[c] \in {"savePreparing", "drive"} => Before(c, "preparing")
  /\ pc[c] = "saveSubmitting" => Before(c, "submitting")
  /\ pc[c] = "diagnose" =>
       \/ Before(c, "preparing")
       \/ Before(c, "submitting")
  /\ pc[c] = "click" =>
       /\ submits[req[c]] = 0
       /\ mine(c) = saved(c)
       /\ saved(c).status = "submitting"
       /\ saved(c).sig = sig[c]
       /\ \A q \in Requests \ {req[c]} :
            journal[q].sig = sig[c] => journal[q].status \notin Outstanding
  /\ pc[c] \in {"await", "saveConfirmed"} =>
       /\ saved(c).status = "submitting"
       /\ saved(c).sig = sig[c]
       /\ mine(c).sig = sig[c]
  /\ pc[c] = "saveConfirmed" =>
       /\ mine(c).status = "confirmed"
       /\ thisCheckout(c) \in held

\* What each await of cancel() knows.
CancelInv(c) ==
  /\ pc[c] \in CancelLabels \ {"cancelLoad"} => mine(c).sig = saved(c).sig
  /\ pc[c] \in {"cancelDrive", "saveCancelling"} =>
       saved(c).status = "confirmed"
  /\ pc[c] = "saveCancelling" => mine(c).status = "cancelling"
  /\ pc[c] \in {"navigate", "cancelAwait", "saveCancelled"} =>
       saved(c).status = "cancelling"
  /\ pc[c] = "navigate" => cancels[req[c]] = 0
  /\ pc[c] \in {"cancelAwait", "saveCancelled"} => cancels[req[c]] > 0
  /\ pc[c] = "saveCancelled" =>
       /\ mine(c).status = "cancelled"
       /\ \A x \in live : x.req # req[c]

\* The catch blocks: "failed" only for a request never sent, "unknown" only
\* for one already on disk as an attempt.
OutcomeInv(c) ==
  pc[c] = "saveOutcome" =>
    \/ /\ mine(c).status = "failed"
       /\ submits[req[c]] = 0
       /\ cancels[req[c]] = 0
    \/ /\ mine(c).status = "unknown"
       /\ mine(c).sig = saved(c).sig
       /\ saved(c).status \in Outstanding \ {"confirmed"}
       /\ saved(c).status = "cancelling" => cancels[req[c]] > 0

CallInv == \A c \in Calls : BookInv(c) /\ CancelInv(c) /\ OutcomeInv(c)

\* Clicks and navigations are on disk, and leave the journal no way back.
SentRecorded ==
  /\ \A r \in Requests :
       submits[r] > 0 => journal[r].status \in Outstanding \cup {"cancelled"}
  /\ \A r \in Requests :
       cancels[r] > 0 =>
         journal[r].status \in {"cancelling", "unknown", "cancelled"}
  /\ \A x \in live : submits[x.req] > 0
  /\ \A r \in cwire : cancels[r] > 0

\* A checkout is either on its way or held; after a confirmation it is not on
\* its way any more.
CheckoutOnce ==
  /\ wire \cap held = {}
  /\ \A r \in Requests :
       journal[r].status \in {"confirmed", "cancelling", "cancelled"} =>
         \A x \in wire : x.req # r

\* The part of the invariant that speaks of the journal and the library only.
Promises ==
  /\ SentRecorded
  /\ CheckoutOnce
  /\ SubmitAtMostOnce
  /\ CancelAtMostOnce
  /\ OneReservationPerSignature
  /\ LiveIsJournalled
  /\ ConfirmedIsHeld

IInv ==
  /\ TypeOK
  /\ OneHolder
  /\ OthersKept
  /\ CallInv
  /\ Promises

-----------------------------------------------------------------------------
(* Types *)

\* The gateway starts with an empty journal and no call under way.
LEMMA InitType == Init => TypeOK
<1> SUFFICES ASSUME Init PROVE TypeOK
  OBVIOUS
<1>1. NoRecord \in Record
  BY DEF NoRecord, Record, Statuses
<1>2. Empty \in [Requests -> Record]
  BY <1>1 DEF Empty
<1> QED
  BY <1>2 DEF Init, TypeOK, Labels, Checkout

\* A call moves to one of the awaits of the code.
LEMMA GotoType ==
  ASSUME TypeOK, NEW c \in Calls, NEW label \in Labels, Goto(c, label)
  PROVE  pc' \in [Calls -> Labels]
  BY DEF TypeOK, Goto

\* Replacing one record of a call's copy keeps the copy's type.
LEMMA RerecordType ==
  ASSUME TypeOK, NEW c \in Calls, NEW r \in Requests, NEW rec \in Record,
         mem' = [mem EXCEPT ![c][r] = rec]
  PROVE  mem' \in [Calls -> [Requests -> Record]]
  BY DEF TypeOK

\* record.status = status keeps the type of the call's copy.
LEMMA MarkType ==
  ASSUME TypeOK, NEW c \in Calls, NEW status \in Statuses, Mark(c, status)
  PROVE  mem' \in [Calls -> [Requests -> Record]]
<1>1. mine(c) \in Record /\ req[c] \in Requests
  BY DEF TypeOK, mine
<1>2. mem' = [mem EXCEPT ![c][req[c]] = [mine(c) EXCEPT !.status = status]]
  BY DEF TypeOK, Mark, mine
<1>3. [mine(c) EXCEPT !.status = status] \in Record
  BY <1>1 DEF Record
<1> QED
  BY <1>1, <1>2, <1>3, RerecordType

\* A save, complete or failed, leaves a journal of records.
LEMMA SaveType ==
  ASSUME TypeOK, NEW c \in Calls, Save(c) \/ UNCHANGED journal
  PROVE  journal' \in [Requests -> Record]
  BY DEF TypeOK, Save

\* No step of book() leaves the types.
LEMMA BookType ==
  ASSUME TypeOK, NEW c \in Calls, BookStep(c)
  PROVE  TypeOK'
<1> USE DEF diskVars, libraryVars, sentVars
<1>l. {"prepare", "savePreparing", "drive", "saveSubmitting", "diagnose",
       "click", "await", "saveConfirmed", "saveOutcome", "release"}
        \subseteq Labels
  BY DEF Labels, BookLabels
<1>s. {"preparing", "submitting", "unknown", "confirmed", "failed"}
        \subseteq Statuses
  BY DEF Statuses
<1>1. CASE LoadBook(c)
  BY <1>1, <1>l, GotoType DEF LoadBook, TypeOK
<1>2. CASE Prepare(c)
  <2>1. mine(c) \in Record /\ req[c] \in Requests /\ sig[c] \in Signatures
    BY DEF TypeOK, mine
  <2>2. [mine(c) EXCEPT !.status = "preparing", !.sig = sig[c]] \in Record
    BY <2>1, <1>s DEF Record
  <2>3. ASSUME mem' = [mem EXCEPT ![c][req[c]] =
                         [@ EXCEPT !.status = "preparing", !.sig = sig[c]]]
        PROVE  mem' \in [Calls -> [Requests -> Record]]
    <3>1. mem' = [mem EXCEPT ![c][req[c]] =
                    [mine(c) EXCEPT !.status = "preparing", !.sig = sig[c]]]
      BY <2>3 DEF TypeOK, mine
    <3> QED
      BY <3>1, <2>1, <2>2, RerecordType
  <2>4. mem' \in [Calls -> [Requests -> Record]]
    BY <1>2, <2>3 DEF Prepare, TypeOK
  <2> QED
    BY <1>2, <1>l, <2>4, GotoType DEF Prepare, TypeOK
<1>3. CASE SavePreparing(c)
  BY <1>3, <1>l, GotoType, SaveType DEF SavePreparing, TypeOK
<1>4. CASE Drive(c)
  BY <1>4, <1>l, <1>s, GotoType, MarkType DEF Drive, TypeOK
<1>5. CASE SaveSubmitting(c)
  BY <1>5, <1>l, GotoType, SaveType DEF SaveSubmitting, TypeOK
<1>6. CASE Diagnose(c)
  BY <1>6, <1>l, <1>s, GotoType, MarkType, SaveType DEF Diagnose, TypeOK
<1>7. CASE Click(c)
  <2>1. thisCheckout(c) \in Checkout
    BY DEF TypeOK, thisCheckout, Checkout
  <2>2. mem' \in [Calls -> [Requests -> Record]]
    BY <1>7, <1>s, MarkType DEF Click, TypeOK
  <2>3. wire' \in SUBSET Checkout /\ submits' \in [Requests -> Nat]
    BY <1>7, <2>1 DEF Click, TypeOK
  <2>4. pc' \in [Calls -> Labels]
    BY <1>7, <1>l, GotoType DEF Click
  <2> QED
    BY <1>7, <2>2, <2>3, <2>4 DEF Click, TypeOK
<1>8. CASE Answer(c)
  <2>1. ASSUME NEW link \in BOOLEAN,
               mem' = [mem EXCEPT ![c][req[c]] =
                         [@ EXCEPT !.status = "confirmed", !.url = link]]
        PROVE  mem' \in [Calls -> [Requests -> Record]]
    <3>1. mine(c) \in Record /\ req[c] \in Requests
      BY DEF TypeOK, mine
    <3>2. [mine(c) EXCEPT !.status = "confirmed", !.url = link] \in Record
      BY <3>1, <1>s DEF Record
    <3> QED
      BY <2>1, <3>1, <3>2 DEF TypeOK, mine
  <2>2. mem' \in [Calls -> [Requests -> Record]]
    BY <1>8, <2>1, <1>s, MarkType DEF Answer
  <2> QED
    BY <1>8, <2>2, <1>l, GotoType DEF Answer, TypeOK
<1>9. CASE SaveConfirmed(c)
  BY <1>9, <1>l, <1>s, GotoType, MarkType, SaveType
     DEF SaveConfirmed, TypeOK
<1> QED
  BY <1>1, <1>2, <1>3, <1>4, <1>5, <1>6, <1>7, <1>8, <1>9 DEF BookStep

\* No step of cancel() leaves the types.
LEMMA CancelType ==
  ASSUME TypeOK, NEW c \in Calls, CancelStep(c)
  PROVE  TypeOK'
<1> USE DEF diskVars, libraryVars, sentVars
<1>l. {"cancelDrive", "saveCancelling", "navigate", "cancelAwait",
       "saveCancelled", "saveOutcome", "release"} \subseteq Labels
  BY DEF Labels, CancelLabels
<1>s. {"cancelling", "cancelled", "unknown"} \subseteq Statuses
  BY DEF Statuses
<1>1. CASE LoadCancel(c)
  BY <1>1, <1>l, GotoType DEF LoadCancel, TypeOK
<1>2. CASE CancelDrive(c)
  BY <1>2, <1>l, <1>s, GotoType, MarkType DEF CancelDrive, TypeOK
<1>3. CASE SaveCancelling(c)
  BY <1>3, <1>l, GotoType, SaveType DEF SaveCancelling, TypeOK
<1>4. CASE Navigate(c)
  <2>1. mem' \in [Calls -> [Requests -> Record]]
    BY <1>4, <1>s, MarkType DEF Navigate, TypeOK
  <2>2. cwire' \in SUBSET Requests /\ cancels' \in [Requests -> Nat]
    BY <1>4 DEF Navigate, TypeOK
  <2>3. pc' \in [Calls -> Labels]
    BY <1>4, <1>l, GotoType DEF Navigate
  <2> QED
    BY <1>4, <2>1, <2>2, <2>3 DEF Navigate, TypeOK
<1>5. CASE CancelAnswer(c)
  BY <1>5, <1>l, <1>s, GotoType, MarkType DEF CancelAnswer, TypeOK
<1>6. CASE SaveCancelled(c)
  BY <1>6, <1>l, <1>s, GotoType, MarkType, SaveType
     DEF SaveCancelled, TypeOK
<1> QED
  BY <1>1, <1>2, <1>3, <1>4, <1>5, <1>6 DEF CancelStep

\* No step of the calls, the library or the operator leaves the types.
LEMMA NextType == TypeOK /\ [Next]_vars => TypeOK'
<1> SUFFICES ASSUME TypeOK, [Next]_vars PROVE TypeOK'
  OBVIOUS
<1> USE DEF diskVars, libraryVars, sentVars, callVars
<1>l. {"idle", "bookLoad", "cancelLoad", "release"} \subseteq Labels
  BY DEF Labels, BookLabels, CancelLabels
<1>e. Empty \in [Requests -> Record]
  BY DEF Empty, NoRecord, Record, Statuses
<1>1. ASSUME NEW c \in Calls, Step(c) PROVE TypeOK'
  <2>1. CASE BookStep(c)
    BY <2>1, BookType
  <2>2. CASE CancelStep(c)
    BY <2>2, CancelType
  <2>3. CASE SaveOutcome(c)
    BY <2>3, <1>l, GotoType, SaveType DEF SaveOutcome, TypeOK
  <2>4. CASE Release(c)
    BY <2>4, <1>l, <1>e, GotoType DEF Release, TypeOK
  <2> QED
    BY <1>1, <2>1, <2>2, <2>3, <2>4 DEF Step
<1>2. ASSUME NEW c \in Calls, NEW r \in Requests, NEW s \in Signatures,
             StartBook(c, r, s)
      PROVE  TypeOK'
  BY <1>2, <1>l, GotoType DEF StartBook, TakeLock, TypeOK
<1>3. ASSUME NEW c \in Calls, NEW r \in Requests, StartCancel(c, r)
      PROVE  TypeOK'
  BY <1>3, <1>l, GotoType DEF StartCancel, TakeLock, TypeOK
<1>4. ASSUME NEW x \in wire, LandCheckout(x) PROVE TypeOK'
  BY <1>4 DEF LandCheckout, TypeOK
<1>5. ASSUME NEW r \in cwire, LandCancel(r) PROVE TypeOK'
  BY <1>5 DEF LandCancel, TypeOK
<1>6. CASE Crash
  BY <1>6, <1>l, <1>e DEF Crash, TypeOK
<1>7. CASE ClearStaleLock
  BY <1>7 DEF ClearStaleLock, TypeOK
<1>8. CASE UNCHANGED vars
  BY <1>8 DEF vars, TypeOK
<1> QED
  BY <1>1, <1>2, <1>3, <1>4, <1>5, <1>6, <1>7, <1>8 DEF Next

\* Type correctness for every instance: no call, answer, failed save or kill
\* takes a variable out of its type.
THEOREM TypeCorrect == Spec => []TypeOK
  BY InitType, NextType, PTL DEF Spec

-----------------------------------------------------------------------------
(* What a step may do to the promises *)

\* A step that touches neither the journal nor the library keeps them.
LEMMA QuietStep ==
  ASSUME Promises, UNCHANGED <<journal, libraryVars, sentVars>>
  PROVE  Promises'
  BY DEF Promises, SentRecorded, CheckoutOnce, SubmitAtMostOnce,
         CancelAtMostOnce, OneReservationPerSignature, LiveIsJournalled,
         ConfirmedIsHeld, libraryVars, sentVars, live

\* Conditions under which one record of the journal may be replaced.
Replaceable(r, rec) ==
  /\ submits[r] > 0 =>
       /\ rec.status \in Outstanding \cup {"cancelled"}
       /\ rec.sig = journal[r].sig
  /\ cancels[r] > 0 => rec.status \in {"cancelling", "unknown", "cancelled"}
  /\ rec.status = "confirmed" => \E x \in held : x.req = r
  /\ rec.status \in {"confirmed", "cancelling", "cancelled"} =>
       \A x \in wire : x.req # r
  /\ rec.status = "cancelled" => \A x \in live : x.req # r

\* A record that may replace the one on disk keeps every promise.
LEMMA ReplaceRecord ==
  ASSUME TypeOK, Promises, NEW r \in Requests, NEW rec \in Record,
         Replaceable(r, rec),
         journal' = [journal EXCEPT ![r] = rec],
         UNCHANGED <<libraryVars, sentVars>>
  PROVE  Promises'
<1> USE DEF Promises
<1>1. /\ journal'[r] = rec
      /\ \A q \in Requests \ {r} : journal'[q] = journal[q]
  BY DEF TypeOK
<1>2. \A x \in live : x.req \in Requests
  BY DEF TypeOK, Checkout, live
<1>3. UNCHANGED <<wire, held, cwire, live, submits, cancels>>
  BY DEF libraryVars, sentVars, live
<1>4. SentRecorded'
  BY <1>1, <1>2, <1>3 DEF SentRecorded, Replaceable
<1>5. CheckoutOnce'
  BY <1>1, <1>3 DEF CheckoutOnce, Replaceable
<1>6. (SubmitAtMostOnce /\ CancelAtMostOnce /\ OneReservationPerSignature)'
  BY <1>3 DEF SubmitAtMostOnce, CancelAtMostOnce, OneReservationPerSignature
<1>7. LiveIsJournalled'
  <2> SUFFICES ASSUME NEW x \in live
               PROVE  /\ journal'[x.req].sig = x.sig
                      /\ journal'[x.req].status \in Outstanding
    BY <1>3 DEF LiveIsJournalled, live
  <2>1. CASE x.req = r
    BY <2>1, <1>1, <1>2
       DEF SentRecorded, Replaceable, LiveIsJournalled, Outstanding, live
  <2>2. CASE x.req # r
    BY <2>2, <1>1, <1>2 DEF LiveIsJournalled, live
  <2> QED
    BY <2>1, <2>2
<1>8. ConfirmedIsHeld'
  BY <1>1, <1>3 DEF ConfirmedIsHeld, Replaceable
<1> QED
  BY <1>4, <1>5, <1>6, <1>7, <1>8

\* A save by a working call replaces exactly its own record.
LEMMA SaveReplaces ==
  ASSUME TypeOK, OthersKept, NEW c \in Calls, pc[c] \in Working, Save(c)
  PROVE  /\ journal' = [journal EXCEPT ![req[c]] = mine(c)]
         /\ mine(c) \in Record
         /\ req[c] \in Requests
<1>1. mem[c] \in [Requests -> Record] /\ req[c] \in Requests
  BY DEF TypeOK
<1>2. \A q \in Requests : q # req[c] => mem[c][q] = journal[q]
  BY DEF OthersKept
<1> QED
  BY <1>1, <1>2 DEF Save, mine, TypeOK

\* A save that may fail keeps the promises if its record may replace the old.
LEMMA SaveKeeps ==
  ASSUME TypeOK, OthersKept, Promises, NEW c \in Calls, pc[c] \in Working,
         Save(c) \/ UNCHANGED journal, UNCHANGED <<libraryVars, sentVars>>,
         Replaceable(req[c], mine(c))
  PROVE  Promises'
  BY SaveReplaces, ReplaceRecord, QuietStep

\* Before a call has clicked, its request was never submitted or cancelled.
LEMMA Unsent ==
  ASSUME TypeOK, Promises, NEW r \in Requests,
         journal[r].status \notin Outstanding \cup {"cancelled"}
  PROVE  submits[r] = 0 /\ cancels[r] = 0
  BY DEF TypeOK, Promises, SentRecorded, Outstanding

\* The lock makes every other call idle.
LEMMA Alone ==
  ASSUME OneHolder, NEW c \in Calls, pc[c] # "idle"
  PROVE  lock /\ \A d \in Calls : d # c => pc[d] = "idle"
  BY DEF OneHolder

-----------------------------------------------------------------------------
(* The steps of a call *)

Local(c) == BookInv(c) /\ CancelInv(c) /\ OutcomeInv(c)

\* While call c runs alone, a step of c keeps what is said of the calls if it
\* keeps what is said of c.
LEMMA Frame ==
  ASSUME TypeOK, OneHolder, NEW c \in Calls, pc[c] # "idle",
         NEW label, label # "idle", Goto(c, label), UNCHANGED lock,
         label \in Working =>
           \A q \in Requests : q # req'[c] => mem'[c][q] = journal'[q],
         Local(c)'
  PROVE  OneHolder' /\ OthersKept' /\ CallInv'
<1>1. /\ pc'[c] = label
      /\ \A d \in Calls : d # c => pc'[d] = "idle"
  BY Alone DEF Goto, TypeOK
<1>2. OneHolder'
  BY <1>1, Alone DEF OneHolder
<1>3. OthersKept'
  BY <1>1 DEF OthersKept, Working
<1>4. ASSUME NEW d \in Calls PROVE Local(d)'
  <2>1. CASE d = c
    BY <2>1
  <2>2. CASE d # c
    BY <2>2, <1>1
       DEF Local, BookInv, CancelInv, OutcomeInv, CancelLabels
  <2> QED
    BY <2>1, <2>2
<1> QED
  BY <1>2, <1>3, <1>4 DEF CallInv, Local

\* record.status = status changes the status of the call's own record only.
LEMMA MarkOwn ==
  ASSUME TypeOK, NEW c \in Calls, NEW status, Mark(c, status), UNCHANGED req
  PROVE  /\ mine(c)'.status = status
         /\ mine(c)'.sig = mine(c).sig
         /\ \A q \in Requests : q # req[c] => mem'[c][q] = mem[c][q]
<1>1. mine(c) \in Record /\ req[c] \in Requests
      /\ mem[c] \in [Requests -> Record]
  BY DEF TypeOK, mine
<1> QED
  BY <1>1 DEF Mark, mine, TypeOK, Record

\* After a save, or a failed one, the other records are still those of the call.
LEMMA SaveOthers ==
  ASSUME TypeOK, OthersKept, NEW c \in Calls, pc[c] \in Working,
         Save(c) \/ UNCHANGED journal,
         \A q \in Requests : q # req[c] => mem'[c][q] = mem[c][q]
  PROVE  \A q \in Requests : q # req[c] =>
           mem'[c][q] = journal'[q] /\ journal'[q] = journal[q]
  BY SaveReplaces DEF TypeOK, OthersKept

\* A request that may be attempted was never submitted, and never cancelled.
LEMMA Fresh ==
  ASSUME TypeOK, Promises, NEW c \in Calls,
         mayAttempt(journal, req[c], sig[c])
  PROVE  submits[req[c]] = 0 /\ cancels[req[c]] = 0
<1>1. req[c] \in Requests
  BY DEF TypeOK
<1>2. journal[req[c]].status \notin Outstanding \cup {"cancelled"}
  BY <1>1 DEF mayAttempt, Outstanding
<1> QED
  BY <1>1, <1>2, Unsent

\* A step to release, or one that keeps the call's copy, needs nothing more.
LEMMA Leaves ==
  ASSUME IInv, TypeOK', NEW c \in Calls, pc[c] # "idle", Goto(c, "release"),
         UNCHANGED lock, Promises'
  PROVE  IInv'
<1>1. pc'[c] = "release"
  BY DEF IInv, Goto, TypeOK
<1>2. Local(c)'
  BY <1>1 DEF Local, BookInv, CancelInv, OutcomeInv, CancelLabels
<1> QED
  BY <1>2, Frame DEF IInv, Working

\* An uncertain answer marks the record "unknown" and goes on to save it.
LEMMA GivesUp ==
  ASSUME IInv, TypeOK', NEW c \in Calls, pc[c] # "idle",
         mine(c).sig = saved(c).sig,
         saved(c).status \in Outstanding \ {"confirmed"},
         saved(c).status = "cancelling" => cancels'[req[c]] > 0,
         \A q \in Requests : q # req[c] => mem[c][q] = journal[q],
         Mark(c, "unknown"), Goto(c, "saveOutcome"),
         UNCHANGED <<journal, req, lock>>, Promises'
  PROVE  IInv'
<1> USE DEF IInv
<1>1. pc'[c] = "saveOutcome"
  BY DEF Goto, TypeOK
<1>2. /\ mine(c)'.status = "unknown"
      /\ mine(c)'.sig = mine(c).sig
      /\ \A q \in Requests : q # req[c] => mem'[c][q] = mem[c][q]
  BY MarkOwn
<1>3. Local(c)'
  BY <1>1, <1>2
     DEF Local, BookInv, CancelInv, OutcomeInv, CancelLabels, saved
<1> QED
  BY <1>2, <1>3, Frame

\* The click is the first of its request and the only one of its signature.
LEMMA ClickKeeps ==
  ASSUME IInv, TypeOK', NEW c \in Calls, Click(c)
  PROVE  IInv'
<1> USE DEF IInv, diskVars
<1>1. /\ UNCHANGED <<journal, req, sig, lock, held, cwire, cancels>>
      /\ pc[c] = "click"
      /\ submits' = [submits EXCEPT ![req[c]] = @ + 1]
      /\ req[c] \in Requests
      /\ \A x \in live : x.req \in Requests
  BY DEF Click, TypeOK, live, Checkout
<1>2. /\ submits[req[c]] = 0
      /\ mine(c) = saved(c)
      /\ saved(c).status = "submitting"
      /\ saved(c).sig = sig[c]
      /\ \A q \in Requests \ {req[c]} :
           journal[q].sig = sig[c] => journal[q].status \notin Outstanding
      /\ \A q \in Requests : q # req[c] => mem[c][q] = journal[q]
  BY <1>1 DEF CallInv, BookInv, OthersKept, Working, Labels, BookLabels
<1>3. /\ submits'[req[c]] = 1
      /\ \A r \in Requests : r # req[c] => submits'[r] = submits[r]
  BY <1>1, <1>2 DEF TypeOK
<1>4. \A x \in live : x.req # req[c] /\ x.sig # sig[c]
  BY <1>1, <1>2 DEF Promises, SentRecorded, LiveIsJournalled, live
<1>5. wire' = wire \/ wire' = wire \cup {thisCheckout(c)}
  BY DEF Click
<1>6. thisCheckout(c).req = req[c] /\ thisCheckout(c).sig = sig[c]
  BY DEF thisCheckout
<1>7. \A x \in live' : x \in live \/ x = thisCheckout(c)
  BY <1>1, <1>5 DEF live
<1>8. Promises'
  <2> USE DEF Promises
  <2>1. SentRecorded'
    BY <1>1, <1>2, <1>3, <1>6, <1>7 DEF SentRecorded, saved, Outstanding
  <2>2. CheckoutOnce'
    BY <1>1, <1>2, <1>4, <1>5, <1>6 DEF CheckoutOnce, live, saved
  <2>3. SubmitAtMostOnce' /\ CancelAtMostOnce' /\ ConfirmedIsHeld'
    BY <1>1, <1>3 DEF SubmitAtMostOnce, CancelAtMostOnce, ConfirmedIsHeld
  <2>4. OneReservationPerSignature'
    BY <1>4, <1>6, <1>7 DEF OneReservationPerSignature, live
  <2>5. LiveIsJournalled'
    BY <1>1, <1>2, <1>6, <1>7
       DEF LiveIsJournalled, live, saved, Outstanding
  <2> QED
    BY <2>1, <2>2, <2>3, <2>4, <2>5
<1>9. CASE UNCHANGED mem /\ Goto(c, "await")
  <2>1. pc'[c] = "await"
    BY <1>9 DEF Goto, TypeOK
  <2>2. Local(c)'
    BY <1>1, <1>2, <1>9, <2>1
       DEF Local, BookInv, CancelInv, OutcomeInv, CancelLabels, saved, mine
  <2> QED
    BY <1>1, <1>2, <1>8, <1>9, <2>2, Frame
<1>10. CASE Mark(c, "unknown") /\ Goto(c, "saveOutcome")
  <2>1. pc'[c] = "saveOutcome"
    BY <1>10 DEF Goto, TypeOK
  <2>2. /\ mine(c)'.status = "unknown"
        /\ mine(c)'.sig = mine(c).sig
        /\ \A q \in Requests : q # req[c] => mem'[c][q] = mem[c][q]
    BY <1>1, <1>10, MarkOwn
  <2>3. Local(c)'
    BY <1>1, <1>2, <2>1, <2>2
       DEF Local, BookInv, CancelInv, OutcomeInv, CancelLabels, saved,
           Outstanding
  <2> QED
    BY <1>1, <1>2, <1>8, <1>10, <2>2, <2>3, Frame
<1> QED
  BY <1>9, <1>10 DEF Click

\* A confirmation is saved only when the checkout it confirms is held, and the
\* only one of its request.
LEMMA SaveConfirmedKeeps ==
  ASSUME IInv, TypeOK', NEW c \in Calls, SaveConfirmed(c)
  PROVE  IInv'
<1> USE DEF IInv
<1>1. /\ UNCHANGED <<req, sig, lock, libraryVars, sentVars>>
      /\ pc[c] = "saveConfirmed" /\ pc[c] \in Working
      /\ Save(c) \/ UNCHANGED journal
      /\ req[c] \in Requests
  BY DEF SaveConfirmed, Working, Labels, BookLabels, TypeOK
<1>2. /\ saved(c).status = "submitting"
      /\ saved(c).sig = sig[c]
      /\ mine(c).sig = sig[c]
      /\ mine(c).status = "confirmed"
      /\ thisCheckout(c) \in held
  BY <1>1 DEF CallInv, BookInv
<1>3. thisCheckout(c).req = req[c] /\ thisCheckout(c).sig = sig[c]
  BY DEF thisCheckout
<1>4. ASSUME NEW x \in wire, x.req = req[c] PROVE FALSE
  <2>1. x.sig = sig[c]
    BY <1>2, <1>4 DEF Promises, LiveIsJournalled, saved
  <2>2. x = thisCheckout(c)
    BY <1>2, <1>3, <1>4, <2>1 DEF Promises, OneReservationPerSignature
  <2> QED
    BY <1>2, <1>4, <2>2 DEF Promises, CheckoutOnce
<1>5. cancels[req[c]] = 0
  <2>1. cancels[req[c]] \in Nat
    BY <1>1 DEF TypeOK
  <2>2. ~(cancels[req[c]] > 0)
    BY <1>1, <1>2 DEF Promises, SentRecorded, saved
  <2> QED
    BY <2>1, <2>2
<1>6. Replaceable(req[c], mine(c))
  BY <1>1, <1>2, <1>3, <1>4, <1>5 DEF Replaceable, saved, Outstanding
<1>7. Promises'
  BY <1>1, <1>6, SaveKeeps
<1>8. CASE Goto(c, "release")
  BY <1>1, <1>7, <1>8, Leaves
<1>9. CASE /\ UNCHANGED journal /\ Mark(c, "unknown")
           /\ Goto(c, "saveOutcome")
  <2>1. pc'[c] = "saveOutcome"
    BY <1>9 DEF Goto, TypeOK
  <2>2. /\ mine(c)'.status = "unknown"
        /\ mine(c)'.sig = mine(c).sig
        /\ \A q \in Requests : q # req[c] => mem'[c][q] = mem[c][q]
    BY <1>1, <1>9, MarkOwn
  <2>3. \A q \in Requests : q # req[c] => mem'[c][q] = journal'[q]
    BY <1>1, <2>2, SaveOthers
  <2>4. Local(c)'
    BY <1>1, <1>2, <1>9, <2>1, <2>2
       DEF Local, BookInv, CancelInv, OutcomeInv, CancelLabels, saved,
           Outstanding
  <2> QED
    BY <1>1, <1>7, <1>9, <2>3, <2>4, Frame
<1> QED
  BY <1>8, <1>9 DEF SaveConfirmed

\* Every step of book() keeps the invariant.
LEMMA BookKeeps ==
  ASSUME IInv, TypeOK', NEW c \in Calls, BookStep(c)
  PROVE  IInv'
<1> USE DEF IInv, diskVars
<1>r. /\ req[c] \in Requests /\ sig[c] \in Signatures
      /\ mine(c) \in Record /\ journal \in [Requests -> Record]
      /\ mem[c] \in [Requests -> Record]
  BY DEF TypeOK, mine
<1>i. Local(c)
  BY DEF CallInv, Local
<1>k. pc[c] \in Working =>
        \A q \in Requests : q # req[c] => mem[c][q] = journal[q]
  BY DEF OthersKept
<1>1. CASE LoadBook(c)
  <2>1. PICK label \in {"prepare", "release"} :
          /\ Goto(c, label)
          /\ label = "prepare" => mayAttempt(journal, req[c], sig[c])
    BY <1>1 DEF LoadBook
  <2>2. pc'[c] = label /\ mem'[c] = journal /\ UNCHANGED <<journal, req, sig>>
    BY <1>1, <2>1 DEF LoadBook, Goto, TypeOK
  <2>3. Local(c)'
    BY <2>1, <2>2 DEF Local, BookInv, CancelInv, OutcomeInv, CancelLabels
  <2>4. Promises'
    BY <1>1, QuietStep DEF LoadBook
  <2> QED
    BY <1>1, <2>1, <2>2, <2>3, <2>4, Frame DEF LoadBook
<1>2. CASE Prepare(c)
  <2>1. UNCHANGED <<journal, req, sig, lock>> /\ pc[c] = "prepare"
    BY <1>2 DEF Prepare
  <2>2. Promises'
    BY <1>2, QuietStep DEF Prepare
  <2>3. CASE Goto(c, "release") /\ UNCHANGED mem
    <3>1. pc'[c] = "release"
      BY <2>3 DEF Goto, TypeOK
    <3>2. Local(c)'
      BY <3>1 DEF Local, BookInv, CancelInv, OutcomeInv, CancelLabels
    <3> QED
      BY <2>1, <2>2, <2>3, <3>2, Frame DEF Working
  <2>4. CASE /\ mem' = [mem EXCEPT ![c][req[c]] =
                          [@ EXCEPT !.status = "preparing", !.sig = sig[c]]]
             /\ Goto(c, "savePreparing")
    <3>1. pc'[c] = "savePreparing"
      BY <2>4 DEF Goto, TypeOK
    <3>2. /\ mine(c)'.status = "preparing"
          /\ mine(c)'.sig = sig[c]
          /\ \A q \in Requests : q # req[c] => mem'[c][q] = mem[c][q]
      BY <2>1, <2>4, <1>r DEF mine, TypeOK, Record
    <3>3. Local(c)'
      BY <1>i, <2>1, <3>1, <3>2
         DEF Local, BookInv, CancelInv, OutcomeInv, CancelLabels, Before
    <3>4. \A q \in Requests : q # req[c] => mem'[c][q] = journal'[q]
      BY <1>k, <2>1, <3>2 DEF Working, Labels, BookLabels
    <3> QED
      BY <2>1, <2>2, <2>4, <3>3, <3>4, Frame
  <2> QED
    BY <1>2, <2>3, <2>4 DEF Prepare
<1>3. CASE SavePreparing(c)
  <2>1. /\ UNCHANGED <<req, sig, lock, mem>> /\ pc[c] = "savePreparing"
        /\ UNCHANGED <<libraryVars, sentVars>>
        /\ Save(c) \/ UNCHANGED journal
    BY <1>3 DEF SavePreparing
  <2>2. pc[c] \in Working /\ Before(c, "preparing")
    BY <1>i, <2>1 DEF Local, BookInv, Working, Labels, BookLabels
  <2>3. Replaceable(req[c], mine(c))
    BY <2>2, Fresh DEF Before, Replaceable
  <2>4. Promises'
    BY <2>1, <2>2, <2>3, SaveKeeps
  <2>5. CASE Goto(c, "release")
    BY <2>1, <2>4, <2>5, Leaves
  <2>6. CASE Save(c) /\ Goto(c, "drive")
    <3>1. pc'[c] = "drive"
      BY <2>6 DEF Goto, TypeOK
    <3>2. \A q \in Requests : q # req[c] =>
            mem'[c][q] = journal'[q] /\ journal'[q] = journal[q]
      BY <2>1, <2>2, SaveOthers
    <3>3. journal'[req[c]] = mine(c) /\ mine(c)' = mine(c)
      BY <2>1, <2>6 DEF Save, mine
    <3>4. Before(c, "preparing")'
      BY <1>r, <2>1, <2>2, <3>2, <3>3 DEF Before, mayAttempt, Outstanding
    <3>5. Local(c)'
      BY <3>1, <3>4 DEF Local, BookInv, CancelInv, OutcomeInv, CancelLabels
    <3> QED
      BY <2>1, <2>4, <2>6, <3>2, <3>5, Frame
  <2> QED
    BY <1>3, <2>5, <2>6 DEF SavePreparing
<1>4. CASE Drive(c)
  <2>1. UNCHANGED <<journal, req, sig, lock>> /\ pc[c] = "drive"
    BY <1>4 DEF Drive
  <2>2. Promises'
    BY <1>4, QuietStep DEF Drive
  <2>3. /\ Before(c, "preparing")
        /\ \A q \in Requests : q # req[c] => mem[c][q] = journal[q]
    BY <1>i, <1>k, <2>1 DEF Local, BookInv, Working, Labels, BookLabels
  <2>4. CASE UNCHANGED mem /\ Goto(c, "diagnose")
    <3>1. pc'[c] = "diagnose"
      BY <2>4 DEF Goto, TypeOK
    <3>2. Before(c, "preparing")'
      BY <2>1, <2>3, <2>4 DEF Before, mine, mayAttempt
    <3>3. Local(c)'
      BY <3>1, <3>2 DEF Local, BookInv, CancelInv, OutcomeInv, CancelLabels
    <3> QED
      BY <2>1, <2>2, <2>3, <2>4, <3>3, Frame
  <2>5. CASE Mark(c, "submitting") /\ Goto(c, "saveSubmitting")
    <3>1. pc'[c] = "saveSubmitting"
      BY <2>5 DEF Goto, TypeOK
    <3>2. /\ mine(c)'.status = "submitting"
          /\ mine(c)'.sig = mine(c).sig
          /\ \A q \in Requests : q # req[c] => mem'[c][q] = mem[c][q]
      BY <2>1, <2>5, MarkOwn
    <3>3. Before(c, "submitting")'
      BY <2>1, <2>3, <3>2 DEF Before, mayAttempt
    <3>4. Local(c)'
      BY <3>1, <3>3 DEF Local, BookInv, CancelInv, OutcomeInv, CancelLabels
    <3> QED
      BY <2>1, <2>2, <2>3, <2>5, <3>2, <3>4, Frame
  <2> QED
    BY <1>4, <2>4, <2>5 DEF Drive
<1>5. CASE SaveSubmitting(c)
  <2>1. /\ UNCHANGED <<req, sig, lock, mem>> /\ pc[c] = "saveSubmitting"
        /\ UNCHANGED <<libraryVars, sentVars>>
        /\ Save(c) \/ UNCHANGED journal
    BY <1>5 DEF SaveSubmitting
  <2>2. pc[c] \in Working /\ Before(c, "submitting")
    BY <1>i, <2>1 DEF Local, BookInv, Working, Labels, BookLabels
  <2>3. submits[req[c]] = 0 /\ cancels[req[c]] = 0
    BY <2>2, Fresh DEF Before
  <2>4. Promises'
    BY <1>r, <2>1, <2>2, <2>3, SaveKeeps DEF Before, Replaceable
  <2>5. \A q \in Requests : q # req[c] =>
          mem'[c][q] = journal'[q] /\ journal'[q] = journal[q]
    BY <2>1, <2>2, SaveOthers
  <2>6. mine(c)' = mine(c) /\ submits' = submits
    BY <2>1 DEF mine, sentVars
  <2>7. CASE UNCHANGED journal /\ Goto(c, "diagnose")
    <3>1. pc'[c] = "diagnose"
      BY <2>7 DEF Goto, TypeOK
    <3>2. Before(c, "submitting")'
      BY <2>1, <2>2, <2>6, <2>7 DEF Before, mayAttempt
    <3>3. Local(c)'
      BY <3>1, <3>2 DEF Local, BookInv, CancelInv, OutcomeInv, CancelLabels
    <3> QED
      BY <2>1, <2>4, <2>5, <2>7, <3>3, Frame
  <2>8. CASE Save(c) /\ Goto(c, "click")
    <3>1. pc'[c] = "click"
      BY <2>8 DEF Goto, TypeOK
    <3>2. journal'[req[c]] = mine(c)
      BY <2>8 DEF Save, mine
    <3>3. \A q \in Requests \ {req[c]} :
            journal'[q].sig = sig[c] => journal'[q].status \notin Outstanding
      BY <2>2, <2>5 DEF Before, mayAttempt
    <3>4. Local(c)'
      BY <2>1, <2>2, <2>3, <2>6, <3>1, <3>2, <3>3
         DEF Local, BookInv, CancelInv, OutcomeInv, CancelLabels, Before, saved
    <3> QED
      BY <2>1, <2>4, <2>5, <2>8, <3>4, Frame
  <2> QED
    BY <1>5, <2>7, <2>8 DEF SaveSubmitting
<1>6. CASE Diagnose(c)
  <2>1. /\ UNCHANGED <<req, sig, lock>> /\ pc[c] = "diagnose"
        /\ UNCHANGED <<libraryVars, sentVars>>
        /\ Save(c) \/ UNCHANGED journal
        /\ Mark(c, "failed") /\ Goto(c, "saveOutcome")
    BY <1>6 DEF Diagnose
  <2>2. /\ pc[c] \in Working
        /\ Before(c, "preparing") \/ Before(c, "submitting")
    BY <1>i, <2>1 DEF Local, BookInv, Working, Labels, BookLabels
  <2>3. submits[req[c]] = 0 /\ cancels[req[c]] = 0
    BY <2>2, Fresh DEF Before
  <2>4. Promises'
    BY <1>r, <2>1, <2>2, <2>3, SaveKeeps DEF Before, Replaceable
  <2>5. /\ mine(c)'.status = "failed"
        /\ \A q \in Requests : q # req[c] => mem'[c][q] = mem[c][q]
    BY <2>1, MarkOwn
  <2>6. \A q \in Requests : q # req[c] => mem'[c][q] = journal'[q]
    BY <2>1, <2>2, <2>5, SaveOthers
  <2>7. pc'[c] = "saveOutcome"
    BY <2>1 DEF Goto, TypeOK
  <2>8. Local(c)'
    BY <2>1, <2>3, <2>5, <2>7
       DEF Local, BookInv, CancelInv, OutcomeInv, CancelLabels, sentVars
  <2> QED
    BY <2>1, <2>4, <2>6, <2>8, Frame
<1>7. CASE Click(c)
  BY <1>7, ClickKeeps
<1>8. CASE Answer(c)
  <2>1. UNCHANGED <<journal, req, sig, lock, held>> /\ pc[c] = "await"
    BY <1>8 DEF Answer, libraryVars
  <2>2. Promises'
    BY <1>8, QuietStep DEF Answer
  <2>3. /\ saved(c).status = "submitting"
        /\ saved(c).sig = sig[c]
        /\ mine(c).sig = sig[c]
        /\ \A q \in Requests : q # req[c] => mem[c][q] = journal[q]
    BY <1>i, <1>k, <2>1 DEF Local, BookInv, Working, Labels, BookLabels
  <2>4. CASE Mark(c, "unknown") /\ Goto(c, "saveOutcome")
    <3>1. pc'[c] = "saveOutcome"
      BY <2>4 DEF Goto, TypeOK
    <3>2. /\ mine(c)'.status = "unknown"
          /\ mine(c)'.sig = mine(c).sig
          /\ \A q \in Requests : q # req[c] => mem'[c][q] = mem[c][q]
      BY <2>1, <2>4, MarkOwn
    <3>3. Local(c)'
      BY <2>1, <2>3, <3>1, <3>2
         DEF Local, BookInv, CancelInv, OutcomeInv, CancelLabels, saved,
             Outstanding
    <3> QED
      BY <2>1, <2>2, <2>3, <2>4, <3>2, <3>3, Frame
  <2>5. ASSUME NEW link \in BOOLEAN, thisCheckout(c) \in held,
               mem' = [mem EXCEPT ![c][req[c]] =
                         [@ EXCEPT !.status = "confirmed", !.url = link]],
               Goto(c, "saveConfirmed")
        PROVE  IInv'
    <3>1. pc'[c] = "saveConfirmed"
      BY <2>5 DEF Goto, TypeOK
    <3>2. /\ mine(c)'.status = "confirmed"
          /\ mine(c)'.sig = mine(c).sig
          /\ \A q \in Requests : q # req[c] => mem'[c][q] = mem[c][q]
      BY <2>1, <2>5, <1>r DEF mine, TypeOK, Record
    <3>3. Local(c)'
      BY <2>1, <2>3, <2>5, <3>1, <3>2
         DEF Local, BookInv, CancelInv, OutcomeInv, CancelLabels, saved,
             thisCheckout
    <3> QED
      BY <2>1, <2>2, <2>3, <2>5, <3>2, <3>3, Frame
  <2> QED
    BY <1>8, <2>4, <2>5 DEF Answer, confirmationShown
<1>9. CASE SaveConfirmed(c)
  BY <1>9, SaveConfirmedKeeps
<1> QED
  BY <1>1, <1>2, <1>3, <1>4, <1>5, <1>6, <1>7, <1>8, <1>9 DEF BookStep

\* Every step of cancel() keeps the invariant.
LEMMA CancelKeeps ==
  ASSUME IInv, TypeOK', NEW c \in Calls, CancelStep(c)
  PROVE  IInv'
<1> USE DEF IInv, diskVars
<1>r. req[c] \in Requests
  BY DEF TypeOK
<1>i. Local(c)
  BY DEF CallInv, Local
<1>k. pc[c] \in Working =>
        \A q \in Requests : q # req[c] => mem[c][q] = journal[q]
  BY DEF OthersKept
<1>1. CASE LoadCancel(c)
  <2>1. PICK label \in {"cancelDrive", "release"} :
          /\ Goto(c, label)
          /\ label = "cancelDrive" => saved(c).status = "confirmed"
    BY <1>1 DEF LoadCancel, saved
  <2>2. pc'[c] = label /\ mem'[c] = journal /\ UNCHANGED <<journal, req, sig>>
    BY <1>1, <2>1 DEF LoadCancel, Goto, TypeOK
  <2>3. Local(c)'
    BY <2>1, <2>2
       DEF Local, BookInv, CancelInv, OutcomeInv, CancelLabels, mine, saved
  <2>4. Promises'
    BY <1>1, QuietStep DEF LoadCancel
  <2> QED
    BY <1>1, <2>1, <2>2, <2>3, <2>4, Frame DEF LoadCancel
<1>2. CASE CancelDrive(c)
  <2>1. UNCHANGED <<journal, req, sig, lock>> /\ pc[c] = "cancelDrive"
    BY <1>2 DEF CancelDrive
  <2>2. Promises'
    BY <1>2, QuietStep DEF CancelDrive
  <2>3. /\ mine(c).sig = saved(c).sig
        /\ saved(c).status = "confirmed"
        /\ \A q \in Requests : q # req[c] => mem[c][q] = journal[q]
    BY <1>i, <1>k, <2>1 DEF Local, CancelInv, Working, Labels, CancelLabels
  <2>4. CASE Goto(c, "release")
    BY <2>1, <2>2, <2>4, Leaves
  <2>5. CASE Mark(c, "cancelling") /\ Goto(c, "saveCancelling")
    <3>1. pc'[c] = "saveCancelling"
      BY <2>5 DEF Goto, TypeOK
    <3>2. /\ mine(c)'.status = "cancelling"
          /\ mine(c)'.sig = mine(c).sig
          /\ \A q \in Requests : q # req[c] => mem'[c][q] = mem[c][q]
      BY <2>1, <2>5, MarkOwn
    <3>3. Local(c)'
      BY <2>1, <2>3, <3>1, <3>2
         DEF Local, BookInv, CancelInv, OutcomeInv, CancelLabels, saved
    <3> QED
      BY <2>1, <2>2, <2>3, <2>5, <3>2, <3>3, Frame
  <2> QED
    BY <1>2, <2>4, <2>5 DEF CancelDrive
<1>3. CASE SaveCancelling(c)
  <2>1. /\ UNCHANGED <<req, sig, lock, mem>> /\ pc[c] = "saveCancelling"
        /\ UNCHANGED <<libraryVars, sentVars>>
        /\ Save(c) \/ UNCHANGED journal
    BY <1>3 DEF SaveCancelling
  <2>2. /\ pc[c] \in Working
        /\ mine(c).sig = saved(c).sig
        /\ mine(c).status = "cancelling"
        /\ saved(c).status = "confirmed"
    BY <1>i, <2>1 DEF Local, CancelInv, Working, Labels, CancelLabels
  <2>3. Replaceable(req[c], mine(c))
    BY <1>r, <2>2
       DEF Replaceable, Promises, CheckoutOnce, saved, Outstanding
  <2>4. Promises'
    BY <2>1, <2>2, <2>3, SaveKeeps
  <2>5. CASE Goto(c, "release")
    BY <2>1, <2>4, <2>5, Leaves
  <2>6. CASE Save(c) /\ Goto(c, "navigate")
    <3>1. pc'[c] = "navigate"
      BY <2>6 DEF Goto, TypeOK
    <3>2. \A q \in Requests : q # req[c] => mem'[c][q] = journal'[q]
      BY <2>1, <2>2, SaveOthers
    <3>3. journal'[req[c]] = mine(c) /\ mine(c)' = mine(c)
      BY <2>1, <2>6 DEF Save, mine
    <3>4. cancels'[req[c]] = 0
      <4>1. cancels[req[c]] \in Nat
        BY <1>r DEF TypeOK
      <4>2. ~(cancels[req[c]] > 0)
        BY <1>r, <2>2 DEF Promises, SentRecorded, saved
      <4> QED
        BY <2>1, <4>1, <4>2 DEF sentVars
    <3>5. Local(c)'
      BY <2>1, <2>2, <3>1, <3>3, <3>4
         DEF Local, BookInv, CancelInv, OutcomeInv, CancelLabels, saved
    <3> QED
      BY <2>1, <2>4, <2>6, <3>2, <3>5, Frame
  <2> QED
    BY <1>3, <2>5, <2>6 DEF SaveCancelling
<1>4. CASE Navigate(c)
  <2>1. /\ UNCHANGED <<journal, req, sig, lock, wire, held, submits>>
        /\ pc[c] = "navigate"
        /\ cancels' = [cancels EXCEPT ![req[c]] = @ + 1]
        /\ cwire' = cwire \/ cwire' = cwire \cup {req[c]}
    BY <1>4 DEF Navigate
  <2>2. /\ mine(c).sig = saved(c).sig
        /\ saved(c).status = "cancelling"
        /\ cancels[req[c]] = 0
        /\ \A q \in Requests : q # req[c] => mem[c][q] = journal[q]
    BY <1>i, <1>k, <2>1 DEF Local, CancelInv, Working, Labels, CancelLabels
  <2>3. /\ cancels'[req[c]] = 1
        /\ \A r \in Requests : r # req[c] => cancels'[r] = cancels[r]
    BY <1>r, <2>1, <2>2 DEF TypeOK
  <2>4. Promises'
    <3> USE DEF Promises
    <3>1. live' = live
      BY <2>1 DEF live
    <3>2. cwire \subseteq Requests
      BY DEF TypeOK
    <3>3. SentRecorded'
      BY <2>1, <2>2, <2>3, <3>1, <3>2 DEF SentRecorded, saved
    <3>4. /\ CheckoutOnce' /\ SubmitAtMostOnce' /\ OneReservationPerSignature'
          /\ LiveIsJournalled' /\ ConfirmedIsHeld'
      BY <2>1 DEF CheckoutOnce, SubmitAtMostOnce, OneReservationPerSignature,
                  LiveIsJournalled, ConfirmedIsHeld
    <3>5. CancelAtMostOnce'
      BY <2>3 DEF CancelAtMostOnce
    <3> QED
      BY <3>3, <3>4, <3>5
  <2>5. CASE UNCHANGED mem /\ Goto(c, "cancelAwait")
    <3>1. pc'[c] = "cancelAwait"
      BY <2>5 DEF Goto, TypeOK
    <3>2. Local(c)'
      BY <2>1, <2>2, <2>3, <2>5, <3>1
         DEF Local, BookInv, CancelInv, OutcomeInv, CancelLabels, saved, mine
    <3> QED
      BY <2>1, <2>2, <2>4, <2>5, <3>2, Frame
  <2>6. CASE Mark(c, "unknown") /\ Goto(c, "saveOutcome")
    BY <2>1, <2>2, <2>3, <2>4, <2>6, GivesUp DEF Outstanding
  <2> QED
    BY <1>4, <2>5, <2>6 DEF Navigate
<1>5. CASE CancelAnswer(c)
  <2>1. /\ UNCHANGED <<journal, req, sig, lock, wire, held, cancels>>
        /\ pc[c] = "cancelAwait"
    BY <1>5 DEF CancelAnswer, libraryVars, sentVars
  <2>2. Promises'
    BY <1>5, QuietStep DEF CancelAnswer
  <2>3. /\ mine(c).sig = saved(c).sig
        /\ saved(c).status = "cancelling"
        /\ cancels[req[c]] > 0
        /\ \A q \in Requests : q # req[c] => mem[c][q] = journal[q]
    BY <1>i, <1>k, <2>1 DEF Local, CancelInv, Working, Labels, CancelLabels
  <2>4. CASE Mark(c, "unknown") /\ Goto(c, "saveOutcome")
    BY <2>1, <2>2, <2>3, <2>4, GivesUp DEF Outstanding
  <2>5. CASE /\ \A x \in held : x.req # req[c]
             /\ Mark(c, "cancelled") /\ Goto(c, "saveCancelled")
    <3>1. pc'[c] = "saveCancelled"
      BY <2>5 DEF Goto, TypeOK
    <3>2. /\ mine(c)'.status = "cancelled"
          /\ mine(c)'.sig = mine(c).sig
          /\ \A q \in Requests : q # req[c] => mem'[c][q] = mem[c][q]
      BY <2>1, <2>5, MarkOwn
    <3>3. \A x \in live' : x.req # req[c]
      BY <1>r, <2>1, <2>3, <2>5 DEF Promises, CheckoutOnce, saved, live
    <3>4. Local(c)'
      BY <2>1, <2>3, <3>1, <3>2, <3>3
         DEF Local, BookInv, CancelInv, OutcomeInv, CancelLabels, saved
    <3> QED
      BY <2>1, <2>2, <2>3, <2>5, <3>2, <3>4, Frame
  <2> QED
    BY <1>5, <2>4, <2>5 DEF CancelAnswer
<1>6. CASE SaveCancelled(c)
  <2>1. /\ UNCHANGED <<req, sig, lock, libraryVars, sentVars, cancels>>
        /\ pc[c] = "saveCancelled"
        /\ Save(c) \/ UNCHANGED journal
    BY <1>6 DEF SaveCancelled, sentVars
  <2>2. /\ pc[c] \in Working
        /\ mine(c).sig = saved(c).sig
        /\ mine(c).status = "cancelled"
        /\ saved(c).status = "cancelling"
        /\ cancels[req[c]] > 0
        /\ \A x \in live : x.req # req[c]
        /\ \A q \in Requests : q # req[c] => mem[c][q] = journal[q]
    BY <1>i, <1>k, <2>1 DEF Local, CancelInv, Working, Labels, CancelLabels
  <2>3. Replaceable(req[c], mine(c))
    BY <2>2 DEF Replaceable, saved, live
  <2>4. Promises'
    BY <2>1, <2>2, <2>3, SaveKeeps
  <2>5. CASE Goto(c, "release")
    BY <2>1, <2>4, <2>5, Leaves
  <2>6. CASE UNCHANGED journal /\ Mark(c, "unknown") /\ Goto(c, "saveOutcome")
    BY <2>1, <2>2, <2>4, <2>6, GivesUp DEF Outstanding
  <2> QED
    BY <1>6, <2>5, <2>6 DEF SaveCancelled
<1> QED
  BY <1>1, <1>2, <1>3, <1>4, <1>5, <1>6 DEF CancelStep

\* The save in the catch blocks keeps the invariant, whether it works or not.
LEMMA SaveOutcomeKeeps ==
  ASSUME IInv, TypeOK', NEW c \in Calls, SaveOutcome(c)
  PROVE  IInv'
<1> USE DEF IInv
<1>1. /\ UNCHANGED <<lock, libraryVars, sentVars>>
      /\ pc[c] = "saveOutcome" /\ pc[c] \in Working
      /\ Save(c) \/ UNCHANGED journal
      /\ Goto(c, "release")
      /\ req[c] \in Requests
  BY DEF SaveOutcome, Working, Labels, TypeOK
<1>2. \/ /\ mine(c).status = "failed"
         /\ submits[req[c]] = 0
         /\ cancels[req[c]] = 0
      \/ /\ mine(c).status = "unknown"
         /\ mine(c).sig = saved(c).sig
         /\ saved(c).status \in Outstanding \ {"confirmed"}
  BY <1>1 DEF CallInv, OutcomeInv
<1>3. Replaceable(req[c], mine(c))
  BY <1>1, <1>2 DEF Replaceable, saved, Outstanding
<1>4. Promises'
  BY <1>1, <1>3, SaveKeeps
<1> QED
  BY <1>1, <1>4, Leaves

\* When no call is under way only the promises remain.
LEMMA AllIdle ==
  ASSUME TypeOK', \A c \in Calls : pc'[c] = "idle", Promises'
  PROVE  IInv'
  BY DEF IInv, OneHolder, OthersKept, Working, CallInv, BookInv, CancelInv,
         OutcomeInv, CancelLabels

\* rmdir(lock): the call is idle and any other call was.
LEMMA ReleaseKeeps ==
  ASSUME IInv, TypeOK', NEW c \in Calls, Release(c)
  PROVE  IInv'
<1> USE DEF IInv
<1>1. \A d \in Calls : pc'[d] = "idle"
  BY Alone DEF Release, Goto, TypeOK
<1>2. Promises'
  BY QuietStep DEF Release
<1> QED
  BY <1>1, <1>2, AllIdle

\* Taking the lock starts a call when no other is under way.
LEMMA StartKeeps ==
  ASSUME IInv, TypeOK', NEW c \in Calls, NEW label \in {"bookLoad", "cancelLoad"},
         TakeLock(c), Goto(c, label)
  PROVE  IInv'
<1> USE DEF IInv
<1>1. \A d \in Calls : pc[d] = "idle"
  BY DEF TakeLock, OneHolder
<1>2. /\ pc'[c] = label
      /\ \A d \in Calls : d # c => pc'[d] = "idle"
  BY <1>1 DEF Goto, TypeOK
<1>3. OneHolder' /\ OthersKept'
  BY <1>2 DEF OneHolder, OthersKept, Working, TakeLock
<1>4. CallInv'
  BY <1>2 DEF CallInv, BookInv, CancelInv, OutcomeInv, CancelLabels
<1>5. Promises'
  BY QuietStep DEF TakeLock
<1> QED
  BY <1>3, <1>4, <1>5

\* The library decides a checkout: held or without effect, for good.
LEMMA LandCheckoutKeeps ==
  ASSUME IInv, TypeOK', NEW x \in wire, LandCheckout(x)
  PROVE  IInv'
<1> USE DEF IInv
<1>1. /\ UNCHANGED <<lock, journal, pc, req, sig, mem, cwire, submits, cancels>>
      /\ wire' = wire \ {x}
      /\ held' = held \cup {x} \/ held' = held
  BY DEF LandCheckout, diskVars, callVars, sentVars
<1>2. live' \subseteq live /\ held \subseteq held'
  BY <1>1 DEF live
<1>3. OneHolder' /\ OthersKept'
  BY <1>1 DEF OneHolder, OthersKept
<1>4. ASSUME NEW c \in Calls PROVE Local(c)'
  <2>1. BookInv(c) /\ CancelInv(c) /\ OutcomeInv(c)
    BY DEF CallInv
  <2>2. BookInv(c)'
    BY <1>1, <1>2, <2>1
       DEF BookInv, Before, mine, saved, mayAttempt, thisCheckout
  <2>3. CancelInv(c)'
    BY <1>1, <1>2, <2>1 DEF CancelInv, mine, saved
  <2>4. OutcomeInv(c)'
    BY <1>1, <2>1 DEF OutcomeInv, mine, saved
  <2> QED
    BY <2>2, <2>3, <2>4 DEF Local
<1>5. Promises'
  <2> USE DEF Promises
  <2>1. SentRecorded' /\ LiveIsJournalled' /\ OneReservationPerSignature'
    BY <1>1, <1>2
       DEF SentRecorded, LiveIsJournalled, OneReservationPerSignature, live
  <2>2. CheckoutOnce'
    BY <1>1 DEF CheckoutOnce
  <2>3. SubmitAtMostOnce' /\ CancelAtMostOnce' /\ ConfirmedIsHeld'
    BY <1>1, <1>2 DEF SubmitAtMostOnce, CancelAtMostOnce, ConfirmedIsHeld
  <2> QED
    BY <2>1, <2>2, <2>3
<1> QED
  BY <1>3, <1>4, <1>5 DEF CallInv, Local

\* The library takes a cancellation only of a booking whose record already
\* says so, and no checkout of that request is on its way.
LEMMA LandCancelKeeps ==
  ASSUME IInv, TypeOK', NEW r \in cwire, LandCancel(r)
  PROVE  IInv'
<1> USE DEF IInv
<1>1. /\ UNCHANGED <<lock, journal, pc, req, sig, mem, wire, submits, cancels>>
      /\ cwire' = cwire \ {r}
      /\ held' = {x \in held : x.req # r} \/ held' = held
  BY DEF LandCancel, diskVars, callVars, sentVars
<1>2. /\ r \in Requests
      /\ journal[r].status \in {"cancelling", "unknown", "cancelled"}
  BY DEF Promises, SentRecorded, TypeOK
<1>3. live' \subseteq live
  BY <1>1 DEF live
<1>4. \A x \in held : x.req # r => x \in held'
  BY <1>1
<1>5. OneHolder' /\ OthersKept'
  BY <1>1 DEF OneHolder, OthersKept
<1>6. ASSUME NEW c \in Calls PROVE Local(c)'
  <2>1. BookInv(c) /\ CancelInv(c) /\ OutcomeInv(c)
    BY DEF CallInv
  <2>2. pc[c] = "saveConfirmed" => thisCheckout(c) \in held'
    BY <1>2, <1>4, <2>1 DEF BookInv, saved, thisCheckout
  <2>3. BookInv(c)'
    BY <1>1, <2>1, <2>2
       DEF BookInv, Before, mine, saved, mayAttempt, thisCheckout
  <2>4. CancelInv(c)'
    BY <1>1, <1>3, <2>1 DEF CancelInv, mine, saved
  <2>5. OutcomeInv(c)'
    BY <1>1, <2>1 DEF OutcomeInv, mine, saved
  <2> QED
    BY <2>3, <2>4, <2>5 DEF Local
<1>7. Promises'
  <2> USE DEF Promises
  <2>1. SentRecorded' /\ LiveIsJournalled' /\ OneReservationPerSignature'
    BY <1>1, <1>3
       DEF SentRecorded, LiveIsJournalled, OneReservationPerSignature, live
  <2>2. CheckoutOnce'
    BY <1>1 DEF CheckoutOnce
  <2>3. SubmitAtMostOnce' /\ CancelAtMostOnce'
    BY <1>1 DEF SubmitAtMostOnce, CancelAtMostOnce
  <2>4. ConfirmedIsHeld'
    BY <1>1, <1>2, <1>4 DEF ConfirmedIsHeld
  <2> QED
    BY <2>1, <2>2, <2>3, <2>4
<1> QED
  BY <1>5, <1>6, <1>7 DEF CallInv, Local

\* The invariant holds before the first call.
LEMMA InitInv == Init => IInv
<1> SUFFICES ASSUME Init PROVE IInv
  OBVIOUS
<1>1. TypeOK
  BY InitType
<1>2. OneHolder /\ OthersKept /\ CallInv
  BY DEF Init, OneHolder, OthersKept, Working, CallInv, BookInv, CancelInv,
         OutcomeInv, CancelLabels
<1>3. Promises
  BY DEF Init, Empty, NoRecord, Promises, SentRecorded, CheckoutOnce,
         SubmitAtMostOnce, CancelAtMostOnce, OneReservationPerSignature,
         LiveIsJournalled, ConfirmedIsHeld, live, Outstanding
<1> QED
  BY <1>1, <1>2, <1>3 DEF IInv

\* The invariant is inductive.
LEMMA NextInv == IInv /\ [Next]_vars => IInv'
<1> SUFFICES ASSUME IInv, [Next]_vars PROVE IInv'
  OBVIOUS
<1>t. TypeOK'
  BY NextType DEF IInv
<1>1. ASSUME NEW c \in Calls, Step(c) PROVE IInv'
  BY <1>t, <1>1, BookKeeps, CancelKeeps, SaveOutcomeKeeps, ReleaseKeeps
     DEF Step
<1>2. ASSUME NEW c \in Calls, NEW r \in Requests, NEW s \in Signatures,
             StartBook(c, r, s)
      PROVE  IInv'
  BY <1>t, <1>2, StartKeeps DEF StartBook
<1>3. ASSUME NEW c \in Calls, NEW r \in Requests, StartCancel(c, r)
      PROVE  IInv'
  BY <1>t, <1>3, StartKeeps DEF StartCancel
<1>4. ASSUME NEW x \in wire, LandCheckout(x) PROVE IInv'
  BY <1>t, <1>4, LandCheckoutKeeps
<1>5. ASSUME NEW r \in cwire, LandCancel(r) PROVE IInv'
  BY <1>t, <1>5, LandCancelKeeps
<1>6. CASE Crash
  BY <1>t, <1>6, AllIdle, QuietStep DEF Crash, diskVars, IInv
<1>7. CASE ClearStaleLock
  <2>1. \A c \in Calls : pc'[c] = "idle"
    BY <1>7 DEF ClearStaleLock, callVars
  <2>2. Promises'
    BY <1>7, QuietStep DEF ClearStaleLock, IInv
  <2> QED
    BY <1>t, <2>1, <2>2, AllIdle
<1>8. CASE UNCHANGED vars
  <2>1. (OneHolder /\ OthersKept /\ CallInv)'
    BY <1>8
       DEF IInv, vars, OneHolder, OthersKept, CallInv, BookInv, CancelInv,
           OutcomeInv, Before, mine, saved, mayAttempt, thisCheckout, live
  <2>2. Promises'
    BY <1>8, QuietStep DEF vars, libraryVars, sentVars, IInv
  <2> QED
    BY <1>t, <2>1, <2>2 DEF IInv
<1> QED
  BY <1>1, <1>2, <1>3, <1>4, <1>5, <1>6, <1>7, <1>8 DEF Next

\* The invariant holds of every behaviour.
LEMMA Invariance == Spec => []IInv
  BY InitInv, NextInv, PTL DEF Spec

\* No retry, lost answer, failed save or kill makes the code submit a request
\* twice, for any number of calls and requests.
THEOREM SubmittedAtMostOnce == Spec => []SubmitAtMostOnce
<1>1. IInv => SubmitAtMostOnce
  BY DEF IInv, Promises
<1> QED
  BY <1>1, Invariance, PTL

\* A stored cancellation link is opened at most once.
THEOREM CancelledAtMostOnce == Spec => []CancelAtMostOnce
<1>1. IInv => CancelAtMostOnce
  BY DEF IInv, Promises
<1> QED
  BY <1>1, Invariance, PTL

\* Two requests with the same arguments never both reach the library.
THEOREM OneReservation == Spec => []OneReservationPerSignature
<1>1. IInv => OneReservationPerSignature
  BY DEF IInv, Promises
<1> QED
  BY <1>1, Invariance, PTL

\* What the library holds or may yet take is on disk as an attempt.
THEOREM NothingForgotten == Spec => []LiveIsJournalled
<1>1. IInv => LiveIsJournalled
  BY DEF IInv, Promises
<1> QED
  BY <1>1, Invariance, PTL

\* A booking recorded as confirmed is held by the library.
THEOREM ConfirmedHeld == Spec => []ConfirmedIsHeld
<1>1. IInv => ConfirmedIsHeld
  BY DEF IInv, Promises
<1> QED
  BY <1>1, Invariance, PTL

-----------------------------------------------------------------------------
(* The code keeps the ledger *)

fates == [r \in Requests |-> fateOf(r)]
claims == [r \in Requests |-> claimOf(r)]

\* What leaves the journal and the clicks alone is a stutter of the ledger.
LEMMA LedgerStutter ==
  ASSUME UNCHANGED <<journal, submits, cancels>>
  PROVE  UNCHANGED <<fates, claims>>
  BY DEF fates, claims, fateOf, claimOf, withdrawn

\* One record moves: the ledger moves that request, or stutters.
LEMMA LedgerMoves ==
  ASSUME NEW r \in Requests, UNCHANGED <<submits, cancels>>,
         \A q \in Requests : q # r => journal'[q] = journal[q],
         claimOf(r)' = claimOf(r),
         \/ fateOf(r)' = fateOf(r)
         \/ fateOf(r) = "booking" /\ fateOf(r)' = "confirmed"
         \/ fateOf(r) = "confirmed" /\ fateOf(r)' = "cancelling"
         \/ fateOf(r) = "cancelling" /\ fateOf(r)' = "cancelled"
  PROVE  [Ledger!Next]_<<fates, claims>>
<1>1. \A q \in Requests : q # r =>
        fateOf(q)' = fateOf(q) /\ claimOf(q)' = claimOf(q)
  BY DEF fateOf, claimOf, withdrawn
<1>2. claims' = claims
  BY <1>1 DEF claims
<1>3. fates' = [fates EXCEPT ![r] = fateOf(r)']
  BY <1>1 DEF fates
<1>4. fates[r] = fateOf(r)
  BY DEF fates
<1>5. CASE fateOf(r)' = fateOf(r)
  BY <1>2, <1>3, <1>4, <1>5 DEF fates
<1>6. CASE fateOf(r) = "booking" /\ fateOf(r)' = "confirmed"
  <2>1. Ledger!Confirm(r)
    BY <1>2, <1>3, <1>4, <1>6
       DEF Ledger!Confirm, Ledger!Advance, fates, claims
  <2> QED
    BY <2>1 DEF Ledger!Next
<1>7. CASE fateOf(r) = "confirmed" /\ fateOf(r)' = "cancelling"
  <2>1. Ledger!Withdraw(r)
    BY <1>2, <1>3, <1>4, <1>7
       DEF Ledger!Withdraw, Ledger!Advance, fates, claims
  <2> QED
    BY <2>1 DEF Ledger!Next
<1>8. CASE fateOf(r) = "cancelling" /\ fateOf(r)' = "cancelled"
  <2>1. Ledger!Cancelled(r)
    BY <1>2, <1>3, <1>4, <1>8
       DEF Ledger!Cancelled, Ledger!Advance, fates, claims
  <2> QED
    BY <2>1 DEF Ledger!Next
<1> QED
  BY <1>5, <1>6, <1>7, <1>8

\* Every save of the call that runs is one move of its record.
LEMMA LedgerSave ==
  ASSUME IInv, NEW c \in Calls, Save(c) \/ UNCHANGED journal,
         pc[c] \in {"savePreparing", "saveSubmitting", "diagnose",
                    "saveConfirmed", "saveOutcome", "saveCancelling",
                    "saveCancelled"},
         UNCHANGED <<submits, cancels>>
  PROVE  [Ledger!Next]_<<fates, claims>>
<1> USE DEF IInv
<1>1. PICK r \in Requests : r = req[c]
  BY DEF TypeOK
<1>2. pc[c] \in Working
  BY DEF Working, Labels, BookLabels, CancelLabels
<1>3. BookInv(c) /\ CancelInv(c) /\ OutcomeInv(c)
  BY DEF CallInv
<1>4. CASE UNCHANGED journal
  BY <1>4, LedgerStutter
<1>5. CASE Save(c)
  <2>1. /\ journal'[r] = mine(c)
        /\ \A q \in Requests : q # r => journal'[q] = journal[q]
    BY <1>1, <1>2, <1>5, SaveReplaces DEF TypeOK
  <2>2. CASE submits[r] = 0
    <3>1. fateOf(r)' = fateOf(r) /\ claimOf(r)' = claimOf(r)
      BY <2>2 DEF fateOf, claimOf
    <3> QED
      BY <2>1, <3>1, LedgerMoves
  <2>3. CASE submits[r] # 0
    <3>1. submits[r] > 0
      BY <2>3 DEF TypeOK
    <3>2. journal[r].status \in Outstanding \cup {"cancelled"}
      BY <3>1 DEF Promises, SentRecorded
    <3>3. pc[c] \notin {"savePreparing", "saveSubmitting", "diagnose"}
      BY <1>1, <1>3, <3>2, <2>3, Fresh DEF BookInv, Before
    <3>4. journal[r] = saved(c)
      BY <1>1 DEF saved
    <3>5. /\ cancels[r] \in Nat
          /\ cancels[r] > 0 =>
               journal[r].status \in {"cancelling", "unknown", "cancelled"}
      BY DEF TypeOK, Promises, SentRecorded
    <3>6. mine(c).sig = journal[r].sig
      BY <1>3, <2>3, <3>3, <3>4, <1>1 DEF BookInv, CancelInv, OutcomeInv, CancelLabels
    <3>7. claimOf(r)' = claimOf(r)
      BY <2>1, <3>6 DEF claimOf
    <3>8. CASE pc[c] = "saveConfirmed"
      <4>1. journal[r].status = "submitting" /\ mine(c).status = "confirmed"
        BY <1>3, <3>4, <3>8 DEF BookInv
      <4>2. fateOf(r) = "booking" /\ fateOf(r)' = "confirmed"
        BY <2>1, <2>3, <4>1 DEF fateOf, withdrawn
      <4> QED
        BY <2>1, <3>7, <4>2, LedgerMoves
    <3>9. CASE pc[c] = "saveOutcome"
      <4>1. /\ mine(c).status = "unknown"
            /\ journal[r].status \in {"submitting", "unknown", "cancelling"}
            /\ journal[r].status = "cancelling" => cancels[r] > 0
        BY <1>1, <1>3, <2>3, <3>4, <3>9 DEF OutcomeInv, Outstanding
      <4>2. fateOf(r)' = fateOf(r)
        BY <2>1, <2>3, <3>5, <4>1 DEF fateOf, withdrawn
      <4> QED
        BY <2>1, <3>7, <4>2, LedgerMoves
    <3>10. CASE pc[c] = "saveCancelling"
      <4>1. journal[r].status = "confirmed" /\ mine(c).status = "cancelling"
        BY <1>3, <3>4, <3>10 DEF CancelInv
      <4>2. fateOf(r) = "confirmed" /\ fateOf(r)' = "cancelling"
        BY <2>1, <2>3, <4>1 DEF fateOf, withdrawn
      <4> QED
        BY <2>1, <3>7, <4>2, LedgerMoves
    <3>11. CASE pc[c] = "saveCancelled"
      <4>1. journal[r].status = "cancelling" /\ mine(c).status = "cancelled"
        BY <1>3, <3>4, <3>11 DEF CancelInv
      <4>2. fateOf(r) = "cancelling" /\ fateOf(r)' = "cancelled"
        BY <2>1, <2>3, <4>1 DEF fateOf, withdrawn
      <4> QED
        BY <2>1, <3>7, <4>2, LedgerMoves
    <3> QED
      BY <3>3, <3>8, <3>9, <3>10, <3>11
  <2> QED
    BY <2>2, <2>3
<1> QED
  BY <1>4, <1>5

\* The click is the attempt of the ledger.
LEMMA LedgerClick ==
  ASSUME IInv, NEW c \in Calls, Click(c)
  PROVE  [Ledger!Next]_<<fates, claims>>
<1> USE DEF IInv
<1>1. PICK r \in Requests : r = req[c]
  BY DEF TypeOK
<1>2. PICK s \in Signatures : s = sig[c]
  BY DEF TypeOK
<1>3. /\ UNCHANGED <<journal, cancels>>
      /\ submits' = [submits EXCEPT ![r] = @ + 1]
      /\ pc[c] = "click"
  BY <1>1 DEF Click, diskVars
<1>4. /\ submits[r] = 0
      /\ journal[r].status = "submitting"
      /\ journal[r].sig = s
      /\ \A q \in Requests \ {r} :
           journal[q].sig = s => journal[q].status \notin Outstanding
  BY <1>1, <1>2, <1>3 DEF CallInv, BookInv, saved
<1>5. /\ submits'[r] = 1
      /\ \A q \in Requests : q # r => submits'[q] = submits[q]
  BY <1>3, <1>4 DEF TypeOK
<1>6. \A q \in Requests : q # r =>
        fateOf(q)' = fateOf(q) /\ claimOf(q)' = claimOf(q)
  BY <1>3, <1>5 DEF fateOf, claimOf, withdrawn
<1>7. cancels[r] = 0
  <2>1. cancels[r] \in Nat /\ ~(cancels[r] > 0)
    BY <1>4 DEF TypeOK, Promises, SentRecorded
  <2> QED
    BY <2>1
<1>8. fateOf(r) = "open" /\ fateOf(r)' = "booking" /\ claimOf(r)' = s
  BY <1>3, <1>4, <1>5, <1>7 DEF fateOf, claimOf, withdrawn
<1>9. /\ fates[r] = "open"
      /\ fates' = [fates EXCEPT ![r] = "booking"]
      /\ claims' = [claims EXCEPT ![r] = s]
  BY <1>6, <1>8 DEF fates, claims
<1>10. ASSUME NEW q \in Requests, claims[q] = s
       PROVE  fates[q] \notin {"booking", "confirmed", "cancelling"}
  <2>1. claimOf(q) = s /\ fates[q] = fateOf(q)
    BY <1>10 DEF fates, claims
  <2>2. submits[q] # 0 /\ journal[q].sig = s
    BY <2>1, NoSigAssumption DEF claimOf
  <2>3. q # r /\ submits[q] > 0
    BY <1>4, <2>2 DEF TypeOK
  <2>4. journal[q].status = "cancelled"
    BY <1>4, <2>2, <2>3 DEF Promises, SentRecorded
  <2> QED
    BY <2>1, <2>2, <2>4 DEF fateOf
<1>11. Ledger!Attempt(r, s)
  BY <1>9, <1>10 DEF Ledger!Attempt, Ledger!Standing, fates, claims
<1> QED
  BY <1>11 DEF Ledger!Next

\* Opening the cancellation link changes nothing in the ledger: the
\* cancellation was on disk before it.
LEMMA LedgerNavigate ==
  ASSUME IInv, NEW c \in Calls, Navigate(c)
  PROVE  UNCHANGED <<fates, claims>>
<1> USE DEF IInv
<1>1. PICK r \in Requests : r = req[c]
  BY DEF TypeOK
<1>2. /\ UNCHANGED <<journal, submits>>
      /\ cancels' = [cancels EXCEPT ![r] = @ + 1]
      /\ pc[c] = "navigate"
  BY <1>1 DEF Navigate, diskVars
<1>3. journal[r].status = "cancelling"
  BY <1>1, <1>2 DEF CallInv, CancelInv, saved
<1>4. \A q \in Requests : fateOf(q)' = fateOf(q) /\ claimOf(q)' = claimOf(q)
  BY <1>2, <1>3 DEF fateOf, claimOf, withdrawn, TypeOK
<1> QED
  BY <1>4 DEF fates, claims

\* The empty journal is the empty ledger.
LEMMA LedgerInit == Init => Ledger!Init
  BY DEF Init, Ledger!Init, fateOf, claimOf

\* Every step of the code is a step of the ledger or a stutter.
LEMMA LedgerStep == IInv /\ [Next]_vars => [Ledger!Next]_<<fates, claims>>
<1> SUFFICES ASSUME IInv, [Next]_vars PROVE [Ledger!Next]_<<fates, claims>>
  OBVIOUS
<1> USE DEF diskVars, sentVars
<1>1. ASSUME NEW c \in Calls, BookStep(c)
      PROVE  [Ledger!Next]_<<fates, claims>>
  <2>1. CASE LoadBook(c) \/ Prepare(c) \/ Drive(c) \/ Answer(c)
    BY <2>1, LedgerStutter DEF LoadBook, Prepare, Drive, Answer
  <2>2. CASE SavePreparing(c) \/ SaveSubmitting(c) \/ Diagnose(c)
    BY <2>2, LedgerSave DEF SavePreparing, SaveSubmitting, Diagnose
  <2>3. CASE SaveConfirmed(c)
    BY <2>3, LedgerSave DEF SaveConfirmed
  <2>4. CASE Click(c)
    BY <2>4, LedgerClick
  <2> QED
    BY <1>1, <2>1, <2>2, <2>3, <2>4 DEF BookStep
<1>2. ASSUME NEW c \in Calls, CancelStep(c)
      PROVE  [Ledger!Next]_<<fates, claims>>
  <2>1. CASE LoadCancel(c) \/ CancelDrive(c) \/ CancelAnswer(c)
    BY <2>1, LedgerStutter DEF LoadCancel, CancelDrive, CancelAnswer
  <2>2. CASE SaveCancelling(c) \/ SaveCancelled(c)
    BY <2>2, LedgerSave DEF SaveCancelling, SaveCancelled
  <2>3. CASE Navigate(c)
    BY <2>3, LedgerNavigate
  <2> QED
    BY <1>2, <2>1, <2>2, <2>3 DEF CancelStep
<1>3. ASSUME NEW c \in Calls, SaveOutcome(c) \/ Release(c)
      PROVE  [Ledger!Next]_<<fates, claims>>
  <2>1. CASE SaveOutcome(c)
    BY <2>1, LedgerSave DEF SaveOutcome
  <2>2. CASE Release(c)
    BY <2>2, LedgerStutter DEF Release
  <2> QED
    BY <1>3, <2>1, <2>2
<1>4. CASE \E c \in Calls : \/ \E r \in Requests, s \in Signatures : StartBook(c, r, s)
                           \/ \E r \in Requests : StartCancel(c, r)
  BY <1>4, LedgerStutter DEF StartBook, StartCancel, TakeLock
<1>5. CASE \/ \E x \in wire : LandCheckout(x)
           \/ \E r \in cwire : LandCancel(r)
           \/ Crash
           \/ ClearStaleLock
           \/ UNCHANGED vars
  BY <1>5, LedgerStutter
     DEF LandCheckout, LandCancel, Crash, ClearStaleLock, vars
<1> QED
  BY <1>1, <1>2, <1>3, <1>4, <1>5 DEF Next, Step

\* Locks, journal, failures and kills included, the code keeps the owner's
\* ledger: it attempts a request once, and one at a time for a signature.
THEOREM KeepsLedger == Spec => ImplementsLedger
<1>1. Init => Ledger!Init
  BY LedgerInit
<1>2. IInv /\ [Next]_vars => [Ledger!Next]_<<fates, claims>>
  BY LedgerStep
<1> QED
  BY <1>1, <1>2, Invariance, PTL
     DEF Spec, ImplementsLedger, Ledger!Spec, fates, claims
=============================================================================
