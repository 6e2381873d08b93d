---------------------------- MODULE RoomBooking ----------------------------
(******************************************************************************)
(* Study-room booking and cancellation: libcal.mjs (BookingStore, LibCal)     *)
(* and src/libcal-browser.mjs (LibCalBrowser).                                *)
(*                                                                            *)
(* Several tool calls run in one gateway process and interleave at every      *)
(* await.  A call takes the write.lock directory, works on its own copy of    *)
(* the journal, writes the journal to disk before it sends anything, and      *)
(* sends at most one checkout or one cancellation to the library.  Any        *)
(* save may fail, any answer may be lost or late, and the process may be      *)
(* killed between two steps: the journal and the lock directory survive.      *)
(******************************************************************************)
EXTENDS Naturals, FiniteSets

CONSTANTS
  Calls,       \* concurrent tool calls of the gateway process
  Requests,    \* bookingRequestId values (bookingId is one to one with them)
  Slots,       \* a room, date, start time and duration
  Parties,     \* party sizes
  NoSig,       \* the signature field of a record that does not exist yet
  MaxCrashes   \* bound on process kills

Signatures == [slot: Slots, party: Parties]

ASSUME NoSigAssumption == NoSig \notin Signatures
ASSUME MaxCrashesAssumption == MaxCrashes \in Nat

VARIABLES
  lock,       \* the write.lock directory exists
  journal,    \* bookings.encrypted.json, by bookingRequestId
  pc,         \* the await each call is at
  req, sig,   \* the arguments of each call
  mem,        \* the `records` array of each call
  wire,       \* checkouts sent whose fate the library has not decided
  held,       \* reservations the library holds
  cwire,      \* cancellations sent that the library has not processed
  submits,    \* clicks on the submit button, per request
  cancels,    \* navigations to the cancellation link, per request
  crashes     \* process kills so far

callVars == <<pc, req, sig, mem>>
diskVars == <<lock, journal>>
libraryVars == <<wire, held, cwire>>
sentVars == <<submits, cancels>>
vars == <<lock, journal, pc, req, sig, mem, wire, held, cwire,
          submits, cancels, crashes>>

-----------------------------------------------------------------------------

Statuses == {"none", "preparing", "submitting", "confirmed", "unknown",
             "failed", "cancelling", "cancelled"}

Record == [status: Statuses, sig: Signatures \cup {NoSig}, url: BOOLEAN]

NoRecord == [status |-> "none", sig |-> NoSig, url |-> FALSE]

Empty == [r \in Requests |-> NoRecord]

Checkout == [req: Requests, sig: Signatures]

BookLabels == {"bookLoad", "prepare", "savePreparing", "drive",
               "saveSubmitting", "diagnose", "click", "await",
               "saveConfirmed"}

CancelLabels == {"cancelLoad", "cancelDrive", "saveCancelling", "navigate",
                 "cancelAwait", "saveCancelled"}

Labels == {"idle", "saveOutcome", "release"} \cup BookLabels \cup CancelLabels

Init ==
  /\ lock = FALSE
  /\ journal = Empty
  /\ pc = [c \in Calls |-> "idle"]
  /\ req \in [Calls -> Requests]
  /\ sig \in [Calls -> Signatures]
  /\ mem = [c \in Calls |-> Empty]
  /\ wire = {} /\ held = {} /\ cwire = {}
  /\ submits = [r \in Requests |-> 0]
  /\ cancels = [r \in Requests |-> 0]
  /\ crashes = 0

-----------------------------------------------------------------------------
(* Steps of a call *)

Goto(c, label) == pc' = [pc EXCEPT ![c] = label]

\* Mutant: the record is replaced by its new status.
MarkOnly(c, status) ==
  mem' = [mem EXCEPT ![c][req[c]] = [status |-> status]]

\* record.status = status, in the call's own copy.
Mark(c, status) == mem' = [mem EXCEPT ![c][req[c]].status = status]

mine(c) == mem[c][req[c]]

thisCheckout(c) == [req |-> req[c], sig |-> sig[c]]

\* locked(): mkdir(write.lock); a call that finds it answers SERVICE_BUSY and
\* leaves no trace.
TakeLock(c) ==
  /\ pc[c] = "idle"
  /\ ~lock
  /\ lock' = TRUE
  /\ UNCHANGED <<journal, mem, libraryVars, sentVars, crashes>>

StartBook(c, r, s) ==
  /\ TakeLock(c)
  /\ Goto(c, "bookLoad")
  /\ req' = [req EXCEPT ![c] = r]
  /\ sig' = [sig EXCEPT ![c] = s]

StartCancel(c, r) ==
  /\ TakeLock(c)
  /\ Goto(c, "cancelLoad")
  /\ req' = [req EXCEPT ![c] = r]
  /\ UNCHANGED sig

\* Mutant: an uncertain booking may be tried again.
OutstandingIfCertain == {"confirmed", "submitting", "cancelling"}

\* The records that make book() refuse or answer without an attempt.
Outstanding == {"confirmed", "submitting", "unknown", "cancelling"}

\* Mutant: only the request's own record is looked at.
mayAttemptAlone(records, r, s) ==
  records[r].status # "none" =>
    /\ records[r].sig = s
    /\ records[r].status \notin Outstanding \cup {"cancelled"}

mayAttempt(records, r, s) ==
  /\ records[r].status # "none" =>
       /\ records[r].sig = s
       /\ records[r].status \notin Outstanding \cup {"cancelled"}
  /\ \A q \in Requests :
       records[q].sig = s => records[q].status \notin Outstanding

\* load() and the checks up to catalog.prepare; an unreadable journal, a
\* conflict and an already confirmed request all leave through the finally.
LoadBook(c) ==
  /\ pc[c] = "bookLoad"
  /\ mem' = [mem EXCEPT ![c] = journal]
  /\ \/ mayAttempt(journal, req[c], sig[c]) /\ Goto(c, "prepare")
     \/ Goto(c, "release")
  /\ UNCHANGED <<req, sig, diskVars, libraryVars, sentVars, crashes>>

\* The availability grid shows the slot taken once the library holds it.
gridFree(s) == \A x \in held : x.sig.slot # s.slot

\* catalog.prepare, then the record becomes "preparing" in memory.
Prepare(c) ==
  /\ pc[c] = "prepare"
  /\ \/ /\ gridFree(sig[c])
        /\ mem' = [mem EXCEPT ![c][req[c]] =
                     [@ EXCEPT !.status = "preparing", !.sig = sig[c]]]
        /\ Goto(c, "savePreparing")
     \/ Goto(c, "release") /\ UNCHANGED mem
  /\ UNCHANGED <<req, sig, diskVars, libraryVars, sentVars, crashes>>

\* BookingStore.save: the rename makes a save all or nothing.
Save(c) == journal' = mem[c]

SavePreparing(c) ==
  /\ pc[c] = "savePreparing"
  /\ \/ Save(c) /\ Goto(c, "drive")
     \/ UNCHANGED journal /\ Goto(c, "release")
  /\ UNCHANGED <<lock, req, sig, mem, libraryVars, sentVars, crashes>>

\* LibCalBrowser.book up to the submit stage: availability again, the draft,
\* the hold and the form checks.  Only then beforeSubmit marks the record.
Drive(c) ==
  /\ pc[c] = "drive"
  /\ \/ gridFree(sig[c]) /\ Mark(c, "submitting") /\ Goto(c, "saveSubmitting")
     \/ UNCHANGED mem /\ Goto(c, "diagnose")
  /\ UNCHANGED <<req, sig, diskVars, libraryVars, sentVars, crashes>>

\* Mutant: a failed save does not keep the click back.
SaveSubmittingIfPossible(c) ==
  /\ pc[c] = "saveSubmitting"
  /\ Save(c) \/ UNCHANGED journal
  /\ Goto(c, "click")
  /\ UNCHANGED <<lock, req, sig, mem, libraryVars, sentVars, crashes>>

SaveSubmitting(c) ==
  /\ pc[c] = "saveSubmitting"
  /\ \/ Save(c) /\ Goto(c, "click")
     \/ UNCHANGED journal /\ Goto(c, "diagnose")
  /\ UNCHANGED <<lock, req, sig, mem, libraryVars, sentVars, crashes>>

\* Mutant: a failure before submission drives the form again.
DiagnoseAndRetry(c) ==
  /\ pc[c] = "diagnose"
  /\ Goto(c, "drive")
  /\ UNCHANGED <<req, sig, mem, diskVars, libraryVars, sentVars, crashes>>

\* Before submission a failure saves a diagnostic receipt (its own failure is
\* swallowed), with the record as it then is, and book() marks it "failed".
Diagnose(c) ==
  /\ pc[c] = "diagnose"
  /\ \/ Save(c)
     \/ UNCHANGED journal
  /\ Mark(c, "failed")
  /\ Goto(c, "saveOutcome")
  /\ UNCHANGED <<lock, req, sig, libraryVars, sentVars, crashes>>

\* The click: the checkout leaves, or the click itself fails.
Click(c) ==
  /\ pc[c] = "click"
  /\ submits' = [submits EXCEPT ![req[c]] = @ + 1]
  /\ \/ /\ wire' = wire \cup {thisCheckout(c)}
        /\ Goto(c, "await")
        /\ UNCHANGED mem
     \/ /\ Mark(c, "unknown")
        /\ Goto(c, "saveOutcome")
        /\ UNCHANGED wire
  /\ UNCHANGED <<req, sig, diskVars, held, cwire, cancels, crashes>>

\* The page shows a recognized confirmation only of a checkout the library holds.
confirmationShown(c) == thisCheckout(c) \in held

\* Mutant: any answer counts as a confirmation.
AnswerConfirms(c) ==
  /\ pc[c] = "await"
  /\ mem' = [mem EXCEPT ![c][req[c]] =
               [@ EXCEPT !.status = "confirmed", !.url = TRUE]]
  /\ Goto(c, "saveConfirmed")
  /\ UNCHANGED <<req, sig, diskVars, libraryVars, sentVars, crashes>>

\* The response, the receipt save and the confirmation page: only a recognized
\* confirmation counts.  A timeout, a refusal, an unreadable page or a failed
\* receipt save is "unknown", whatever the library did.
Answer(c) ==
  /\ pc[c] = "await"
  /\ \/ /\ confirmationShown(c)
        /\ \E link \in BOOLEAN :
             mem' = [mem EXCEPT ![c][req[c]] =
                       [@ EXCEPT !.status = "confirmed", !.url = link]]
        /\ Goto(c, "saveConfirmed")
     \/ Mark(c, "unknown") /\ Goto(c, "saveOutcome")
  /\ UNCHANGED <<req, sig, diskVars, libraryVars, sentVars, crashes>>

SaveConfirmed(c) ==
  /\ pc[c] = "saveConfirmed"
  /\ \/ Save(c) /\ Goto(c, "release") /\ UNCHANGED mem
     \/ UNCHANGED journal /\ Mark(c, "unknown") /\ Goto(c, "saveOutcome")
  /\ UNCHANGED <<lock, req, sig, libraryVars, sentVars, crashes>>

\* The save in the catch blocks; if it fails too, the error leaves anyway.
SaveOutcome(c) ==
  /\ pc[c] = "saveOutcome"
  /\ \/ Save(c)
     \/ UNCHANGED journal
  /\ Goto(c, "release")
  /\ UNCHANGED <<lock, req, sig, mem, libraryVars, sentVars, crashes>>

\* Mutant: a stored link is enough, whatever the record's status.
LoadCancelByLink(c) ==
  /\ pc[c] = "cancelLoad"
  /\ mem' = [mem EXCEPT ![c] = journal]
  /\ \/ journal[req[c]].url /\ Goto(c, "cancelDrive")
     \/ Goto(c, "release")
  /\ UNCHANGED <<req, sig, diskVars, libraryVars, sentVars, crashes>>

LoadCancel(c) ==
  /\ pc[c] = "cancelLoad"
  /\ mem' = [mem EXCEPT ![c] = journal]
  /\ \/ /\ journal[req[c]].status = "confirmed"
        /\ journal[req[c]].url
        /\ Goto(c, "cancelDrive")
     \/ Goto(c, "release")
  /\ UNCHANGED <<req, sig, diskVars, libraryVars, sentVars, crashes>>

\* LibCalBrowser.cancel up to beforeSubmit; a failure here saves nothing.
CancelDrive(c) ==
  /\ pc[c] = "cancelDrive"
  /\ \/ Mark(c, "cancelling") /\ Goto(c, "saveCancelling")
     \/ UNCHANGED mem /\ Goto(c, "release")
  /\ UNCHANGED <<req, sig, diskVars, libraryVars, sentVars, crashes>>

SaveCancelling(c) ==
  /\ pc[c] = "saveCancelling"
  /\ \/ Save(c) /\ Goto(c, "navigate")
     \/ UNCHANGED journal /\ Goto(c, "release")
  /\ UNCHANGED <<lock, req, sig, mem, libraryVars, sentVars, crashes>>

\* page.goto: some cancellation links act on the GET.
Navigate(c) ==
  /\ pc[c] = "navigate"
  /\ cancels' = [cancels EXCEPT ![req[c]] = @ + 1]
  /\ \/ /\ cwire' = cwire \cup {req[c]}
        /\ Goto(c, "cancelAwait")
        /\ UNCHANGED mem
     \/ /\ Mark(c, "unknown")
        /\ Goto(c, "saveOutcome")
        /\ UNCHANGED cwire
  /\ UNCHANGED <<req, sig, diskVars, wire, held, submits, crashes>>

\* Mutant: without the library's word the booking counts as still confirmed.
CancelAnswerOrConfirmed(c) ==
  /\ pc[c] = "cancelAwait"
  /\ \/ /\ \A x \in held : x.req # req[c]
        /\ Mark(c, "cancelled")
        /\ Goto(c, "saveCancelled")
     \/ Mark(c, "confirmed") /\ Goto(c, "saveOutcome")
  /\ UNCHANGED <<req, sig, diskVars, libraryVars, sentVars, crashes>>

\* "has been cancelled" is shown only for a reservation no longer held.
CancelAnswer(c) ==
  /\ pc[c] = "cancelAwait"
  /\ \/ /\ \A x \in held : x.req # req[c]
        /\ Mark(c, "cancelled")
        /\ Goto(c, "saveCancelled")
     \/ Mark(c, "unknown") /\ Goto(c, "saveOutcome")
  /\ UNCHANGED <<req, sig, diskVars, libraryVars, sentVars, crashes>>

SaveCancelled(c) ==
  /\ pc[c] = "saveCancelled"
  /\ \/ Save(c) /\ Goto(c, "release") /\ UNCHANGED mem
     \/ UNCHANGED journal /\ Mark(c, "unknown") /\ Goto(c, "saveOutcome")
  /\ UNCHANGED <<lock, req, sig, libraryVars, sentVars, crashes>>

\* finally { rmdir(lock) }: if it fails, the call does too and the lock stays.
Release(c) ==
  /\ pc[c] = "release"
  /\ lock' \in BOOLEAN
  /\ Goto(c, "idle")
  /\ mem' = [mem EXCEPT ![c] = Empty]
  /\ UNCHANGED <<journal, req, sig, libraryVars, sentVars, crashes>>

-----------------------------------------------------------------------------
(* The library *)

\* The library takes a checkout, at any time after it was sent, if the slot is
\* still free; otherwise, or because it was lost, the checkout has no effect.
LandCheckout(x) ==
  /\ x \in wire
  /\ wire' = wire \ {x}
  /\ \/ gridFree(x.sig) /\ held' = held \cup {x}
     \/ UNCHANGED held
  /\ UNCHANGED <<diskVars, callVars, cwire, sentVars, crashes>>

LandCancel(r) ==
  /\ r \in cwire
  /\ cwire' = cwire \ {r}
  /\ \/ held' = {x \in held : x.req # r}
     \/ UNCHANGED held
  /\ UNCHANGED <<diskVars, callVars, wire, sentVars, crashes>>

(* The process and its operator *)

\* The process is killed: every call ends where it is, the files stay.
Crash ==
  /\ crashes < MaxCrashes
  /\ crashes' = crashes + 1
  /\ \E c \in Calls : pc[c] # "idle"
  /\ pc' = [c \in Calls |-> "idle"]
  /\ mem' = [c \in Calls |-> Empty]
  /\ UNCHANGED <<diskVars, req, sig, libraryVars, sentVars>>

\* An administrator removes a write.lock that a killed process or a failed rmdir left,
\* after checking that nothing runs.
ClearStaleLock ==
  /\ lock
  /\ \A c \in Calls : pc[c] = "idle"
  /\ lock' = FALSE
  /\ UNCHANGED <<journal, callVars, libraryVars, sentVars, crashes>>

-----------------------------------------------------------------------------

BookStep(c) ==
  \/ LoadBook(c) \/ Prepare(c) \/ SavePreparing(c) \/ Drive(c)
  \/ SaveSubmitting(c) \/ Diagnose(c) \/ Click(c) \/ Answer(c)
  \/ SaveConfirmed(c)

CancelStep(c) ==
  \/ LoadCancel(c) \/ CancelDrive(c) \/ SaveCancelling(c) \/ Navigate(c)
  \/ CancelAnswer(c) \/ SaveCancelled(c)

\* What a call does after it holds the lock.
Step(c) == BookStep(c) \/ CancelStep(c) \/ SaveOutcome(c) \/ Release(c)

Next ==
  \/ \E c \in Calls : Step(c)
  \/ \E c \in Calls, r \in Requests, s \in Signatures : StartBook(c, r, s)
  \/ \E c \in Calls, r \in Requests : StartCancel(c, r)
  \/ \E x \in wire : LandCheckout(x)
  \/ \E r \in cwire : LandCancel(r)
  \/ Crash
  \/ ClearStaleLock

Spec == Init /\ [][Next]_vars

\* Every await of a call has a timeout in the code, so a live call moves on.
FairSpec == Spec /\ \A c \in Calls : WF_vars(Step(c))

-----------------------------------------------------------------------------
(* Properties *)

\* Every variable has its type.
TypeOK ==
  /\ lock \in BOOLEAN
  /\ journal \in [Requests -> Record]
  /\ pc \in [Calls -> Labels]
  /\ req \in [Calls -> Requests]
  /\ sig \in [Calls -> Signatures]
  /\ mem \in [Calls -> [Requests -> Record]]
  /\ wire \in SUBSET Checkout
  /\ held \in SUBSET Checkout
  /\ cwire \in SUBSET Requests
  /\ submits \in [Requests -> Nat]
  /\ cancels \in [Requests -> Nat]
  /\ crashes \in Nat

\* A bookingRequestId is submitted to the library at most once, over every
\* retry, lost answer, failed save and restart.
SubmitAtMostOnce == \A r \in Requests : submits[r] <= 1

\* An uncertain cancellation is never repeated: the stored link is opened at
\* most once for a booking.
CancelAtMostOnce == \A r \in Requests : cancels[r] <= 1

\* What the library may be holding for one signature comes from one request:
\* a second request with the same arguments never gets its own reservation
\* while the first one is pending, held or in doubt.
OneReservationPerSignature ==
  \A x, y \in wire \cup held : x.sig = y.sig => x = y

\* Whatever the library holds or may yet take is on disk as an attempt with
\* those arguments: the journal was written before the click and no later
\* save, failure or restart makes the attempt look safe to repeat.
LiveIsJournalled ==
  \A x \in wire \cup held :
    /\ journal[x.req].sig = x.sig
    /\ journal[x.req].status \in Outstanding

\* A booking recorded as confirmed is held by the library (reservations are
\* changed only through this gateway here).
ConfirmedIsHeld ==
  \A r \in Requests :
    journal[r].status = "confirmed" => \E x \in held : x.req = r

\* A call that holds the lock ends, or the process was killed.
CallsEnd == \A c \in Calls : pc[c] # "idle" ~> pc[c] = "idle"

\* Refinement mapping: what the journal and the clicks say of a request.
\* "unknown" stands for an uncertain booking or an uncertain cancellation.
withdrawn(r) ==
  \/ journal[r].status = "cancelling"
  \/ journal[r].status = "unknown" /\ cancels[r] > 0

fateOf(r) ==
  IF submits[r] = 0 THEN "open"
  ELSE IF journal[r].status \in {"confirmed", "cancelled"}
         THEN journal[r].status
         ELSE IF withdrawn(r) THEN "cancelling" ELSE "booking"

claimOf(r) == IF submits[r] = 0 THEN NoSig ELSE journal[r].sig

Ledger == INSTANCE RoomLedger
  WITH fate <- [r \in Requests |-> fateOf(r)],
       claim <- [r \in Requests |-> claimOf(r)]

\* With its journal, its lock and its failures the code keeps the owner's
\* ledger: attempts, confirmations and cancellations in order, once each.
ImplementsLedger == Ledger!Spec

\* docs/study-rooms.md: the service "blocks duplicate attempts for that request
\* and that same room/time".  Two attempts for one room and time are never
\* both pending.
OneAttemptPerRoomTime ==
  \A x, y \in wire : x.sig.slot = y.sig.slot => x = y
=============================================================================
