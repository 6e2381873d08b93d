--------------------------- MODULE CrowdmarkWrite ---------------------------
(********************************************************************************)
(* Saving and submitting Crowdmark answers (src/src/crowdmark.mjs): the queue,  *)
(* the revision checks, the action markers and the browser that types,          *)
(* beside a student who may have the assignment open in another editor.         *)
(* A revision is a hash of the whole assignment, so it is the assignment.       *)
(********************************************************************************)
EXTENDS Naturals, Sequences, FiniteSets, SequencesExt

CONSTANTS
  Requests,      \* approved argument sets
  Submits,       \* those of submit_crowdmark_assignment
  actionOf,      \* the actionId among the arguments
  Questions, TextQuestions,
  changes,       \* the photos and texts of a save: a sequence of [q, page]
  Foreign,       \* a page or text from another editor
  MaxPending,    \* calls in the queue (the code: 4)
  MaxMarkers,    \* action markers kept (the code: 5000)
  MaxCalls, MaxEdits, MaxCrashes

VARIABLES
  site,      \* the assignment at Crowdmark
  wire,      \* changes sent by the browser that Crowdmark has not handled
  args,      \* the revision each request was approved for, or NoSite
  consumed,  \* approvals used
  markers,   \* state/crowdmark-operations
  queue,     \* Crowdmark.queue: the calls not ended, the first one running
  job,       \* what the first call of the queue is doing
  answer,    \* the last answer to each request
  begun,     \* edits begun for each action (history)
  sent,      \* changes sent for each request (history)
  calls, edits, crashes

vars == <<site, wire, args, consumed, markers, queue, job, answer, begun,
          sent, calls, edits, crashes>>

-----------------------------------------------------------------------------

Answers == {"none", "busy", "changed", "refused", "used", "full", "unknown",
            "saved", "submitted"}

NoSite == [pages |-> <<>>, drafting |-> FALSE, submitted |-> FALSE, open |-> FALSE]

ActionIds == {actionOf[r] : r \in Requests}

\* next: the change it makes next; current: the assignment it read last;
\* shown: the pages the browser has on screen; unexpected: a write was blocked.
\* touched: it sent a change; alone: nobody else was at work (history).
idle == [at |-> "prepare", next |-> 1, before |-> NoSite, current |-> NoSite,
         shown |-> <<>>, unexpected |-> FALSE, touched |-> FALSE, alone |-> TRUE]

Init ==
  /\ site = [pages |-> [q \in Questions |-> <<>>], drafting |-> FALSE,
             submitted |-> FALSE, open |-> TRUE]
  /\ wire = {} /\ consumed = {} /\ markers = {} /\ queue = <<>> /\ job = idle
  /\ args = [r \in Requests |-> NoSite]
  /\ answer = [r \in Requests |-> "none"]
  /\ begun = [a \in ActionIds |-> 0]
  /\ sent = [r \in Requests |-> 0]
  /\ calls = 0 /\ edits = 0 /\ crashes = 0

\* What a read gives: the assignment with the newest text of each answer.
assignment == site

requireEditable(a) == a.open /\ ~a.submitted

\* Every question has an answer.
complete(a) == \A q \in Questions : a.pages[q] # <<>>

\* prepare: the checks of a request against the assignment, before any write.
prepared(r, a) ==
  /\ requireEditable(a)
  /\ r \in Submits => complete(a)

-----------------------------------------------------------------------------
(* The student and Crowdmark *)

addPage(pages, q, page) ==
  [pages EXCEPT ![q] = IF q \in TextQuestions THEN <<page>> ELSE Append(@, page)]

\* Another editor of the same student, who may also submit, or the deadline.
Edit ==
  /\ edits < MaxEdits /\ requireEditable(site)
  /\ \/ \E q \in Questions : site' = [site EXCEPT !.pages = addPage(@, q, Foreign)]
     \/ \E q \in Questions \ TextQuestions :
          /\ site.pages[q] # <<>>
          /\ site' = [site EXCEPT !.pages[q] = Front(@)]
     \/ site' = [site EXCEPT !.submitted = TRUE]
     \/ site' = [site EXCEPT !.open = FALSE]
  /\ edits' = edits + 1
  /\ job' = [job EXCEPT !.alone = queue = <<>>]
  /\ UNCHANGED <<wire, args, consumed, markers, queue, answer, begun, sent,
                 calls, crashes>>

\* Crowdmark handles what the browser sent, or refuses it.
Land ==
  /\ \E w \in wire :
       /\ wire' = wire \ {w}
       /\ job' = [job EXCEPT !.alone = @ /\ (queue = <<>> \/ w.r = Head(queue))]
       /\ \/ /\ requireEditable(site)
             /\ site' = IF w.r \in Submits
                        THEN [site EXCEPT !.submitted = TRUE, !.pages = w.pages]
                        ELSE [site EXCEPT !.pages = addPage(@, w.change.q, w.change.page)]
          \/ UNCHANGED site
  /\ UNCHANGED <<args, consumed, markers, queue, answer, begun, sent,
                 calls, edits, crashes>>

-----------------------------------------------------------------------------
(* A tool call: Crowdmark.call and Crowdmark.serial *)

\* The call without an approval: its preview fixes the revision to approve.
Ask(r) ==
  /\ args[r] = NoSite /\ queue = <<>> /\ prepared(r, assignment)
  /\ args' = [args EXCEPT ![r] = site]
  /\ UNCHANGED <<site, wire, consumed, markers, queue, job, answer, begun, sent,
                 calls, edits, crashes>>

Call(r) ==
  /\ args[r] # NoSite /\ calls < MaxCalls
  /\ calls' = calls + 1
  /\ IF Len(queue) >= MaxPending
     THEN answer' = [answer EXCEPT ![r] = "busy"] /\ UNCHANGED queue
     ELSE queue' = Append(queue, r) /\ UNCHANGED answer
  /\ UNCHANGED <<site, wire, args, consumed, markers, job, begun, sent,
                 edits, crashes>>

running == Head(queue)

At(label) == queue # <<>> /\ job.at = label

\* The call ends and the next of the queue starts, whatever the answer.
End(what) ==
  /\ answer' = [answer EXCEPT ![running] = what]
  /\ queue' = Tail(queue)
  /\ job' = idle

Move(next) == job' = next /\ UNCHANGED <<queue, answer>>

Prepare ==
  /\ At("prepare")
  /\ IF ~requireEditable(assignment) THEN End("refused")
     ELSE IF assignment # args[running] THEN End("changed")
     ELSE Move([job EXCEPT !.at = "authorize"]) \/ End("refused")
  /\ UNCHANGED <<site, wire, args, consumed, markers, begun, sent, calls, edits, crashes>>

\* The approval, bound to the arguments, is used before anything is written.
Authorize ==
  /\ At("authorize")
  /\ IF running \in consumed
     THEN End("refused") /\ UNCHANGED consumed
     ELSE consumed' = consumed \cup {running} /\ Move([job EXCEPT !.at = "mark"])
  /\ UNCHANGED <<site, wire, args, markers, begun, sent, calls, edits, crashes>>

\* Mutant: an open that truncates the marker of an earlier try.
createsAnyway(a) == TRUE

\* The exclusive create of <actionId>.json succeeds.
creates(a) == a \notin markers

\* The marker, which may not get its contents.
Mark ==
  /\ At("mark")
  /\ LET a == actionOf[running] IN
     IF Cardinality(markers) >= MaxMarkers THEN End("full") /\ UNCHANGED markers
     ELSE IF ~creates(a) THEN End("used") /\ UNCHANGED markers
     ELSE /\ markers' = markers \cup {a}
          /\ Move([job EXCEPT !.at = "reread"]) \/ End("refused")
  /\ UNCHANGED <<site, wire, args, consumed, begun, sent, calls, edits, crashes>>

Reread ==
  /\ At("reread")
  /\ IF assignment # args[running]
     THEN End("changed") /\ UNCHANGED begun
     ELSE /\ Move([job EXCEPT !.at = "enter", !.before = assignment])
          /\ begun' = [begun EXCEPT ![actionOf[running]] = @ + 1]
  /\ UNCHANGED <<site, wire, args, consumed, markers, sent, calls, edits, crashes>>

-----------------------------------------------------------------------------
(* CrowdmarkSession.edit: the browser *)

\* Opening the page may start drafting, and may attempt writes of its own, which
\* the route filter aborts.
Enter ==
  /\ At("enter")
  /\ site' \in {site, [site EXCEPT !.drafting = TRUE]}
  /\ \E blocked \in BOOLEAN :
       Move([job EXCEPT !.at = "compare", !.shown = site.pages, !.unexpected = blocked])
  /\ UNCHANGED <<wire, args, consumed, markers, begun, sent, calls, edits, crashes>>

Compare ==
  /\ At("compare")
  /\ IF [assignment EXCEPT !.drafting = job.before.drafting] # job.before THEN End("changed")
     ELSE IF ~requireEditable(assignment) THEN End("unknown")
     ELSE Move([job EXCEPT !.at = "act", !.current = assignment])
  /\ UNCHANGED <<site, wire, args, consumed, markers, begun, sent, calls, edits, crashes>>

\* allowedCrowdmarkWrite for a submission: exactly the approved pages.
allowedCrowdmarkWrite(pages) == pages = job.before.pages

\* The last read before each click.
Click ==
  /\ At("act") /\ running \in Submits
  /\ IF assignment # job.current
     THEN End("changed") /\ UNCHANGED <<wire, sent>>
     ELSE IF allowedCrowdmarkWrite(job.shown)
     THEN /\ wire' = wire \cup {[r |-> running, pages |-> job.shown]}
          /\ sent' = [sent EXCEPT ![running] = @ + 1]
          /\ Move([job EXCEPT !.at = "poll", !.touched = TRUE])
     ELSE /\ Move([job EXCEPT !.at = "poll", !.unexpected = TRUE])
          /\ UNCHANGED <<wire, sent>>
  /\ UNCHANGED <<site, args, consumed, markers, begun, calls, edits, crashes>>

\* One photo or one text.
SetInput ==
  /\ At("act") /\ running \notin Submits
  /\ IF assignment # job.current
     THEN End("unknown") /\ UNCHANGED <<wire, sent>>
     ELSE /\ wire' = wire \cup {[r |-> running, n |-> job.next, change |-> changes[job.next]]}
          /\ sent' = [sent EXCEPT ![running] = @ + 1]
          /\ Move([job EXCEPT !.at = "poll", !.touched = TRUE])
  /\ UNCHANGED <<site, args, consumed, markers, begun, calls, edits, crashes>>

PollSubmitted ==
  /\ At("poll") /\ running \in Submits /\ site.submitted
  /\ End(IF job.unexpected \/ site.pages # job.current.pages
         THEN "unknown" ELSE "submitted")
  /\ UNCHANGED <<site, wire, args, consumed, markers, begun, sent, calls, edits, crashes>>

\* Mutant: the photo's page counts as there when some page is.
arrivedSome(change) ==
  LET q == change.q IN
  IF q \in TextQuestions THEN site.pages[q] = <<change.page>>
  ELSE Len(site.pages[q]) > 0

\* One page more than before, or the text: the change has arrived.
arrived(change) ==
  LET q == change.q IN
  IF q \in TextQuestions THEN site.pages[q] = <<change.page>>
  ELSE Len(site.pages[q]) = Len(job.current.pages[q]) + 1

priorKept(change) ==
  \/ change.q \in TextQuestions
  \/ ToSet(job.current.pages[change.q]) \subseteq ToSet(site.pages[change.q])

PollSaved ==
  /\ At("poll") /\ running \notin Submits
  /\ LET change == changes[job.next]
         another == job.next < Len(changes) /\ changes[job.next + 1].q = change.q
     IN /\ arrived(change)
        /\ IF ~priorKept(change) \/ (~another /\ (job.unexpected \/ site.submitted))
           THEN End("unknown")
           ELSE IF job.next < Len(changes)
           THEN Move([job EXCEPT !.at = "act", !.next = @ + 1, !.current = site])
           ELSE End("saved")
  /\ UNCHANGED <<site, wire, args, consumed, markers, begun, sent, calls, edits, crashes>>

\* A read, a page or a photo that fails, 45 seconds without an effect, or 150
\* seconds in all: after the marker the outcome is unknown.
Fail ==
  /\ \E label \in {"reread", "enter", "compare", "act", "poll"} : At(label)
  /\ End("unknown")
  /\ UNCHANGED <<site, wire, args, consumed, markers, begun, sent, calls, edits, crashes>>

Crash ==
  /\ crashes < MaxCrashes /\ queue # <<>>
  /\ crashes' = crashes + 1
  /\ queue' = <<>> /\ job' = idle
  /\ UNCHANGED <<site, wire, args, consumed, markers, answer, begun, sent, calls, edits>>

-----------------------------------------------------------------------------

Next ==
  \/ Edit \/ Land
  \/ \E r \in Requests : Ask(r) \/ Call(r)
  \/ Prepare \/ Authorize \/ Mark \/ Reread
  \/ Enter \/ Compare \/ Click \/ SetInput \/ PollSubmitted \/ PollSaved
  \/ Fail \/ Crash

Spec == Init /\ [][Next]_vars

-----------------------------------------------------------------------------
(* Properties *)

Pages == Seq({Foreign} \cup {changes[i].page : i \in DOMAIN changes})

TypeOK ==
  /\ site.pages \in [Questions -> Pages]
  /\ \A f \in {"drafting", "submitted", "open"} : site[f] \in BOOLEAN
  /\ consumed \subseteq Requests /\ markers \subseteq ActionIds
  /\ Range(queue) \subseteq Requests /\ Len(queue) <= MaxPending
  /\ answer \in [Requests -> Answers]
  /\ job.at \in {"prepare", "authorize", "mark", "reread", "enter", "compare",
                 "act", "poll"}
  /\ job.next \in DOMAIN changes

\* An action is carried out once, and no photo is sent twice, over retries, a
\* second approval of the same action, unknown outcomes and kills.
NeverReplayed ==
  /\ \A a \in ActionIds : begun[a] <= 1
  /\ \A r \in Requests : sent[r] <= (IF r \in Submits THEN 1 ELSE Len(changes))

\* What the gateway submits is what the owner approved, however the student edits
\* meanwhile.
SubmittedAsReviewed ==
  \A w \in wire : w.r \in Submits => w.pages = args[w.r].pages

\* The running call ends with this answer.
answers(what) ==
  queue # <<>> /\ queue' = Tail(queue) /\ crashes' = crashes /\ answer'[running] = what

\* CROWDMARK_CHANGED asks for a new approval, so the call has sent nothing.
ChangedIsUntouched == answers("changed") => ~job.touched

\* What pages become by the changes up to each of them.
stored(pages) ==
  LET after[n \in 0..Len(changes)] ==
        IF n = 0 THEN pages ELSE addPage(after[n - 1], changes[n].q, changes[n].page)
  IN after

\* A call that had Crowdmark to itself and answers "saved" has stored every
\* photo and text, in order, and lost no earlier page.
SavedIsStored ==
  answers("saved") /\ job.alone =>
    site.pages = stored(args[running].pages)[Len(changes)]

=============================================================================
