--------------------------- MODULE CrowdmarkFiles ---------------------------
(******************************************************************************)
(* Upload tickets and staged photos (src/src/crowdmark-files.mjs).  A ticket  *)
(* is <id>.json, the photo <id>.encrypted and the marker <id>.used; what      *)
(* changes them runs in one queue, what reads them does not.  Ticket and      *)
(* photo are written in place: a write that fails or is killed leaves a part. *)
(******************************************************************************)
EXTENDS Naturals, FiniteSets

CONSTANTS
  Tickets,     \* ids of tickets, each created once
  MaxRows,     \* live tickets (the code: 50, and 100 MiB)
  MaxCrashes

VARIABLES
  files,    \* the names in the directory: pairs <<ticket, extension>>
  torn,     \* those of them whose write began and did not end
  expired,  \* tickets past expiresAt
  closed,   \* tickets past uploadExpiresAt, 15 minutes after the creation
  task,     \* what runs in the queue
  ready,    \* tickets whose upload was answered "ready" (history)
  crashes

vars == <<files, torn, expired, closed, task, ready, crashes>>

Extensions == {"json", "encrypted", "used"}

Tasks == {"none", "remove", "mark", "write"}

\* left: the files the sweep has still to remove; id: the ticket created after it.
NoTask == [do |-> "none", id |-> {}, left |-> {}]

Init ==
  /\ files = {} /\ torn = {} /\ expired = {} /\ closed = {} /\ ready = {}
  /\ task = NoTask /\ crashes = 0

exists(t, ext) == <<t, ext>> \in files

\* What JSON.parse and decrypt accept.
whole(t, ext) == exists(t, ext) /\ <<t, ext>> \notin torn

\* get: the ticket, then the photo; not in the queue.
readable(t) == whole(t, "json") /\ t \notin expired /\ whole(t, "encrypted")

\* Mutant: tickets nobody used are forgotten.
sweptUsed == {t \in expired : whole(t, "json") /\ exists(t, "used")}

\* Mutant: what can no longer be uploaded is swept too.
sweptClosed == {t \in closed : whole(t, "json")}

\* The tickets a sweep removes.
swept == {t \in expired : whole(t, "json")}

tornTicket == \E t \in Tickets : <<t, "json">> \in torn

rows == {t \in Tickets : whole(t, "json") /\ t \notin expired}

-----------------------------------------------------------------------------

\* 24 hours, and 15 minutes.
Pass ==
  /\ \/ \E t \in Tickets \ closed : exists(t, "json") /\ closed' = closed \cup {t}
                                    /\ UNCHANGED expired
     \/ \E t \in closed \ expired : expired' = expired \cup {t} /\ UNCHANGED closed
  /\ UNCHANGED <<files, torn, task, ready, crashes>>

\* cleanup: the hourly sweep ({}), or the one before a ticket ({t}) is created.  It ends
\* with an error at the first ticket that does not parse, after those that come before
\* it in the directory.
Sweep ==
  /\ task.do = "none"
  /\ IF tornTicket
     THEN \E before \in SUBSET swept :
            task' = [do |-> "remove", id |-> {}, left |-> before \X Extensions]
     ELSE \E id \in {{}} \cup {{t} : t \in {t \in Tickets : ~exists(t, "json") /\ t \notin closed}} :
            task' = [do |-> "remove", id |-> id, left |-> swept \X Extensions]
  /\ UNCHANGED <<files, torn, expired, closed, ready, crashes>>

\* Each ticket's files go in the order .json, .encrypted, .used; an rm that fails
\* ends the sweep.
mayRemove(f) ==
  /\ f[2] = "json" \/ <<f[1], "json">> \notin task.left
  /\ f[2] = "used" => <<f[1], "encrypted">> \notin task.left

Remove ==
  /\ task.do = "remove"
  /\ \E f \in task.left :
       /\ mayRemove(f)
       /\ \/ /\ files' = files \ {f} /\ torn' = torn \ {f}
             /\ task' = [task EXCEPT !.left = @ \ {f}]
          \/ UNCHANGED <<files, torn>> /\ task' = NoTask
  /\ UNCHANGED <<expired, closed, ready, crashes>>

\* The exclusive create of <id>.json, written in place.
Create ==
  /\ task.do = "remove" /\ task.left = {}
  /\ task' = NoTask
  /\ LET new == IF Cardinality(rows) >= MaxRows THEN {}
                ELSE {<<t, "json">> : t \in task.id} \ files
     IN \/ files' = files \cup new /\ torn' \in {torn, torn \cup new}
        \/ UNCHANGED <<files, torn>>
  /\ UNCHANGED <<expired, closed, ready, crashes>>

-----------------------------------------------------------------------------

\* receive: the caller, the time, the size, the digest and the type fit the ticket.
Receive ==
  /\ task.do = "none"
  /\ \E t \in rows \ closed : task' = [NoTask EXCEPT !.do = "mark", !.id = {t}]
  /\ UNCHANGED <<files, torn, expired, closed, ready, crashes>>

\* The exclusive create of <id>.used.
MarkUsed ==
  /\ task.do = "mark"
  /\ \E t \in task.id :
       IF exists(t, "used")
       THEN task' = NoTask /\ UNCHANGED files
       ELSE /\ files' = files \cup {<<t, "used">>}
            /\ task' = [task EXCEPT !.do = "write"]
  /\ UNCHANGED <<torn, expired, closed, ready, crashes>>

\* The exclusive create of <id>.encrypted, written in place; a write that fails leaves
\* nothing, or a part that does not decrypt.
Write ==
  /\ task.do = "write"
  /\ \E t \in task.id :
       \/ /\ ~exists(t, "encrypted")
          /\ files' = files \cup {<<t, "encrypted">>}
          /\ \/ ready' = ready \cup {t} /\ UNCHANGED torn
             \/ torn' = torn \cup {<<t, "encrypted">>} /\ UNCHANGED ready
       \/ UNCHANGED <<files, torn, ready>>
  /\ task' = NoTask
  /\ UNCHANGED <<expired, closed, crashes>>

-----------------------------------------------------------------------------

\* The process is killed; what a write under way leaves is what a failed one does.
Crash ==
  /\ crashes < MaxCrashes
  /\ crashes' = crashes + 1
  /\ task' = NoTask
  /\ UNCHANGED <<files, torn, expired, closed, ready>>

Next == \/ Pass \/ Sweep \/ Remove \/ Create \/ Receive \/ MarkUsed \/ Write \/ Crash

Spec == Init /\ [][Next]_vars

\* A removal that succeeds.
RemoveOne == Remove /\ task' # NoTask

QueueStep == Remove \/ Create \/ MarkUsed \/ Write

\* Sweeps come every hour, what runs in the queue ends, and the files of a sweep that
\* goes on can be removed some time.
FairSpec == Spec /\ SF_vars(Sweep) /\ SF_vars(RemoveOne) /\ WF_vars(QueueStep)

-----------------------------------------------------------------------------
(* Properties *)

TypeOK ==
  /\ files \subseteq Tickets \X Extensions /\ torn \subseteq files
  /\ expired \subseteq closed /\ closed \subseteq Tickets /\ ready \subseteq Tickets
  /\ task.do \in Tasks /\ task.id \subseteq Tickets
  /\ task.left \subseteq Tickets \X Extensions

\* A photo whose upload was answered "ready" can be used until it expires, and
\* live tickets stay within the limit, however sweeps, uploads, reads, failed writes
\* and kills mix.
ReadyIsReadable ==
  /\ \A t \in ready \ expired : readable(t)
  /\ Cardinality(rows) <= MaxRows

\* docs/crowdmark.md:106: "An hourly sweep and new-ticket creation remove expired data".
\* A ticket that has expired is removed, unless one is torn: that ends every sweep
\* (cleanup), and nothing removes it.
ExpiredIsRemoved ==
  \A t \in Tickets : t \in expired /\ exists(t, "json") ~> ~exists(t, "json") \/ tornTicket

=============================================================================
