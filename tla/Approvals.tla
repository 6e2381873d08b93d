----------------------------- MODULE Approvals -----------------------------
(******************************************************************************)
(* Owner approvals: authorization.mjs (Authorizations) and its two users      *)
(* in gateway.mjs, the browser form and the tool call.                        *)
(*                                                                            *)
(* A write tool without an approval saves a request and answers its id;       *)
(* the owner's form decides it; the same call, repeated with the id,          *)
(* consumes it and only then writes.  Forms and calls interleave at every     *)
(* file operation.  All saves of one approval go through one file,            *)
(* <id>.json.pending, which they open, write and rename over <id>.json.       *)
(******************************************************************************)
EXTENDS Naturals

CONSTANTS
  Ids,         \* approval ids
  Actions,     \* digests: a tool, its arguments and the calling client
  Forms,       \* browser forms being served
  Calls,       \* tool calls being served
  None,        \* no file, no approval, no action
  MaxPosts,    \* bound on the forms posted
  MaxCrashes   \* bound on process kills

Jobs == Forms \cup Calls

ASSUME FormsAreNotCalls == Forms \cap Calls = {}
ASSUME NoneIsNothing == None \notin Jobs \cup Ids \cup Actions
ASSUME BoundsAssumption == MaxPosts \in Nat /\ MaxCrashes \in Nat

VARIABLES
  file,       \* what <id>.json names: an inode, called by who created it
  draft,      \* what <id>.json.pending names
  text,       \* what an inode says of the approval's status
  used,       \* <id>.used exists
  digest,     \* the action an approval was requested for
  expired,    \* the approvals with Date.now() > expiresAt
  job,        \* what each form and call is doing
  effects,    \* how often a call went on to write under an approval
  consented,  \* approvals the owner posted a valid "approve" for
  answered,   \* decisions the owner was told of
  crowded,    \* approvals that two forms worked on at once
  posts, crashes

fileVars == <<file, draft, text, used, digest>>
ownerVars == <<consented, answered, crowded, posts>>
vars == <<file, draft, text, used, digest, expired, job, effects, consented,
          answered, crowded, posts, crashes>>

-----------------------------------------------------------------------------

Decisions == {"approved", "denied"}

\* "empty" is a file opened and not yet written, "garbled" the tail of a
\* longer text behind a shorter one: neither parses.
Texts == Decisions \cup {"pending", "empty", "garbled"}

Saving == {"open", "write", "rename"}

Labels == Saving \cup {"idle", "decide", "check", "mark", "perform"}

Job == [at: Labels,                          \* the await it is at
        id: Ids \cup {None},                 \* the approval it works on
        status: Decisions \cup {"pending"},  \* the status it saves
        fd: Jobs \cup {None},                \* the inode it writes to
        act: Actions \cup {None},            \* the action it would perform
        late: BOOLEAN]                       \* it began after the expiry

Idle == [at |-> "idle", id |-> None, status |-> "pending", fd |-> None,
         act |-> None, late |-> FALSE]

Init ==
  /\ file = [i \in Ids |-> None]
  /\ draft = [i \in Ids |-> None]
  /\ text = [i \in Ids |-> [n \in Jobs |-> "empty"]]
  /\ used = [i \in Ids |-> FALSE]
  /\ digest = [i \in Ids |-> None]
  /\ expired = {}
  /\ job = [p \in Jobs |-> Idle]
  /\ effects = [i \in Ids |-> 0]
  /\ consented = {} /\ answered = {} /\ crowded = {}
  /\ posts = 0 /\ crashes = 0

-----------------------------------------------------------------------------
(* Authorizations.read and Authorizations.save *)

\* The status a read returns; a missing or unreadable file throws.
saved(i) == IF file[i] = None THEN "empty" ELSE text[i][file[i]]

At(p, label) == job[p].at = label

Goto(p, label) == job' = [job EXCEPT ![p].at = label]

End(p) == job' = [job EXCEPT ![p] = Idle]

\* writeFile truncates an existing draft, whoever has it open.
OpenDraft(p) ==
  LET i == job[p].id
      inode == IF draft[i] = None THEN p ELSE draft[i]
  IN /\ At(p, "open")
     /\ draft' = [draft EXCEPT ![i] = inode]
     /\ text' = [text EXCEPT ![i][inode] = "empty"]
     /\ job' = [job EXCEPT ![p].at = "write", ![p].fd = inode]
     /\ UNCHANGED <<file, used, digest, expired, effects, ownerVars, crashes>>

\* The status is the last field: "denied" written over "approved" leaves two
\* characters of it behind.
overlay(old, new) ==
  IF new = "denied" /\ old \in {"approved", "garbled"} THEN "garbled" ELSE new

WriteDraft(p) ==
  /\ At(p, "write")
  /\ text' = [text EXCEPT ![job[p].id][job[p].fd] = overlay(@, job[p].status)]
  /\ Goto(p, "rename")
  /\ UNCHANGED <<file, draft, used, digest, expired, effects, ownerVars,
                 crashes>>

\* rename puts whatever draft is there in the place of <id>.json.  A call
\* answers the id, a form the decision.
RenameDraft(p) ==
  LET i == job[p].id
  IN /\ At(p, "rename")
     /\ draft[i] # None
     /\ file' = [file EXCEPT ![i] = draft[i]]
     /\ draft' = [draft EXCEPT ![i] = None]
     /\ answered' = IF p \in Forms
                      THEN answered \cup {<<i, job[p].status>>}
                      ELSE answered
     /\ End(p)
     /\ UNCHANGED <<text, used, digest, expired, effects, consented, crowded,
                    posts, crashes>>

\* open, write or rename fails (a full disk, or a draft another form already
\* renamed): the form answers APPROVAL_INVALID, the call an error.
SaveFails(p) ==
  /\ job[p].at \in Saving
  /\ End(p)
  /\ UNCHANGED <<fileVars, expired, effects, ownerVars, crashes>>

Save(p) == OpenDraft(p) \/ WriteDraft(p) \/ RenameDraft(p) \/ SaveFails(p)

-----------------------------------------------------------------------------
(* Authorizations.request: a tool call without an approval *)

\* randomBytes never repeats an id.
fresh(i) == file[i] = None /\ draft[i] = None /\ \A p \in Jobs : job[p].id # i

Request(c, i, a) ==
  /\ At(c, "idle")
  /\ fresh(i)
  /\ digest' = [digest EXCEPT ![i] = a]
  /\ job' = [job EXCEPT ![c] = [Idle EXCEPT !.at = "open", !.id = i]]
  /\ UNCHANGED <<file, draft, text, used, expired, effects, ownerVars,
                 crashes>>

-----------------------------------------------------------------------------
(* Authorizations.decide: POST /approvals/<id> *)

Post(f, i) ==
  /\ At(f, "idle")
  /\ posts < MaxPosts
  /\ posts' = posts + 1
  /\ file[i] # None
  /\ job' = [job EXCEPT ![f] = [Idle EXCEPT !.at = "decide", !.id = i,
                                            !.late = i \in expired]]
  /\ crowded' = IF \E g \in Forms : job[g].id = i
                  THEN crowded \cup {i} ELSE crowded
  /\ UNCHANGED <<fileVars, expired, effects, consented, answered, crashes>>

\* Mutant: an expired request can still be decided.
DecideLate(f, nonce, decision) ==
  LET i == job[f].id
  IN /\ At(f, "decide")
     /\ IF saved(i) = "pending" /\ nonce = i
          THEN /\ job' = [job EXCEPT ![f].at = "open", ![f].status = decision]
               /\ consented' = IF decision = "approved"
                                 THEN consented \cup {i} ELSE consented
          ELSE End(f) /\ UNCHANGED consented
     /\ UNCHANGED <<fileVars, expired, effects, answered, crowded, posts,
                    crashes>>

\* Mutant: a decided request can be decided again.
DecideAgain(f, nonce, decision) ==
  LET i == job[f].id
  IN /\ At(f, "decide")
     /\ IF saved(i) # "empty" /\ i \notin expired /\ nonce = i
          THEN /\ job' = [job EXCEPT ![f].at = "open", ![f].status = decision]
               /\ consented' = IF decision = "approved"
                                 THEN consented \cup {i} ELSE consented
          ELSE End(f) /\ UNCHANGED consented
     /\ UNCHANGED <<fileVars, expired, effects, answered, crowded, posts,
                    crashes>>

\* Mutant: the owner is answered before the decision is saved.
DecideFirst(f, nonce, decision) ==
  LET i == job[f].id
  IN /\ At(f, "decide")
     /\ IF saved(i) = "pending" /\ i \notin expired /\ nonce = i
          THEN /\ job' = [job EXCEPT ![f].at = "open", ![f].status = decision]
               /\ answered' = answered \cup {<<i, decision>>}
               /\ consented' = IF decision = "approved"
                                 THEN consented \cup {i} ELSE consented
          ELSE End(f) /\ UNCHANGED <<answered, consented>>
     /\ UNCHANGED <<fileVars, expired, effects, crowded, posts, crashes>>

\* The form carries the nonce of the page it came from.
Decide(f, nonce, decision) ==
  LET i == job[f].id
  IN /\ At(f, "decide")
     /\ IF saved(i) = "pending" /\ i \notin expired /\ nonce = i
          THEN /\ job' = [job EXCEPT ![f].at = "open", ![f].status = decision]
               /\ consented' = IF decision = "approved"
                                 THEN consented \cup {i} ELSE consented
          ELSE End(f) /\ UNCHANGED consented
     /\ UNCHANGED <<fileVars, expired, effects, answered, crowded, posts,
                    crashes>>

-----------------------------------------------------------------------------
(* Authorizations.consume, and the write behind it *)

Retry(c, i, a) ==
  /\ At(c, "idle")
  /\ file[i] # None
  /\ job' = [job EXCEPT ![c] = [Idle EXCEPT !.at = "check", !.id = i,
                                            !.act = a, !.late = i \in expired]]
  /\ UNCHANGED <<fileVars, expired, effects, ownerVars, crashes>>

\* Mutant: the tool, the arguments and the client are not compared.
CheckStatusOnly(c) ==
  LET i == job[c].id
  IN /\ At(c, "check")
     /\ IF saved(i) = "approved" /\ i \notin expired
          THEN Goto(c, "mark")
          ELSE End(c)
     /\ UNCHANGED <<fileVars, expired, effects, ownerVars, crashes>>

Check(c) ==
  LET i == job[c].id
  IN /\ At(c, "check")
     /\ IF saved(i) = "approved" /\ i \notin expired /\ digest[i] = job[c].act
          THEN Goto(c, "mark")
          ELSE End(c)
     /\ UNCHANGED <<fileVars, expired, effects, ownerVars, crashes>>

\* Mutant: the marker file is overwritten if it exists.
MarkUsedAgain(c) ==
  LET i == job[c].id
  IN /\ At(c, "mark")
     /\ used' = [used EXCEPT ![i] = TRUE]
     /\ Goto(c, "perform")
     /\ UNCHANGED <<file, draft, text, digest, expired, effects, ownerVars,
                    crashes>>

\* Mutant: the marker names the call instead of being there or not.
MarkUsedBy(c) ==
  LET i == job[c].id
  IN /\ At(c, "mark")
     /\ used' = [used EXCEPT ![i] = c]
     /\ Goto(c, "perform")
     /\ UNCHANGED <<file, draft, text, digest, expired, effects, ownerVars,
                    crashes>>

\* open(<id>.used, "wx"): the first call to get here wins.
MarkUsed(c) ==
  LET i == job[c].id
  IN /\ At(c, "mark")
     /\ \/ ~used[i] /\ used' = [used EXCEPT ![i] = TRUE] /\ Goto(c, "perform")
        \/ UNCHANGED used /\ End(c)
     /\ UNCHANGED <<file, draft, text, digest, expired, effects, ownerVars,
                    crashes>>

\* The tool runs.
Perform(c) ==
  /\ At(c, "perform")
  /\ effects' = [effects EXCEPT ![job[c].id] = @ + 1]
  /\ End(c)
  /\ UNCHANGED <<fileVars, expired, ownerVars, crashes>>

-----------------------------------------------------------------------------
(* Time and kills *)

Expire(i) ==
  /\ file[i] # None
  /\ expired' = expired \cup {i}
  /\ UNCHANGED <<fileVars, job, effects, ownerVars, crashes>>

\* The files stay as they are, with any draft that was open.
Crash ==
  /\ crashes < MaxCrashes
  /\ crashes' = crashes + 1
  /\ \E p \in Jobs : ~At(p, "idle")
  /\ job' = [p \in Jobs |-> Idle]
  /\ UNCHANGED <<fileVars, expired, effects, ownerVars>>

Next ==
  \/ \E p \in Jobs : Save(p)
  \/ \E c \in Calls, i \in Ids, a \in Actions : Request(c, i, a)
  \/ \E f \in Forms, i \in Ids : Post(f, i)
  \/ \E f \in Forms, nonce \in Ids, d \in Decisions : Decide(f, nonce, d)
  \/ \E c \in Calls, i \in Ids, a \in Actions : Retry(c, i, a)
  \/ \E c \in Calls : Check(c) \/ MarkUsed(c) \/ Perform(c)
  \/ \E i \in Ids : Expire(i)
  \/ Crash

Spec == Init /\ [][Next]_vars

-----------------------------------------------------------------------------
(* Properties *)

\* Every variable has its type.
TypeOK ==
  /\ file \in [Ids -> Jobs \cup {None}]
  /\ draft \in [Ids -> Jobs \cup {None}]
  /\ text \in [Ids -> [Jobs -> Texts]]
  /\ used \in [Ids -> BOOLEAN]
  /\ digest \in [Ids -> Actions \cup {None}]
  /\ expired \in SUBSET Ids
  /\ job \in [Jobs -> Job]
  /\ effects \in [Ids -> Nat]
  /\ consented \in SUBSET Ids
  /\ answered \in SUBSET (Ids \X Decisions)
  /\ crowded \in SUBSET Ids
  /\ posts \in Nat
  /\ crashes \in Nat

\* However many calls race with one approval, and whatever was killed in
\* between, at most one of them goes on to write.
SecondUseRejected == \A i \in Ids : effects[i] <= 1

\* A call goes on to write only what the owner's own form approved: the same
\* tool, arguments and client.
OnlyAsApproved ==
  \A c \in Calls : At(c, "perform") =>
    /\ job[c].id \in consented
    /\ job[c].act = digest[job[c].id]

\* A form or a call that begins after the expiry changes nothing.
LateRejected ==
  \A p \in Jobs : job[p].late => job[p].at \notin Saving \cup {"mark", "perform"}

\* A decision the owner was told of leaves the approval no longer pending,
\* for good, however forms overlap.
AnsweredIsSettled == \A d \in answered : saved(d[1]) # "pending"

\* While forms do not overlap, the approval stays as the owner was told, and
\* no call writes under a "denied".
LoneDecisionStands ==
  \A d \in answered : d[1] \notin crowded =>
    /\ saved(d[1]) = d[2]
    /\ d[2] = "denied" => ~used[d[1]]

\* docs/tools.md: a "denied request" is rejected.  Once the owner was told
\* "Action denied", no call starts writing under that approval.
DeniedIsRejected ==
  [][\A c \in Calls :
       At(c, "mark") /\ At(c, "perform")' =>
         <<job[c].id, "denied">> \notin answered]_vars
=============================================================================
