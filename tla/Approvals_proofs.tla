-------------------------- MODULE Approvals_proofs --------------------------
(******************************************************************************)
(* Safety of owner approvals for any number of approvals, forms, calls and    *)
(* kills, at every interleaving of their file operations.                     *)
(******************************************************************************)
EXTENDS Approvals, TLAPS

\* The .used marker comes before the write and admits one call.
UseInv ==
  /\ \A c \in Calls : At(c, "perform") =>
       used[job[c].id] /\ effects[job[c].id] = 0
  /\ \A c, d \in Calls :
       At(c, "perform") /\ At(d, "perform") /\ job[c].id = job[d].id => c = d
  /\ \A i \in Ids : effects[i] > 0 => used[i]
  /\ SecondUseRejected

\* Which jobs are at which awaits.
RoleInv ==
  /\ \A p \in Jobs : ~At(p, "idle") => job[p].id \in Ids
  /\ \A f \in Forms :
       /\ job[f].at \in Saving \cup {"idle", "decide"}
       /\ job[f].at \in Saving => job[f].status \in Decisions
       /\ ~At(f, "idle") => file[job[f].id] # None
  /\ \A c \in Calls :
       job[c].at \in Saving \cup {"idle", "check", "mark", "perform"}
  /\ \A p \in Jobs : job[p].at \in {"write", "rename"} => job[p].fd \in Jobs

\* "approved" is written, and a call let through, only after the owner's form.
ConsentInv ==
  /\ \A i \in Ids, n \in Jobs : text[i][n] = "approved" => i \in consented
  /\ \A p \in Jobs :
       job[p].at \in Saving /\ job[p].status = "approved" =>
         job[p].id \in consented
  /\ \A c \in Calls : job[c].at \in {"mark", "perform"} =>
       /\ job[c].id \in consented
       /\ job[c].act = digest[job[c].id]

LateInv ==
  \A p \in Jobs : job[p].late =>
    job[p].at \in {"decide", "check"} /\ job[p].id \in expired

\* A call that saves a request has its id to itself.
RequestInv ==
  \A c \in Calls : job[c].at \in Saving =>
    /\ job[c].status = "pending"
    /\ file[job[c].id] = None
    /\ \A p \in Jobs : job[p].id = job[c].id => p = c
    /\ At(c, "open") => draft[job[c].id] = None
    /\ job[c].at \in {"write", "rename"} => job[c].fd = c

\* Only the file of a request says "pending", and nothing leads back to it.
PendingInv ==
  /\ \A i \in Ids, f \in Forms : text[i][f] # "pending"
  /\ \A i \in Ids : draft[i] # None /\ file[i] # None =>
       text[i][draft[i]] # "pending"
  /\ \A d \in answered : file[d[1]] # None
  /\ AnsweredIsSettled

\* What holds of an approval while its forms do not overlap.
Lone(i) ==
  /\ \A f, g \in Forms : job[f].id = i /\ job[g].id = i => f = g
  /\ \A f \in Forms : job[f].id = i /\ job[f].at \in Saving =>
       /\ saved(i) = "pending"
       /\ job[f].at \in {"write", "rename"} => draft[i] = job[f].fd
       /\ At(f, "write") => text[i][draft[i]] = "empty"
       /\ At(f, "rename") => text[i][draft[i]] = job[f].status
  /\ \A d \in answered : d[1] = i => saved(i) = d[2]
  /\ used[i] => saved(i) = "approved"
  /\ \A c \in Calls : job[c].id = i /\ job[c].at \in {"mark", "perform"} =>
       saved(i) = "approved"
  /\ draft[i] # None => draft[i] # file[i]

LoneInv == \A i \in Ids \ crowded : Lone(i)

IInv ==
  /\ TypeOK
  /\ RoleInv
  /\ UseInv
  /\ ConsentInv
  /\ LateInv
  /\ RequestInv
  /\ PendingInv
  /\ LoneInv

-----------------------------------------------------------------------------
(* Types *)

\* The gateway starts without approvals.
LEMMA InitType == Init => TypeOK
<1> SUFFICES ASSUME Init PROVE TypeOK
  OBVIOUS
<1>1. Idle \in Job
  BY DEF Idle, Job, Labels
<1> QED
  BY <1>1, BoundsAssumption DEF Init, TypeOK, Texts

\* A job that goes on, or ends, is still a job.
LEMMA JobType ==
  ASSUME TypeOK, NEW p \in Jobs, NEW label \in Labels,
         \/ Goto(p, label)
         \/ End(p)
  PROVE  job' \in [Jobs -> Job]
<1>1. Idle \in Job
  BY DEF Idle, Job, Labels
<1>2. job[p] \in Job
  BY DEF TypeOK
<1>3. [job[p] EXCEPT !.at = label] \in Job
  BY <1>2 DEF Job
<1>4. Goto(p, label) => job' = [job EXCEPT ![p] = [job[p] EXCEPT !.at = label]]
  BY DEF Goto, TypeOK
<1> QED
  BY <1>1, <1>3, <1>4 DEF TypeOK, End

\* A new job.
LEMMA BeginType ==
  ASSUME NEW label \in Labels, NEW i \in Ids, NEW a \in Actions \cup {None},
         NEW b \in BOOLEAN
  PROVE  /\ [Idle EXCEPT !.at = label, !.id = i, !.late = b] \in Job
         /\ [Idle EXCEPT !.at = label, !.id = i, !.act = a, !.late = b] \in Job
  BY DEF Idle, Job

\* A job is replaced by a job.
LEMMA NewJobType ==
  ASSUME TypeOK, NEW p \in Jobs, NEW new \in Job,
         job' = [job EXCEPT ![p] = new]
  PROVE  job' \in [Jobs -> Job]
  BY DEF TypeOK

\* No step of a form, a call or the clock leaves the types.  A job at work has
\* an approval and an inode, which RoleInv provides.
LEMMA NextType == TypeOK /\ RoleInv /\ [Next]_vars => TypeOK'
<1> SUFFICES ASSUME TypeOK, RoleInv, [Next]_vars PROVE TypeOK'
  OBVIOUS
<1> USE DEF fileVars, ownerVars
<1>l. {"open", "write", "rename", "idle", "decide", "check", "mark", "perform"}
        \subseteq Labels
  BY DEF Labels, Saving
<1>i. Idle \in Job
  BY DEF Idle, Job, Labels
<1>j. \A p \in Jobs : job[p] \in Job
  BY DEF TypeOK
<1>1. ASSUME NEW p \in Jobs, Save(p) PROVE TypeOK'
  <2>0. job[p].id \in Ids
    BY <1>1 DEF Save, OpenDraft, WriteDraft, RenameDraft, SaveFails, RoleInv,
                At, Saving
  <2>1. CASE OpenDraft(p)
    <3> DEFINE inode == IF draft[job[p].id] = None THEN p ELSE draft[job[p].id]
    <3>1. inode \in Jobs
      BY <2>0 DEF TypeOK
    <3>2. draft' \in [Ids -> Jobs \cup {None}] /\ text' \in [Ids -> [Jobs -> Texts]]
      BY <2>0, <2>1, <3>1 DEF OpenDraft, TypeOK, Texts
    <3>3. job' \in [Jobs -> Job]
      <4>1. job' = [job EXCEPT ![p] =
                      [job[p] EXCEPT !.at = "write", !.fd = inode]]
        BY <2>1 DEF OpenDraft, TypeOK
      <4>2. [job[p] EXCEPT !.at = "write", !.fd = inode] \in Job
        BY <1>l, <1>j, <3>1 DEF Job
      <4> QED
        BY <4>1, <4>2, NewJobType
    <3> QED
      BY <2>1, <3>2, <3>3 DEF OpenDraft, TypeOK
  <2>2. CASE WriteDraft(p)
    <3>1. overlay(text[job[p].id][job[p].fd], job[p].status) \in Texts
      BY <1>j DEF overlay, Texts, Decisions, Job
    <3>2. job[p].fd \in Jobs
      BY <2>2 DEF WriteDraft, RoleInv, At
    <3>3. text' \in [Ids -> [Jobs -> Texts]]
      BY <2>0, <2>2, <3>1, <3>2 DEF WriteDraft, TypeOK
    <3> QED
      BY <1>l, <2>2, <3>3, JobType DEF WriteDraft, TypeOK
  <2>3. CASE RenameDraft(p)
    <3>1. file' \in [Ids -> Jobs \cup {None}] /\ draft' \in [Ids -> Jobs \cup {None}]
      BY <2>0, <2>3 DEF RenameDraft, TypeOK
    <3>2. answered' \in SUBSET (Ids \X Decisions)
      BY <2>0, <2>3 DEF RenameDraft, TypeOK, RoleInv, At, Saving
    <3> QED
      BY <1>l, <2>3, <3>1, <3>2, JobType DEF RenameDraft, TypeOK
  <2>4. CASE SaveFails(p)
    BY <1>l, <2>4, JobType DEF SaveFails, TypeOK
  <2> QED
    BY <1>1, <2>1, <2>2, <2>3, <2>4 DEF Save
<1>2. ASSUME NEW c \in Calls, NEW i \in Ids, NEW a \in Actions, Request(c, i, a)
      PROVE  TypeOK'
  <2>1. [Idle EXCEPT !.at = "open", !.id = i] \in Job
    BY <1>i, <1>l DEF Job
  <2>2. job' \in [Jobs -> Job]
    BY <1>2, <2>1, NewJobType DEF Request, Jobs
  <2> QED
    BY <1>2, <2>2 DEF Request, TypeOK
<1>3. ASSUME NEW f \in Forms, NEW i \in Ids, Post(f, i) PROVE TypeOK'
  <2>1. [Idle EXCEPT !.at = "decide", !.id = i, !.late = i \in expired] \in Job
    <3>1. (i \in expired) \in BOOLEAN /\ "decide" \in Labels
      BY <1>l
    <3> QED
      BY <3>1, BeginType
  <2>2. job' \in [Jobs -> Job]
    BY <1>3, <2>1, NewJobType DEF Post, Jobs
  <2> QED
    BY <1>3, <2>2 DEF Post, TypeOK
<1>4. ASSUME NEW f \in Forms, NEW nonce \in Ids, NEW d \in Decisions,
             Decide(f, nonce, d)
      PROVE  TypeOK'
  <2>1. f \in Jobs /\ job[f].id \in Ids
    BY <1>4 DEF Jobs, Decide, RoleInv, At
  <2>2. [job[f] EXCEPT !.at = "open", !.status = d] \in Job
    BY <2>1, <1>j, <1>l DEF Job
  <2>3. job' \in [Jobs -> Job]
    BY <1>4, <1>i, <2>1, <2>2 DEF Decide, End, TypeOK
  <2> QED
    BY <1>4, <2>1, <2>3 DEF Decide, TypeOK
<1>5. ASSUME NEW c \in Calls, NEW i \in Ids, NEW a \in Actions, Retry(c, i, a)
      PROVE  TypeOK'
  <2>1. [Idle EXCEPT !.at = "check", !.id = i, !.act = a,
                     !.late = i \in expired] \in Job
    <3>1. (i \in expired) \in BOOLEAN /\ "check" \in Labels
      BY <1>l
    <3> QED
      BY <3>1, BeginType
  <2>2. job' \in [Jobs -> Job]
    BY <1>5, <2>1, NewJobType DEF Retry, Jobs
  <2> QED
    BY <1>5, <2>2 DEF Retry, TypeOK
<1>6. ASSUME NEW c \in Calls, Check(c) \/ MarkUsed(c) \/ Perform(c)
      PROVE  TypeOK'
  <2>1. c \in Jobs
    BY DEF Jobs
  <2>2. CASE Check(c)
    BY <2>1, <2>2, <1>l, JobType DEF Check, TypeOK
  <2>3. CASE MarkUsed(c)
    BY <2>1, <2>3, <1>l, JobType DEF MarkUsed, TypeOK
  <2>4. CASE Perform(c)
    <3>1. effects' \in [Ids -> Nat]
      BY <2>1, <2>4 DEF Perform, TypeOK, RoleInv, At
    <3> QED
      BY <2>1, <2>4, <3>1, <1>l, JobType DEF Perform, TypeOK
  <2> QED
    BY <1>6, <2>2, <2>3, <2>4
<1>7. ASSUME NEW i \in Ids, Expire(i) PROVE TypeOK'
  BY <1>7 DEF Expire, TypeOK
<1>8. CASE Crash
  BY <1>8, <1>i DEF Crash, TypeOK
<1>9. CASE UNCHANGED vars
  BY <1>9 DEF vars, TypeOK
<1> QED
  BY <1>1, <1>2, <1>3, <1>4, <1>5, <1>6, <1>7, <1>8, <1>9 DEF Next

-----------------------------------------------------------------------------
(* The steps *)

\* A step keeps what holds of the approvals it does not touch.
LEMMA LoneFrame ==
  ASSUME NEW j \in Ids, Lone(j),
         file'[j] = file[j], draft'[j] = draft[j], text'[j] = text[j],
         used'[j] = used[j],
         \A d \in answered' : d[1] = j => d \in answered,
         \A q \in Jobs : job'[q].id = j => job'[q] = job[q]
  PROVE  Lone(j)'
<1>1. saved(j)' = saved(j)
  BY DEF saved
<1> QED
  BY <1>1 DEF Lone, At, Jobs

\* A job that ends, refused or failed, takes nothing with it.
LEMMA EndKeeps ==
  ASSUME IInv, TypeOK', NEW p \in Jobs, End(p),
         UNCHANGED <<fileVars, expired, effects, ownerVars>>
  PROVE  IInv'
<1> USE DEF IInv, fileVars, ownerVars
<1>1. /\ job'[p] = Idle
      /\ \A q \in Jobs : q # p => job'[q] = job[q]
  BY DEF End, TypeOK
<1>2. /\ Idle.at = "idle" /\ Idle.id = None /\ Idle.late = FALSE
      /\ None \notin Ids
  BY NoneIsNothing DEF Idle
<1>3. RoleInv'
  BY <1>1, <1>2 DEF RoleInv, At, Saving, Jobs
<1>4. UseInv'
  BY <1>1, <1>2 DEF UseInv, At, SecondUseRejected, Jobs
<1>5. ConsentInv'
  BY <1>1, <1>2 DEF ConsentInv, Saving, Jobs
<1>6. LateInv'
  BY <1>1, <1>2 DEF LateInv
<1>7. RequestInv'
  BY <1>1, <1>2 DEF RequestInv, RoleInv, At, Saving, Jobs
<1>8. PendingInv'
  BY DEF PendingInv, AnsweredIsSettled, saved
<1>9. LoneInv'
  BY <1>1, <1>2 DEF LoneInv, Lone, saved, At, Saving, Jobs
<1> QED
  BY <1>3, <1>4, <1>5, <1>6, <1>7, <1>8, <1>9

\* Opening, and so truncating, the draft keeps the invariant.
LEMMA OpenKeeps ==
  ASSUME IInv, TypeOK', NEW p \in Jobs, OpenDraft(p)
  PROVE  IInv'
<1> USE DEF IInv, ownerVars
<1>1. PICK i \in Ids : i = job[p].id
  BY DEF OpenDraft, RoleInv, At
<1>2. PICK n \in Jobs : n = IF draft[i] = None THEN p ELSE draft[i]
  BY DEF TypeOK
<1>3. /\ job[p].at = "open" /\ job'[p].at = "write"
      /\ job'[p].fd = n /\ job'[p].id = i
      /\ job'[p].status = job[p].status
      /\ job'[p].late = job[p].late
      /\ \A q \in Jobs : q # p => job'[q] = job[q]
  BY <1>1, <1>2 DEF OpenDraft, At, TypeOK, Job
<1>4. /\ draft'[i] = n
      /\ \A j \in Ids : j # i => draft'[j] = draft[j]
      /\ text'[i][n] = "empty"
      /\ \A j \in Ids, m \in Jobs : j # i \/ m # n => text'[j][m] = text[j][m]
  BY <1>1, <1>2 DEF OpenDraft, TypeOK
<1>5. UNCHANGED <<file, used, digest, expired, effects, consented, answered,
                  crowded>>
  BY DEF OpenDraft
<1>6. RoleInv'
  BY <1>1, <1>2, <1>3, <1>5 DEF RoleInv, At, Saving, Jobs
<1>7. UseInv'
  BY <1>3, <1>5 DEF UseInv, At, SecondUseRejected, Jobs
<1>8. ConsentInv'
  BY <1>1, <1>3, <1>4, <1>5 DEF ConsentInv, Saving, Jobs
<1>9. LateInv'
  BY <1>1, <1>3, <1>5 DEF LateInv
<1>10. RequestInv'
  <2> SUFFICES ASSUME NEW c \in Calls, job'[c].at \in Saving
               PROVE  /\ job'[c].status = "pending"
                      /\ file'[job'[c].id] = None
                      /\ \A q \in Jobs : job'[q].id = job'[c].id => q = c
                      /\ job'[c].at = "open" => draft'[job'[c].id] = None
                      /\ job'[c].at \in {"write", "rename"} => job'[c].fd = c
    BY DEF RequestInv, At
  <2>1. \A q \in Jobs : job'[q].id = job[q].id
    BY <1>1, <1>3
  <2>2. CASE c = p
    BY <1>1, <1>2, <1>3, <1>5, <2>1, <2>2 DEF RequestInv, At, Saving
  <2>3. CASE c # p
    <3>1. job'[c] = job[c] /\ c \in Jobs
      BY <1>3, <2>3 DEF Jobs
    <3>2. job[c].id # i /\ job[c].id \in Ids
      BY <1>1, <2>3, <3>1 DEF RequestInv, RoleInv, At, Saving
    <3> QED
      BY <1>4, <1>5, <2>1, <3>1, <3>2 DEF RequestInv, At
  <2> QED
    BY <2>2, <2>3
<1>11. PendingInv'
  <2>1. \A j \in Ids : file[j] \in Jobs \cup {None} /\ draft[j] \in Jobs \cup {None}
    BY DEF TypeOK
  <2>2. \A d \in answered : d[1] \in Ids
    BY DEF TypeOK
  <2>3. AnsweredIsSettled'
    BY <1>4, <1>5, <2>1, <2>2 DEF PendingInv, AnsweredIsSettled, saved
  <2> QED
    BY <1>4, <1>5, <2>1, <2>3 DEF PendingInv, Jobs
<1>12. LoneInv'
  <2> SUFFICES ASSUME NEW j \in Ids \ crowded PROVE Lone(j)'
    BY <1>5 DEF LoneInv
  <2>1. Lone(j)
    BY DEF LoneInv
  <2>2. CASE j # i
    <3>1. text'[j] = text[j] /\ draft'[j] = draft[j]
      BY <1>1, <2>2 DEF OpenDraft, TypeOK
    <3>2. \A q \in Jobs : job'[q].id = j => job'[q] = job[q]
      BY <1>3, <2>2
    <3> QED
      BY <1>5, <2>1, <3>1, <3>2, LoneFrame
  <2>3. CASE j = i
    <3>1. n # file[i]
      <4>1. CASE draft[i] # None
        BY <1>2, <2>1, <2>3, <4>1 DEF Lone
      <4>2. CASE draft[i] = None /\ p \in Forms
        <5>1. saved(i) = "pending"
          BY <1>1, <1>3, <2>1, <2>3, <4>2 DEF Lone, Saving
        <5> QED
          BY <1>2, <4>2, <5>1 DEF saved, PendingInv
      <4>3. CASE draft[i] = None /\ p \in Calls
        BY <1>1, <1>2, <1>3, <4>3, NoneIsNothing DEF RequestInv, Saving, Jobs
      <4> QED
        BY <4>1, <4>2, <4>3 DEF Jobs
    <3>2. saved(i)' = saved(i)
      BY <1>4, <1>5, <3>1 DEF saved, TypeOK
    <3>3. \A f \in Forms : job[f].id = i /\ p \in Forms => f = p
      BY <1>1, <2>1, <2>3 DEF Lone
    <3>4. p \in Calls => \A f \in Forms : job[f].id # i
      BY <1>1, <1>3, FormsAreNotCalls DEF RequestInv, Saving, Jobs
    <3> QED
      BY <1>1, <1>2, <1>3, <1>4, <1>5, <2>1, <2>3, <3>1, <3>2, <3>3, <3>4
         DEF Lone, At, Saving, Jobs
  <2> QED
    BY <2>2, <2>3
<1> QED
  BY <1>6, <1>7, <1>8, <1>9, <1>10, <1>11, <1>12

\* Writing the draft keeps the invariant, wherever the inode is by then.
LEMMA WriteKeeps ==
  ASSUME IInv, TypeOK', NEW p \in Jobs, WriteDraft(p)
  PROVE  IInv'
<1> USE DEF IInv, ownerVars
<1>1. PICK i \in Ids : i = job[p].id
  BY DEF WriteDraft, RoleInv, At
<1>2. PICK n \in Jobs : n = job[p].fd
  BY DEF WriteDraft, RoleInv, At
<1>3. /\ job[p].at = "write" /\ job'[p].at = "rename"
      /\ job'[p].fd = n /\ job'[p].id = i
      /\ job'[p].status = job[p].status
      /\ job'[p].late = job[p].late
      /\ \A q \in Jobs : q # p => job'[q] = job[q]
  BY <1>1, <1>2 DEF WriteDraft, Goto, At, TypeOK, Job
<1>4. /\ text'[i][n] = overlay(text[i][n], job[p].status)
      /\ \A j \in Ids, m \in Jobs : j # i \/ m # n => text'[j][m] = text[j][m]
  BY <1>1, <1>2 DEF WriteDraft, TypeOK
<1>5. UNCHANGED <<file, draft, used, digest, expired, effects, consented,
                  answered, crowded>>
  BY DEF WriteDraft
<1>6. RoleInv'
  BY <1>1, <1>2, <1>3, <1>5 DEF RoleInv, At, Saving, Jobs
<1>7. UseInv'
  BY <1>3, <1>5 DEF UseInv, At, SecondUseRejected, Jobs
<1>8. ConsentInv'
  BY <1>1, <1>3, <1>4, <1>5 DEF ConsentInv, Saving, Jobs, overlay
<1>9. LateInv'
  BY <1>1, <1>3, <1>5 DEF LateInv
<1>10. RequestInv'
  BY <1>1, <1>2, <1>3, <1>5 DEF RequestInv, At, Saving, Jobs
<1>11. PendingInv'
  <2>1. \A j \in Ids : file[j] \in Jobs \cup {None} /\ draft[j] \in Jobs \cup {None}
    BY DEF TypeOK
  <2>2. \A d \in answered : d[1] \in Ids
    BY DEF TypeOK
  <2>3. CASE p \in Forms
    <3>1. text'[i][n] # "pending"
      BY <1>3, <1>4, <2>3 DEF RoleInv, Saving, Decisions, overlay
    <3>2. AnsweredIsSettled'
      BY <1>4, <1>5, <2>1, <2>2, <3>1 DEF PendingInv, AnsweredIsSettled, saved
    <3> QED
      BY <1>4, <1>5, <2>1, <3>1, <3>2 DEF PendingInv, Jobs
  <2>4. CASE p \in Calls
    <3>1. n = p /\ file[i] = None /\ n \notin Forms
      BY <1>1, <1>2, <1>3, <2>4, FormsAreNotCalls DEF RequestInv, Saving
    <3>2. AnsweredIsSettled'
      BY <1>4, <1>5, <2>1, <2>2, <3>1 DEF PendingInv, AnsweredIsSettled, saved
    <3> QED
      BY <1>4, <1>5, <2>1, <3>1, <3>2 DEF PendingInv, Jobs
  <2> QED
    BY <2>3, <2>4 DEF Jobs
<1>12. LoneInv'
  <2> SUFFICES ASSUME NEW j \in Ids \ crowded PROVE Lone(j)'
    BY <1>5 DEF LoneInv
  <2>1. Lone(j)
    BY DEF LoneInv
  <2>2. CASE j # i
    <3>1. text'[j] = text[j]
      BY <1>1, <2>2 DEF WriteDraft, TypeOK
    <3>2. \A q \in Jobs : job'[q].id = j => job'[q] = job[q]
      BY <1>3, <2>2
    <3> QED
      BY <1>5, <2>1, <3>1, <3>2, LoneFrame
  <2>3. CASE j = i /\ p \in Forms
    <3>1. draft[i] = n /\ text[i][n] = "empty"
      BY <1>1, <1>2, <1>3, <2>1, <2>3 DEF Lone, At, Saving
    <3>2. n # file[i]
      BY <2>1, <2>3, <3>1, NoneIsNothing DEF Lone
    <3>3. saved(i)' = saved(i)
      BY <1>4, <1>5, <3>2 DEF saved, TypeOK
    <3>4. \A f \in Forms : job[f].id = i => f = p
      BY <1>1, <2>1, <2>3 DEF Lone
    <3>5. text'[i][n] = job[p].status
      BY <1>4, <3>1 DEF overlay
    <3> QED
      BY <1>1, <1>2, <1>3, <1>5, <2>1, <2>3, <3>1, <3>3, <3>4, <3>5
         DEF Lone, At, Saving, Jobs
  <2>4. CASE j = i /\ p \in Calls
    <3>1. /\ file[i] = None
          /\ \A q \in Jobs : job[q].id = i => q = p
      BY <1>1, <1>3, <2>4 DEF RequestInv, Saving
    <3>2. saved(i)' = saved(i)
      BY <1>5, <3>1 DEF saved
    <3>3. p \notin Forms
      BY <2>4, FormsAreNotCalls
    <3> QED
      BY <1>1, <1>3, <1>5, <2>1, <2>4, <3>1, <3>2, <3>3
         DEF Lone, At, Saving, Jobs
  <2> QED
    BY <2>2, <2>3, <2>4 DEF Jobs
<1> QED
  BY <1>6, <1>7, <1>8, <1>9, <1>10, <1>11, <1>12

\* Renaming the draft keeps the invariant, whoever wrote it.
LEMMA RenameKeeps ==
  ASSUME IInv, TypeOK', NEW p \in Jobs, RenameDraft(p)
  PROVE  IInv'
<1> USE DEF IInv
<1>1. PICK i \in Ids : i = job[p].id
  BY DEF RenameDraft, RoleInv, At
<1>2. /\ job[p].at = "rename" /\ job'[p] = Idle
      /\ \A q \in Jobs : q # p => job'[q] = job[q]
  BY DEF RenameDraft, End, At, TypeOK
<1>3. /\ Idle.at = "idle" /\ Idle.id = None /\ Idle.late = FALSE
      /\ None \notin Ids
  BY NoneIsNothing DEF Idle
<1>4. /\ draft[i] # None
      /\ file'[i] = draft[i] /\ draft'[i] = None
      /\ \A j \in Ids : j # i => file'[j] = file[j] /\ draft'[j] = draft[j]
  BY <1>1 DEF RenameDraft, TypeOK
<1>5. UNCHANGED <<text, used, digest, expired, effects, consented, crowded>>
  BY DEF RenameDraft
<1>6. \A d \in answered' :
        d \in answered \/ (p \in Forms /\ d = <<i, job[p].status>>)
  BY <1>1 DEF RenameDraft
<1>7. RoleInv'
  BY <1>1, <1>2, <1>3, <1>4, <1>5 DEF RoleInv, At, Saving, Jobs
<1>8. UseInv'
  BY <1>2, <1>3, <1>5 DEF UseInv, At, SecondUseRejected, Jobs
<1>9. ConsentInv'
  BY <1>2, <1>3, <1>5 DEF ConsentInv, Saving, Jobs
<1>10. LateInv'
  BY <1>2, <1>3, <1>5 DEF LateInv
<1>11. RequestInv'
  <2> SUFFICES ASSUME NEW c \in Calls, job'[c].at \in Saving
               PROVE  /\ job'[c].status = "pending"
                      /\ file'[job'[c].id] = None
                      /\ \A q \in Jobs : job'[q].id = job'[c].id => q = c
                      /\ job'[c].at = "open" => draft'[job'[c].id] = None
                      /\ job'[c].at \in {"write", "rename"} => job'[c].fd = c
    BY DEF RequestInv, At
  <2>1. c # p /\ job'[c] = job[c] /\ c \in Jobs
    BY <1>2, <1>3 DEF Saving, Jobs
  <2>2. job[c].id # i /\ job[c].id \in Ids
    BY <1>1, <2>1 DEF RequestInv, RoleInv, At, Saving
  <2> QED
    BY <1>2, <1>3, <1>4, <2>1, <2>2 DEF RequestInv, At
<1>12. PendingInv'
  <2>1. draft[i] \in Jobs
    BY <1>4 DEF TypeOK
  <2>2. \A d \in answered : d[1] \in Ids
    BY DEF TypeOK
  <2>3. file'[i] # None
    BY <1>4
  <2>4. \A d \in answered' : d[1] = i => text[i][draft[i]] # "pending"
    <3>1. CASE p \in Forms
      <4>1. file[i] # None
        BY <1>1, <1>2, <3>1 DEF RoleInv, At
      <4> QED
        BY <1>4, <4>1 DEF PendingInv
    <3>2. CASE p \in Calls
      <4>1. file[i] = None /\ p \notin Forms
        BY <1>1, <1>2, <3>2, FormsAreNotCalls DEF RequestInv, Saving
      <4> QED
        BY <1>6, <4>1 DEF PendingInv
    <3> QED
      BY <3>1, <3>2 DEF Jobs
  <2>5. AnsweredIsSettled'
    <3> SUFFICES ASSUME NEW d \in answered' PROVE saved(d[1])' # "pending"
      BY DEF AnsweredIsSettled
    <3>1. CASE d[1] = i
      BY <1>4, <1>5, <2>3, <2>4, <3>1 DEF saved
    <3>2. CASE d[1] # i
      <4>1. d \in answered /\ d[1] \in Ids
        BY <1>6, <2>2, <3>2
      <4> QED
        BY <1>4, <1>5, <3>2, <4>1 DEF PendingInv, AnsweredIsSettled, saved
    <3> QED
      BY <3>1, <3>2
  <2>6. \A d \in answered' : file'[d[1]] # None
    BY <1>4, <1>6, <2>2, <2>3 DEF PendingInv
  <2> QED
    BY <1>4, <1>5, <2>5, <2>6 DEF PendingInv
<1>13. LoneInv'
  <2> SUFFICES ASSUME NEW j \in Ids \ crowded PROVE Lone(j)'
    BY <1>5 DEF LoneInv
  <2>1. Lone(j)
    BY DEF LoneInv
  <2>2. CASE j # i
    <3>1. \A d \in answered' : d[1] = j => d \in answered
      BY <1>6, <2>2
    <3>2. \A q \in Jobs : job'[q].id = j => job'[q] = job[q]
      BY <1>2, <1>3
    <3> QED
      BY <1>4, <1>5, <2>1, <2>2, <3>1, <3>2, LoneFrame
  <2>3. CASE j = i /\ p \in Forms
    <3>1. /\ saved(i) = "pending"
          /\ text[i][draft[i]] = job[p].status
          /\ \A f \in Forms : job[f].id = i => f = p
          /\ job[p].status \in Decisions
      BY <1>1, <1>2, <2>1, <2>3 DEF Lone, At, Saving, RoleInv
    <3>2. saved(i)' = job[p].status
      BY <1>4, <1>5, <3>1 DEF saved
    <3>3. ~used[i] /\ \A d \in answered : d[1] # i
      BY <2>1, <2>3, <3>1 DEF Lone, PendingInv, AnsweredIsSettled
    <3>4. \A d \in answered' : d[1] = i => d[2] = job[p].status
      BY <1>6, <3>3
    <3>5. \A c \in Calls : job[c].id = i => job[c].at \notin {"mark", "perform"}
      BY <2>1, <2>3, <3>1 DEF Lone
    <3>6. \A f \in Forms : job'[f].id # i
      BY <1>2, <1>3, <3>1 DEF Jobs
    <3> QED
      BY <1>2, <1>3, <1>4, <1>5, <2>3, <3>2, <3>3, <3>4, <3>5, <3>6
         DEF Lone, At, Saving, Jobs
  <2>4. CASE j = i /\ p \in Calls
    <3>1. /\ file[i] = None
          /\ \A q \in Jobs : job[q].id = i => q = p
          /\ p \notin Forms
      BY <1>1, <1>2, <2>4, FormsAreNotCalls DEF RequestInv, Saving
    <3>2. saved(i) = "empty"
      BY <3>1 DEF saved
    <3>3. ~used[i] /\ \A d \in answered' : d[1] # i
      BY <1>6, <2>1, <2>4, <3>1, <3>2 DEF Lone, PendingInv
    <3>4. \A q \in Jobs : job'[q].id # i
      BY <1>2, <1>3, <3>1
    <3> QED
      BY <1>4, <1>5, <2>4, <3>3, <3>4 DEF Lone, Jobs
  <2> QED
    BY <2>2, <2>3, <2>4 DEF Jobs
<1> QED
  BY <1>7, <1>8, <1>9, <1>10, <1>11, <1>12, <1>13

\* A call that asks for an approval keeps the invariant.
LEMMA RequestKeeps ==
  ASSUME IInv, TypeOK', NEW c \in Calls, NEW i \in Ids, NEW a \in Actions,
         Request(c, i, a)
  PROVE  IInv'
<1> USE DEF IInv, ownerVars
<1>1. /\ job[c].at = "idle" /\ c \in Jobs /\ c \notin Forms
      /\ \A q \in Jobs : q # c => job'[q] = job[q]
  BY FormsAreNotCalls DEF Request, At, TypeOK, Jobs
<1>2. /\ job'[c].at = "open" /\ job'[c].id = i /\ job'[c].late = FALSE
      /\ job'[c].status = "pending"
  BY <1>1 DEF Request, Idle, TypeOK
<1>3. /\ file[i] = None /\ draft[i] = None
      /\ \A q \in Jobs : job[q].id # i
  BY DEF Request, fresh
<1>4. /\ UNCHANGED <<file, draft, text, used, expired, effects, consented,
                     answered, crowded>>
      /\ \A j \in Ids : j # i => digest'[j] = digest[j]
  BY DEF Request, TypeOK
<1>5. RoleInv'
  BY <1>1, <1>2, <1>4 DEF RoleInv, At, Saving, Jobs
<1>6. UseInv'
  BY <1>1, <1>2, <1>4 DEF UseInv, At, SecondUseRejected, Jobs
<1>7. ConsentInv'
  BY <1>1, <1>2, <1>3, <1>4 DEF ConsentInv, RoleInv, At, Saving, Jobs
<1>8. LateInv'
  BY <1>1, <1>2, <1>4 DEF LateInv
<1>9. RequestInv'
  BY <1>1, <1>2, <1>3, <1>4 DEF RequestInv, At, Saving, Jobs
<1>10. PendingInv'
  BY <1>4 DEF PendingInv, AnsweredIsSettled, saved
<1>11. LoneInv'
  <2> SUFFICES ASSUME NEW j \in Ids \ crowded PROVE Lone(j)'
    BY <1>4 DEF LoneInv
  <2>1. Lone(j) /\ saved(j)' = saved(j)
    BY <1>4 DEF LoneInv, saved
  <2> QED
    BY <1>1, <1>2, <1>4, <2>1 DEF Lone, At, Saving, Jobs
<1> QED
  BY <1>5, <1>6, <1>7, <1>8, <1>9, <1>10, <1>11

\* A form that arrives keeps the invariant.
LEMMA PostKeeps ==
  ASSUME IInv, TypeOK', NEW f \in Forms, NEW i \in Ids, Post(f, i)
  PROVE  IInv'
<1> USE DEF IInv, fileVars
<1>1. /\ job[f].at = "idle" /\ f \in Jobs /\ f \notin Calls
      /\ \A q \in Jobs : q # f => job'[q] = job[q]
  BY FormsAreNotCalls DEF Post, At, TypeOK, Jobs
<1>2. job'[f].at = "decide" /\ job'[f].id = i
  BY <1>1 DEF Post, Idle, TypeOK
<1>e. job'[f].late => i \in expired
  BY <1>1 DEF Post, Idle, TypeOK
<1>3. file[i] # None
  BY DEF Post
<1>4. /\ UNCHANGED <<file, draft, text, used, digest, expired, effects,
                     consented, answered>>
      /\ crowded \subseteq crowded'
      /\ i \notin crowded' => \A g \in Forms : job[g].id # i
  BY DEF Post
<1>5. RoleInv'
  BY <1>1, <1>2, <1>3, <1>4 DEF RoleInv, At, Saving, Jobs
<1>6. UseInv'
  BY <1>1, <1>2, <1>4 DEF UseInv, At, SecondUseRejected, Jobs
<1>7. ConsentInv'
  BY <1>1, <1>2, <1>4 DEF ConsentInv, Saving, Jobs
<1>8. LateInv'
  BY <1>1, <1>2, <1>e, <1>4 DEF LateInv
<1>9. RequestInv'
  BY <1>1, <1>2, <1>3, <1>4 DEF RequestInv, At, Saving, Jobs
<1>10. PendingInv'
  BY <1>4 DEF PendingInv, AnsweredIsSettled, saved
<1>11. LoneInv'
  <2> SUFFICES ASSUME NEW j \in Ids \ crowded' PROVE Lone(j)'
    BY DEF LoneInv
  <2>1. Lone(j) /\ saved(j)' = saved(j)
    BY <1>4 DEF LoneInv, saved
  <2>2. j = i => \A g \in Forms : job[g].id # i
    BY <1>4
  <2> QED
    BY <1>1, <1>2, <1>4, <2>1, <2>2 DEF Lone, At, Saving, Jobs
<1> QED
  BY <1>5, <1>6, <1>7, <1>8, <1>9, <1>10, <1>11

\* The form's checks keep the invariant.
LEMMA DecideKeeps ==
  ASSUME IInv, TypeOK', NEW f \in Forms, NEW nonce \in Ids,
         NEW decision \in Decisions, Decide(f, nonce, decision)
  PROVE  IInv'
<1> USE DEF IInv
<1>0. f \in Jobs
  BY DEF Jobs
<1>1. CASE End(f) /\ UNCHANGED consented
  BY <1>0, <1>1, EndKeeps DEF Decide, ownerVars
<1>2. CASE /\ saved(job[f].id) = "pending" /\ job[f].id \notin expired
           /\ job' = [job EXCEPT ![f].at = "open", ![f].status = decision]
           /\ consented' = IF decision = "approved"
                             THEN consented \cup {job[f].id} ELSE consented
  <2>1. PICK i \in Ids : i = job[f].id
    BY <1>0 DEF Decide, RoleInv, At
  <2>2. /\ job[f].at = "decide" /\ job'[f].at = "open"
        /\ job'[f].id = i /\ job'[f].status = decision
        /\ job'[f].late = job[f].late
        /\ \A q \in Jobs : q # f => job'[q] = job[q]
    BY <1>0, <1>2, <2>1 DEF Decide, At, TypeOK, Job
  <2>3. UNCHANGED <<file, draft, text, used, digest, expired, effects,
                    answered, crowded>>
    BY DEF Decide, fileVars
  <2>4. /\ consented \subseteq consented'
        /\ decision = "approved" => i \in consented'
        /\ saved(i) = "pending" /\ i \notin expired
        /\ f \notin Calls
    BY <1>2, <2>1, FormsAreNotCalls
  <2>5. RoleInv'
    BY <1>0, <2>1, <2>2, <2>3 DEF RoleInv, At, Saving, Jobs
  <2>6. UseInv'
    BY <2>2, <2>3, <2>4 DEF UseInv, At, SecondUseRejected, Jobs
  <2>7. ConsentInv'
    BY <2>2, <2>3, <2>4 DEF ConsentInv, Saving, Jobs
  <2>8. LateInv'
    BY <1>0, <2>1, <2>2, <2>3, <2>4 DEF LateInv
  <2>9. RequestInv'
    BY <2>1, <2>2, <2>3, <2>4 DEF RequestInv, At, Saving, Jobs
  <2>10. PendingInv'
    BY <2>3 DEF PendingInv, AnsweredIsSettled, saved
  <2>11. LoneInv'
    <3> SUFFICES ASSUME NEW j \in Ids \ crowded PROVE Lone(j)'
      BY <2>3 DEF LoneInv
    <3>1. Lone(j) /\ saved(j)' = saved(j)
      BY <2>3 DEF LoneInv, saved
    <3> QED
      BY <2>1, <2>2, <2>3, <2>4, <3>1 DEF Lone, At, Saving, Jobs
  <2> QED
    BY <2>5, <2>6, <2>7, <2>8, <2>9, <2>10, <2>11
<1> QED
  BY <1>1, <1>2 DEF Decide

\* A call that brings an approval keeps the invariant.
LEMMA RetryKeeps ==
  ASSUME IInv, TypeOK', NEW c \in Calls, NEW i \in Ids, NEW a \in Actions,
         Retry(c, i, a)
  PROVE  IInv'
<1> USE DEF IInv, fileVars, ownerVars
<1>1. /\ job[c].at = "idle" /\ c \in Jobs /\ c \notin Forms
      /\ \A q \in Jobs : q # c => job'[q] = job[q]
  BY FormsAreNotCalls DEF Retry, At, TypeOK, Jobs
<1>2. job'[c].at = "check" /\ job'[c].id = i
  BY <1>1 DEF Retry, Idle, TypeOK
<1>e. job'[c].late => i \in expired
  BY <1>1 DEF Retry, Idle, TypeOK
<1>3. file[i] # None
  BY DEF Retry
<1>4. UNCHANGED <<file, draft, text, used, digest, expired, effects,
                  consented, answered, crowded>>
  BY DEF Retry
<1>5. RoleInv'
  BY <1>1, <1>2, <1>4 DEF RoleInv, At, Saving, Jobs
<1>6. UseInv'
  BY <1>1, <1>2, <1>4 DEF UseInv, At, SecondUseRejected, Jobs
<1>7. ConsentInv'
  BY <1>1, <1>2, <1>4 DEF ConsentInv, Saving, Jobs
<1>8. LateInv'
  BY <1>1, <1>2, <1>e, <1>4 DEF LateInv
<1>9. RequestInv'
  BY <1>1, <1>2, <1>3, <1>4 DEF RequestInv, At, Saving, Jobs
<1>10. PendingInv'
  BY <1>4 DEF PendingInv, AnsweredIsSettled, saved
<1>11. LoneInv'
  <2> SUFFICES ASSUME NEW j \in Ids \ crowded PROVE Lone(j)'
    BY <1>4 DEF LoneInv
  <2>1. Lone(j) /\ saved(j)' = saved(j)
    BY <1>4 DEF LoneInv, saved
  <2> QED
    BY <1>1, <1>2, <1>4, <2>1 DEF Lone, At, Saving, Jobs
<1> QED
  BY <1>5, <1>6, <1>7, <1>8, <1>9, <1>10, <1>11

\* The check of consume() keeps the invariant.
LEMMA CheckKeeps ==
  ASSUME IInv, TypeOK', NEW c \in Calls, Check(c)
  PROVE  IInv'
<1> USE DEF IInv, fileVars, ownerVars
<1>0. c \in Jobs /\ c \notin Forms
  BY FormsAreNotCalls DEF Jobs
<1>1. CASE End(c)
  BY <1>0, <1>1, EndKeeps DEF Check
<1>2. CASE /\ saved(job[c].id) = "approved" /\ job[c].id \notin expired
           /\ digest[job[c].id] = job[c].act
           /\ Goto(c, "mark")
  <2>1. PICK i \in Ids : i = job[c].id
    BY <1>0 DEF Check, RoleInv, At
  <2>2. /\ job[c].at = "check" /\ job'[c].at = "mark"
        /\ job'[c].id = i /\ job'[c].act = job[c].act
        /\ job'[c].late = job[c].late
        /\ \A q \in Jobs : q # c => job'[q] = job[q]
    BY <1>0, <1>2, <2>1 DEF Check, Goto, At, TypeOK, Job
  <2>3. UNCHANGED <<file, draft, text, used, digest, expired, effects,
                    consented, answered, crowded>>
    BY DEF Check
  <2>4. i \in consented /\ saved(i) = "approved"
    BY <1>2, <2>1 DEF ConsentInv, saved, TypeOK
  <2>5. RoleInv'
    BY <1>0, <2>1, <2>2, <2>3 DEF RoleInv, At, Saving, Jobs
  <2>6. UseInv'
    BY <2>2, <2>3 DEF UseInv, At, SecondUseRejected, Jobs
  <2>7. ConsentInv'
    BY <1>2, <2>1, <2>2, <2>3, <2>4 DEF ConsentInv, Saving, Jobs
  <2>8. LateInv'
    BY <1>0, <1>2, <2>1, <2>2, <2>3 DEF LateInv
  <2>9. RequestInv'
    BY <2>1, <2>2, <2>3 DEF RequestInv, At, Saving, Jobs
  <2>10. PendingInv'
    BY <2>3 DEF PendingInv, AnsweredIsSettled, saved
  <2>11. LoneInv'
    <3> SUFFICES ASSUME NEW j \in Ids \ crowded PROVE Lone(j)'
      BY <2>3 DEF LoneInv
    <3>1. Lone(j) /\ saved(j)' = saved(j)
      BY <2>3 DEF LoneInv, saved
    <3> QED
      BY <1>0, <2>1, <2>2, <2>3, <2>4, <3>1 DEF Lone, At, Saving, Jobs
  <2> QED
    BY <2>5, <2>6, <2>7, <2>8, <2>9, <2>10, <2>11
<1> QED
  BY <1>1, <1>2 DEF Check

\* Creating <id>.used keeps the invariant.
LEMMA MarkKeeps ==
  ASSUME IInv, TypeOK', NEW c \in Calls, MarkUsed(c)
  PROVE  IInv'
<1> USE DEF IInv, fileVars, ownerVars
<1>0. c \in Jobs /\ c \notin Forms
  BY FormsAreNotCalls DEF Jobs
<1>1. CASE UNCHANGED used /\ End(c)
  BY <1>0, <1>1, EndKeeps DEF MarkUsed
<1>2. CASE /\ ~used[job[c].id]
           /\ used' = [used EXCEPT ![job[c].id] = TRUE]
           /\ Goto(c, "perform")
  <2>1. PICK i \in Ids : i = job[c].id
    BY <1>0 DEF MarkUsed, RoleInv, At
  <2>2. /\ job[c].at = "mark" /\ job'[c].at = "perform"
        /\ job'[c].id = i /\ job'[c].act = job[c].act
        /\ job'[c].late = job[c].late
        /\ \A q \in Jobs : q # c => job'[q] = job[q]
    BY <1>0, <1>2, <2>1 DEF MarkUsed, Goto, At, TypeOK, Job
  <2>3. UNCHANGED <<file, draft, text, digest, expired, effects, consented,
                    answered, crowded>>
    BY DEF MarkUsed
  <2>4. /\ ~used[i] /\ used'[i]
        /\ \A j \in Ids : j # i => used'[j] = used[j]
    BY <1>2, <2>1 DEF TypeOK
  <2>5. RoleInv'
    BY <1>0, <2>1, <2>2, <2>3 DEF RoleInv, At, Saving, Jobs
  <2>6. UseInv'
    <3>1. effects[i] = 0
      <4>1. effects[i] \in Nat /\ ~(effects[i] > 0)
        BY <2>4 DEF UseInv, TypeOK
      <4> QED
        BY <4>1
    <3>2. \A d \in Calls : At(d, "perform") => job[d].id # i
      BY <2>4 DEF UseInv
    <3>3. \A d \in Calls : At(d, "perform") => used'[job[d].id]
      BY <2>4, <3>2 DEF UseInv, RoleInv, At, Jobs
    <3> QED
      BY <2>2, <2>3, <2>4, <3>1, <3>2, <3>3
         DEF UseInv, At, SecondUseRejected, Jobs
  <2>7. ConsentInv'
    BY <2>1, <2>2, <2>3 DEF ConsentInv, Saving, Jobs
  <2>8. LateInv'
    BY <1>0, <2>1, <2>2, <2>3 DEF LateInv
  <2>9. RequestInv'
    BY <2>1, <2>2, <2>3 DEF RequestInv, At, Saving, Jobs
  <2>10. PendingInv'
    BY <2>3 DEF PendingInv, AnsweredIsSettled, saved
  <2>11. LoneInv'
    <3> SUFFICES ASSUME NEW j \in Ids \ crowded PROVE Lone(j)'
      BY <2>3 DEF LoneInv
    <3>1. Lone(j) /\ saved(j)' = saved(j)
      BY <2>3 DEF LoneInv, saved
    <3>2. j = i => saved(i) = "approved"
      BY <2>1, <2>2, <3>1 DEF Lone
    <3> QED
      BY <1>0, <2>1, <2>2, <2>3, <2>4, <3>1, <3>2 DEF Lone, At, Saving, Jobs
  <2> QED
    BY <2>5, <2>6, <2>7, <2>8, <2>9, <2>10, <2>11
<1> QED
  BY <1>1, <1>2 DEF MarkUsed

\* Going on to write keeps the invariant.
LEMMA PerformKeeps ==
  ASSUME IInv, TypeOK', NEW c \in Calls, Perform(c)
  PROVE  IInv'
<1> USE DEF IInv, fileVars, ownerVars
<1>1. PICK i \in Ids : i = job[c].id
  BY DEF Perform, RoleInv, At, Jobs
<1>2. /\ job[c].at = "perform" /\ job'[c] = Idle /\ c \in Jobs
      /\ \A q \in Jobs : q # c => job'[q] = job[q]
  BY DEF Perform, End, At, TypeOK, Jobs
<1>3. /\ Idle.at = "idle" /\ Idle.id = None /\ Idle.late = FALSE
      /\ None \notin Ids
  BY NoneIsNothing DEF Idle
<1>4. /\ UNCHANGED <<file, draft, text, used, digest, expired, consented,
                     answered, crowded>>
      /\ \A j \in Ids : j # i => effects'[j] = effects[j]
  BY <1>1 DEF Perform, TypeOK
<1>5. used[i] /\ effects[i] = 0
  BY <1>1, <1>2 DEF UseInv, At
<1>6. effects'[i] = 1
  BY <1>1, <1>5 DEF Perform, TypeOK
<1>7. RoleInv'
  BY <1>2, <1>3, <1>4 DEF RoleInv, At, Saving, Jobs
<1>8. UseInv'
  <2>1. \A d \in Calls : d # c /\ At(d, "perform") =>
          job[d].id # i /\ job[d].id \in Ids
    BY <1>1, <1>2 DEF UseInv, RoleInv, At, Jobs
  <2> QED
    BY <1>2, <1>3, <1>4, <1>5, <1>6, <2>1
       DEF UseInv, At, SecondUseRejected, Jobs
<1>9. ConsentInv'
  BY <1>2, <1>3, <1>4 DEF ConsentInv, Saving, Jobs
<1>10. LateInv'
  BY <1>2, <1>3, <1>4 DEF LateInv
<1>11. RequestInv'
  BY <1>2, <1>3, <1>4 DEF RequestInv, RoleInv, At, Saving, Jobs
<1>12. PendingInv'
  BY <1>4 DEF PendingInv, AnsweredIsSettled, saved
<1>13. LoneInv'
  BY <1>2, <1>3, <1>4 DEF LoneInv, Lone, saved, At, Saving, Jobs
<1> QED
  BY <1>7, <1>8, <1>9, <1>10, <1>11, <1>12, <1>13

\* A kill ends every job and leaves the files.
LEMMA CrashKeeps ==
  ASSUME IInv, TypeOK', Crash
  PROVE  IInv'
<1> USE DEF IInv, fileVars, ownerVars
<1>1. /\ \A q \in Jobs : job'[q] = Idle
      /\ UNCHANGED <<file, draft, text, used, digest, expired, effects,
                     consented, answered, crowded>>
  BY DEF Crash
<1>2. /\ Idle.at = "idle" /\ Idle.id = None /\ Idle.late = FALSE
      /\ None \notin Ids
  BY NoneIsNothing DEF Idle
<1>3. RoleInv' /\ UseInv' /\ ConsentInv' /\ LateInv' /\ RequestInv'
  BY <1>1, <1>2
     DEF RoleInv, UseInv, ConsentInv, LateInv, RequestInv, At, Saving,
         SecondUseRejected, Jobs
<1>4. PendingInv'
  BY <1>1 DEF PendingInv, AnsweredIsSettled, saved
<1>5. LoneInv'
  BY <1>1, <1>2 DEF LoneInv, Lone, saved, At, Saving, Jobs
<1> QED
  BY <1>3, <1>4, <1>5

\* Time only expires approvals.
LEMMA ExpireKeeps ==
  ASSUME IInv, TypeOK', NEW i \in Ids, Expire(i)
  PROVE  IInv'
  BY DEF IInv, Expire, fileVars, ownerVars, RoleInv, UseInv, ConsentInv,
         LateInv, RequestInv, PendingInv, LoneInv, Lone, At, saved,
         SecondUseRejected, AnsweredIsSettled

\* The invariant holds before the first request.
LEMMA InitInv == Init => IInv
<1> SUFFICES ASSUME Init PROVE IInv
  OBVIOUS
<1>1. TypeOK
  BY InitType
<1>2. \A q \in Jobs : job[q].at = "idle" /\ job[q].id = None /\ ~job[q].late
  BY DEF Init, Idle
<1>3. RoleInv /\ UseInv /\ ConsentInv /\ LateInv /\ RequestInv
  BY <1>2
     DEF Init, RoleInv, UseInv, ConsentInv, LateInv, RequestInv, At, Saving,
         SecondUseRejected, Jobs
<1>4. PendingInv
  BY DEF Init, PendingInv, AnsweredIsSettled, saved, Jobs
<1>5. LoneInv
  BY <1>2, NoneIsNothing DEF Init, LoneInv, Lone, saved, At, Saving, Jobs
<1> QED
  BY <1>1, <1>3, <1>4, <1>5 DEF IInv

\* The invariant is inductive.
LEMMA NextInv == IInv /\ [Next]_vars => IInv'
<1> SUFFICES ASSUME IInv, [Next]_vars PROVE IInv'
  OBVIOUS
<1>t. TypeOK'
  BY NextType DEF IInv
<1>1. ASSUME NEW p \in Jobs, Save(p) PROVE IInv'
  <2>1. CASE SaveFails(p)
    BY <1>t, <2>1, EndKeeps DEF SaveFails
  <2> QED
    BY <1>t, <1>1, <2>1, OpenKeeps, WriteKeeps, RenameKeeps DEF Save
<1>2. ASSUME NEW c \in Calls, NEW i \in Ids, NEW a \in Actions,
             Request(c, i, a) \/ Retry(c, i, a)
      PROVE  IInv'
  BY <1>t, <1>2, RequestKeeps, RetryKeeps
<1>3. ASSUME NEW f \in Forms, NEW i \in Ids, Post(f, i) PROVE IInv'
  BY <1>t, <1>3, PostKeeps
<1>4. ASSUME NEW f \in Forms, NEW nonce \in Ids, NEW d \in Decisions,
             Decide(f, nonce, d)
      PROVE  IInv'
  BY <1>t, <1>4, DecideKeeps
<1>5. ASSUME NEW c \in Calls, Check(c) \/ MarkUsed(c) \/ Perform(c)
      PROVE  IInv'
  BY <1>t, <1>5, CheckKeeps, MarkKeeps, PerformKeeps
<1>6. ASSUME NEW i \in Ids, Expire(i) PROVE IInv'
  BY <1>t, <1>6, ExpireKeeps
<1>7. CASE Crash
  BY <1>t, <1>7, CrashKeeps
<1>8. CASE UNCHANGED vars
  BY <1>t, <1>8
     DEF vars, IInv, RoleInv, UseInv, ConsentInv, LateInv, RequestInv,
         PendingInv, LoneInv, Lone, At, saved, SecondUseRejected,
         AnsweredIsSettled
<1> QED
  BY <1>1, <1>2, <1>3, <1>4, <1>5, <1>6, <1>7, <1>8 DEF Next

\* The invariant holds of every behaviour.
LEMMA Invariance == Spec => []IInv
  BY InitInv, NextInv, PTL DEF Spec

\* Type correctness, for every number of approvals, forms and calls.
THEOREM TypeCorrect == Spec => []TypeOK
<1>1. IInv => TypeOK
  BY DEF IInv
<1> QED
  BY <1>1, Invariance, PTL

\* An approval is good for one write, however many calls race for it.
THEOREM OneUse == Spec => []SecondUseRejected
<1>1. IInv => SecondUseRejected
  BY DEF IInv, UseInv
<1> QED
  BY <1>1, Invariance, PTL

\* A call writes only what the owner approved.
THEOREM Approved == Spec => []OnlyAsApproved
<1>1. IInv => OnlyAsApproved
  BY DEF IInv, ConsentInv, OnlyAsApproved, At
<1> QED
  BY <1>1, Invariance, PTL

\* What begins after the expiry changes nothing.
THEOREM Late == Spec => []LateRejected
<1>1. IInv => LateRejected
  BY DEF IInv, LateInv, LateRejected, Saving
<1> QED
  BY <1>1, Invariance, PTL

\* A decision the owner was told of is never undone to "pending".
THEOREM Settled == Spec => []AnsweredIsSettled
<1>1. IInv => AnsweredIsSettled
  BY DEF IInv, PendingInv
<1> QED
  BY <1>1, Invariance, PTL

\* A decision whose forms do not overlap stands.
THEOREM LoneStands == Spec => []LoneDecisionStands
<1>1. IInv => LoneDecisionStands
  <2> SUFFICES ASSUME IInv, NEW d \in answered, d[1] \notin crowded
               PROVE  /\ saved(d[1]) = d[2]
                      /\ d[2] = "denied" => ~used[d[1]]
    BY DEF LoneDecisionStands
  <2>1. d[1] \in Ids /\ Lone(d[1])
    BY DEF IInv, TypeOK, LoneInv
  <2> QED
    BY <2>1 DEF Lone
<1> QED
  BY <1>1, Invariance, PTL
=============================================================================
