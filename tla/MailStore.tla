----------------------------- MODULE MailStore -----------------------------
(******************************************************************************)
(* Forwarded mail: src/mail-store.mjs (MailStore) and POST /ingest/mail of    *)
(* gateway.mjs.                                                               *)
(*                                                                            *)
(* A Cloudflare Worker offers a message until the gateway accepts it, so      *)
(* one message may arrive several times, also twice at once.  Every write     *)
(* runs in a queue of one; the policy is read, the signatures are verified    *)
(* and the index is read into memory outside of it.  Any read or write may    *)
(* fail, and the process may be killed between two of them.                   *)
(******************************************************************************)
EXTENDS Naturals, SequencesExt

CONSTANTS
  Deliveries,   \* the requests /ingest/mail serves at once
  Owner,        \* the owner's form for the signer policy
  Messages,     \* forwarded messages, by their Message-ID
  Size,         \* storedBytes of a message
  Trusted,      \* messages a trusted domain has signed
  Malformed,    \* messages rejected for their headers or their form
  MaxMessages,  \* MAIL_LIMITS.maxMessages
  MaxBytes,     \* MAIL_LIMITS.maxStoredBytes
  None,         \* no message
  MaxOffers,    \* bound on the deliveries of the Worker
  MaxForms,     \* bound on the policy forms the owner posts
  MaxFaults,    \* bound on the reads and writes that fail
  MaxCrashes    \* bound on process kills

Procs == Deliveries \cup {Owner}

ASSUME OwnerAssumption == Owner \notin Deliveries
ASSUME NoneAssumption == None \notin Messages
ASSUME SizeAssumption == Size \in [Messages -> Nat]
ASSUME LimitsAssumption == MaxMessages \in Nat \ {0} /\ MaxBytes \in Nat
ASSUME BoundsAssumption ==
  /\ MaxOffers \in Nat /\ MaxForms \in Nat
  /\ MaxFaults \in Nat /\ MaxCrashes \in Nat

VARIABLES
  index,      \* index.sealed, the newest first; no file is the empty list
  eml, body,  \* the messages with an .eml, with a .body file
  logged,     \* the messages deliveries.json calls stored
  policy,     \* policy.json: requireTrustedSigner
  queue,      \* this.queue: the tasks begun or waiting, in order
  cache,      \* this.index: nothing, a promise of load, or a list
  load,       \* the promise of an index read: how far it is
  job,        \* what each request is doing
  acked,      \* messages answered with 200
  pushedOut,  \* messages the limits took out of the index
  told,       \* the owner was last told that a signer is required
  offers, forms, faults, crashes

diskVars == <<index, eml, body, logged, policy>>
memoryVars == <<queue, cache, load, job>>
pastVars == <<acked, pushedOut, told>>
posted == <<offers, forms>>
vars == <<index, eml, body, logged, policy, queue, cache, load, job,
          acked, pushedOut, told, offers, forms, faults, crashes>>

-----------------------------------------------------------------------------

\* The writes, in the order of a task, and the waits.
Writes == {"reject", "setPolicy", "log", "eml", "body", "index"}

Labels == Writes \cup {"idle", "verify", "list", "load", "cache", "unlink"}

Job == [at: Labels,                   \* the await it is at
        msg: Messages \cup {None},    \* the message it delivers
        strict: BOOLEAN,              \* the policy it read, or would set
        told: BOOLEAN,                \* it began after the owner was told
        list: Seq(Messages),          \* `list`, then `next`
        gone: SUBSET Messages]        \* `evicted`, until they are deleted

Idle == [at |-> "idle", msg |-> None, strict |-> FALSE, told |-> FALSE,
         list |-> <<>>, gone |-> {}]

Nothing == [at |-> "none", list |-> <<>>]
Holds(list) == [at |-> "list", list |-> list]

Init ==
  /\ index = <<>> /\ eml = {} /\ body = {} /\ logged = {}
  /\ policy = FALSE
  /\ queue = <<>>
  /\ cache = Nothing /\ load = Nothing
  /\ job = [p \in Procs |-> Idle]
  /\ acked = {} /\ pushedOut = {} /\ told = FALSE
  /\ offers = 0 /\ forms = 0 /\ faults = 0 /\ crashes = 0

-----------------------------------------------------------------------------
(* this.queue *)

Goto(p, label) == job' = [job EXCEPT ![p].at = label]

\* exclusive(run): the task runs when every earlier one has settled.
Exclusive(p, task) == queue' = Append(queue, p) /\ Goto(p, task)

\* Mutant: tasks run as they come.
RunningAtOnce(p, label) == job[p].at = label

Running(p, label) == queue # <<>> /\ Head(queue) = p /\ job[p].at = label

\* A task settles, with a value or an error; the next one runs either way.
End(p) == queue' = Tail(queue) /\ job' = [job EXCEPT ![p] = Idle]

\* Mutant: only a task that succeeds lets the next one run.
FailAndHold(p) ==
  /\ \E label \in Writes : Running(p, label)
  /\ faults < MaxFaults
  /\ faults' = faults + 1
  /\ job' = [job EXCEPT ![p] = Idle]
  /\ UNCHANGED <<diskVars, queue, cache, load, pastVars, posted, crashes>>

Fail(p) ==
  /\ \E label \in Writes : Running(p, label)
  /\ faults < MaxFaults
  /\ faults' = faults + 1
  /\ End(p)
  /\ UNCHANGED <<diskVars, cache, load, pastVars, posted, crashes>>

-----------------------------------------------------------------------------
(* messages() *)

\* this.index ??= the read of index.sealed
StartLoad ==
  /\ cache' = [cache EXCEPT !.at = "loading"]
  /\ load' = [load EXCEPT !.at = "reading"]

\* A tool call lists, searches or reads mail.
Search ==
  /\ cache.at = "none"
  /\ StartLoad
  /\ UNCHANGED <<diskVars, queue, job, pastVars, posted, faults, crashes>>

ReadIndex ==
  /\ load.at = "reading"
  /\ \/ /\ load' = IF index = <<>> THEN [Nothing EXCEPT !.at = "absent"]
                                   ELSE Holds(index)
        /\ UNCHANGED faults
     \/ /\ faults < MaxFaults
        /\ faults' = faults + 1
        /\ load' = [Nothing EXCEPT !.at = "failed"]
  /\ UNCHANGED <<diskVars, queue, cache, job, pastVars, posted, crashes>>

\* The task has its list; a message that is in it is not stored again.
Begin(p, list) ==
  IF job[p].msg \in ToSet(list)
    THEN End(p) /\ acked' = acked \cup {job[p].msg}
    ELSE /\ job' = [job EXCEPT ![p].at = "log", ![p].list = list]
         /\ UNCHANGED <<queue, acked>>

\* Mutant: an index that cannot be read counts as an empty one.
SettleLoadAsEmpty ==
  /\ load.at \in {"absent", "failed", "list"}
  /\ load' = Nothing
  /\ cache' = IF load.at # "list" THEN Nothing
              ELSE IF cache.at = "loading" THEN load ELSE cache
  /\ \/ /\ \A p \in Procs : job[p].at # "load"
        /\ UNCHANGED <<queue, job, acked>>
     \/ \E p \in Procs : job[p].at = "load" /\ Begin(p, load.list)
  /\ UNCHANGED <<diskVars, pushedOut, told, posted, faults, crashes>>

\* The promise settles for whoever awaits it; its catch clears this.index,
\* whatever this.index is by now.
SettleLoad ==
  /\ load.at \in {"absent", "failed", "list"}
  /\ load' = Nothing
  /\ cache' = IF load.at # "list" THEN Nothing
              ELSE IF cache.at = "loading" THEN load ELSE cache
  /\ \/ /\ \A p \in Procs : job[p].at # "load"
        /\ UNCHANGED <<queue, job, acked>>
     \/ \E p \in Procs :
          /\ job[p].at = "load"
          /\ IF load.at = "failed" THEN End(p) /\ UNCHANGED acked
                                   ELSE Begin(p, load.list)
  /\ UNCHANGED <<diskVars, pushedOut, told, posted, faults, crashes>>

-----------------------------------------------------------------------------
(* ingest(raw) *)

\* The Worker posts a message, for the first time or again.  The policy is
\* read before the signatures are verified.
Offer(p, m) ==
  /\ job[p].at = "idle"
  /\ offers < MaxOffers
  /\ offers' = offers + 1
  /\ job' = [job EXCEPT ![p] = [Idle EXCEPT !.at = "verify", !.msg = m,
                                            !.strict = policy, !.told = told]]
  /\ UNCHANGED <<diskVars, queue, cache, load, pastVars, forms, faults, crashes>>

acceptable(p) ==
  /\ job[p].msg \notin Malformed
  /\ job[p].strict => job[p].msg \in Trusted

\* Signatures and form are checked; a DNS failure answers an error instead.
Verify(p) ==
  /\ job[p].at = "verify"
  /\ \/ Exclusive(p, IF acceptable(p) THEN "list" ELSE "reject")
     \/ job' = [job EXCEPT ![p] = Idle] /\ UNCHANGED queue
  /\ UNCHANGED <<diskVars, cache, load, pastVars, posted, faults, crashes>>

\* The rejection is logged and answered with 202.
Reject(p) ==
  /\ Running(p, "reject")
  /\ End(p)
  /\ UNCHANGED <<diskVars, cache, load, pastVars, posted, faults, crashes>>

List(p) ==
  /\ Running(p, "list")
  /\ IF cache.at = "list"
       THEN Begin(p, cache.list) /\ UNCHANGED <<cache, load>>
       ELSE /\ Goto(p, "load")
            /\ IF cache.at = "none" THEN StartLoad
                                    ELSE UNCHANGED <<cache, load>>
            /\ UNCHANGED <<queue, acked>>
  /\ UNCHANGED <<diskVars, pushedOut, told, posted, faults, crashes>>

LogDelivery(p) ==
  /\ Running(p, "log")
  /\ logged' = logged \cup {job[p].msg}
  /\ Goto(p, "eml")
  /\ UNCHANGED <<index, eml, body, policy, queue, cache, load, pastVars,
                 posted, faults, crashes>>

WriteEml(p) ==
  /\ Running(p, "eml")
  /\ eml' = eml \cup {job[p].msg}
  /\ Goto(p, "body")
  /\ UNCHANGED <<index, body, logged, policy, queue, cache, load, pastVars,
                 posted, faults, crashes>>

\* Mutant: a body that could not be written is passed over.
WriteBodyIfPossible(p) ==
  /\ Running(p, "body")
  /\ body' \in {body, body \cup {job[p].msg}}
  /\ Goto(p, "index")
  /\ UNCHANGED <<index, eml, logged, policy, queue, cache, load, pastVars,
                 posted, faults, crashes>>

WriteBody(p) ==
  /\ Running(p, "body")
  /\ body' = body \cup {job[p].msg}
  /\ Goto(p, "index")
  /\ UNCHANGED <<index, eml, logged, policy, queue, cache, load, pastVars,
                 posted, faults, crashes>>

bytes(s) == FoldSeq(LAMBDA m, n : Size[m] + n, 0, s)

fits(s) == Len(s) <= MaxMessages /\ bytes(s) <= MaxBytes

\* The loop pops the oldest message until the rest fits or is one message.
kept(s) ==
  SubSeq(s, 1, Max({1} \cup {n \in 1..Len(s) : fits(SubSeq(s, 1, n))}))

WriteIndex(p) ==
  LET all == Cons(job[p].msg, job[p].list)
      evicted == ToSet(all) \ ToSet(kept(all))
  IN /\ Running(p, "index")
     /\ index' = kept(all)
     /\ pushedOut' = (pushedOut \cup evicted) \ {job[p].msg}
     /\ job' = [job EXCEPT ![p].at = "cache", ![p].list = kept(all),
                           ![p].gone = evicted]
     /\ UNCHANGED <<eml, body, logged, policy, queue, cache, load, acked,
                    told, posted, faults, crashes>>

\* Mutant: the list is kept, but not as a promise that has settled.
SetCacheBare(p) ==
  /\ Running(p, "cache")
  /\ cache' = [list |-> job[p].list]
  /\ Goto(p, "unlink")
  /\ UNCHANGED <<diskVars, queue, load, pastVars, posted, faults, crashes>>

SetCache(p) ==
  /\ Running(p, "cache")
  /\ cache' = Holds(job[p].list)
  /\ Goto(p, "unlink")
  /\ UNCHANGED <<diskVars, queue, load, pastVars, posted, faults, crashes>>

\* Each unlink may fail; its error is swallowed.
Unlink(p, m) ==
  /\ Running(p, "unlink")
  /\ m \in job[p].gone
  /\ eml' \in {eml, eml \ {m}}
  /\ body' \in {body, body \ {m}}
  /\ job' = [job EXCEPT ![p].gone = @ \ {m}]
  /\ UNCHANGED <<index, logged, policy, queue, cache, load, pastVars,
                 posted, faults, crashes>>

Stored(p) ==
  /\ Running(p, "unlink")
  /\ job[p].gone = {}
  /\ End(p)
  /\ acked' = acked \cup {job[p].msg}
  /\ UNCHANGED <<diskVars, cache, load, pushedOut, told, posted, faults,
                 crashes>>

-----------------------------------------------------------------------------
(* setPolicy *)

PostPolicy(strict) ==
  /\ job[Owner].at = "idle"
  /\ forms < MaxForms
  /\ forms' = forms + 1
  /\ queue' = Append(queue, Owner)
  /\ job' = [job EXCEPT ![Owner] = [Idle EXCEPT !.at = "setPolicy",
                                                !.strict = strict]]
  /\ told' = FALSE
  /\ UNCHANGED <<diskVars, cache, load, acked, pushedOut, offers, faults,
                 crashes>>

WritePolicy ==
  /\ Running(Owner, "setPolicy")
  /\ policy' = job[Owner].strict
  /\ told' = job[Owner].strict
  /\ End(Owner)
  /\ UNCHANGED <<index, eml, body, logged, cache, load, acked, pushedOut,
                 posted, faults, crashes>>

-----------------------------------------------------------------------------

\* The process is killed: the files stay.
Crash ==
  /\ crashes < MaxCrashes
  /\ crashes' = crashes + 1
  /\ job' = [p \in Procs |-> Idle]
  /\ queue' = <<>>
  /\ cache' = Nothing /\ load' = Nothing
  /\ UNCHANGED <<diskVars, pastVars, posted, faults>>

StoreStep(p) ==
  \/ List(p) \/ LogDelivery(p) \/ WriteEml(p) \/ WriteBody(p)
  \/ WriteIndex(p) \/ SetCache(p) \/ Stored(p)
  \/ \E m \in Messages : Unlink(p, m)

Step(p) == Verify(p) \/ Reject(p) \/ StoreStep(p) \/ Fail(p)

Next ==
  \/ \E p \in Deliveries, m \in Messages : Offer(p, m)
  \/ \E p \in Deliveries : Verify(p) \/ Reject(p) \/ StoreStep(p)
  \/ \E p \in Procs : Fail(p)
  \/ \E strict \in BOOLEAN : PostPolicy(strict)
  \/ WritePolicy
  \/ Search
  \/ ReadIndex
  \/ SettleLoad
  \/ Crash

Spec == Init /\ [][Next]_vars

\* File operations and DNS lookups answer or fail, and a settled task lets
\* the next one run.
FairSpec ==
  /\ Spec
  /\ \A p \in Deliveries : WF_vars(Step(p))
  /\ WF_vars(WritePolicy)
  /\ WF_vars(ReadIndex)
  /\ WF_vars(SettleLoad)

-----------------------------------------------------------------------------
(* Properties *)

\* Every variable has its type.
TypeOK ==
  /\ index \in Seq(Messages)
  /\ eml \in SUBSET Messages /\ body \in SUBSET Messages
  /\ logged \in SUBSET Messages
  /\ policy \in BOOLEAN
  /\ queue \in Seq(Procs)
  /\ cache \in [at: {"none", "loading", "list"}, list: Seq(Messages)]
  /\ load \in [at: {"none", "reading", "absent", "failed", "list"},
               list: Seq(Messages)]
  /\ job \in [Procs -> Job]
  /\ acked \in SUBSET Messages /\ pushedOut \in SUBSET Messages
  /\ told \in BOOLEAN
  /\ offers \in Nat /\ forms \in Nat
  /\ faults \in Nat /\ crashes \in Nat

\* A message the Worker was told is stored (it never offers it again) is in
\* the index for good, until newer mail pushes it out by the limits.
AckedIsKept == acked \subseteq ToSet(index) \cup pushedOut

\* Every message a list or a search shows can be opened: its files were
\* written before the index named it, and no eviction, redelivery or kill
\* takes them away while it does.
ListedIsReadable == ToSet(index) \subseteq eml \cap body

\* The list in memory, on which searches answer and deliveries build the next
\* index, is the index on disk, but for the step that installs the new one.
CacheIsCurrent ==
  cache.at = "list" =>
    cache.list = index \/ \E p \in Deliveries : job[p].at = "cache"

\* Once the owner was told that a trusted signer is required, no delivery
\* that begins stores a message without one.
StrictKeepsOut ==
  \A p \in Deliveries :
    job[p].told /\ job[p].msg \notin Trusted =>
      job[p].at \in {"idle", "verify", "reject"}

\* Every delivery is answered: no failed task, lost load or waiting task holds
\* up the queue.
DeliveriesEnd ==
  \A p \in Deliveries : job[p].at # "idle" ~> job[p].at = "idle"

\* The index on disk changes only as the owner was promised: no update is
\* lost, no message is in it twice, and it keeps the newest that fit.
Promised == INSTANCE Mailbox WITH box <- index

ImplementsMailbox == Promised!Spec

\* docs/outlook.md: "older messages are deleted automatically".  With no task
\* under way, a message that was pushed out has no file left.
OlderIsDeleted == queue = <<>> => pushedOut \cap (eml \cup body) = {}

=============================================================================
