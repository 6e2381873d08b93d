----------------------------- MODULE Transcripts ------------------------------
(*******************************************************************************)
(* Lecture transcripts (src/upstream/src/tools/media-reader.ts).  A call       *)
(* answers a stored transcript, or says how its job is getting on, or starts   *)
(* the job, which goes on after the answer.  The job fetches the file,         *)
(* converts and transcribes it in a temporary directory, and stores the        *)
(* result; running names it in memory, pending tells what calls are answered.  *)
(*******************************************************************************)
EXTENDS Naturals, FiniteSets, Sequences, SequencesExt

CONSTANTS
  Ids,         \* one for each file and time window
  Calls,
  MaxPending   \* 32 in the code

VARIABLES
  file, draft,  \* <id>.json and <id>.json.pending on disk
  running, pending,
  job,          \* where the job of an id is
  tmp,          \* the jobs with a temporary directory of their own
  at, asks,     \* where a call is, or what it was answered, and the id it asks for
  stuck         \* a job could not remove its directory (history)

vars == <<file, draft, running, pending, job, tmp, at, asks, stuck>>

-----------------------------------------------------------------------------

Nil == "none"

disk == <<file, draft>>

Entry(id, status) == [id |-> id, status |-> status, late |-> FALSE]

Init ==
  /\ file = [i \in Ids |-> Nil] /\ draft = [i \in Ids |-> Nil]
  /\ running = Nil /\ pending = <<>>
  /\ job = [i \in Ids |-> Nil] /\ tmp = {}
  /\ at = [c \in Calls |-> "idle"] /\ asks = [c \in Calls |-> Nil]
  /\ stuck = FALSE

\* A Map keeps the order in which keys were added: the n-th entry that is in S.
keeping(entries, S) ==
  LET places == {k \in DOMAIN entries : entries[k] \in S} IN
  [n \in 1..Cardinality(places) |->
     entries[CHOOSE k \in places : Cardinality({j \in places : j <= k}) = n]]

\* delete takes a key out of it.
without(entries, id) == keeping(entries, {e \in Range(entries) : e.id # id})

\* set on a key that is there leaves it in its place.
with(entries, entry) ==
  IF \E e \in Range(entries) : e.id = entry.id
  THEN [k \in DOMAIN entries |->
          IF entries[k].id = entry.id THEN entry ELSE entries[k]]
  ELSE Append(entries, entry)

\* The entry of id that has not expired, as a set.
prior(id) == {e \in Range(pending) : e.id = id /\ ~e.late}

Reply(c, what) ==
  at' = [at EXCEPT ![c] = what] /\ asks' = [asks EXCEPT ![c] = Nil]

-----------------------------------------------------------------------------
(* A call *)

Ask(c) ==
  /\ asks[c] = Nil /\ at' = [at EXCEPT ![c] = "read"]
  /\ \E i \in Ids : asks' = [asks EXCEPT ![c] = i]
  /\ UNCHANGED <<disk, running, pending, job, tmp, stuck>>

\* The stored transcript; only a missing one leads on.
Stored(c) ==
  /\ at[c] = "read"
  /\ \/ file[asks[c]] = "whole" /\ Reply(c, "complete")
     \/ file[asks[c]] # Nil /\ Reply(c, "failed")
     \/ /\ file[asks[c]] = Nil /\ at' = [at EXCEPT ![c] = "missed"]
        /\ UNCHANGED asks
  /\ UNCHANGED <<disk, running, pending, job, tmp, stuck>>

\* The call goes on by what the memory says then: how the job stands, that another
\* job runs, or a new job.  An expired entry is forgotten.
Missed(c) ==
  LET id == asks[c]
      kept == keeping(pending, {e \in Range(pending) : e.id # id /\ ~e.late})
      room == IF Len(kept) >= MaxPending THEN Tail(kept) ELSE kept
  IN
  /\ at[c] = "missed"
  /\ \/ \E e \in prior(id) :
          Reply(c, e.status) /\ UNCHANGED <<running, pending, job>>
     \/ /\ prior(id) = {} /\ running # Nil
        /\ pending' = without(pending, id)
        /\ Reply(c, "busy") /\ UNCHANGED <<running, job>>
     \/ /\ prior(id) = {} /\ running = Nil /\ running' = id
        /\ pending' = Append(room, Entry(id, "running"))
        /\ job' = [job EXCEPT ![id] = "fetch"]
        /\ Reply(c, "running")
  /\ UNCHANGED <<disk, tmp, stuck>>

-----------------------------------------------------------------------------
(* The job *)

Step(id, from, to) == job[id] = from /\ job' = [job EXCEPT ![id] = to]

\* The catch, and the finally, which waits only when there is a directory.
Fail(id) ==
  /\ pending' = with(pending, Entry(id, "failed"))
  /\ IF id \in tmp
     THEN job' = [job EXCEPT ![id] = "clean"] /\ UNCHANGED running
     ELSE job' = [job EXCEPT ![id] = Nil] /\ running' = Nil

\* The topic and its file, which must be audio or video; then the directory.
Fetch(id) ==
  /\ job[id] = "fetch"
  /\ \/ /\ Step(id, "fetch", "work") /\ tmp' = tmp \cup {id}
        /\ UNCHANGED <<pending, running>>
     \/ Fail(id) /\ UNCHANGED tmp
  /\ UNCHANGED <<disk, at, asks, stuck>>

\* The file to disk, within its limits; ffprobe, ffmpeg and the transcription.
Work(id) ==
  /\ job[id] = "work"
  /\ \/ Step(id, "work", "write") /\ UNCHANGED <<pending, running>>
     \/ Fail(id)
  /\ UNCHANGED <<disk, tmp, at, asks, stuck>>

\* The draft is emptied, then written.
WriteDraft(id) ==
  /\ job[id] \in {"write", "writing"}
  /\ \/ /\ Step(id, "write", "writing") /\ draft' = [draft EXCEPT ![id] = "part"]
        /\ UNCHANGED <<pending, running>>
     \/ /\ Step(id, "writing", "store") /\ draft' = [draft EXCEPT ![id] = "whole"]
        /\ UNCHANGED <<pending, running>>
     \/ Fail(id) /\ UNCHANGED draft
  /\ UNCHANGED <<file, tmp, at, asks, stuck>>

Store(id) ==
  /\ job[id] = "store"
  /\ \/ /\ Step(id, "store", "stored") /\ UNCHANGED <<pending, running>>
        /\ file' = [file EXCEPT ![id] = draft[id]]
        /\ draft' = [draft EXCEPT ![id] = Nil]
     \/ Fail(id) /\ UNCHANGED disk
  /\ UNCHANGED <<tmp, at, asks, stuck>>

Finish(id) ==
  /\ Step(id, "stored", "clean") /\ pending' = without(pending, id)
  /\ UNCHANGED <<disk, running, tmp, at, asks, stuck>>

\* A failed removal is an unhandled rejection, which the worker logs: running stays.
Clean(id) ==
  /\ Step(id, "clean", Nil)
  /\ \/ running' = Nil /\ tmp' = tmp \ {id} /\ UNCHANGED stuck
     \/ stuck' = TRUE /\ UNCHANGED <<running, tmp>>
  /\ UNCHANGED <<disk, pending, at, asks>>

-----------------------------------------------------------------------------

\* Thirty minutes for a job that runs, one minute for a failed one.
Expire(k) ==
  /\ ~pending[k].late /\ pending' = [pending EXCEPT ![k].late = TRUE]
  /\ UNCHANGED <<disk, running, job, tmp, at, asks, stuck>>

\* The LEARN worker is closed or killed, and another starts.
Restart ==
  /\ running' = Nil /\ pending' = <<>> /\ stuck' = FALSE
  /\ job' = [i \in Ids |-> Nil] /\ tmp' = {}
  /\ at' = [c \in Calls |-> "idle"] /\ asks' = [c \in Calls |-> Nil]
  /\ UNCHANGED disk

Next ==
  \/ \E c \in Calls : Ask(c) \/ Stored(c) \/ Missed(c)
  \/ \E i \in Ids :
       Fetch(i) \/ Work(i) \/ WriteDraft(i) \/ Store(i) \/ Finish(i) \/ Clean(i)
  \/ \E k \in DOMAIN pending : Expire(k)
  \/ Restart

Spec == Init /\ [][Next]_vars

-----------------------------------------------------------------------------
(* Properties *)

TypeOK ==
  /\ file \in [Ids -> {Nil, "part", "whole"}]
  /\ draft \in [Ids -> {Nil, "part", "whole"}]
  /\ running \in Ids \cup {Nil} /\ Len(pending) <= MaxPending
  /\ \A e \in Range(pending) : e.id \in Ids /\ e.status \in {"running", "failed"}
  /\ job \in [Ids -> {Nil, "fetch", "work", "write", "writing", "store",
                      "stored", "clean"}]
  /\ tmp \subseteq Ids /\ asks \in [Calls -> Ids \cup {Nil}]
  /\ at \in [Calls -> {"idle", "read", "missed", "complete", "failed", "busy",
                      "running"}]

\* media-reader.ts: one job runs at a time, also for calls that looked for the
\* transcript while it was being stored; "running" is answered only of a job that
\* runs, "busy" only while one does or its directory could not be removed; and a
\* stored transcript is whole, whatever a kill or a failed write left in the draft.
JobsAreTold ==
  /\ \A i \in Ids : job[i] # Nil => running = i
  /\ running # Nil => job[running] # Nil \/ stuck
  /\ \A i \in Ids : \A e \in prior(i) : e.status = "running" => job[i] # Nil
  /\ \A i \in Ids : file[i] # "part"

=============================================================================
