------------------------------ MODULE Downloads -------------------------------
(******************************************************************************)
(* Files saved on the host for the owner (src/upstream/src/tools/             *)
(* download-file.ts, get-syllabus.ts, utils/download-helpers.ts,              *)
(* utils/file-validator.ts).  Calls overlap at every await.  All of them ask  *)
(* for one name in one directory; other names do not meet it.                 *)
(******************************************************************************)
EXTENDS Naturals

CONSTANTS
  Calls,
  MaxCopies,   \* name(1), name(2), ... are tried; 100 in the code
  MaxCrashes,
  Owner        \* a file in the directory that no call has written

VARIABLES
  dir,        \* what is on disk under each candidate name
  at, kind,   \* where each call is, and what it downloads
  copy,       \* the candidate it has come to
  answer,     \* "saved"; "without", a syllabus whose attachment was not saved; "error"
  crashes,
  met,        \* the calls that were choosing or writing while another was (history)
  removed     \* the writers whose files somebody removed (history)

vars == <<dir, at, kind, copy, answer, crashes, met, removed>>

-----------------------------------------------------------------------------

Nil == "none"

\* download_file's three sources, and get_syllabus with a downloadPath.
Kinds == {"link", "topic", "submission", "syllabus"}

Candidates == 0..MaxCopies

File(c, whole) == [by |-> c, whole |-> whole]

NoFile == File(Nil, FALSE)

Saving == {"resolve", "write", "writing"}

\* The owner may have some of the candidates already.
Init ==
  /\ \E own \in SUBSET Candidates :
       dir = [i \in Candidates |-> IF i \in own THEN File(Owner, TRUE) ELSE NoFile]
  /\ at = [c \in Calls |-> "idle"] /\ kind = [c \in Calls |-> Nil]
  /\ copy = [c \in Calls |-> 0] /\ answer = [c \in Calls |-> Nil]
  /\ crashes = 0 /\ met = {} /\ removed = {}

history == <<met, removed>>

Go(c, place) == at' = [at EXCEPT ![c] = place] /\ UNCHANGED <<kind, answer>>

Reply(c, what) ==
  /\ at' = [at EXCEPT ![c] = "over"] /\ kind' = [kind EXCEPT ![c] = Nil]
  /\ answer' = [answer EXCEPT ![c] = what]

\* The catch around secureDownload: of get_syllabus, and of download_file.
Throw(c) == Reply(c, IF kind[c] = "syllabus" THEN "without" ELSE "error")

-----------------------------------------------------------------------------
(* What is downloaded *)

\* The arguments and the directory are checked before anything is fetched.
Begin(c) ==
  /\ at[c] = "idle"
  /\ \/ \E k \in Kinds :
          /\ kind' = [kind EXCEPT ![c] = k]
          /\ at' = [at EXCEPT ![c] = IF k \in {"link", "topic"} THEN "fetch" ELSE "find"]
          /\ UNCHANGED answer
     \/ Reply(c, "error")
  /\ UNCHANGED <<dir, copy, crashes, history>>

\* The submission that holds the file: none, or not this file, or a large one.
FindSubmission(c) ==
  /\ at[c] = "find" /\ kind[c] = "submission"
  /\ Go(c, "fetch") \/ Reply(c, "error")
  /\ UNCHANGED <<dir, copy, crashes, history>>

\* The course's overview; a 404 is an answer.
Overview(c) ==
  /\ at[c] = "find" /\ kind[c] = "syllabus"
  /\ Go(c, "fetch") \/ Reply(c, "without") \/ Reply(c, "error")
  /\ UNCHANGED <<dir, copy, crashes, history>>

\* fileUrl: a linked file of the course, at most so large, and PDF data if so named.
CourseFile(c) ==
  /\ at[c] = "fetch" /\ kind[c] = "link"
  /\ Go(c, "check") \/ Reply(c, "error")
  /\ UNCHANGED <<dir, copy, crashes, history>>

\* downloadContentFile: the announced and the actual size are limited.
ContentFile(c) ==
  /\ at[c] = "fetch" /\ kind[c] = "topic"
  /\ Go(c, "check") \/ Reply(c, "error")
  /\ UNCHANGED <<dir, copy, crashes, history>>

\* downloadSubmissionFile, after the submission is found.
SubmissionFile(c) ==
  /\ at[c] = "fetch" /\ kind[c] = "submission"
  /\ Go(c, "check") \/ Reply(c, "error")
  /\ UNCHANGED <<dir, copy, crashes, history>>

\* The attachment: too large is an error; missing or failed, the answer goes without it.
Attachment(c) ==
  /\ at[c] = "fetch" /\ kind[c] = "syllabus"
  /\ Go(c, "check") \/ Reply(c, "without") \/ Reply(c, "error")
  /\ UNCHANGED <<dir, copy, crashes, history>>

-----------------------------------------------------------------------------
(* secureDownload *)

\* A type known by its first bytes, or text; Nil when neither.
Contents == [magic : {"allowed", "other", Nil}, text : {"allowed", Nil}]

\* validateFileType: the first bytes decide; text is looked at only without them.
hasAllowedType(data) ==
  data.magic = "allowed" \/ (data.magic = Nil /\ data.text = "allowed")

\* The directory, the size, the type and the path, once more and before the name.
Validate(c) ==
  /\ at[c] = "check"
  /\ \/ \E data \in Contents :
          /\ hasAllowedType(data) /\ Go(c, "resolve")
          /\ LET others == {d \in Calls \ {c} : at[d] \in Saving} IN
             met' = IF others = {} THEN met ELSE met \cup others \cup {c}
     \/ Throw(c) /\ UNCHANGED met
  /\ UNCHANGED <<dir, copy, crashes, removed>>

\* resolveFilenameConflict: one access for each candidate, in order.
Resolve(c) ==
  /\ at[c] = "resolve"
  /\ \/ dir[copy[c]] = NoFile /\ Go(c, "write") /\ UNCHANGED copy
     \/ /\ dir[copy[c]] # NoFile /\ copy[c] < MaxCopies
        /\ copy' = [copy EXCEPT ![c] = @ + 1] /\ UNCHANGED <<at, kind, answer>>
     \/ dir[copy[c]] # NoFile /\ copy[c] = MaxCopies /\ Throw(c) /\ UNCHANGED copy
  /\ UNCHANGED <<dir, crashes, history>>

\* writeFile creates the file, or empties the one that is there by now.
Open(c) ==
  /\ at[c] = "write"
  /\ \/ dir' = [dir EXCEPT ![copy[c]] = File(c, FALSE)] /\ Go(c, "writing")
     \/ Throw(c) /\ UNCHANGED dir
  /\ UNCHANGED <<copy, crashes, history>>

\* The data is written into what the call has opened: into a file another call has
\* emptied since, two downloads are mixed; into one that was removed, nothing is seen.
\* A failed write leaves what there is.
Write(c) ==
  LET file == dir[copy[c]] IN
  /\ at[c] = "writing"
  /\ \/ /\ dir' = IF file = NoFile THEN dir
                  ELSE [dir EXCEPT ![copy[c]] = File(c, file = File(c, FALSE))]
        /\ Reply(c, "saved")
     \/ Throw(c) /\ UNCHANGED dir
  /\ UNCHANGED <<copy, crashes, history>>

-----------------------------------------------------------------------------
(* The owner and the process *)

\* The owner removes or moves a file.
Remove(i) ==
  /\ dir[i] # NoFile
  /\ dir' = [dir EXCEPT ![i] = NoFile]
  /\ removed' = removed \cup {dir[i].by}
                  \cup {c \in Calls : copy[c] = i /\ at[c] = "writing"}
  /\ UNCHANGED <<at, kind, copy, answer, crashes, met>>

\* The LEARN worker is closed or killed; its calls end without an answer.
Crash ==
  /\ crashes < MaxCrashes /\ crashes' = crashes + 1
  /\ at' = [c \in Calls |-> IF at[c] = "idle" THEN "idle" ELSE "over"]
  /\ kind' = [c \in Calls |-> Nil]
  /\ UNCHANGED <<dir, copy, answer, history>>

Next ==
  \/ \E c \in Calls :
       \/ Begin(c) \/ FindSubmission(c) \/ Overview(c)
       \/ CourseFile(c) \/ ContentFile(c) \/ SubmissionFile(c) \/ Attachment(c)
       \/ Validate(c) \/ Resolve(c) \/ Open(c) \/ Write(c)
  \/ \E i \in Candidates : Remove(i)
  \/ Crash

Spec == Init /\ [][Next]_vars

-----------------------------------------------------------------------------
(* Properties *)

TypeOK ==
  /\ dir \in [Candidates -> [by : Calls \cup {Owner, Nil}, whole : BOOLEAN]]
  /\ at \in [Calls -> {"idle", "find", "fetch", "check", "over"} \cup Saving]
  /\ kind \in [Calls -> Kinds \cup {Nil}]
  /\ copy \in [Calls -> Candidates]
  /\ answer \in [Calls -> {Nil, "saved", "without", "error"}]

\* download-helpers.ts: a file answered as saved stays whole on disk under the path
\* answered, over later downloads of its name and failed or killed ones, until
\* somebody removes it; only downloads that overlapped may have taken one path.
SavedStays ==
  \A c \in Calls \ (met \cup removed) :
    answer[c] = "saved" => dir[copy[c]] = File(c, TRUE)

=============================================================================
