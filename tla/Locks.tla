-------------------------------- MODULE Locks ---------------------------------
(* The process lock, the reads of the API client, the files and transcripts it
   saves, and the administrator's commands, which take a lock too.  One component
   runs at a time: each has its own state and its own bounds, and part says which. *)
EXTENDS AuthLock

VARIABLE part  \* the component that runs

\* The client of the Brightspace interface.
CONSTANTS acCalls, acBookmarks, acFirstPage, acCapacity, acMaxAttempts
ASSUME ApiAssumption == acCapacity \in Nat /\ acMaxAttempts \in Nat \ {0}
VARIABLES acAt, acSending, acTries, acPage, acSeen, acBucket, acWaiting,
  acCached, acLogins, acBurst

acVars == <<acAt, acSending, acTries, acPage, acSeen, acBucket, acWaiting,
  acCached, acLogins, acBurst>>

AC == INSTANCE ApiClient WITH Calls <- acCalls, Bookmarks <- acBookmarks,
  FirstPage <- acFirstPage, Capacity <- acCapacity,
  MaxAttempts <- acMaxAttempts, at <- acAt, sending <- acSending,
  tries <- acTries, page <- acPage, seen <- acSeen, bucket <- acBucket,
  waiting <- acWaiting, cached <- acCached, logins <- acLogins,
  burst <- acBurst

\* The administrator's commands on a host of several users.
CONSTANTS hoUsers, hoRivals, hoCommands
ASSUME HostAssumption ==
  /\ \A pair \in hoRivals : \E u, v \in hoUsers : u # v /\ pair = {u, v}
  /\ "none" \notin hoCommands \cup hoUsers
VARIABLES hoLock, hoManifest, hoCompose, hoHome, hoRunning, hoAt, hoAdds,
  hoKnows, hoChild, hoStopping, hoKilled, hoAdded

hoVars == <<hoLock, hoManifest, hoCompose, hoHome, hoRunning, hoAt, hoAdds,
  hoKnows, hoChild, hoStopping, hoKilled, hoAdded>>

HO == INSTANCE Host WITH Users <- hoUsers, Rivals <- hoRivals,
  Commands <- hoCommands, lock <- hoLock, manifest <- hoManifest,
  compose <- hoCompose, home <- hoHome, running <- hoRunning, at <- hoAt,
  adds <- hoAdds, knows <- hoKnows, child <- hoChild, stopping <- hoStopping,
  killed <- hoKilled, added <- hoAdded

\* Files saved under one name.
CONSTANTS dlCalls, dlMaxCopies, dlMaxCrashes, dlOwner
ASSUME DownloadsAssumption ==
  dlOwner \notin dlCalls /\ "none" \notin dlCalls /\ dlMaxCopies \in Nat
VARIABLES dlDir, dlAt, dlKind, dlCopy, dlAnswer, dlCrashes, dlMet, dlRemoved

dlVars == <<dlDir, dlAt, dlKind, dlCopy, dlAnswer, dlCrashes, dlMet,
  dlRemoved>>

DL == INSTANCE Downloads WITH Calls <- dlCalls, MaxCopies <- dlMaxCopies,
  MaxCrashes <- dlMaxCrashes, Owner <- dlOwner, dir <- dlDir, at <- dlAt,
  kind <- dlKind, copy <- dlCopy, answer <- dlAnswer, crashes <- dlCrashes,
  met <- dlMet, removed <- dlRemoved

\* Transcripts of lectures.
CONSTANTS trIds, trCalls, trMaxPending
ASSUME TranscriptsAssumption == "none" \notin trIds /\ trMaxPending \in Nat \ {0}
VARIABLES trFile, trDraft, trRunning, trPending, trJob, trTmp, trAt, trAsks,
  trStuck

trVars == <<trFile, trDraft, trRunning, trPending, trJob, trTmp, trAt, trAsks,
  trStuck>>

TR == INSTANCE Transcripts WITH Ids <- trIds, Calls <- trCalls,
  MaxPending <- trMaxPending, file <- trFile, draft <- trDraft,
  running <- trRunning, pending <- trPending, job <- trJob, tmp <- trTmp,
  at <- trAt, asks <- trAsks, stuck <- trStuck

-----------------------------------------------------------------------------
(* One component runs; the variables of the others are 0. *)

Parts == {"lock", "api", "host", "download", "media"}

AllInit ==
  /\ part \in Parts /\ Init
  /\ \/ part = "api" /\ AC!Init
     \/ part # "api" /\ acAt = 0 /\ acSending = 0 /\ acTries = 0 /\
        acPage = 0 /\ acSeen = 0 /\ acBucket = 0 /\ acWaiting = 0 /\
        acCached = 0 /\ acLogins = 0 /\ acBurst = 0
  /\ \/ part = "host" /\ HO!Init
     \/ part # "host" /\ hoLock = 0 /\ hoManifest = 0 /\ hoCompose = 0 /\
        hoHome = 0 /\ hoRunning = 0 /\ hoAt = 0 /\ hoAdds = 0 /\ hoKnows = 0 /\
        hoChild = 0 /\ hoStopping = 0 /\ hoKilled = 0 /\ hoAdded = 0
  /\ \/ part = "download" /\ DL!Init
     \/ part # "download" /\ dlDir = 0 /\ dlAt = 0 /\ dlKind = 0 /\
        dlCopy = 0 /\ dlAnswer = 0 /\ dlCrashes = 0 /\ dlMet = 0 /\
        dlRemoved = 0
  /\ \/ part = "media" /\ TR!Init
     \/ part # "media" /\ trFile = 0 /\ trDraft = 0 /\ trRunning = 0 /\
        trPending = 0 /\ trJob = 0 /\ trTmp = 0 /\ trAt = 0 /\ trAsks = 0 /\
        trStuck = 0

LockStep ==
  part = "lock" /\ Next /\ UNCHANGED <<part, acVars, hoVars, dlVars, trVars>>

ApiStep ==
  part = "api" /\ AC!Next /\ UNCHANGED <<part, vars, hoVars, dlVars, trVars>>

HostStep ==
  part = "host" /\ HO!Next /\ UNCHANGED <<part, vars, acVars, dlVars, trVars>>

DownloadStep ==
  part = "download" /\ DL!Next /\ UNCHANGED <<part, vars, acVars, hoVars,
    trVars>>

MediaStep ==
  part = "media" /\ TR!Next /\ UNCHANGED <<part, vars, acVars, hoVars, dlVars>>

AllNext ==
  \/ LockStep \/ ApiStep \/ HostStep \/ DownloadStep
  \/ MediaStep

allVars == <<part, vars, acVars, hoVars, dlVars, trVars>>

AllSpec == AllInit /\ [][AllNext]_allVars

\* The fairness of AuthLock, and reads that go on while they can.
AllFairSpec ==
  /\ AllSpec
  /\ \A p \in Procs :
       WF_allVars(part = "lock" /\ AcquireStep(p) /\ UNCHANGED <<part, acVars, hoVars, dlVars, trVars>>)
  /\ WF_allVars(ApiStep)

-----------------------------------------------------------------------------

\* Values stay in their types, in every component.
LockTyped ==
  CASE part = "lock" -> TypeOK
    [] part = "api" -> AC!TypeOK
    [] part = "host" -> HO!TypeOK
    [] part = "download" -> DL!TypeOK
    [] part = "media" -> TR!TypeOK

\* client.ts, rate-limiter.ts: one browser login for each page of a read, and no
\* burst beyond the bucket, whoever retries.
LoginsAndRateHold == part = "api" => AC!OneLoginPerPage /\ AC!RatePromised

\* client.ts, paginate.ts: every read ends, also when the server names the same
\* pages over and over.
ReadsEnd == part = "api" ~> part = "api" /\ \A c \in acCalls : AC!Ended(c)

\* auth-lock.ts, client.ts: an acquisition ends with a lease or an error, and a read
\* with its pages or an error, whatever the others and the server do.
WhatBeginsEnds == AcquireEnds /\ ReadsEnd

\* host.mjs, hosting.mjs: files, containers and answers agree, whatever is
\* interrupted, killed or retried.  download-helpers.ts: a download answered as saved
\* stays as it is.  media-reader.ts: one job runs, as callers are told, and what it
\* stores is whole.
FilesAreWhole ==
  /\ part = "host" => HO!HostIsWhole
  /\ part = "download" => DL!SavedStays
  /\ part = "media" => TR!JobsAreTold

=============================================================================
