------------------------------ MODULE AuthLock ------------------------------
(******************************************************************************)
(* The process lock of upstream/src/auth/auth-lock.ts: a directory with an    *)
(* owner.json in it.  A lock whose owner is dead is retired by renaming       *)
(* it, by whoever holds the lock reclaim.lock inside it, which is acquired    *)
(* and reclaimed in the same way.  Every file operation is one step, and      *)
(* operations name paths, so they act on whatever is at the path by then.     *)
(******************************************************************************)
EXTENDS Naturals, Sequences

CONSTANTS
  Procs,       \* processes; one that is killed stays dead
  NoOwner,     \* no owner.json
  MaxAttempts, \* attempts per acquireLease (3)
  MaxDepth,    \* nesting of reclaim locks (16)
  MaxCalls,    \* bound on each process's calls of acquireProcessLock
  MaxCrashes   \* bound on process kills

ASSUME NoOwnerIsNobody == NoOwner \notin Procs
ASSUME LimitsAssumption ==
  /\ MaxAttempts \in Nat \ {0}
  /\ MaxDepth \in Nat \ {0}
  /\ MaxCalls \in Nat \ {0}
  /\ MaxCrashes \in Nat

VARIABLES
  chain,    \* the owners in lockPath, lockPath/reclaim.lock, and so on
  alive,    \* the processes process.kill(pid, 0) finds
  calls,    \* the nested acquireLease calls of each process
  at,       \* the file operation it is about to do
  error,    \* what it will throw after a cleanup
  outcome,  \* how its last acquireProcessLock ended
  alone,    \* the acquisitions no other process took a step in
  begun,    \* calls of acquireProcessLock so far
  crashes

procVars == <<calls, at, error, outcome>>
vars == <<chain, alive, calls, at, error, outcome, alone, begun, crashes>>
boundVars == <<begun, crashes>>

-----------------------------------------------------------------------------

Labels == {"idle", "mkdir", "write", "undo", "read", "check", "retire",
           "dropRead", "drop", "held", "releaseRead", "release"}

Errors == {"none", "exists", "busy", "failed"}

Call == [attempt: 1..MaxAttempts, stale: Procs \cup {NoOwner}]

Init ==
  /\ chain = <<>>
  /\ alive = Procs
  /\ calls = [p \in Procs |-> <<>>]
  /\ at = [p \in Procs |-> "idle"]
  /\ error = [p \in Procs |-> "none"]
  /\ outcome = [p \in Procs |-> "none"]
  /\ alone = {}
  /\ begun = [p \in Procs |-> 0]
  /\ crashes = 0

depth(p) == Len(calls[p])
call(p) == calls[p][depth(p)]

\* readOwner of the lock at nesting level n.
readOwner(n) == IF n <= Len(chain) THEN chain[n] ELSE NoOwner

\* Mutant: a lock without an owner counts as stale.
isDeadUnknown(owner) == owner \notin alive

\* Signal 0 finds no such process.  A lock without an owner is not proof.
isDead(owner) == owner \notin alive \cup {NoOwner}

\* rename moves a lock away with all that is in it.
Rename(n) == chain' = SubSeq(chain, 1, n - 1)

At(p, label) == p \in alive /\ at[p] = label

Goto(p, label) == at' = [at EXCEPT ![p] = label]

\* An acquisition starts alone if nobody else is at work, and every step of
\* another process ends that.
Overlap(p) == alone' = alone \cap {p}

\* An error ends all the nested calls: none of them holds anything by then.
Throw(p, e) ==
  /\ calls' = [calls EXCEPT ![p] = <<>>]
  /\ outcome' = [outcome EXCEPT ![p] = e]
  /\ error' = [error EXCEPT ![p] = "none"]
  /\ Goto(p, "idle")

-----------------------------------------------------------------------------
(* acquireLease *)

firstAttempt == [attempt |-> 1, stale |-> NoOwner]

Acquire(p) ==
  /\ At(p, "idle")
  /\ begun[p] < MaxCalls
  /\ begun' = [begun EXCEPT ![p] = @ + 1]
  /\ calls' = [calls EXCEPT ![p] = <<firstAttempt>>]
  /\ outcome' = [outcome EXCEPT ![p] = "none"]
  /\ Goto(p, "mkdir")
  /\ alone' = IF \A q \in alive \ {p} : at[q] = "idle" THEN {p} ELSE {}
  /\ UNCHANGED <<chain, alive, error, crashes>>

\* The directory is made, exists already, or has lost its parent (ENOENT).
Mkdir(p) ==
  /\ At(p, "mkdir")
  /\ \/ /\ Len(chain) = depth(p) - 1
        /\ chain' = Append(chain, NoOwner)
        /\ Goto(p, "write")
        /\ UNCHANGED <<calls, error, outcome>>
     \/ /\ Len(chain) >= depth(p)
        /\ Goto(p, "read")
        /\ UNCHANGED <<chain, calls, error, outcome>>
     \/ /\ Len(chain) < depth(p) - 1
        /\ Throw(p, "busy")
        /\ UNCHANGED chain
  /\ Overlap(p)
  /\ UNCHANGED <<alive, boundVars>>

\* The lease is ours: of the lock, or of the claim the calling level wanted.
Leased(p) ==
  IF depth(p) = 1
  THEN /\ outcome' = [outcome EXCEPT ![p] = "locked"]
       /\ Goto(p, "held")
       /\ UNCHANGED <<calls, error>>
  ELSE /\ calls' = [calls EXCEPT ![p] = SubSeq(@, 1, depth(p) - 1)]
       /\ Goto(p, "check")
       /\ UNCHANGED <<error, outcome>>

\* owner.json is created exclusively, in whatever directory is there now.
WriteOwner(p) ==
  /\ At(p, "write")
  /\ LET n == depth(p) IN
       \/ /\ n <= Len(chain) /\ chain[n] = NoOwner
          /\ chain' = [chain EXCEPT ![n] = p]
          /\ Leased(p)
       \/ /\ \/ /\ n <= Len(chain) /\ chain[n] # NoOwner
                /\ error' = [error EXCEPT ![p] = "exists"]
             \/ /\ n > Len(chain)
                /\ error' = [error EXCEPT ![p] = "busy"]
             \/ error' = [error EXCEPT ![p] = "failed"]
          /\ Goto(p, "undo")
          /\ UNCHANGED <<chain, calls, outcome>>
  /\ Overlap(p)
  /\ UNCHANGED <<alive, boundVars>>

\* rmdir removes only an empty directory.
Undo(p) ==
  /\ At(p, "undo")
  /\ IF Len(chain) = depth(p) /\ readOwner(depth(p)) = NoOwner
     THEN Rename(depth(p)) ELSE UNCHANGED chain
  /\ IF error[p] = "exists"
     THEN /\ Goto(p, "read")
          /\ error' = [error EXCEPT ![p] = "none"]
          /\ UNCHANGED <<calls, outcome>>
     ELSE Throw(p, error[p])
  /\ Overlap(p)
  /\ UNCHANGED <<alive, boundVars>>

\* Mutant: a contender polls the lock instead of being refused.
ReadOwnerWaits(p) ==
  /\ At(p, "read")
  /\ LET owner == readOwner(depth(p)) IN
       IF ~isDead(owner)
       THEN Goto(p, "mkdir") /\ UNCHANGED <<calls, error, outcome>>
       ELSE /\ calls' = [calls EXCEPT ![p] =
                           Append([@ EXCEPT ![depth(p)].stale = owner],
                                  firstAttempt)]
            /\ Goto(p, "mkdir")
            /\ UNCHANGED <<error, outcome>>
  /\ Overlap(p)
  /\ UNCHANGED <<chain, alive, boundVars>>

\* Only a known and dead owner is worth a claim.
ReadOwner(p) ==
  /\ At(p, "read")
  /\ LET owner == readOwner(depth(p)) IN
       IF ~isDead(owner) \/ depth(p) > MaxDepth
       THEN Throw(p, "busy")
       ELSE /\ calls' = [calls EXCEPT ![p] =
                           Append([@ EXCEPT ![depth(p)].stale = owner],
                                  firstAttempt)]
            /\ Goto(p, "mkdir")
            /\ UNCHANGED <<error, outcome>>
  /\ Overlap(p)
  /\ UNCHANGED <<chain, alive, boundVars>>

\* Under the claim: is it still the lock that was found stale?
Check(p) ==
  /\ At(p, "check")
  /\ IF readOwner(depth(p)) = call(p).stale /\ isDead(call(p).stale)
     THEN /\ Goto(p, "retire")
          /\ UNCHANGED error
     ELSE /\ Goto(p, "dropRead")
          /\ error' = [error EXCEPT ![p] = "busy"]
  /\ Overlap(p)
  /\ UNCHANGED <<chain, alive, calls, outcome, boundVars>>

\* Mutant: recovery goes on for as long as stale locks turn up.
RetireForever(p) ==
  /\ At(p, "retire")
  /\ IF depth(p) > Len(chain)
     THEN /\ Goto(p, "dropRead")
          /\ error' = [error EXCEPT ![p] = "failed"]
          /\ UNCHANGED <<chain, calls, outcome>>
     ELSE /\ Rename(depth(p))
          /\ calls' = [calls EXCEPT ![p][depth(p)] =
                         [attempt |-> @.attempt + 1, stale |-> NoOwner]]
          /\ Goto(p, "mkdir")
          /\ UNCHANGED <<error, outcome>>
  /\ Overlap(p)
  /\ UNCHANGED <<alive, boundVars>>

\* Mutant: after a recovery the caller has to come back.
RetireOnly(p) ==
  /\ At(p, "retire")
  /\ IF depth(p) > Len(chain)
     THEN /\ Goto(p, "dropRead")
          /\ error' = [error EXCEPT ![p] = "failed"]
          /\ UNCHANGED <<chain, calls, outcome>>
     ELSE Rename(depth(p)) /\ Throw(p, "busy")
  /\ Overlap(p)
  /\ UNCHANGED <<alive, boundVars>>

\* The stale lock goes, with the claim inside it, and the next attempt starts.
Retire(p) ==
  /\ At(p, "retire")
  /\ IF depth(p) > Len(chain)
     THEN /\ Goto(p, "dropRead")
          /\ error' = [error EXCEPT ![p] = "failed"]
          /\ UNCHANGED <<chain, calls, outcome>>
     ELSE /\ Rename(depth(p))
          /\ IF call(p).attempt = MaxAttempts
             THEN Throw(p, "busy")
             ELSE /\ calls' = [calls EXCEPT ![p][depth(p)] =
                        [attempt |-> @.attempt + 1, stale |-> NoOwner]]
                  /\ Goto(p, "mkdir")
                  /\ UNCHANGED <<error, outcome>>
  /\ Overlap(p)
  /\ UNCHANGED <<alive, boundVars>>

-----------------------------------------------------------------------------
(* Lease.release, of a claim that did not lead to a retirement *)

DropRead(p) ==
  /\ At(p, "dropRead")
  /\ IF readOwner(depth(p) + 1) = p
     THEN Goto(p, "drop") /\ UNCHANGED <<calls, error, outcome>>
     ELSE Throw(p, error[p])
  /\ Overlap(p)
  /\ UNCHANGED <<chain, alive, boundVars>>

\* The path may be gone by now, or be another claim.
Drop(p) ==
  /\ At(p, "drop")
  /\ IF depth(p) + 1 <= Len(chain)
     THEN Rename(depth(p) + 1) /\ Throw(p, error[p])
     ELSE Throw(p, "failed") /\ UNCHANGED chain
  /\ Overlap(p)
  /\ UNCHANGED <<alive, boundVars>>

(* Lease.release, of the lock *)

StartRelease(p) ==
  /\ At(p, "held")
  /\ Goto(p, "releaseRead")
  /\ Overlap(p)
  /\ UNCHANGED <<chain, alive, calls, error, outcome, boundVars>>

ReleaseRead(p) ==
  /\ At(p, "releaseRead")
  /\ IF readOwner(1) = p
     THEN Goto(p, "release") /\ UNCHANGED calls
     ELSE Goto(p, "idle") /\ calls' = [calls EXCEPT ![p] = <<>>]
  /\ Overlap(p)
  /\ UNCHANGED <<chain, alive, error, outcome, boundVars>>

Release(p) ==
  /\ At(p, "release")
  /\ Rename(1)
  /\ calls' = [calls EXCEPT ![p] = <<>>]
  /\ Goto(p, "idle")
  /\ Overlap(p)
  /\ UNCHANGED <<alive, error, outcome, boundVars>>

-----------------------------------------------------------------------------

\* SIGKILL between any two file operations.
Crash(p) ==
  /\ p \in alive
  /\ crashes < MaxCrashes
  /\ crashes' = crashes + 1
  /\ alive' = alive \ {p}
  /\ calls' = [calls EXCEPT ![p] = <<>>]
  /\ error' = [error EXCEPT ![p] = "none"]
  /\ outcome' = [outcome EXCEPT ![p] = "none"]
  /\ Goto(p, "idle")
  /\ Overlap(p)
  /\ UNCHANGED <<chain, begun>>

AcquireStep(p) ==
  \/ Mkdir(p) \/ WriteOwner(p) \/ Undo(p) \/ ReadOwner(p)
  \/ Check(p) \/ Retire(p) \/ DropRead(p) \/ Drop(p)

ReleaseStep(p) == StartRelease(p) \/ ReleaseRead(p) \/ Release(p)

Next == \E p \in Procs : Acquire(p) \/ AcquireStep(p) \/ ReleaseStep(p) \/ Crash(p)

Spec == Init /\ [][Next]_vars

FairSpec == Spec /\ \A p \in Procs : WF_vars(AcquireStep(p))

-----------------------------------------------------------------------------

\* Values stay in their types; an acquisition ends with a lease, with
\* AUTH_IN_PROGRESS or with another error of the file system.
TypeOK ==
  /\ chain \in Seq(Procs \cup {NoOwner})
  /\ alive \in SUBSET Procs
  /\ calls \in [Procs -> Seq(Call)]
  /\ at \in [Procs -> Labels]
  /\ error \in [Procs -> Errors]
  /\ outcome \in [Procs -> {"none", "locked", "busy", "failed"}]
  /\ alone \in SUBSET Procs
  /\ begun \in [Procs -> 0..MaxCalls]
  /\ crashes \in 0..MaxCrashes

\* The processes from acquireProcessLock's return to the last rename.
holders == {p \in alive : at[p] \in {"held", "releaseRead", "release"}}

\* However the owners die and whoever recovers the lock: two live processes
\* are never both between acquireProcessLock and their release.
MutualExclusion == \A p, q \in holders : p = q

\* Nobody retires, removes or replaces the lock of a live holder: lockPath
\* names it until it releases.
HolderIsNamed == \A p \in holders : readOwner(1) = p

\* A lock, or a nested recovery lock, whose owner is dead never refuses a
\* contender that has the lock to itself.  The one exception is a directory
\* whose maker died before it wrote owner.json.
LoneAcquisitionSucceeds ==
  \A p \in alone \cap alive :
    outcome[p] = "busy" => \E n \in DOMAIN chain : chain[n] = NoOwner

\* acquireProcessLock never waits: it ends with a lease or an error, however
\* the others are stopped meanwhile.
AcquireEnds ==
  \A p \in Procs : at[p] = "mkdir" ~> at[p] \in {"held", "idle"}

=============================================================================
