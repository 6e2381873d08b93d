----------------------------- MODULE Authenticator ----------------------------
(******************************************************************************)
(* The dedicated software authenticator: enrolment (src/scripts/enroll.mjs),  *)
(* unattended renewal (src/renew.mjs) and its one transfer to the VM          *)
(* (src/scripts/deploy.mjs).  Duo accepts a signature only with a counter     *)
(* above the last one it saw; an older one invalidates the key.               *)
(******************************************************************************)
EXTENDS Naturals, Sequences, FiniteSets

CONSTANTS
  Runs,         \* the runs of the two scripts
  MaxCounter,   \* signatures
  MaxFaults     \* kills and failed saves

VARIABLES
  disk,      \* authenticator.encrypted.json on each machine: its counter, 0 for no file
  lock,      \* state/probe.lock on each machine
  cookies,   \* browser.json on each machine
  cooling,   \* last-attempt is less than two minutes old
  deployed,  \* private/DEPLOYED.txt: no, the claim, then the upload
  run,       \* each run: its script, machine and place
  memory,    \* the counter in the run's browser
  writes,    \* the saves the run has chained
  saveFailed,
  duo,       \* the last counter Duo saw, 0 before enrolment
  broken,    \* Duo saw a counter that was not above it
  session,   \* whose LEARN session is saved on each machine
  raced,     \* a local run was past the marker when the transfer claimed it, or a run
             \* that failed left its lock while a save was under way (history)
  faults     \* (bound and history)

vars == <<disk, lock, cookies, cooling, deployed, run, memory, writes, saveFailed,
          duo, broken, session, raced, faults>>

-----------------------------------------------------------------------------

Machines == {"local", "vm"}

Idle == [script |-> "none", machine |-> "local", at |-> "idle"]

Init ==
  /\ disk = [m \in Machines |-> 0] /\ lock = [m \in Machines |-> FALSE]
  /\ cookies = [m \in Machines |-> m = "local"]
  /\ cooling = [m \in Machines |-> FALSE]
  /\ deployed = "no"
  /\ run = [r \in Runs |-> Idle]
  /\ memory = [r \in Runs |-> 0] /\ writes = [r \in Runs |-> <<>>]
  /\ saveFailed = [r \in Runs |-> FALSE]
  /\ duo = 0 /\ broken = FALSE /\ session = [m \in Machines |-> "none"]
  /\ raced = FALSE /\ faults = 0

machine(r) == run[r].machine

At(r, label) == run[r].at = label

Go(r, label) == run' = [run EXCEPT ![r].at = label]

machineState == <<disk, lock, cookies, cooling, deployed, session>>
mine == <<memory, writes, saveFailed>>
key == <<duo, broken>>
history == <<raced, faults>>

-----------------------------------------------------------------------------
(* A run of enroll.mjs or renew.mjs up to the browser *)

\* Both scripts look for the marker first.
Start(r, script, m) ==
  /\ At(r, "idle") /\ writes[r] = <<>>
  /\ m = "local" => deployed = "no"
  /\ m = "vm" => script = "renew" /\ deployed = "sent"
  /\ run' = [run EXCEPT ![r] = [script |-> script, machine |-> m, at |-> "lock"]]
  /\ UNCHANGED <<machineState, mine, key, history>>

\* mkdir(lockDir); a run that finds the lock leaves it alone.
Lock(r) ==
  /\ At(r, "lock")
  /\ IF lock[machine(r)] THEN run' = [run EXCEPT ![r] = Idle] /\ UNCHANGED lock
     ELSE lock' = [lock EXCEPT ![machine(r)] = TRUE] /\ Go(r, "read")
  /\ UNCHANGED <<disk, cookies, cooling, deployed, session, mine, key, history>>

\* The finally block, which waits for the browser but not for the saves.
Unlock(r) ==
  /\ At(r, "end")
  /\ raced' = (raced \/ writes[r] # <<>>)
  /\ lock' = [lock EXCEPT ![machine(r)] = FALSE]
  /\ run' = [run EXCEPT ![r] = [Idle EXCEPT !.machine = machine(r)]]
  /\ memory' = [memory EXCEPT ![r] = 0]
  /\ saveFailed' = [saveFailed EXCEPT ![r] = FALSE]
  /\ UNCHANGED <<disk, cookies, cooling, deployed, session, writes, key, faults>>

\* What the script needs: enrolment no credential, renewal one or saved cookies.
Usable(r) ==
  CASE run[r].script = "enroll" -> disk[machine(r)] = 0
    [] run[r].script = "restore" -> disk[machine(r)] > 0
    [] run[r].script = "renew" -> disk[machine(r)] > 0 \/ cookies[machine(r)]

ReadPrior(r) ==
  /\ At(r, "read")
  /\ IF Usable(r)
     THEN /\ memory' = [memory EXCEPT ![r] = disk[machine(r)]]
          /\ Go(r, IF run[r].script = "renew" THEN "cool" ELSE "sign in")
     ELSE Go(r, "end") /\ UNCHANGED memory
  /\ UNCHANGED <<machineState, writes, saveFailed, key, history>>

\* Two minutes between renewals.
Cool(r) ==
  /\ At(r, "cool")
  /\ IF cooling[machine(r)] THEN Go(r, "end") /\ UNCHANGED cooling
     ELSE cooling' = [cooling EXCEPT ![machine(r)] = TRUE] /\ Go(r, "sign in")
  /\ UNCHANGED <<disk, lock, cookies, deployed, session, mine, key, history>>

Pass(m) ==
  /\ cooling[m] /\ cooling' = [cooling EXCEPT ![m] = FALSE]
  /\ UNCHANGED <<disk, lock, cookies, deployed, session, run, mine, key, history>>

-----------------------------------------------------------------------------
(* The sign-in; persist saves every event in order *)

\* Mutant: saves that do not wait for each other.
PersistAtOnce(r, counter) ==
  /\ memory' = [memory EXCEPT ![r] = counter]
  /\ writes' = [writes EXCEPT ![r] = <<counter>> \o @]

Persist(r, counter) ==
  /\ memory' = [memory EXCEPT ![r] = counter]
  /\ writes' = [writes EXCEPT ![r] = Append(@, counter)]

\* credentialAdded, when the owner registers the key at Duo.
Enrol(r) ==
  /\ At(r, "sign in") /\ run[r].script = "enroll" /\ memory[r] = 0 /\ duo = 0
  /\ Persist(r, 1) /\ duo' = 1
  /\ UNCHANGED <<machineState, run, saveFailed, broken, history>>

\* credentialAsserted: Duo asks for a signature, also on the way to LEARN.
Assert(r) ==
  /\ At(r, "sign in") \/ At(r, "learn")
  /\ memory[r] \in 1..(MaxCounter - 1)
  /\ Persist(r, memory[r] + 1)
  /\ IF memory[r] + 1 > duo THEN duo' = memory[r] + 1 /\ UNCHANGED broken
     ELSE broken' = TRUE /\ UNCHANGED duo
  /\ UNCHANGED <<machineState, run, saveFailed, history>>

\* One link of the chain: seal, write the draft, rename it.
WriteSave(r) ==
  /\ writes[r] # <<>>
  /\ writes' = [writes EXCEPT ![r] = Tail(@)]
  /\ \/ disk' = [disk EXCEPT ![machine(r)] = Head(writes[r])] /\ UNCHANGED <<saveFailed, faults>>
     \/ /\ faults < MaxFaults /\ faults' = faults + 1
        /\ saveFailed' = [saveFailed EXCEPT ![r] = TRUE] /\ UNCHANGED disk
  /\ UNCHANGED <<lock, cookies, cooling, deployed, session, run, memory, key, raced>>

\* waitForSignedIn ends well, or the e-mail, the password, Duo or the time-out stops it.
Arrive(r) ==
  /\ At(r, "sign in") \/ At(r, "learn")
  /\ \/ Go(r, IF At(r, "learn") THEN "cookies" ELSE "await")
     \/ Go(r, "end")
  /\ UNCHANGED <<machineState, mine, key, history>>

\* await writes: a run whose save failed, or that enrolled nothing, has failed.
AwaitWrites(r) ==
  /\ At(r, "await") /\ writes[r] = <<>>
  /\ IF saveFailed[r] \/ (run[r].script # "renew" /\ memory[r] = 0) THEN Go(r, "end")
     ELSE \/ Go(r, "learn")
          \/ run[r].script # "renew" /\ Go(r, "end")
  /\ UNCHANGED <<machineState, mine, key, history>>

\* --api-check: both session cookies, and the saves once more.
Cookies(r) ==
  /\ At(r, "cookies") /\ writes[r] = <<>>
  /\ \/ ~saveFailed[r] /\ Go(r, IF run[r].script = "renew" THEN "remember" ELSE "end")
     \/ Go(r, "end")
  /\ UNCHANGED <<machineState, mine, key, history>>

\* browser.json, before the account is known to be the owner's.
Remember(r) ==
  /\ At(r, "remember")
  /\ \/ cookies' = [cookies EXCEPT ![machine(r)] = TRUE] /\ Go(r, "whoami")
     \/ Go(r, "end") /\ UNCHANGED cookies
  /\ UNCHANGED <<disk, lock, cooling, deployed, session, mine, key, history>>

\* whoami and the course list; the session is saved for the owner only.
Whoami(r) ==
  /\ At(r, "whoami") /\ Go(r, "end")
  /\ \E who \in {"owner", "other", "unreachable"} :
       session' = IF who = "owner" THEN [session EXCEPT ![machine(r)] = who] ELSE session
  /\ UNCHANGED <<disk, lock, cookies, cooling, deployed, mine, key, history>>

Kill(r) ==
  /\ ~At(r, "idle") /\ faults < MaxFaults /\ faults' = faults + 1
  /\ run' = [run EXCEPT ![r] = Idle]
  /\ memory' = [memory EXCEPT ![r] = 0] /\ writes' = [writes EXCEPT ![r] = <<>>]
  /\ saveFailed' = [saveFailed EXCEPT ![r] = FALSE]
  /\ UNCHANGED <<machineState, key, raced>>

\* An administrator removes the lock a killed run left.
RemoveLock(m) ==
  /\ lock[m] /\ \A r \in Runs : run[r].at \in {"idle", "lock"} \/ machine(r) # m
  /\ lock' = [lock EXCEPT ![m] = FALSE]
  /\ UNCHANGED <<disk, cookies, cooling, deployed, session, run, mine, key, history>>

-----------------------------------------------------------------------------
(* deploy.mjs *)

\* init: the marker comes before the upload, and stays when the upload fails.
Claim ==
  /\ deployed = "no" /\ cookies["local"]
  /\ deployed' = "claimed"
  /\ raced' = (raced \/ \E r \in Runs : machine(r) = "local" /\ ~At(r, "idle"))
  /\ UNCHANGED <<disk, lock, cookies, cooling, session, run, mine, key, faults>>

Upload ==
  /\ deployed = "claimed"
  /\ \/ /\ deployed' = "sent"
        /\ disk' = [disk EXCEPT !["vm"] = disk["local"]]
        /\ cookies' = [cookies EXCEPT !["vm"] = cookies["local"]]
        /\ session' = [session EXCEPT !["vm"] = session["local"]]
     \/ deployed' = "failed" /\ UNCHANGED <<disk, cookies, session>>
  /\ UNCHANGED <<lock, cooling, run, mine, key, history>>

\* session: new cookies and a new session, never the authenticator.
SendSession ==
  /\ deployed = "sent" /\ \A r \in Runs : machine(r) = "vm" => At(r, "idle")
  /\ cookies' = [cookies EXCEPT !["vm"] = cookies["local"]]
  /\ session' = [session EXCEPT !["vm"] = session["local"]]
  /\ UNCHANGED <<disk, lock, cooling, deployed, run, mine, key, history>>

\* import-session.mjs (login.mjs, POST /setup/session): verified, then saved.
ImportSession(m) ==
  /\ session' = [session EXCEPT ![m] = "owner"]
  /\ cookies' = [cookies EXCEPT ![m] = TRUE]
  /\ UNCHANGED <<disk, lock, cooling, deployed, run, mine, key, history>>

-----------------------------------------------------------------------------

Next ==
  \/ \E r \in Runs :
       \/ \E m \in Machines, s \in {"enroll", "restore", "renew"} : Start(r, s, m)
       \/ Lock(r) \/ Unlock(r) \/ ReadPrior(r) \/ Cool(r) \/ Enrol(r) \/ Assert(r)
       \/ WriteSave(r) \/ Arrive(r) \/ AwaitWrites(r) \/ Cookies(r) \/ Remember(r)
       \/ Whoami(r) \/ Kill(r)
  \/ \E m \in Machines : Pass(m) \/ RemoveLock(m) \/ ImportSession(m)
  \/ Claim \/ Upload \/ SendSession

Spec == Init /\ [][Next]_vars

-----------------------------------------------------------------------------
(* Properties *)

TypeOK ==
  /\ disk \in [Machines -> 0..MaxCounter] /\ lock \in [Machines -> BOOLEAN]
  /\ cooling \in [Machines -> BOOLEAN]
  /\ deployed \in {"no", "claimed", "sent", "failed"}
  /\ \A r \in Runs : run[r].script \in {"none", "enroll", "restore", "renew"}
  /\ duo \in 0..MaxCounter /\ session \in [Machines -> {"none", "owner"}]

\* "Restoring an old signature counter can invalidate a key": no interleaving of
\* runs and no transfer brings an old counter before Duo, unless a run was
\* killed, a save failed or outlived its run's lock, or a local run was under way at
\* the transfer.
KeyStaysValid == (faults = 0 /\ ~raced) => ~broken

=============================================================================
