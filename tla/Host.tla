-------------------------------- MODULE Host ---------------------------------
(******************************************************************************)
(* The host command of a machine that serves several users                    *)
(* (src/scripts/host.mjs, src/src/hosting.mjs): a manifest of users, a        *)
(* private home for each, a Compose file rendered from the manifest, and the  *)
(* containers.  Commands exclude each other by a lock file, answer signals    *)
(* only between operations, and may be killed.                                *)
(******************************************************************************)
EXTENDS Naturals, FiniteSets

CONSTANTS
  Users,
  Rivals,     \* pairs of users that share a host name, a port or an account
  Commands

VARIABLES
  lock,       \* the command that created .admin.lock, or "none"
  manifest,   \* host.json: the mode and the users; mode "none" when there is no file
  compose,    \* the users of compose.json, or NoFile
  home,       \* each user's directory: "none", "partial", "ready"
  running,    \* the users whose containers run
  at, adds, knows, \* where each command is; the user it adds; the manifest it loaded
  child,      \* the docker command it has spawned, or "none"
  stopping,   \* the commands that were signalled
  killed,     \* the commands that were killed
  added       \* the users whose add was answered (history)

vars == <<lock, manifest, compose, home, running, at, adds, knows, child, stopping, killed, added>>

-----------------------------------------------------------------------------

Nil == "none"

NoFile == {Nil}

\* No host yet, or one with some user.
Init ==
  /\ lock = Nil
  /\ \/ manifest = [mode |-> Nil, users |-> {}] /\ compose = NoFile
     \/ \E u \in Users, mode \in {"single", "multi"} :
          manifest = [mode |-> mode, users |-> {u}] /\ compose = {u}
  /\ home = [u \in Users |-> IF u \in manifest.users THEN "ready" ELSE "none"]
  /\ running = {} /\ at = [c \in Commands |-> "idle"]
  /\ adds = [c \in Commands |-> Nil] /\ knows = [c \in Commands |-> {}]
  /\ child = [c \in Commands |-> Nil] /\ stopping = {} /\ killed = {} /\ added = {}

files == <<manifest, compose, home>>
docker == <<running, child>>
life == <<stopping, killed>>

\* What loadHost checks of the manifest.
isValid(m) ==
  /\ m.mode # Nil
  /\ m.mode = "single" => Cardinality(m.users) <= 1
  /\ \A pair \in Rivals : ~(pair \subseteq m.users)

\* composeFor: the services of the manifest's users, each on its own home and port.
rendered(m) == m.users

\* auditHost: compose.json is what the manifest renders to, and every home has its
\* directories and keys.
audited ==
  /\ isValid(manifest) /\ compose = rendered(manifest)
  /\ \A u \in manifest.users : home[u] = "ready"

\* releaseAdminLock, in the finally of every command.
Finish(c) ==
  /\ at' = [at EXCEPT ![c] = "over"] /\ lock' = Nil
  /\ adds' = [adds EXCEPT ![c] = Nil] /\ knows' = [knows EXCEPT ![c] = {}]

-----------------------------------------------------------------------------
(* Operations on files *)

\* The exclusive create of .admin.lock.
Begin(c) ==
  /\ at[c] = "idle" /\ c \notin killed
  /\ IF lock # Nil THEN at' = [at EXCEPT ![c] = "over"] /\ UNCHANGED <<lock, adds>>
     ELSE /\ lock' = c
          /\ \/ \E command \in {"init", "render", "start", "stop"} :
                  at' = [at EXCEPT ![c] = command] /\ UNCHANGED adds
             \/ \E u \in Users :
                  at' = [at EXCEPT ![c] = "add"] /\ adds' = [adds EXCEPT ![c] = u]
  /\ UNCHANGED <<files, docker, knows, life, added>>

\* initializeHost: an exclusive create, never a second host.
Initialize(c) ==
  /\ at[c] = "init" /\ c \notin killed
  /\ manifest.mode = Nil
  /\ \E mode \in {"single", "multi"} : manifest' = [mode |-> mode, users |-> {}]
  /\ Finish(c)
  /\ UNCHANGED <<compose, home, docker, life, added>>

\* addHostUser up to the directory, whose creation refuses any reuse.
MakeHome(c) ==
  LET u == adds[c] IN
  /\ at[c] = "add" /\ c \notin killed
  /\ isValid(manifest) /\ u \notin manifest.users
  /\ manifest.mode = "single" => manifest.users = {}
  /\ \A other \in manifest.users : {u, other} \notin Rivals
  /\ home[u] = "none"
  /\ home' = [home EXCEPT ![u] = "partial"]
  /\ knows' = [knows EXCEPT ![c] = manifest.users]
  /\ at' = [at EXCEPT ![c] = "made"]
  /\ UNCHANGED <<lock, manifest, compose, docker, adds, life, added>>

\* The keys, the empty registry, the owner's key and .env.
Provision(c) ==
  /\ at[c] = "made" /\ c \notin killed
  /\ home' = [home EXCEPT ![adds[c]] = "ready"]
  /\ at' = [at EXCEPT ![c] = "provisioned"]
  /\ UNCHANGED <<lock, manifest, compose, docker, adds, knows, life, added>>

\* The manifest is replaced by the one loaded, with the new user.
List(c) ==
  /\ at[c] = "provisioned" /\ c \notin killed
  /\ manifest' = [manifest EXCEPT !.users = knows[c] \cup {adds[c]}]
  /\ at' = [at EXCEPT ![c] = "listed"]
  /\ UNCHANGED <<lock, compose, home, docker, adds, knows, life, added>>

\* renderHost, for itself and after an add.
Render(c) ==
  /\ at[c] \in {"render", "listed"} /\ c \notin killed
  /\ isValid(manifest)
  /\ compose' = rendered(manifest)
  /\ added' = IF at[c] = "listed" THEN added \cup {adds[c]} ELSE added
  /\ Finish(c)
  /\ UNCHANGED <<manifest, home, docker, life>>

\* Any of these fails: a refused argument, a file that exists, a full disk.
Fail(c) ==
  /\ at[c] \in {"init", "add", "made", "provisioned", "render", "listed", "start", "stop"}
  /\ c \notin killed /\ child[c] = Nil
  /\ Finish(c)
  /\ UNCHANGED <<files, docker, life, added>>

-----------------------------------------------------------------------------
(* Docker *)

Spawn(c, command) ==
  /\ child' = [child EXCEPT ![c] = command]
  /\ UNCHANGED running

\* The audit passes and there are users: compose up, unless a signal has come.
Start(c) ==
  /\ at[c] = "start" /\ c \notin killed \cup stopping /\ child[c] = Nil
  /\ audited /\ manifest.users # {}
  /\ knows' = [knows EXCEPT ![c] = manifest.users]
  /\ Spawn(c, "up")
  /\ at' = [at EXCEPT ![c] = "starting"]
  /\ UNCHANGED <<lock, files, adds, life, added>>

\* compose stop works on whatever compose.json says.
Stop(c) ==
  /\ at[c] = "stop" /\ c \notin killed \cup stopping /\ child[c] = Nil
  /\ compose # NoFile
  /\ Spawn(c, "stop")
  /\ at' = [at EXCEPT ![c] = "stopping"]
  /\ UNCHANGED <<lock, files, adds, knows, life, added>>

\* What docker does, one container at a time, also after its command was killed.
Container(c) ==
  /\ child[c] \in {"up", "stop"}
  /\ \E u \in compose :
       running' = IF child[c] = "up" THEN running \cup {u} ELSE running \ {u}
  /\ UNCHANGED <<lock, files, at, adds, knows, child, life, added>>

\* The docker command exits, by itself or by the signal its process group was sent.
\* start goes on to the running audit; what it finds is its answer, and it unlocks.
Exit(c) ==
  /\ child[c] # Nil
  /\ \/ /\ c \notin killed \cup stopping
        /\ child[c] = "up" /\ knows[c] \subseteq running
        /\ Spawn(c, "inspect") /\ UNCHANGED <<lock, at, adds, knows>>
     \/ /\ child' = [child EXCEPT ![c] = Nil] /\ UNCHANGED running
        /\ IF c \in killed THEN UNCHANGED <<lock, at, adds, knows>> ELSE Finish(c)
  /\ UNCHANGED <<files, life, added>>

\* The operator stops one user's containers with Compose.
StopOne(u) ==
  /\ u \in running /\ running' = running \ {u}
  /\ UNCHANGED <<lock, files, at, adds, knows, child, life, added>>

-----------------------------------------------------------------------------
(* Signals and kills *)

\* SIGINT or SIGTERM: noted, and passed on to the docker command.
\* (A mutant: the handler unlocks at once.)
SignalUnlocks(c) ==
  /\ at[c] \notin {"idle", "over"} /\ c \notin killed \cup stopping
  /\ stopping' = stopping \cup {c}
  /\ lock' = Nil
  /\ UNCHANGED <<files, docker, at, adds, knows, killed, added>>

Signal(c) ==
  /\ at[c] \notin {"idle", "over"} /\ c \notin killed \cup stopping
  /\ stopping' = stopping \cup {c}
  /\ UNCHANGED <<lock, files, docker, at, adds, knows, killed, added>>

\* A kill leaves the lock file, and docker running in its own process group.
Kill(c) ==
  /\ at[c] \notin {"idle", "over"} /\ c \notin killed
  /\ killed' = killed \cup {c}
  /\ UNCHANGED <<lock, files, docker, at, adds, knows, stopping, added>>

\* The administrator removes a lock nobody uses any more, as the documentation says.
ClearLock ==
  /\ lock \in killed /\ child[lock] = Nil
  /\ lock' = Nil
  /\ UNCHANGED <<files, docker, at, adds, knows, life, added>>

Next ==
  \/ \E c \in Commands :
       \/ Begin(c) \/ Initialize(c) \/ MakeHome(c) \/ Provision(c) \/ List(c)
       \/ Render(c) \/ Fail(c) \/ Start(c) \/ Stop(c) \/ Container(c) \/ Exit(c)
       \/ Signal(c) \/ Kill(c)
  \/ \E u \in Users : StopOne(u)
  \/ ClearLock

Spec == Init /\ [][Next]_vars

-----------------------------------------------------------------------------
(* Properties *)

TypeOK ==
  /\ lock \in Commands \cup {Nil}
  /\ manifest \in [mode : {Nil, "single", "multi"}, users : SUBSET Users]
  /\ compose \in (SUBSET Users) \cup {NoFile}
  /\ home \in [Users -> {"none", "partial", "ready"}]
  /\ running \subseteq Users /\ added \subseteq Users
  /\ child \in [Commands -> {Nil, "up", "stop", "inspect"}]

\* Whatever is interrupted, killed or retried: docker works for a command only while
\* its lock file stands, and what it starts is what the manifest and compose.json still
\* say; a listed user has a complete home and shares nothing with another; a user whose
\* add was answered stays listed, and only listed users run.
HostIsWhole ==
  /\ \A c \in Commands :
       child[c] # Nil =>
         /\ lock = c
         /\ at[c] = "starting" => knows[c] = manifest.users /\ compose = rendered(manifest)
  /\ \A u \in manifest.users : home[u] = "ready"
  /\ \A pair \in Rivals : ~(pair \subseteq manifest.users)
  /\ added \subseteq manifest.users /\ running \subseteq manifest.users

=============================================================================
