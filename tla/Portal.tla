-------------------------------- MODULE Portal --------------------------------
(*******************************************************************************)
(* Who may use a gateway (src/src/portable-auth.mjs, the first part of         *)
(* src/gateway.mjs): the owner by a key or a cookie signed with it, agents by  *)
(* tokens of a registry.  Both files are replaced by commands that run beside  *)
(* the gateway (src/scripts/client.mjs, src/scripts/owner.mjs).                *)
(*******************************************************************************)
EXTENDS Integers, FiniteSets

CONSTANTS
  Agents,
  Commands,    \* runs of "client issue", "client revoke" and "owner rotate"
  Requests,    \* logins and other requests
  Limit,       \* failed logins in one window (the code: 10)
  Window,      \* its length in ticks of the clock (the code: one minute)
  MaxTime, MaxKills

VARIABLES
  registry,    \* clients.json: the agents whose tokens are enabled
  key,         \* the version of owner-auth.json: the owner's key and the cookies' key
  token, pendingToken, \* the versions in owner.token and owner.token.pending
  locks,       \* who holds the lock file of the registry, and of the owner's key
  at, read,    \* where each command is; the registry it loaded
  whom,        \* the agent it issues or revokes
  revoked, rotated, \* agents whose revocation was answered last; the newest version answered (history)
  asks, seen,  \* where each request is and what it presents; the key it has read
  stale,       \* what it presents was withdrawn before it began (history)
  now, failures, \* the clock; PortableAuth.failures, each time with the login that failed
  refusals,    \* the failed logins that were answered as such (history)
  intrusions,  \* requests accepted with what had been withdrawn (history)
  kills

commands == <<registry, key, token, pendingToken, locks, at, read, whom, revoked, rotated>>
requests == <<asks, seen, stale, failures, refusals, intrusions>>

vars == <<commands, requests, now, kills>>

-----------------------------------------------------------------------------

Nil == "none"

Idle == [kind |-> "idle"]

Init ==
  /\ registry \in SUBSET Agents /\ key = 1 /\ token = 1 /\ pendingToken = 0
  /\ locks = [l \in {"clients", "owner"} |-> Nil]
  /\ at = [c \in Commands |-> "idle"] /\ read = [c \in Commands |-> {}]
  /\ whom = [c \in Commands |-> Nil] /\ revoked = {} /\ rotated = 1
  /\ asks = [r \in Requests |-> Idle] /\ seen = [r \in Requests |-> 0]
  /\ stale = [r \in Requests |-> FALSE]
  /\ now = 0 /\ failures = {} /\ refusals = {} /\ intrusions = {} /\ kills = 0

-----------------------------------------------------------------------------
(* The commands *)

Goto(c, label) == at' = [at EXCEPT ![c] = label]

End(c) ==
  /\ Goto(c, "over")
  /\ read' = [read EXCEPT ![c] = {}] /\ whom' = [whom EXCEPT ![c] = Nil]

\* The exclusive create of clients.json.lock, and the registry under it.
\* (A mutant: a lock file that exists is no obstacle.)
OpenUnlocked(c) ==
  /\ at[c] = "idle"
  /\ \E a \in Agents, command \in {"issue", "revoke"} :
       /\ IF command = "issue" THEN a \notin registry ELSE a \in registry
       /\ whom' = [whom EXCEPT ![c] = a] /\ Goto(c, command)
  /\ locks' = [locks EXCEPT !.clients = c]
  /\ read' = [read EXCEPT ![c] = registry]
  /\ UNCHANGED <<registry, key, token, pendingToken, revoked, rotated, requests, now, kills>>

Open(c) ==
  /\ at[c] = "idle" /\ locks.clients = Nil
  /\ \E a \in Agents, command \in {"issue", "revoke"} :
       /\ IF command = "issue" THEN a \notin registry ELSE a \in registry
       /\ whom' = [whom EXCEPT ![c] = a] /\ Goto(c, command)
  /\ locks' = [locks EXCEPT !.clients = c]
  /\ read' = [read EXCEPT ![c] = registry]
  /\ UNCHANGED <<registry, key, token, pendingToken, revoked, rotated, requests, now, kills>>

\* The whole registry is replaced by a rename, and the lock removed.
Register(c) ==
  /\ at[c] \in {"issue", "revoke"}
  /\ IF at[c] = "issue"
     THEN registry' = read[c] \cup {whom[c]} /\ revoked' = revoked \ {whom[c]}
     ELSE registry' = read[c] \ {whom[c]} /\ revoked' = revoked \cup {whom[c]}
  /\ locks' = [locks EXCEPT !.clients = Nil] /\ End(c)
  /\ UNCHANGED <<key, token, pendingToken, rotated, requests, now, kills>>

\* owner rotate, under a lock of its own: the new key is written beside the old one,
\* then takes its place, then its file for the owner.
Rotate(c) ==
  /\ \/ /\ at[c] = "idle" /\ locks.owner = Nil
        /\ locks' = [locks EXCEPT !.owner = c]
        /\ pendingToken' = key + 1 /\ Goto(c, "rotate")
        /\ UNCHANGED <<key, token, rotated>>
     \/ /\ at[c] = "rotate" /\ key' = pendingToken /\ Goto(c, "hand over")
        /\ UNCHANGED <<locks, token, pendingToken, rotated>>
     \/ /\ at[c] = "hand over" /\ token' = pendingToken /\ pendingToken' = 0
        /\ rotated' = key /\ locks' = [locks EXCEPT !.owner = Nil] /\ Goto(c, "over")
        /\ UNCHANGED key
  /\ UNCHANGED <<registry, read, whom, revoked, requests, now, kills>>

\* A kill, or an error of the disk; a kill leaves the lock file.
Stop(c) ==
  /\ at[c] \notin {"idle", "over"} /\ kills < MaxKills
  /\ kills' = kills + 1 /\ End(c)
  /\ \/ locks' = [l \in DOMAIN locks |-> IF locks[l] = c THEN Nil ELSE locks[l]]
     \/ UNCHANGED locks
  /\ UNCHANGED <<registry, key, token, pendingToken, revoked, rotated, requests, now>>

\* The administrator removes a lock after seeing that no command runs.
ClearLock(l) ==
  /\ locks[l] # Nil /\ at[locks[l]] = "over"
  /\ locks' = [locks EXCEPT ![l] = Nil]
  /\ UNCHANGED <<registry, key, token, pendingToken, at, read, whom, revoked, rotated, requests, now, kills>>

-----------------------------------------------------------------------------
(* Requests *)

Tick ==
  /\ now < MaxTime /\ now' = now + 1
  /\ UNCHANGED <<commands, requests, kills>>

\* A login drops the failures of an earlier window; every request then reads the key.
Arrive(r) ==
  /\ asks[r] = Idle
  /\ \E claim \in [kind : {"login", "cookie"}, version : 0..key] \cup [kind : {"agent"}, agent : Agents] :
       /\ asks' = [asks EXCEPT ![r] = claim]
       /\ failures' = IF claim.kind # "login" THEN failures
                      ELSE {f \in failures : f.time + Window > now}
       /\ stale' = [stale EXCEPT ![r] = IF claim.kind = "agent" THEN claim.agent \in revoked
                                        ELSE claim.version < rotated]
  /\ UNCHANGED <<commands, seen, refusals, intrusions, now, kills>>

ReadKey(r) ==
  /\ asks[r].kind \in {"login", "cookie", "agent"} /\ seen[r] = 0
  /\ seen' = [seen EXCEPT ![r] = key]
  /\ UNCHANGED <<commands, asks, stale, failures, refusals, intrusions, now, kills>>

\* What request r presents was withdrawn before it began, and is still.
withdrawn(r) == stale[r] /\ (asks[r].kind = "agent" => asks[r].agent \in revoked)

Answer(r, accepted) ==
  /\ asks' = [asks EXCEPT ![r] = [kind |-> "over"]]
  /\ seen' = [seen EXCEPT ![r] = 0]
  /\ stale' = [stale EXCEPT ![r] = FALSE]
  /\ intrusions' = IF accepted /\ withdrawn(r) THEN intrusions \cup {r} ELSE intrusions

\* A request fails at most once: the array of times is a set of these.
entry(r) == [by |-> r, time |-> now]

\* login: a wrong key is refused, and counted unless the window is full.
\* (A mutant: the count is compared with the limit after the entry is added.)
LoginUnlimited(r) ==
  /\ asks[r].kind = "login" /\ seen[r] # 0
  /\ IF asks[r].version = seen[r] THEN Answer(r, TRUE) /\ UNCHANGED <<failures, refusals>>
     ELSE /\ Answer(r, FALSE)
          /\ IF Cardinality(failures) > Limit THEN UNCHANGED <<failures, refusals>>
             ELSE failures' = failures \cup {entry(r)} /\ refusals' = refusals \cup {entry(r)}
  /\ UNCHANGED <<commands, now, kills>>

Login(r) ==
  /\ asks[r].kind = "login" /\ seen[r] # 0
  /\ IF asks[r].version = seen[r] THEN Answer(r, TRUE) /\ UNCHANGED <<failures, refusals>>
     ELSE /\ Answer(r, FALSE)
          /\ IF Cardinality(failures) >= Limit THEN UNCHANGED <<failures, refusals>>
             ELSE failures' = failures \cup {entry(r)} /\ refusals' = refusals \cup {entry(r)}
  /\ UNCHANGED <<commands, now, kills>>

\* authenticate: a cookie against the key, an agent's token against the registry as it
\* is when the request gets to it.
Authenticate(r) ==
  /\ asks[r].kind \in {"cookie", "agent"} /\ seen[r] # 0
  /\ Answer(r, IF asks[r].kind = "cookie" THEN asks[r].version = seen[r]
               ELSE asks[r].agent \in registry)
  /\ UNCHANGED <<commands, failures, refusals, now, kills>>

Next ==
  \/ \E c \in Commands : Open(c) \/ Register(c) \/ Rotate(c) \/ Stop(c)
  \/ \E l \in DOMAIN locks : ClearLock(l)
  \/ \E r \in Requests : Arrive(r) \/ ReadKey(r) \/ Login(r) \/ Authenticate(r)
  \/ Tick

Spec == Init /\ [][Next]_vars

-----------------------------------------------------------------------------
(* Properties *)

TypeOK ==
  /\ registry \subseteq Agents /\ revoked \subseteq Agents
  /\ locks \in [{"clients", "owner"} -> Commands \cup {Nil}]
  /\ \A r \in Requests : seen[r] \in 0..key
  /\ Cardinality(failures) <= Limit

\* Nobody gets in with what had been withdrawn before the request began: an agent whose
\* revocation was answered, whatever command ran beside it, or a cookie or key older
\* than an answered rotation.
AccessIsCurrent == intrusions = {}

\* No window of a minute has more failed logins that were answered as such than the
\* limit, however many are at work at once.
GuessesAreLimited ==
  \A t \in 0..now :
    Cardinality({f \in refusals : f.time \in t..(t + Window - 1)}) <= Limit

=============================================================================
