---------------------------- MODULE GatewayClient -----------------------------
(******************************************************************************)
(* The gateway's one Brightspace worker (src/gateway.mjs): created on first   *)
(* use, shared by every call, listed once, and closed when the owner imports  *)
(* a new session or saves a password (src/src/import-session.mjs).  Expensive *)
(* reads share one that is under way and are kept for 30 seconds, which no    *)
(* import ends (src/src/read-cache.mjs).                                      *)
(******************************************************************************)
EXTENDS Naturals, FiniteSets

CONSTANTS
  Calls,       \* the callers: each asks one thing at a time
  Imports,
  MaxWorkers

VARIABLES
  session,   \* the version of the saved session
  workers,   \* each worker's state, and the version it was started with
  upstream,  \* the worker the gateway keeps, or 0
  listing,   \* the caller whose listing the gateway keeps and that is under way, or "none"
  listed,    \* the worker whose listing it keeps, or 0
  reading,   \* the caller whose read of the page is under way in the cache, or "none"
  entry,     \* the worker whose page the cache keeps, or 0
  at, kind,  \* where each call is; what it asks
  uses,      \* the worker that serves it
  follows,   \* the call whose answer it joined
  since,     \* the version answered as connected before the call began (history)
  step, closes, \* where each import is; the worker it closes
  saves,     \* the version each import saved
  answered,  \* the newest version answered as connected (history)
  settled    \* the one answered when 30 seconds had last passed with no read (history)

vars == <<session, workers, upstream, listing, listed, reading, entry, at, kind, uses, follows, since,
  step, closes, saves, answered, settled>>

-----------------------------------------------------------------------------

Workers == 1..MaxWorkers

Nil == "none"

Init ==
  /\ session = 0
  /\ workers = [w \in Workers |-> [state |-> "new", session |-> 0]]
  /\ upstream = 0 /\ listing = Nil /\ listed = 0 /\ reading = Nil /\ entry = 0
  /\ at = [c \in Calls |-> "idle"] /\ kind = [c \in Calls |-> Nil]
  /\ uses = [c \in Calls |-> 0]
  /\ since = [c \in Calls |-> 0] /\ follows = [c \in Calls |-> Nil]
  /\ step = [i \in Imports |-> "idle"] /\ closes = [i \in Imports |-> 0]
  /\ saves = [i \in Imports |-> 0] /\ answered = 0 /\ settled = 0

unused == {w \in Workers : workers[w].state = "new"}

calls == <<at, kind, uses, since, follows>>
catalog == <<listing, listed>>
cache == <<reading, entry, settled>>
imports == <<step, closes, saves>>

-----------------------------------------------------------------------------
(* client(), the catalog and a call *)

\* client(): the worker at hand, or a new one.
Client(c) ==
  IF upstream # 0 THEN uses' = [uses EXCEPT ![c] = upstream] /\ UNCHANGED <<workers, upstream>>
  ELSE \E w \in unused :
         /\ \A v \in unused : w <= v
         /\ workers' = [workers EXCEPT ![w] = [state |-> "starting", session |-> session]]
         /\ upstream' = w
         /\ uses' = [uses EXCEPT ![c] = w]

\* c asks a worker itself; what it answers is as new as the answers to imports.
Ask(c) ==
  /\ Client(c)
  /\ at' = [at EXCEPT ![c] = "waiting"]
  /\ since' = [since EXCEPT ![c] = answered]
  /\ UNCHANGED follows

\* c is answered at once with what w gave, or with what d will get.
Hit(c, w, version) ==
  /\ at' = [at EXCEPT ![c] = "done"]
  /\ uses' = [uses EXCEPT ![c] = w]
  /\ since' = [since EXCEPT ![c] = version]
  /\ UNCHANGED <<workers, upstream, follows>>

Join(c, d, version) ==
  /\ at' = [at EXCEPT ![c] = "joined"]
  /\ follows' = [follows EXCEPT ![c] = d]
  /\ uses' = [uses EXCEPT ![c] = uses[d]]
  /\ since' = [since EXCEPT ![c] = version]
  /\ UNCHANGED <<workers, upstream>>

\* A tool call that is not cached.
BeginCall(c) ==
  /\ kind' = [kind EXCEPT ![c] = "call"]
  /\ Ask(c) /\ UNCHANGED <<listing, reading>>

\* catalog ??=: a listing that is done or under way is shared.
BeginListing(c) ==
  /\ kind' = [kind EXCEPT ![c] = "list"]
  /\ \/ listed # 0 /\ Hit(c, listed, answered) /\ UNCHANGED listing
     \/ listing # Nil /\ Join(c, listing, answered) /\ UNCHANGED listing
     \/ listed = 0 /\ listing = Nil /\ Ask(c) /\ listing' = c
  /\ UNCHANGED reading

\* cache.get for one expensive page: the page at hand, the read under way, or a read
\* of its own, unless reads of other pages hold the places.
BeginRead(c) ==
  /\ kind' = [kind EXCEPT ![c] = "read"]
  /\ \/ entry # 0 /\ Hit(c, entry, settled) /\ UNCHANGED reading
     \/ entry = 0 /\ reading # Nil /\ Join(c, reading, settled) /\ UNCHANGED reading
     \/ entry = 0 /\ reading = Nil /\ Ask(c) /\ reading' = c
  /\ UNCHANGED listing

Begin(c) ==
  /\ at[c] \in {"idle", "done"}
  /\ BeginCall(c) \/ BeginListing(c) \/ BeginRead(c)
  /\ UNCHANGED <<session, listed, entry, imports, answered, settled>>

\* The calls in ended are over, and those that joined them.
EndCalls(ended) ==
  LET over == ended \cup {c \in Calls : at[c] = "joined" /\ follows[c] \in ended} IN
  /\ at' = [c \in Calls |-> IF c \in over THEN "idle" ELSE at[c]]
  /\ kind' = [c \in Calls |-> IF c \in over THEN Nil ELSE kind[c]]
  /\ uses' = [c \in Calls |-> IF c \in over THEN 0 ELSE uses[c]]
  /\ since' = [c \in Calls |-> IF c \in over THEN 0 ELSE since[c]]
  /\ follows' = [c \in Calls |-> IF c \in over THEN Nil ELSE follows[c]]
  /\ reading' = IF reading \in ended THEN Nil ELSE reading

waitingFor(w) == {c \in Calls : at[c] = "waiting" /\ uses[c] = w}

\* createClient settles; the calls that waited for it go on or fail with it.
Started(w) ==
  /\ workers[w].state = "starting"
  /\ workers' = [workers EXCEPT ![w].state = "up"]
  /\ at' = [c \in Calls |-> IF c \in waitingFor(w) THEN "calling" ELSE at[c]]
  /\ UNCHANGED <<session, upstream, catalog, cache, kind, uses, since, follows, imports, answered>>

StartFails(w) ==
  /\ workers[w].state = "starting"
  /\ workers' = [workers EXCEPT ![w].state = "closed"]
  /\ upstream' = 0 /\ listing' = Nil /\ listed' = 0
  /\ EndCalls(waitingFor(w))
  /\ UNCHANGED <<session, entry, settled, imports, answered>>

\* A call that waits for a worker already up.
Resume(c) ==
  /\ at[c] = "waiting" /\ workers[uses[c]].state \in {"up", "closed"}
  /\ at' = [at EXCEPT ![c] = "calling"]
  /\ UNCHANGED <<session, workers, upstream, catalog, cache, kind, uses, since, follows, imports, answered>>

\* callTool, listTools; a page that is no error and not too large is kept, a listing
\* that fails is not.
Call(c) ==
  /\ at[c] = "calling" /\ EndCalls({c})
  /\ \/ /\ workers[uses[c]].state = "up"
        /\ entry' \in IF reading = c THEN {0, uses[c]} ELSE {entry}
        /\ IF listing = c THEN listing' = Nil /\ listed' = uses[c] ELSE UNCHANGED catalog
     \/ /\ UNCHANGED entry
        /\ IF kind[c] = "list" THEN listing' = Nil /\ listed' = 0 ELSE UNCHANGED catalog
  /\ UNCHANGED <<session, workers, upstream, imports, answered, settled>>

\* Thirty seconds pass, or other pages take the place.
Expire ==
  /\ entry' = 0
  /\ settled' = IF reading = Nil THEN answered ELSE settled
  /\ UNCHANGED <<session, workers, upstream, catalog, reading, calls, imports, answered>>

-----------------------------------------------------------------------------
(* POST /setup/session and POST /setup *)

\* importSession: the cookies are verified and saved, or refused.
Save(i) ==
  /\ step[i] = "idle"
  /\ \/ /\ session' = session + 1
        /\ saves' = [saves EXCEPT ![i] = session + 1]
        /\ step' = [step EXCEPT ![i] = "saved"]
     \/ step' = [step EXCEPT ![i] = "rejected"] /\ UNCHANGED <<session, saves>>
  /\ UNCHANGED <<workers, upstream, catalog, cache, calls, closes, answered>>

AnswerConnected(i) ==
  /\ step' = [step EXCEPT ![i] = "connected"]
  /\ saves' = [saves EXCEPT ![i] = 0]
  /\ answered' = IF saves[i] > answered THEN saves[i] ELSE answered

\* if (upstream): nothing to close, or wait for the worker.
LookUpstream(i) ==
  /\ step[i] = "saved"
  /\ IF upstream = 0 THEN AnswerConnected(i) /\ UNCHANGED closes
     ELSE /\ step' = [step EXCEPT ![i] = "closing"]
          /\ closes' = [closes EXCEPT ![i] = upstream]
          /\ UNCHANGED <<saves, answered>>
  /\ UNCHANGED <<session, workers, upstream, catalog, cache, calls>>

\* (await upstream).close(); a worker that never started rejects the import,
\* although the session is saved.
Close(i) ==
  /\ step[i] = "closing"
  /\ \/ /\ workers[closes[i]].state \in {"up", "closed"}
        /\ workers' = [workers EXCEPT ![closes[i]].state = "closed"]
        /\ step' = [step EXCEPT ![i] = "closed"]
     \/ /\ workers[closes[i]].state = "closed" /\ upstream # closes[i]
        /\ step' = [step EXCEPT ![i] = "rejected"] /\ UNCHANGED workers
  /\ closes' = [closes EXCEPT ![i] = 0]
  /\ UNCHANGED <<session, upstream, catalog, cache, calls, saves, answered>>

\* Mutant: the closed worker is kept.
ResetCatalog(i) ==
  /\ step[i] = "closed"
  /\ listing' = Nil /\ listed' = 0
  /\ AnswerConnected(i)
  /\ UNCHANGED <<session, workers, upstream, cache, calls, closes>>

ResetUpstream(i) ==
  /\ step[i] = "closed"
  /\ upstream' = 0 /\ listing' = Nil /\ listed' = 0
  /\ AnswerConnected(i)
  /\ UNCHANGED <<session, workers, cache, calls, closes>>

-----------------------------------------------------------------------------

Next ==
  \/ \E c \in Calls : Begin(c) \/ Resume(c) \/ Call(c)
  \/ \E w \in Workers : Started(w) \/ StartFails(w)
  \/ \E i \in Imports : Save(i) \/ LookUpstream(i) \/ Close(i) \/ ResetUpstream(i)
  \/ Expire

Spec == Init /\ [][Next]_vars

-----------------------------------------------------------------------------
(* Properties *)

TypeOK ==
  /\ session \in 0..Cardinality(Imports) /\ answered \in 0..session /\ settled \in 0..answered
  /\ workers \in [Workers -> [state : {"new", "starting", "up", "closed"}, session : Nat]]
  /\ upstream \in Workers \cup {0} /\ listing \in Calls \cup {Nil} /\ listed \in Workers \cup {0}
  /\ entry \in Workers \cup {0} /\ reading \in Calls \cup {Nil}
  /\ at \in [Calls -> {"idle", "waiting", "calling", "joined", "done"}]
  /\ kind \in [Calls -> {"call", "list", "read", Nil}]
  /\ step \in [Imports -> {"idle", "saved", "closing", "closed", "connected", "rejected"}]

\* A call that begins after an import was answered is served by a worker started with
\* that session or a newer one, whatever else is under way.  A read of the cache, which
\* no import clears, may be answered from the session before: but not from one that
\* was replaced before the last 30 seconds, or before a read of that page under way.
NewSessionIsUsed ==
  \A c \in Calls : at[c] \in {"waiting", "calling", "joined", "done"} =>
    workers[uses[c]].session >= since[c]

=============================================================================
