------------------------------- MODULE Readers --------------------------------
(* The mail store, and the components that answer reads: the gateway's client of the
   LEARN worker, its cache and batches, the shared browser, the sessions of other
   sites, the study rooms and the owner's portal.  One component runs at a
   time: each has its own state and its own bounds, and part says which one runs. *)
EXTENDS MailStore, FiniteSets

VARIABLE part  \* the component that runs

\* The gateway's client of the LEARN worker.
CONSTANTS gcCalls, gcImports, gcMaxWorkers

\* Finitely many sessions are imported, and no caller is named as the one who is
\* not there.
ASSUME GatewayAssumption == IsFiniteSet(gcImports) /\ "none" \notin gcCalls

VARIABLES gcSession, gcWorkers, gcUpstream, gcListing, gcListed, gcReading, gcEntry,
  gcAt, gcKind, gcUses, gcFollows, gcSince, gcStep, gcCloses, gcSaves, gcAnswered,
  gcSettled

gcVars == <<gcSession, gcWorkers, gcUpstream, gcListing, gcListed, gcReading, gcEntry,
  gcAt, gcKind, gcUses, gcFollows, gcSince, gcStep, gcCloses, gcSaves, gcAnswered,
  gcSettled>>

GC == INSTANCE GatewayClient WITH Calls <- gcCalls, Imports <- gcImports,
  MaxWorkers <- gcMaxWorkers, session <- gcSession, workers <- gcWorkers,
  upstream <- gcUpstream, listing <- gcListing, listed <- gcListed,
  reading <- gcReading, entry <- gcEntry, at <- gcAt, kind <- gcKind, uses <- gcUses,
  follows <- gcFollows, since <- gcSince, step <- gcStep, closes <- gcCloses,
  saves <- gcSaves, answered <- gcAnswered, settled <- gcSettled

\* The read cache and the batches over it.
CONSTANTS rcBatches, rcRequests, rcKeys, rcPerBatch, rcMaxBatches,
  rcConcurrency

\* A batch is a list of reads, and a batch has a worker at least.
ASSUME BatchesAssumption ==
  /\ IsFiniteSet(rcBatches) /\ IsFiniteSet(rcKeys)
  /\ \A b \in rcBatches : rcRequests[b] \in Seq(rcKeys)
  /\ rcPerBatch \in Nat \ {0} /\ rcMaxBatches \in Nat /\ rcConcurrency \in Nat

VARIABLES rcBatch, rcAt, rcResults, rcAnswers, rcEntries, rcPending, rcActive,
  rcActiveBatches

rcVars == <<rcBatch, rcAt, rcResults, rcAnswers, rcEntries, rcPending,
  rcActive, rcActiveBatches>>

RC == INSTANCE ReadCache WITH Batches <- rcBatches, requests <- rcRequests,
  Keys <- rcKeys, PerBatch <- rcPerBatch, MaxBatches <- rcMaxBatches,
  Concurrency <- rcConcurrency, batch <- rcBatch, at <- rcAt,
  results <- rcResults, answers <- rcAnswers, entries <- rcEntries,
  pending <- rcPending, active <- rcActive, activeBatches <- rcActiveBatches

\* The shared browser.
CONSTANTS bpReaders, bpMaxBrowsers

ASSUME BrowsersAssumption == IsFiniteSet(bpReaders) /\ bpMaxBrowsers \in Nat

VARIABLES bpBrowsers, bpLaunching, bpAt, bpUses, bpActive, bpIdleTimer

bpVars == <<bpBrowsers, bpLaunching, bpAt, bpUses, bpActive, bpIdleTimer>>

BP == INSTANCE BrowserPool WITH Readers <- bpReaders,
  MaxBrowsers <- bpMaxBrowsers, browsers <- bpBrowsers,
  launching <- bpLaunching, at <- bpAt, uses <- bpUses, active <- bpActive,
  idleTimer <- bpIdleTimer

\* One service read over HTTP.
CONSTANTS shCalls, shMaxPending, shMaxLogins

\* The first login has a number.
ASSUME HttpAssumption == shMaxPending \in Nat /\ shMaxLogins \in Nat \ {0}

VARIABLES shSource, shLogins, shJar, shQueue, shAt, shLoaded, shRejected,
  shTimer, shPhase, shReader

shVars == <<shSource, shLogins, shJar, shQueue, shAt, shLoaded, shRejected,
  shTimer, shPhase, shReader>>

SH == INSTANCE SessionHttp WITH Calls <- shCalls, MaxPending <- shMaxPending,
  MaxLogins <- shMaxLogins, source <- shSource, logins <- shLogins,
  jar <- shJar, queue <- shQueue, at <- shAt, loaded <- shLoaded,
  rejected <- shRejected, timer <- shTimer, phase <- shPhase,
  reader <- shReader

\* The Piazza session.
CONSTANTS psReads, psForms, psAccountOf, psNoAccount, psMaxPending,
  psMaxCrashes
VARIABLES psSaved, psQueue, psAt, psState, psCooling, psAnswer, psConnected,
  psFailures, psCrashes

psVars == <<psSaved, psQueue, psAt, psState, psCooling, psAnswer, psConnected,
  psFailures, psCrashes>>

PS == INSTANCE PiazzaSession WITH Reads <- psReads, Forms <- psForms,
  accountOf <- psAccountOf, NoAccount <- psNoAccount,
  MaxPending <- psMaxPending, MaxCrashes <- psMaxCrashes, saved <- psSaved,
  queue <- psQueue, at <- psAt, state <- psState, cooling <- psCooling,
  answer <- psAnswer, connected <- psConnected, failures <- psFailures,
  crashes <- psCrashes

\* The Crowdmark session.
CONSTANTS csMaxLogins, csForeign

\* The first login has a number.
ASSUME CrowdmarkAssumption == csMaxLogins \in Nat \ {0}

VARIABLES csSource, csContext, csAge, csTimer, csAt, csCall, csLoaded, csTries,
  csPage, csSince

csVars == <<csSource, csContext, csAge, csTimer, csAt, csCall, csLoaded,
  csTries, csPage, csSince>>

CS == INSTANCE CrowdmarkSession WITH MaxLogins <- csMaxLogins,
  Foreign <- csForeign, source <- csSource, context <- csContext, age <- csAge,
  timer <- csTimer, at <- csAt, call <- csCall, loaded <- csLoaded,
  tries <- csTries, page <- csPage, since <- csSince

\* The study rooms that are listed.
CONSTANTS roLibraries, roReaders, roBookers, roSlots, roMaxChanges

\* There is a library to read (libcal.mjs names three), and a call is of one tool.
ASSUME RoomsAssumption ==
  roSlots \in Nat /\ roLibraries # {} /\ roReaders \cap roBookers = {}

VARIABLES roNow, roChanges, roGrid, roCached, roPending, roAt, roLength,
  roWanted, roSeen, roTold

roVars == <<roNow, roChanges, roGrid, roCached, roPending, roAt, roLength,
  roWanted, roSeen, roTold>>

RO == INSTANCE RoomCatalog WITH Libraries <- roLibraries, Readers <- roReaders,
  Bookers <- roBookers, Slots <- roSlots, MaxChanges <- roMaxChanges,
  now <- roNow, changes <- roChanges, grid <- roGrid, cached <- roCached,
  pending <- roPending, at <- roAt, length <- roLength, wanted <- roWanted,
  seen <- roSeen, told <- roTold

\* The owner's portal and the agents' tokens.
CONSTANTS poAgents, poCommands, poRequests, poLimit, poWindow, poMaxTime,
  poMaxKills

\* No command is named as the lock nobody holds.
ASSUME PortalAssumption ==
  /\ "none" \notin poCommands
  /\ poLimit \in Nat /\ poWindow \in Nat /\ poMaxTime \in Nat

VARIABLES poRegistry, poKey, poToken, poPendingToken, poLocks, poAt, poRead,
  poWhom, poRevoked, poRotated, poAsks, poSeen, poStale, poNow, poFailures,
  poRefusals, poIntrusions, poKills

poVars == <<poRegistry, poKey, poToken, poPendingToken, poLocks, poAt, poRead,
  poWhom, poRevoked, poRotated, poAsks, poSeen, poStale, poNow, poFailures,
  poRefusals, poIntrusions, poKills>>

PO == INSTANCE Portal WITH Agents <- poAgents, Commands <- poCommands,
  Requests <- poRequests, Limit <- poLimit, Window <- poWindow,
  MaxTime <- poMaxTime, MaxKills <- poMaxKills, registry <- poRegistry,
  key <- poKey, token <- poToken, pendingToken <- poPendingToken,
  locks <- poLocks, at <- poAt, read <- poRead, whom <- poWhom,
  revoked <- poRevoked, rotated <- poRotated, asks <- poAsks, seen <- poSeen,
  stale <- poStale, now <- poNow, failures <- poFailures,
  refusals <- poRefusals, intrusions <- poIntrusions, kills <- poKills

-----------------------------------------------------------------------------
(* One component runs; the variables of the others are 0. *)

Parts == {"mail", "gateway", "cache", "pool", "http", "piazza", "crowdmark",
  "rooms", "portal"}

AllInit ==
  /\ part \in Parts /\ Init
  /\ \/ part = "gateway" /\ GC!Init
     \/ part # "gateway" /\ gcSession = 0 /\ gcWorkers = 0 /\ gcUpstream = 0 /\
        gcListing = 0 /\ gcListed = 0 /\ gcReading = 0 /\ gcEntry = 0 /\ gcAt = 0 /\
        gcKind = 0 /\ gcUses = 0 /\ gcFollows = 0 /\ gcSince = 0 /\ gcStep = 0 /\
        gcCloses = 0 /\ gcSaves = 0 /\ gcAnswered = 0 /\ gcSettled = 0
  /\ \/ part = "cache" /\ RC!Init
     \/ part # "cache" /\ rcBatch = 0 /\ rcAt = 0 /\ rcResults = 0 /\
        rcAnswers = 0 /\ rcEntries = 0 /\ rcPending = 0 /\ rcActive = 0 /\
        rcActiveBatches = 0
  /\ \/ part = "pool" /\ BP!Init
     \/ part # "pool" /\ bpBrowsers = 0 /\ bpLaunching = 0 /\ bpAt = 0 /\
        bpUses = 0 /\ bpActive = 0 /\ bpIdleTimer = 0
  /\ \/ part = "http" /\ SH!Init
     \/ part # "http" /\ shSource = 0 /\ shLogins = 0 /\ shJar = 0 /\
        shQueue = 0 /\ shAt = 0 /\ shLoaded = 0 /\ shRejected = 0 /\
        shTimer = 0 /\ shPhase = 0 /\ shReader = 0
  /\ \/ part = "piazza" /\ PS!Init
     \/ part # "piazza" /\ psSaved = 0 /\ psQueue = 0 /\ psAt = 0 /\
        psState = 0 /\ psCooling = 0 /\ psAnswer = 0 /\ psConnected = 0 /\
        psFailures = 0 /\ psCrashes = 0
  /\ \/ part = "crowdmark" /\ CS!Init
     \/ part # "crowdmark" /\ csSource = 0 /\ csContext = 0 /\ csAge = 0 /\
        csTimer = 0 /\ csAt = 0 /\ csCall = 0 /\ csLoaded = 0 /\ csTries = 0 /\
        csPage = 0 /\ csSince = 0
  /\ \/ part = "rooms" /\ RO!Init
     \/ part # "rooms" /\ roNow = 0 /\ roChanges = 0 /\ roGrid = 0 /\
        roCached = 0 /\ roPending = 0 /\ roAt = 0 /\ roLength = 0 /\
        roWanted = 0 /\ roSeen = 0 /\ roTold = 0
  /\ \/ part = "portal" /\ PO!Init
     \/ part # "portal" /\ poRegistry = 0 /\ poKey = 0 /\ poToken = 0 /\
        poPendingToken = 0 /\ poLocks = 0 /\ poAt = 0 /\ poRead = 0 /\
        poWhom = 0 /\ poRevoked = 0 /\ poRotated = 0 /\ poAsks = 0 /\
        poSeen = 0 /\ poStale = 0 /\ poNow = 0 /\ poFailures = 0 /\
        poRefusals = 0 /\ poIntrusions = 0 /\ poKills = 0

MailStep ==
  part = "mail" /\ Next /\ UNCHANGED <<part, gcVars, rcVars, bpVars, shVars,
    psVars, csVars, roVars, poVars>>

GatewayStep ==
  part = "gateway" /\ GC!Next /\ UNCHANGED <<part, vars, rcVars, bpVars,
    shVars, psVars, csVars, roVars, poVars>>

CacheStep ==
  part = "cache" /\ RC!Next /\ UNCHANGED <<part, vars, gcVars, bpVars, shVars,
    psVars, csVars, roVars, poVars>>

PoolStep ==
  part = "pool" /\ BP!Next /\ UNCHANGED <<part, vars, gcVars, rcVars, shVars,
    psVars, csVars, roVars, poVars>>

HttpStep ==
  part = "http" /\ SH!Next /\ UNCHANGED <<part, vars, gcVars, rcVars, bpVars,
    psVars, csVars, roVars, poVars>>

PiazzaStep ==
  part = "piazza" /\ PS!Next /\ UNCHANGED <<part, vars, gcVars, rcVars, bpVars,
    shVars, csVars, roVars, poVars>>

CrowdmarkStep ==
  part = "crowdmark" /\ CS!Next /\ UNCHANGED <<part, vars, gcVars, rcVars,
    bpVars, shVars, psVars, roVars, poVars>>

RoomsStep ==
  part = "rooms" /\ RO!Next /\ UNCHANGED <<part, vars, gcVars, rcVars, bpVars,
    shVars, psVars, csVars, poVars>>

PortalStep ==
  part = "portal" /\ PO!Next /\ UNCHANGED <<part, vars, gcVars, rcVars, bpVars,
    shVars, psVars, csVars, roVars>>

AllNext ==
  \/ MailStep \/ GatewayStep \/ CacheStep \/ PoolStep
  \/ HttpStep \/ PiazzaStep \/ CrowdmarkStep \/ RoomsStep
  \/ PortalStep

allVars == <<part, vars, gcVars, rcVars, bpVars, shVars, psVars, csVars,
  roVars, poVars>>

AllSpec == AllInit /\ [][AllNext]_allVars

-----------------------------------------------------------------------------

\* Values stay in their types, in every component.
ReadersTyped ==
  CASE part = "mail" -> TypeOK
    [] part = "gateway" -> GC!TypeOK
    [] part = "cache" -> RC!TypeOK
    [] part = "pool" -> BP!TypeOK
    [] part = "http" -> SH!TypeOK
    [] part = "piazza" -> PS!TypeOK
    [] part = "crowdmark" -> CS!TypeOK
    [] part = "rooms" -> RO!TypeOK
    [] part = "portal" -> PO!TypeOK

\* mail-store.mjs: what is listed is on disk, the cached list is the index, and a
\* strict policy keeps mail out that is not verified.
ListsAreSound == ListedIsReadable /\ CacheIsCurrent /\ StrictKeepsOut

\* libcal.mjs: what an agent is offered can be booked and nothing else, while the
\* grid is the one it was offered from.
RoomsCanBeBooked == part = "rooms" => RO!OfferedCanBeBooked

\* gateway.mjs, session-http.mjs, crowdmark-session.mjs, piazza-session.mjs: what is
\* answered after a new login comes from it, never from a worker, a cookie jar, a
\* context or a file of the old one, nor from somebody else's; only the gateway's
\* cached pages outlive an import, for 30 seconds.  Piazza's refused password is tried
\* once in two minutes by each life of the process.
NewSessionIsUsed ==
  /\ part = "gateway" => GC!NewSessionIsUsed
  /\ part = "http" => SH!CookiesAreOfTheLogin
  /\ part = "crowdmark" => CS!OwnersLoginIsUsed
  /\ part = "piazza" => PS!ConnectedAccountStands /\ PS!RefusedOncePerLife

\* batch-reads.mjs, read-cache.mjs, browser-pool.ts, libcal.mjs: each request of a
\* batch has its one result, ended reads hold no place, an unused browser is closed,
\* and nobody waits for a room list that is not being read.
NobodyIsLeftOver ==
  /\ part = "cache" => RC!BatchIsComplete
  /\ part = "pool" => BP!IdleBrowserCloses
  /\ part = "rooms" => RO!ListIsAwaited

\* portable-auth.mjs, client.mjs, owner.mjs: withdrawn tokens, keys and cookies let
\* nobody in, and failed logins stay within the limit.
AccessIsCurrent == part = "portal" => PO!AccessIsCurrent /\ PO!GuessesAreLimited

=============================================================================
