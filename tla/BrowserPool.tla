----------------------------- MODULE BrowserPool ------------------------------
(******************************************************************************)
(* The browser the Brightspace worker's readers share                         *)
(* (src/upstream/src/utils/browser-pool.ts): launched on first use, closed a  *)
(* minute after the last reader has left.                                     *)
(******************************************************************************)
EXTENDS Naturals, FiniteSets

CONSTANTS
  Readers,
  MaxBrowsers   \* launches

VARIABLES
  browsers,   \* each browser's state; "idle": closed by the timer
  launching,  \* the browser the pool keeps, or 0
  at, uses,   \* where each reader is, and its browser
  active,
  idleTimer   \* the browser the timer would close, 0 for none, NoTimer when none runs

vars == <<browsers, launching, at, uses, active, idleTimer>>

-----------------------------------------------------------------------------

Ids == 1..MaxBrowsers

NoTimer == MaxBrowsers + 1

Init ==
  /\ browsers = [i \in Ids |-> "none"] /\ launching = 0
  /\ at = [r \in Readers |-> "away"] /\ uses = [r \in Readers |-> 0]
  /\ active = 0 /\ idleTimer = NoTimer

\* acquire: the timer is stopped, and the browser at hand awaited or launched.  A
\* browser that is up is in use before anything else can happen to it.
Acquire(r) ==
  /\ at[r] = "away"
  /\ active' = active + 1 /\ idleTimer' = NoTimer
  /\ at' = [at EXCEPT ![r] = IF launching # 0 /\ browsers[launching] = "up"
                             THEN "reading" ELSE "waiting"]
  /\ IF launching # 0
     THEN uses' = [uses EXCEPT ![r] = launching] /\ UNCHANGED <<browsers, launching>>
     ELSE \E i \in Ids :
            /\ browsers[i] = "none" /\ \A j \in Ids : browsers[j] = "none" => i <= j
            /\ browsers' = [browsers EXCEPT ![i] = "starting"]
            /\ launching' = i /\ uses' = [uses EXCEPT ![r] = i]

Launched(i) ==
  /\ browsers[i] = "starting" /\ browsers' = [browsers EXCEPT ![i] = "up"]
  /\ at' = [r \in Readers |-> IF at[r] = "waiting" /\ uses[r] = i THEN "reading" ELSE at[r]]
  /\ UNCHANGED <<launching, uses, active, idleTimer>>

\* The launch fails, or the browser crashes: the pool forgets it at once.
Gone(i) ==
  /\ browsers[i] \in {"starting", "up"} /\ browsers' = [browsers EXCEPT ![i] = "gone"]
  /\ launching' = IF launching = i THEN 0 ELSE launching
  /\ UNCHANGED <<at, uses, active, idleTimer>>

\* release, after the read or a failed launch; the last one starts the timer.
Release(r) ==
  /\ at[r] = "reading" \/ (at[r] = "waiting" /\ browsers[uses[r]] = "gone")
  /\ at' = [at EXCEPT ![r] = "away"] /\ uses' = [uses EXCEPT ![r] = 0]
  /\ active' = active - 1
  /\ idleTimer' = IF active = 1 THEN launching ELSE idleTimer
  /\ UNCHANGED <<browsers, launching>>

\* A minute later.
Idle ==
  /\ idleTimer # NoTimer /\ idleTimer' = NoTimer
  /\ IF active > 0 \/ idleTimer = 0 \/ launching # idleTimer
     THEN UNCHANGED <<browsers, launching>>
     ELSE launching' = 0 /\ browsers' = [browsers EXCEPT ![idleTimer] = "idle"]
  /\ UNCHANGED <<at, uses, active>>

\* closeSharedBrowser, at shutdown: whoever reads loses the browser.
CloseShared ==
  /\ launching # 0
  /\ browsers' = [browsers EXCEPT ![launching] = "gone"]
  /\ launching' = 0 /\ idleTimer' = NoTimer
  /\ UNCHANGED <<at, uses, active>>

Next ==
  \/ \E r \in Readers : Acquire(r) \/ Release(r)
  \/ \E i \in Ids : Launched(i) \/ Gone(i)
  \/ Idle \/ CloseShared

Spec == Init /\ [][Next]_vars

-----------------------------------------------------------------------------
(* Properties *)

TypeOK ==
  /\ browsers \in [Ids -> {"none", "starting", "up", "gone", "idle"}]
  /\ launching \in 0..MaxBrowsers
  /\ at \in [Readers -> {"away", "waiting", "reading"}]
  /\ uses \in [Readers -> 0..MaxBrowsers] /\ idleTimer \in 0..NoTimer

\* One browser at a time; while nobody reads it a timer will close it, and never while
\* somebody waits for it or reads.
IdleBrowserCloses ==
  /\ Cardinality({i \in Ids : browsers[i] \in {"starting", "up"}}) <= 1
  /\ (active = 0 /\ launching # 0) => idleTimer = launching
  /\ \A r \in Readers : at[r] # "away" => browsers[uses[r]] # "idle"

=============================================================================
