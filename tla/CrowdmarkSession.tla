--------------------------- MODULE CrowdmarkSession ---------------------------
(******************************************************************************)
(* The signed-in Crowdmark context of the gateway                             *)
(* (src/src/crowdmark-session.mjs): made from the saved Waterloo login in a   *)
(* browser, verified to be the owner's, kept for ten minutes, dropped by a    *)
(* timer after eleven.  Crowdmark.serial lets one call at a time in.          *)
(******************************************************************************)
EXTENDS Naturals

CONSTANTS
  MaxLogins,  \* saved logins that differ: loadBrowserSession's version
  Foreign     \* those of them that sign somebody else in

VARIABLES
  source,     \* the saved login
  context,    \* the login the kept context was made from; 0 when there is none
  age,        \* of the context: 0 below ten minutes, 1 below eleven, 2 from then on
  timer,      \* the eleven minutes are being counted
  at, call,   \* where the call is, and whether it reads or edits
  loaded,     \* the login it has loaded
  tries,      \* how often it has connected again
  page,       \* the login of the browser page it edits in; 0 when there is none
  since       \* the login saved when it began (history)

vars == <<source, context, age, timer, at, call, loaded, tries, page, since>>

-----------------------------------------------------------------------------

Init ==
  /\ source = 1 /\ context = 0 /\ age = 0 /\ timer = FALSE
  /\ at = "idle" /\ call = "none" /\ loaded = 0 /\ tries = 0 /\ page = 0 /\ since = 0

kept == <<context, age, timer>>

\* close: the timer is cleared, the context disposed of.
Close == context' = 0 /\ age' = 0 /\ timer' = FALSE

\* The call is answered.
End ==
  /\ at' = "idle" /\ call' = "none" /\ loaded' = 0
  /\ tries' = 0 /\ page' = 0 /\ since' = 0

Go(place) == at' = place /\ UNCHANGED <<call, loaded, tries, page, since>>

\* What get makes of a response: the data, CROWDMARK_AUTH_REQUIRED for a redirect, a 401
\* or a 403, or another error: not found, too large, not JSON, no answer in 25 seconds.
Responses == {"data", "auth", "error"}

-----------------------------------------------------------------------------

\* The owner signs in again, or another login is imported.
Replace ==
  /\ source < MaxLogins /\ source' = source + 1
  /\ UNCHANGED <<kept, at, call, loaded, tries, page, since>>

Begin ==
  /\ at = "idle" /\ at' = "load"
  /\ call' \in {"read", "edit"} /\ since' = source
  /\ UNCHANGED <<source, kept, loaded, tries, page>>

canReuse == context = source /\ age = 0

\* connect: the saved login, unless it cannot be read; the context kept for it, if young.
Load ==
  /\ at = "load"
  /\ \/ End /\ UNCHANGED kept
     \/ /\ loaded' = source /\ UNCHANGED <<call, tries, page, since>>
        /\ IF canReuse THEN at' = "use" /\ UNCHANGED kept ELSE at' = "boot" /\ Close
  /\ UNCHANGED source

\* The sign-in in a browser, which may fail or run out of time.
Boot ==
  /\ at = "boot"
  /\ \/ End /\ UNCHANGED kept
     \/ Go("verify") /\ context' = loaded /\ age' = 0 /\ timer' = TRUE
  /\ UNCHANGED source

\* Whose session it is: the owner's, or the context is closed.
Verify ==
  /\ at = "verify"
  /\ \E r \in Responses :
       IF r = "data" /\ context \notin Foreign
       THEN Go("use") /\ UNCHANGED kept
       ELSE End /\ Close
  /\ UNCHANGED source

\* read: refused once, it connects again with a new context.
Read ==
  /\ at = "use" /\ call = "read"
  /\ \E r \in Responses :
       IF r = "auth" /\ tries = 0
       THEN /\ Close /\ tries' = 1 /\ at' = "load"
            /\ UNCHANGED <<call, loaded, page, since>>
       ELSE End /\ UNCHANGED kept
  /\ UNCHANGED source

\* edit: a page with the context's cookies, once the shared browser is there; by then
\* the timer may have dropped the context, and nothing has been written.
OpenPage ==
  /\ at = "use" /\ call = "edit"
  /\ UNCHANGED <<source, kept>>
  /\ \/ /\ context # 0 /\ page' = context /\ at' = "edit"
        /\ UNCHANGED <<call, loaded, tries, since>>
     \/ End

\* The operation ends, fails or is given up after 150 seconds; it is never replayed.
Edit ==
  /\ at = "edit" /\ End
  /\ UNCHANGED <<source, kept>>

\* Time passes.  A request takes 25 seconds at most, less than the minute between the
\* last use of a context and its timer.
Age ==
  /\ context # 0 /\ age < 2 /\ age' = age + 1
  /\ age = 1 => at # "verify" /\ ~(at = "use" /\ call = "read")
  /\ UNCHANGED <<source, context, timer, at, call, loaded, tries, page, since>>

\* The timer's close.
Expire ==
  /\ timer /\ age = 2 /\ Close
  /\ UNCHANGED <<source, at, call, loaded, tries, page, since>>

Next ==
  \/ Replace \/ Begin \/ Load \/ Boot \/ Verify \/ Read \/ OpenPage \/ Edit
  \/ Age \/ Expire

Spec == Init /\ [][Next]_vars

-----------------------------------------------------------------------------
(* Properties *)

TypeOK ==
  /\ source \in 1..MaxLogins /\ context \in 0..source /\ age \in 0..2
  /\ timer \in BOOLEAN
  /\ at \in {"idle", "load", "boot", "verify", "use", "edit"}
  /\ call \in {"none", "read", "edit"} /\ loaded \in 0..source
  /\ tries \in {0, 1} /\ page \in 0..source /\ since \in 0..source

\* crowdmark-session.mjs: what is read or edited belongs to the owner and comes from a
\* login saved no earlier than the call; between calls only a verified context is kept,
\* and never without the timer that drops it.
OwnersLoginIsUsed ==
  /\ at = "use" /\ call = "read" =>
       context = loaded /\ context \notin Foreign /\ context >= since
  /\ at = "edit" => page = loaded /\ page \notin Foreign /\ page >= since
  /\ context # 0 => timer /\ (at = "idle" => context \notin Foreign)

=============================================================================
