------------------------------ MODULE ApiClient ------------------------------
(*******************************************************************************)
(* The Brightspace API client (src/upstream/src/api: client.ts, retry.ts,      *)
(* rate-limiter.ts, cache.ts, paginate.ts): reads that share one token         *)
(* bucket and one cache, retry passing failures, renew a rejected token and    *)
(* follow bookmarks.  Which token the manager or a login gives is for modules  *)
(* Tokens and SignIn; here they answer with some token, none, or a failure.    *)
(*******************************************************************************)
EXTENDS Naturals, Sequences, FiniteSets

CONSTANTS
  Calls,
  Bookmarks,    \* the pages a server may name after the first
  FirstPage,
  Capacity,     \* of the bucket (the code: 20)
  MaxAttempts   \* of one send (the code: 3)

VARIABLES
  at,       \* where each call is
  sending,  \* which of its sends this is: "first", after a refresh "fresh", after a login "last"
  tries,    \* the attempts of this send
  page, seen,
  bucket,   \* tokens
  waiting,  \* the limiter's queue
  cached,   \* the pages in the cache
  logins,   \* browser logins each call asked for (history)
  burst     \* requests beyond what the rate has paid back (history)

vars == <<at, sending, tries, page, seen, bucket, waiting, cached, logins, burst>>

-----------------------------------------------------------------------------

Paths == Bookmarks \cup {FirstPage}

Labels == {"start", "cache", "token", "login", "queue", "sent", "asleep", "refresh", "next",
           "read", "failed"}

Ended(c) == at[c] \in {"read", "failed"}

Init ==
  /\ at = [c \in Calls |-> "start"]
  /\ sending = [c \in Calls |-> "first"]
  /\ tries = [c \in Calls |-> 0]
  /\ page = [c \in Calls |-> FirstPage] /\ seen = [c \in Calls |-> {}]
  /\ bucket = Capacity /\ waiting = <<>> /\ cached = {}
  /\ logins = [c \in Calls |-> 0] /\ burst = 0

Go(c, label) == at' = [at EXCEPT ![c] = label]

\* A send starts: it waits for its place with the limiter.
Enqueue(c) == Go(c, "queue") /\ waiting' = Append(waiting, c)

\* send, in one of its three places in withAuthentication
Send(c, which) ==
  /\ Enqueue(c)
  /\ sending' = [sending EXCEPT ![c] = which]
  /\ tries' = [tries EXCEPT ![c] = 1]

list == <<page, seen>>
limiter == <<bucket, burst>>
auth == <<sending, tries>>

-----------------------------------------------------------------------------
(* get and withAuthentication *)

\* get: a cached page is answered at once; a raw download is never cached.
Look(c) ==
  /\ at[c] \in {"start", "cache"}
  /\ \/ page[c] \in cached /\ Go(c, "next")
     \/ Go(c, "token")
  /\ UNCHANGED <<auth, list, limiter, waiting, cached, logins>>

\* The manager's token, no token, or a mint that could not be had.
GetToken(c) ==
  /\ at[c] = "token"
  /\ \/ Send(c, "first")
     \/ (Go(c, "login") \/ Go(c, "failed")) /\ UNCHANGED <<waiting, auth>>
  /\ UNCHANGED <<list, limiter, cached, logins>>

\* A rejected token does not prove that the cookies are expired: the manager
\* reads or mints another before a login.  It may be known as rejected already.
Refresh(c) ==
  /\ at[c] = "refresh"
  /\ \/ Send(c, "fresh")
     \/ (Go(c, "login") \/ Go(c, "failed")) /\ UNCHANGED <<waiting, auth>>
  /\ UNCHANGED <<list, limiter, cached, logins>>

\* tryAutoReauth
Login(c) ==
  /\ at[c] = "login"
  /\ logins' = [logins EXCEPT ![c] = @ + 1]
  /\ \/ Send(c, "last")
     \/ Go(c, "failed") /\ UNCHANGED <<waiting, auth>>
  /\ UNCHANGED <<list, limiter, cached>>

\* Mutant: a 401 after the login asks for another login.
RejectedAgain(c) ==
  /\ Go(c, IF sending[c] = "first" THEN "refresh" ELSE "login")

\* A 401 leads on to the refresh, to the login, or to the caller.
Rejected(c) ==
  /\ Go(c, CASE sending[c] = "first" -> "refresh"
             [] sending[c] = "fresh" -> "login"
             [] sending[c] = "last" -> "failed")

-----------------------------------------------------------------------------
(* The limiter and one request *)

\* drain: the head of the queue is served, and its request leaves in the same
\* turn of the event loop.
Serve ==
  /\ waiting # <<>> /\ bucket > 0
  /\ bucket' = bucket - 1 /\ burst' = burst + 1
  /\ waiting' = Tail(waiting)
  /\ Go(Head(waiting), "sent")
  /\ UNCHANGED <<auth, list, cached, logins>>

Refill ==
  /\ bucket < Capacity \/ burst > 0
  /\ bucket' = IF bucket < Capacity THEN bucket + 1 ELSE bucket
  /\ burst' = IF burst > 0 THEN burst - 1 ELSE 0
  /\ UNCHANGED <<at, auth, list, waiting, cached, logins>>

\* makeRequest: data, 401 (also as a login page answered with 200), or a failure
\* that is not retried.
Answer(c) ==
  /\ at[c] = "sent"
  /\ \/ Go(c, "next") /\ cached' \in {cached, cached \cup {page[c]}}
     \/ Rejected(c) /\ UNCHANGED cached
     \/ Go(c, "failed") /\ UNCHANGED cached
  /\ UNCHANGED <<auth, list, limiter, waiting, logins>>

\* makeRawRequest: a call for one file, which is never cached.  A redirect to a
\* sign-in page, and a page that is one, count as a 401.
Download(c) ==
  /\ at[c] = "sent" /\ page[c] = FirstPage
  /\ Go(c, "read") \/ Rejected(c) \/ Go(c, "failed")
  /\ UNCHANGED <<auth, list, limiter, waiting, cached, logins>>

\* withRetry: a 429, a 5xx or a dropped connection waits and tries again.
Failed(c) ==
  /\ at[c] = "sent"
  /\ Go(c, IF tries[c] < MaxAttempts THEN "asleep" ELSE "failed")
  /\ UNCHANGED <<auth, list, limiter, waiting, cached, logins>>

\* The sleep ends, and the attempt takes a token of the bucket like the first.
Wake(c) ==
  /\ at[c] = "asleep"
  /\ tries' = [tries EXCEPT ![c] = @ + 1]
  /\ Enqueue(c)
  /\ UNCHANGED <<sending, list, limiter, cached, logins>>

\* A timer of the TTL cache, or the entry pushed out by the two-thousandth.
Forget(p) ==
  /\ p \in cached /\ cached' = cached \ {p}
  /\ UNCHANGED <<at, auth, list, limiter, waiting, logins>>

-----------------------------------------------------------------------------
(* fetchAllItems, fetchAllObjects *)

\* Mutant: every page that is named is read.
PageAlways(c) ==
  /\ at[c] = "next"
  /\ \/ Go(c, "read") /\ UNCHANGED list
     \/ \E b \in Bookmarks :
          /\ seen' = [seen EXCEPT ![c] = @ \cup {b}]
          /\ page' = [page EXCEPT ![c] = b]
          /\ Go(c, "cache")
  /\ UNCHANGED <<auth, limiter, waiting, cached, logins>>

\* The page names no next one, or names it; a page named before ends the list.
Page(c) ==
  /\ at[c] = "next"
  /\ \/ Go(c, "read") /\ UNCHANGED list
     \/ \E b \in Bookmarks :
          IF b \in seen[c] THEN Go(c, "read") /\ UNCHANGED list
          ELSE /\ seen' = [seen EXCEPT ![c] = @ \cup {b}]
               /\ page' = [page EXCEPT ![c] = b]
               /\ Go(c, "cache")
  /\ UNCHANGED <<auth, limiter, waiting, cached, logins>>

-----------------------------------------------------------------------------

Step(c) ==
  \/ Look(c) \/ GetToken(c) \/ Refresh(c) \/ Login(c)
  \/ Answer(c) \/ Download(c) \/ Failed(c) \/ Wake(c) \/ Page(c)

Next ==
  \/ \E c \in Calls : Step(c)
  \/ Serve \/ Refill
  \/ \E p \in Paths : Forget(p)

Fairness == WF_vars(Serve) /\ WF_vars(Refill) /\ \A c \in Calls : WF_vars(Step(c))

Spec == Init /\ [][Next]_vars /\ Fairness

-----------------------------------------------------------------------------
(* Properties *)

TypeOK ==
  /\ at \in [Calls -> Labels]
  /\ sending \in [Calls -> {"first", "fresh", "last"}]
  /\ tries \in [Calls -> 0..MaxAttempts]
  /\ page \in [Calls -> Paths] /\ seen \in [Calls -> SUBSET Bookmarks]
  /\ bucket \in 0..Capacity /\ cached \subseteq Paths

\* "One HTTP refresh and at most one browser login per caller", for each page.
\* logins counts over the pages of a list.
OneLoginPerPage == \A c \in Calls : logins[c] <= Cardinality(seen[c]) + 1

\* Also with many callers and retries no burst exceeds what the bucket holds.
RatePromised == burst <= Capacity

\* Every read ends, also when the server names the same pages over and over.
ReadsEnd == \A c \in Calls : <>Ended(c)

=============================================================================
