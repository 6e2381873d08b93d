# Waterloo MCP: a verification project in TLA+

This directory models Waterloo MCP wherever something can go wrong between two
steps: writes that need the owner's approval, study-room bookings, Crowdmark
submissions, Racket runs, forwarded mail, the sign-ins and sessions several
processes share, the caches and browsers its reads go through, and the commands
that administer its host. TLC checks the models on small
instances; TLAPS proves for every value of the constants every safety property that
the passing runs check, but for what two kills may do to a lock.
Paths are relative to the repository (`libcal.mjs` is the file at its top,
`src/libcal.mjs` the one under its own `src/`).

## The system

Waterloo MCP is one Node.js process per user, the *gateway*. Agents call tools
over MCP, the owner uses a few web forms, and the gateway works on the user's
accounts: D2L through an upstream MCP server it spawns (the *worker*), the
library's room booking (LibCal) and Crowdmark through a headless browser, Piazza,
Marmoset and Odyssey over HTTP, Outlook through mail forwarded by a Cloudflare
Worker, Racket through a runner container.

Everything concurrent happens in three ways: requests of one process interleave
at every `await`; the process may be killed and started again, with its files as
they were; and the outside (library, Worker, owner, other processes) acts in
between. Nothing is synced to disk explicitly, and most files are replaced by
writing `<file>.pending` and renaming it.

### Components

| Component | Code | State | Operations | Module |
|---|---|---|---|---|
| Study rooms | `libcal.mjs`, `src/libcal-browser.mjs` | `write.lock`; encrypted journal of bookings; the library's reservations | book, cancel, list | `RoomBooking` |
| Room catalogue | `src/libcal.mjs` | the room list in memory; grids | availability, prepare | `RoomCatalog` |
| Approvals | `authorization.mjs`, `gateway.mjs` | `<id>.json`, `<id>.json.pending`, `<id>.used` | request, decide, consume | `Approvals` |
| Forwarded mail | `src/mail-store.mjs`, `gateway.mjs` | sealed index, message files, policy, log; queue and index in memory | ingest, read, set policy | `MailStore` |
| Racket | `src/racket-workspace.mjs`, `racket-runner/server.py`, `web/racket.js` | `.write.lock`; workspaces with revisions; the runner's lock; the page | save, run, poll | `RacketWorkspace` |
| Crowdmark writes | `src/crowdmark.mjs` | a queue; action markers; the site | save answers, submit | `CrowdmarkWrite` |
| Crowdmark files | `src/crowdmark-files.mjs` | tickets, markers, photos | create, upload, get, sweep | `CrowdmarkFiles` |
| Crowdmark session | `src/crowdmark-session.mjs` | a browser context and its timer | read, edit | `CrowdmarkSession` |
| Process lock | `upstream/src/auth/auth-lock.ts` | lock directory, owner, recovery claims | acquire, release | `AuthLock` |
| Tokens | `upstream/src/auth/token-manager.ts`, `session-store.ts`, `auth-runner.ts` | session file; token and mint in memory | get, mint, login | `Tokens` |
| Sign-in | `upstream/src/auth/browser-auth.ts`, `auth-cooldown.ts`, `browser-state-store.ts` | the login page; cooldown; saved cookies | authenticate | `SignIn` |
| API client | `upstream/src/api/*` | cache, token bucket, waiters | get, list pages, download | `ApiClient` |
| Secure files | `upstream/src/auth/credential-store.ts`, `encrypted-store.ts`, `legacy-state.ts` | the key; sealed and old files | load, save, migrate | `SecureState` |
| Setup | `upstream/src/setup.ts`, `utils/secure-config.ts` | `config.json`; the password store | setup, start | `Passwords` |
| Gateway client | `gateway.mjs`, `src/import-session.mjs` | promises of the worker and its tool catalog | call, list, import | `GatewayClient` |
| Reads | `src/read-cache.mjs`, `src/batch-reads.mjs` | entries, reads in flight | batch, get | `ReadCache` |
| Shared browser | `upstream/src/utils/browser-pool.ts` | a browser, its readers, a timer | acquire, release | `BrowserPool` |
| HTTP sessions | `src/session-http.mjs`, `src/marmoset.mjs`, `src/odyssey.mjs` | cookies, a queue, a timer | run, close | `SessionHttp` |
| Piazza session | `src/piazza-session.mjs` | saved login, a queue, a cooldown | run, connect | `PiazzaSession` |
| Portal | `src/portable-auth.mjs`, `scripts/client.mjs`, `scripts/owner.mjs` | owner's key, agent registry, failed logins | login, issue, revoke, rotate | `Portal` |
| Authenticator | `renew.mjs`, `scripts/enroll.mjs`, `scripts/deploy.mjs` | signature counter, `probe.lock`, cooldown | enrol, renew, transfer | `Authenticator` |
| Host | `scripts/host.mjs`, `src/hosting.mjs` | manifest, homes, Compose file, containers | init, add, remove, render, start, stop | `Host` |
| Downloads | `upstream/src/tools/download-file.ts`, `get-syllabus.ts`, `utils/*` | files in the owner's directory | download, save | `Downloads` |
| Transcripts | `upstream/src/tools/media-reader.ts` | one job, stored transcripts | ask, convert | `Transcripts` |
| Readers, parsers, D2L tools | `piazza.mjs`, `outlines.mjs`, `upstream/src/tools` | none | read | none |

They interact as follows. A request is let in by **Portal**. A tool call that
writes asks **Approvals** for an approval; the owner decides it in the browser;
the same call, repeated with the id, consumes it and goes on to **Study rooms**,
**Racket** or **Crowdmark writes**. Room calls consume the approval before they
take their lock; Racket and Crowdmark consume it inside. Reads go through
**Reads** to **Piazza**, **HTTP sessions**, **Crowdmark session** or the
**Gateway client**, whose worker reads D2L through the **API client** and the
**Shared browser** with a token of **Tokens**, a store shared with the
**Sign-in** and renewal programs under the **Process lock** and sealed by
**Secure files**. The mail Worker calls **Forwarded mail** directly.

The hazards of the code, each at its line, are listed in `PROJECT.json` with the
properties that cover them.

## Plan

In the order of their importance:

1. `RoomBooking` and its abstract specification `RoomLedger`: the one place where
   a repeated step costs the user a real reservation. *Done, proved.*
2. `Approvals`: the gate in front of every write. *Done, proved.*
3. `MailStore` and its abstract specification `Mailbox`. *Done, proved.*
4. `AuthLock`, the directory lock with recovery from dead owners, and `Tokens`,
   the session file that servers and sign-ins share under it. *Done, proved.*
5. `CrowdmarkWrite`, `CrowdmarkFiles`, `RacketWorkspace`: what happens to a write
   once it is approved, each with the consume step of `Approvals`. *Done, proved.*
6. The sessions and caches under the reads: `GatewayClient`, `ReadCache`,
   `BrowserPool`, `SessionHttp`, `PiazzaSession`, `CrowdmarkSession`,
   `RoomCatalog`, `ApiClient`. *Done, proved.*
7. Secrets and sign-in: `SignIn`, `Authenticator`, `SecureState`, `Passwords`,
   `Portal`. *Done, proved.*
8. Files and hosts: `Host`, `Downloads`, `Transcripts`. *Done, proved.*

Left: what becomes of a lock after a second kill, where the code keeps less. Abstract specifications worth stating beyond the two here: a saved
session that only moves forward (for `Tokens`), and an action carried out at most
once (for `CrowdmarkWrite`).

## Module by module

A module's header names its files, the comments on its constants and variables
say what in the code each one stands for, and `PROJECT.json` maps every
definition to its lines. What the sections below add is what an action is and what was
abstracted.

### RoomBooking

State. `lock` is the `write.lock` directory and `journal` the bookings file: a
function from `bookingRequestId` to a record, with `NoRecord` for an id without
one (`bookingId` is one to one with it). Each call has a program counter at one
of its awaits, its arguments, and `mem`, the array of records it loaded and
changes. The library is `wire` (checkouts sent and not decided), `held` and
`cwire` (cancellations not processed). `submits` and `cancels` count clicks and
navigations, and are the history the properties speak of.

Actions. One per await of `book` and `cancel`: what happens from one await to
the next is one step, the save that ends it another, and each save may fail.
`Drive` stands for the whole form up to the click: it succeeds only if the grid
still shows the slot free, and otherwise fails at an arbitrary stage.
The library may take a checkout at any time after the click, also after the
call that sent it has ended. `Crash` ends all calls and leaves files and library
alone. `Release` is the `rmdir` of the `finally`, which may fail: the call ends with an
error and the lock stays. `ClearStaleLock` is the administrator, who acts only when
nothing runs.

Abstractions. A room, date, start and duration are one `slot`; a signature is
a slot and a party size, because the code's hash covers both and the library's
slot only the first. Receipts, pages and error codes are left out.

`RoomLedger` is the owner's view: a request is open, booking, confirmed,
cancelling or cancelled, only moves forward, and one request at a time stands
for a signature. The refinement mapping reads it off the journal and the click
counts: a request nobody clicked for is open, whatever its record says, and
"unknown" is a booking or a cancellation in doubt by whether its link was opened.

### Approvals

State. What `<id>.json` and `<id>.json.pending` name are inodes, because two
forms may have the same draft open while one of them renames it; `text` is what
an inode says of the status. `used` is the marker file, `digest` the hash of
tool, arguments and client. A `job` is a form or a call at one of its awaits.
`consented`, `answered`, `effects` and `crowded` are history.

Actions. `OpenDraft`, `WriteDraft` and `RenameDraft` are the three system calls
of one save; `Post` and `Decide` the form, `Request` the call without an
approval, `Retry`, `Check`, `MarkUsed` and `Perform` the call with one.
`overlay` is what a shorter text written over a longer one leaves: the file no
longer parses. Times are reduced to the set of expired approvals.

### CrowdmarkWrite

State. `site` is the assignment at Crowdmark, its pages question by question;
`wire` the changes the browser has sent and Crowdmark not handled; `queue` is
`Crowdmark.queue` and `job` its first call at one of its awaits. A revision is a
hash of the whole assignment, so a request's `args` hold the assignment it was
approved for. `begun` and `sent` are history.

Actions. `Ask` and `Call` are the call without and with an approval; then
`Prepare` (read, compare the revision), `Authorize` (consume), `Mark` (the
action marker, created exclusively), and `Reread`, `Enter`, `Compare`, `Click`,
`SetInput` and the two polls for each photo, text and the submission. `Edit` is
the student in another editor at any time, `Land` Crowdmark that handles what was
sent, in any order and late. `Fail` is an error or timeout at any step, which
after the marker ends as "unknown".

### CrowdmarkFiles

`files` are the names in the directory and `torn` those written in part: `<id>.json`
and `<id>.encrypted` are written in place, so a kill or a full disk may leave a file
that does not parse or decrypt (`whole` says which do). Only what runs in the queue
changes them: `Sweep` and `Remove`, file by file, `Create`, `Receive`, `MarkUsed` and
`Write`; `get` reads outside it. A sweep ends with an error at the first ticket that does
not parse, after those the directory lists before it, and a creation that sweeps
first ends with it. Time is two sets, the tickets past their own
expiry and past their upload's. A kill may stop any of these between two files.
`ReadyIsReadable` holds all the same, because a torn ticket was never answered.
That an expired ticket is removed holds only while none is torn (`ExpiredIsRemoved`).

### RacketWorkspace

Every text an author writes has a number, so a save that replaces a text its
author never saw can be told. Calls of agents go through `Lock`, `Read`,
`Health`, `Authorize`, `Write`, `Post`, `GiveUp`, `Unlock`. The page is the
browser's: `Type`, `Open`, `PageSave`, `PageRun`, and the poll, whose answer is
shown (`PollShow`) only if nothing was typed or saved since it was asked for.
`Take`, `Respond`, `Release` are the runner, which goes on with a run the
gateway has given up. The `unlink` in the `finally` may fail, and then the lock stays
until `ClearLock`, somebody who removes it while nothing runs.

### MailStore

State. `index`, `eml`, `body`, `logged` and `policy` are the files; `queue` is
the chain of promises in `this.queue`, `cache` is `this.index`, and `load` the
read of the index that `this.index` was or is a promise of. A `job` is a
delivery or the owner's policy form.

Actions. `Verify` and `Offer` run outside the queue; every other step of
a delivery runs only while it is at the head of it. A delivery that finds no list
in memory starts a read or waits for the one a search started; `SettleLoad` gives
it the result and, as the code's `catch` does, clears `cache` when the file was
missing or unreadable, even if `cache` was set in the meantime. `Fail` is a
failing read or write at any step. Messages are their `Message-ID`s, with a size
and whether a trusted domain signed them.

`Mailbox` is what the owner is promised: a new message goes in front, and the
newest that fit are kept. The refinement mapping is the index on disk.

### GatewayClient

`workers` are the spawned upstream servers and the session each one was started
with; `upstream` is the promise of the worker, `listing` and `listed` the one of the tool
catalog, under way and done. A caller asks one of three things (`Begin`): a tool call,
the catalog, which is shared, or an expensive read of one page, which the cache of the
gateway answers: from `entry`, the page it keeps for 30 seconds, or by joining `reading`,
the read under way. Who asks the worker itself resumes when that is up (`Resume`) and ends
with all who joined (`Call`). An import saves, reads the promise, closes the worker
it found and resets (`Save` to `ResetUpstream`), one await at a time. It does
not clear the cache.

The property counts a session as the owner's new one from the moment the import is
answered, for calls and listings. A read of the cache may still be answered from the
session before, which `gateway.mjs` accepts by keeping pages over an import; `settled` is
the session answered by the last time 30 seconds had passed with no read of the page
under way, and what the cache answers is never older than that.

### ReadCache

A batch has up to three workers that take the next index (`TakeNext`), join or
start a read of its key (`Get`) and write the result at their index; `Settle` ends
a read for all that joined it, well or not; `Forget` is expiry or eviction.

### BrowserPool

Browsers are numbered launches. A crash (`Gone`) may come at any time, also
while the timer's close is under way; `Idle` is the timer's callback and
`CloseShared` the worker's shutdown.

### SessionHttp, PiazzaSession, CrowdmarkSession

Three ways to keep a login. `SessionHttp` makes a cookie jar from the saved
browser login, numbered by `logins`, and signs in once by script
(`Bootstrap`); the readers around it renew the login and try once more.
`PiazzaSession` renews with the saved password, writes the result back in the same
queue as the owner's form, and waits two minutes after a refusal. That wait is a field of
the process, so a kill ends it while the history `failures` goes on: within one life
of the process a password is refused once in two minutes (`NewSessionIsUsed`), over a
restart it may be refused once more (`RefusedOncePerLife`).
`CrowdmarkSession` keeps a browser context, verifies whose it is, and drops it by
age or timer. In each, a login is a number and a page one outcome.

### RoomCatalog

Here the data is the point: `Widen` is the loop of `availableWindows` over a
grid and `Walk` that of `assertAvailable`; the property compares what the first
offers with what the second accepts, for every grid of three slots and every
length. Times are quarter hours. The room list is one read of a page per library that
all calls wait for.

### Portal

Commands load the registry, change and rename it under their lock file
(`Register`), or replace the owner's key and token in two renames (`Rotate`).
Requests carry a token, a cookie of some version of the key, or the key.
`failures` are the times of failed logins; the clock ticks.

### AuthLock

State. `chain` is the lock directory and the recovery locks nested in it:
`chain[1]` is the owner that `lockPath/owner.json` names, `chain[2]` the one in
`lockPath/reclaim.lock`, and so on, with `NoOwner` for a directory that has no
`owner.json` yet. `calls` are the nested calls of `acquireLease` of a process
and `at` the file operation it does next. `alone` is history: the acquisitions
that began while nobody else was at work and that nobody has disturbed.

Actions. Each is one file operation on a path, so it acts on what is there by
then: `Mkdir`, `WriteOwner`, `Undo` (the `rmdir` after a failed write),
`ReadOwner`, `Check` (the second read, under the claim), `Retire` (the rename),
and `DropRead`, `Drop` and `ReleaseRead`, `Release`, the two steps of
`Lease.release`. A rename takes away a lock with all that is nested in it.
After `Retire` the claim has moved with the directory, to a name nobody else
uses, so its release and `cleanRetired` change nothing others see. `Crash` is a
kill; a killed process stays dead, that is, process ids are not reused.

### ApiClient

A call is at one await of `get`: the bucket's queue, the request, the pause
before a retry, the refresh, the login. `Serve` and `Refill` are the limiter,
`Page` the step of `fetchAllPages` to the next bookmark, among them one already
seen. `burst` counts requests the rate has not paid back. The ceiling of 200 pages is left
out: there are finitely many bookmarks here, and a repeated one ends the loop first.

### Host

One action per operation of `host.mjs` on a file or a container; `child` is the
docker command it has spawned, which a kill of its parent does not end. `Signal`
sets a flag the code reads between operations. The manifest is what a command
loaded (`knows`) until it saves.

### Downloads

All calls ask for one name, so `dir` has the candidates `name`, `name(1)`, ...;
`Resolve` tests one for existence, `Open` truncates it, `Write` fills it. The
checks of size and type are `Validate`. Files of other names cannot meet these.

### Transcripts

`running` and `pending` are the two variables of `media-reader.ts`. A job goes
on after its call was answered: `Fetch`, `Work`, `WriteDraft`, `Store`,
`Finish`, `Clean`, each of which may fail. A call that looked for a stored
transcript and found none (`Missed`) acts on what the job has become by then.
`pending` is a `Map`, which keeps the order of its entries, and `keeping` is that list
without those that were deleted or evicted.

### Tokens

State. A token is its number in order of issue, and `issued` says which browser
session its cookies belong to (0: they were not captured, and the token cannot
be refreshed over HTTP). `disk` is `session.json`, `locked` its write lock, which `AuthLock`
models in detail. Each server process has `cached` and `rejected`, the fields of
its `TokenManager`, a `mint`, which is `mintInFlight` at one of its awaits, and a
`login`, the process its `AuthRunner` has spawned. The owner may run the sign-in
program too. A `call` is one `withAuthentication` at one of its awaits.

Actions. `GetToken`, `LoadRead` and `Loaded` are `getToken`, called three times:
first, after a refused request, after a sign-in (`turn`). `got` is what
`withAuthentication` does with the answer. From `MintAnswer` to `Changed` is
`runMint`; its end settles the shared promise for every call that waits.
`Send` is a request LEARN answers or refuses, whatever the token; `RunLogin` and
`LoginEnds` the spawned process as its server sees it, `SignIn`, `SaveLock` and
`SaveLogin` what it does, ended by a timeout's kill at any point. It is the
stand-alone `auth-cli.js`; the hosted service spawns `renew.mjs` instead.

### SignIn

The page moves by itself (`Move`, by `Turn`), the code polls it: `Silent`, `Decide`,
`EnterName`, `EnterPassword`, `HandleMFA` and so on are what it does when it next looks,
`Wait` the second between two looks. `pushed` says that the run has shown a challenge
nobody has approved yet, wherever the code was; `challenged` is the code's own flag,
which only a poll of `handleMFA` sets. `cooling` is the file that keeps an
automatic run from the browser, and `owing` the history of a challenge an earlier
run left: one that was seen, or one that was missed. Both are from the code: an error counts as a
failed approval by the flag alone, whatever the page shows, so a challenge during the
silent sign-in, while a field is awaited, or after the last poll leaves no cooldown.
`NoSecondPush` is therefore about the seen ones, and `NoPushAfterAnother`, about all, is
what the run `sign_in_push` refutes. `Extract` goes through the strategies that
find a token, in the code's order.

### Authenticator

Two machines, each with the encrypted authenticator, a lock file and cookies.
`memory` is the counter in the run's virtual authenticator, `writes` the saves
it has chained and not finished, `duo` the last counter Duo saw. `Claim` and `Upload` are the
one transfer to the server.

### SecureState and Passwords

`SecureState` has one key, three locks and the three kinds of old files; a
process loads or saves (`todo`), creating the key or encrypting an old file on
the way, and fails or is killed anywhere. `Passwords` numbers passwords in the
order of their saves: the wizard writes the credential store, then `config.json`;
a server's start that loaded an older configuration migrates the
password it found there only after it has read the configuration again under the lock.
A start with `D2L_PASSWORD` puts that in the store whatever is there, so it is numbered
as the newest: the code lets the environment win, and the property takes it for the owner's
last word. A variable left over from before the setup does replace the
password saved since. `client` is a file written in place ("torn" after a kill); no
property is about it.

## Runs

Five modules, `Writes` (over `Approvals`), `Readers` (over `MailStore`), `Locks` (over
`AuthLock`), `Accounts` (over `Tokens`) and `Ends` (over `RoomBooking`), are *sums*, with
an `MC` module where the instance needs definitions: components that share no variable are checked in
one run, one at a time. `part` says which component a behaviour is of; it is
chosen in `AllInit` and never changes; the others keep their initial state, which for
the instances is 0 (in `Ends`, what their `Init` says), and a step is a step of the
chosen component. A property of the run says for each
part what the component's own module states. Nothing is gained or lost by the
sum: its states are the union of the components' states. Components that do
interact are composed where they meet instead: the approval's consume step inside
`RacketWorkspace` and `CrowdmarkWrite`, the saved session inside `GatewayClient`.

| Run | Instance | Shows |
|---|---|---|
| `room_booking` | sum: study rooms, mail store, Crowdmark files | the invariants of bookings and the refinement to `RoomLedger` hold; every room call ends and every delivery is answered (`RequestsEnd`); an expired ticket is removed unless one is torn |
| `room_booking_room_time` | the study rooms of `room_booking` | two requests for one room and time are pending at once: the code blocks a repeated signature, `docs/study-rooms.md` says room and time |
| `approvals` | sum: approvals, Crowdmark writes and files, Racket | an approval is used once, for what was approved, in time; no write is repeated, no text replaced unseen, no photo lost |
| `approvals_denied` | 1 id, 2 forms, 1 call | two forms that overlap: the owner is told "denied", and the call writes |
| `mail_store` | sum: mail store, gateway client, reads, browser, HTTP, Piazza and Crowdmark sessions, room catalogue, portal | no acknowledged mail is lost, the index is a `Mailbox`; a room that is offered can be booked; after a new login nothing old is used, but for what the cache keeps for 30 seconds; nobody waits for nothing; what is withdrawn lets nobody in |
| `mail_store_older` | 2 messages, 2 offers, 1 kill | the files of a message that was pushed out may stay for good |
| `auth_lock` | sum: process lock, API client, host, downloads, transcripts | acquisitions and reads end, the lock names its holder, reads keep rate and logins, files and host stay whole |
| `auth_lock_stolen` | 4 processes that acquire twice, 2 kills | a contender stopped inside the release of its claim lets two processes hold the lock |
| `tokens` | sum: tokens, sign-in, authenticator, secure files, passwords | only saved tokens are used, a slow mint never replaces a newer login, a challenge that `handleMFA` saw is followed by the wait, no key, session or password is lost |
| `sign_in_push` | 3 sign-in runs, one by hand, 1 fault | a challenge that no poll of `handleMFA` saw leaves no wait: the next automatic run opens the browser |
| `tokens_handed_back` | 1 server with 2 calls | `getToken` may answer the very token it was told is rejected |
| `session_http_jar` | 2 reads, 2 logins | after a read that failed, the cookies of an idle service stay in memory |

The runs that expect a violation are the places where code and documentation, or
a comment's claim, disagree; each is a finding in `PROJECT.json`, with the line quoted.

### Bounds, and why they are enough

The instances of the components in the sums:

| Module | Instance |
|---|---|
| `RoomBooking` | 2 calls, 2 request ids, 1 slot, 2 party sizes, 1 kill |
| `Approvals` | 2 ids, 2 actions, 2 forms, 2 calls, 2 posts, 1 kill, symmetric |
| `CrowdmarkWrite` | 3 requests, two of them with one action id; 2 questions, one with text; 2 photos and a text; 2 calls, 1 edit, 1 kill |
| `CrowdmarkFiles` | 3 tickets, a limit of 2, 1 kill; in `Ends` 2 tickets |
| `RacketWorkspace` | 2 workspaces, a limit of 1, an agent and the page, 2 texts, 2 runs, 1 kill |
| `MailStore` | 2 deliveries, 3 messages, 3 offers, 1 form, 1 fault, 1 kill; in `Ends` 2 messages, 2 offers |
| `GatewayClient` | 2 callers that call, list or read one page, 2 imports, 3 workers |
| `ReadCache` | 2 batches with 2 workers, of which 1 may run; 2 keys, 1 read in flight |
| `BrowserPool` | 3 readers, 3 launches |
| `SessionHttp` | 3 reads, a queue of 2, 3 logins |
| `PiazzaSession` | 2 reads, 2 forms of two accounts, a queue of 2, 1 kill |
| `CrowdmarkSession` | 4 logins, one of somebody else |
| `RoomCatalog` | 2 libraries, a reader, a booker, 3 slots, 1 change by others |
| `Portal` | 2 agents, 2 commands, 2 requests, 1 failed login per window, 1 kill |
| `AuthLock` | 4 processes that acquire once, 2 kills |
| `ApiClient` | 2 calls, 1 bookmark, 1 token in the bucket, 2 attempts |
| `Host` | 3 users, two of them rivals for a port, 2 commands |
| `Downloads` | 2 calls, 2 numbered copies, 1 kill, files of the owner |
| `Transcripts` | 2 transcripts, 2 calls, 1 kept answer |
| `Tokens` | 1 server with 2 calls, the owner's sign-in, 3 tokens, 2 sign-ins |
| `SignIn` | 3 runs, one by hand, 1 fault |
| `Authenticator` | 2 runs, counters to 2, 1 fault |
| `SecureState` | 2 processes, 2 keys, 1 fault |
| `Passwords` | 2 accounts, 2 setups, 1 start, 1 fault |

- Two actors show every pairwise race; a third is there where a role needs it: a
  photo that is swept, a browser launched while one is closed and one is used, a
  rival among the users. The proofs do not need the bound.
- Limits (queues, markers, tickets, places, buckets) are 1 or 2, so that one
  actor meets them because of another.
- One kill reaches every crash point; what a second one adds is a kill during
  the work after a restart, which for the files is the same as the first.
- In `RoomBooking`, two request ids and two party sizes for one slot give a
  repeated request, a second request with the same arguments, and one for the
  same slot with others. `MaxPosts = 2` in `Approvals` allows an approve and a deny
  of one approval. Three offers of three messages allow a store, an eviction and a
  redelivery of what was evicted; the sizes 1, 1 and 3 with a limit of 2 give two
  that fit together, a pair where the older is pushed out, and one that exceeds the
  limit alone and is kept.
- `auth_lock` has three roles at once: a dead owner, a contender killed while it
  recovers, and two live ones that race for the rest. `MaxAttempts` is 2 (the
  code: 3), so that two dead owners exhaust it. A process acquires the lock once,
  as `auth-cli.js` does. `HolderIsNamed` needs that bound, because two are killed: until
  the second kill it is proved for any processes and acquisitions.
  `auth_lock_stolen` has the code's 3 attempts and processes that return, as
  the servers do for the session file, and shows that the lock alone does not
  exclude in general.
- In `Tokens`, `locked` is a flag, so its results hold as far as the lock excludes;
  likewise `SignIn` and `SecureState`. Three tokens and two sign-ins are a saved
  token, its successor from the same cookies, and a newer sign-in. Two calls share a
  mint, refuse each other the sign-in process, and overwrite each other's
  `rejected`; the other server of a shared session is seen only through the
  disk, as the owner's sign-in is.
- Where a component's own fault could excuse it (a killed run, overlapping
  downloads, a removed lock), the property names the exemption, and the module
  carries the history that tells it.

Deadlock is not checked: the inputs of most components are bounded, so that
they may stop when these are used up. `RequestsEnd`, `WhatBeginsEnds` and
`NobodyIsLeftOver` say that what has stopped has no work left.

### Fairness

In `Ends`, `RoomsGoOn` assumes that a call which holds the lock takes its next
step: every await of the code is a file operation or a browser step with
a timeout. The library is not assumed to be fair. `Locks!AllFairSpec`
assumes that a process which has started an acquisition and is not killed gets
its next file operation done (`AuthLock!AcquireStep`, process by process), and
that the API client as a whole goes on: its requests have timeouts and
its limiter a timer, and with a first-come queue no call can overtake
for ever. `MailGoesOn` assumes that file operations and DNS
lookups answer or fail. `PhotosGoOn` assumes that the hourly sweep comes again and again,
that what runs in the queue ends, and that a removal tried for ever succeeds at some
time. The other modules state no
liveness: nothing obliges an owner, a site or a user to act. What they promise
to those who wait is stated as safety: whoever waits, waits for
something in flight (`NobodyWaitsInVain`, `NobodyIsLeftOver`).

### Mutants

Each property comes with a mutant of one definition, written next to it and
marked as such: a retry after an uncertain booking, an ignored failure of a
save, an unconditional marker, an unreadable index taken for an empty one, tasks that do not
queue, a claim taken as proof enough to retire a lock, an unconditional save after a slow mint,
a poll shown over newer typing, a promise kept after its worker was closed.
TLC finds the property violated with the mutant in place. The property of a sum has
one listed mutant, in one of its components; `DiagnoseAndRetry` in `RoomBooking`, `PersistAtOnce` in `Authenticator`,
`LoginUnlimited` in `Portal` and `LockAndMigrateLoaded` in `Passwords` break the
parts of theirs that the listed one does not reach.

### Seen while modelling

Behaviours the models have and no run singles out:

- A delivery is logged as stored before the message is written, so one that fails
  afterwards stays in the log (`src/mail-store.mjs:354`).
- One ticket torn by a kill or a full disk ends every later sweep and creation, until
  somebody removes it (`src/crowdmark-files.mjs:66`), so that expired photos stay although
  `docs/crowdmark.md:106` has them removed.
- A Piazza password refused just before a restart is tried again after it, within the two
  minutes of `docs/piazza.md:42` (`src/piazza-session.mjs:251`).
- A sweep stopped between `<id>.json` and `<id>.encrypted` leaves a photo that no later
  sweep looks for (`src/crowdmark-files.mjs:78`).
- The read cache answers from the session before an import for up to 30 seconds
  (`gateway.mjs:757`).
- Overlapping downloads of one name may take one path and be answered it twice
  (`upstream/src/utils/download-helpers.ts:107`).
- A transcript job that cannot remove its temporary directory rejects inside its
  `finally`; the process only logs it, so every later request is told "busy" until a
  restart (`upstream/src/tools/media-reader.ts`, `upstream/src/index.ts:64`).
- Two imports at once may drop a worker without closing it.
- An owner rotation interrupted between its renames leaves a key whose token is only
  in the pending file; a second one like it loses that token (`scripts/owner.mjs:37`).
- A renewal killed before it saves the authenticator's counter may bring
  Duo an old one next time; a sign-in killed before it notes the refusal leaves no
  cooldown.

## Proofs

Eight modules hold theorems. `Loops` holds what is proved of numbers and loops in
general, for the others. `RoomBooking_proofs`, `Approvals_proofs` and
`MailStore_proofs` are about one component each. `Writes_proofs`, `Readers_proofs`,
`Accounts_proofs` and `Locks_proofs` are about the sums, and in them the definitions
and lemmas of an instance carry its two letters (`RWTextInv` speaks of `RW`,
the Racket workspaces; the component the sum extends has no prefix). They assume
only the named assumptions beside the constants: bounds are natural numbers, the name
for "nobody" names nobody, forms are not calls, who asks for the rooms does not book them
in the same call, rivals are pairs of users, a save gives a text question one text
(`crowdmark.mjs` refuses a question named twice), and a few sets are finite. Sets of calls, requests, messages, processes, users and
so on may be of any size.

The argument is the same throughout. The properties are not inductive; an `IInv` adds to
them what each place in the code may count on, `Init` implies it, each action
preserves it (one lemma per action, which says first what the action leaves to the other
actors), and the properties follow. In a sum, `AllInv` says that the component which
runs satisfies its invariant; a step of the sum is a step of that component, so one lemma
per component carries it over. What the invariants add:

**RoomBooking.** At most one call is past its lock (`OneHolder`); a call's copy of the
journal equals the disk but for its own request (`OthersKept`), which is why a
whole-file save loses nothing; for each label, what the call's record, the disk and
the library may be (`CallInv`); and what was sent is on disk as outstanding (`SentRecorded`,
`CheckoutOnce`). `KeepsLedger` maps every step to a step of the ledger or a stutter:
only `Click`, the saves of a confirmation or cancellation, and `Navigate` move the ledger.

**Approvals.** What each role may be doing (`RoleInv`), that a call about to write owns the
marker and is the only one (`UseInv`), that a text saying "approved" was consented to
(`ConsentInv`), that a late job stays harmless (`LateInv`), that an approval still
being requested has one writer (`RequestInv`), that a settled approval has no draft
that says pending (`PendingInv`), and, for approvals on which forms never overlapped,
that file, draft and answers agree (`LoneInv`).

**MailStore.** One task at a time is past its turn in the queue (`TurnInv`), and it has the
index as it is on disk and has written its files before the index names them
(`TaskInv`). The list in memory, or on its way there, is the index but for the one step between
the rename and the assignment (`CacheInv`). A message that is kept is found at the
place the limit leaves it, by the least place at which the sizes exceed it.
`KeepsMailbox` maps the save of the index to a delivery of `Mailbox` and every other step to a stutter.

**Writes.** `CrowdmarkWrite`: the marker is there before the edit and stays (`CWMarkInv`), the
approval is used before the first change and each place of a job knows how
many changes were sent (`CWSentInv`), and what is sent was compared with what was
approved (`CWWireInv`). `AnswersAreTrue` needs more: a save that is alone finds the
pages that its changes so far make of the approved ones, and of these changes only texts that were
there before may still be on the way (`CWAloneInv`); such a text changes nothing when
it arrives (`CWTextStays`). `CrowdmarkFiles`: a sweep removes only what had expired, and a
whole photo stays with its whole ticket (`CFSweepInv`, `CFPhotoInv`). `RacketWorkspace`: revisions
grow with every text, so that whoever knows a revision knows its text (`RWknown`), and what was
read under the lock stays true under it (`RWTextInv`); a run that found the runner free meets
there only itself or a run that was given up (`RWWaitInv`).

**Readers.** `GatewayClient`: the kept worker and the catalog are as new as every answer, a
page in the cache and the read under way as new as what was answered 30 seconds
before, and a call's worker is started. `ReadCache`: each request is ahead, held by one worker or answered once
(`RCAnswerInv`), and the two counters are the sizes of what runs (`RCCountInv`).
`BrowserPool`: `active` counts the readers, and the pool keeps the one browser that lives.
`SessionHttp` and `CrowdmarkSession`: the login in hand at each place of a read.
`PiazzaSession`: a read holds the saved account, and a refusal is followed by the wait.
`RoomCatalog`: the loop of `availableWindows` holds, after each slot, every run of free slots so
far (`ROFreeInv`), the cursor of `assertAvailable` has passed free slots only and keeps up
where all are free (`ROPassed`, `ROKeepsUp`), so that both come to the same bookings
(`ROOfferedRight`); an answer was made from the grid the call has read (`ROToldInv`).
`Portal`: a command has read what is there under its lock; a failed login that was dropped
is out of every window that is still open, which bounds the failures of every window (`POFailureInv`).

**Accounts.** `Tokens`: every token a server keeps, sends or mints from was saved (`CallOk`,
`MintOk`); the write lock has one holder, and what a mint compared under it stays so
until it has written (`Locks`), which with the order of the tokens of one browser
session gives `NewerLoginSurvives`. `SignIn`: while a challenge that was seen is owed an answer,
the wait is noted (`SIGuarded`). `Authenticator`: while nothing has gone wrong, one
run is past the lock, on the machine that has the key, and the counter on disk, on its
way there and in the browser is the one Duo saw last (`AUKeyInv`). `SecureState`: one key
encrypts all there is, the lock of a file is held by who writes it, and what is migrated is still
the newest (`SSOneKey`, `SSOk`). `Passwords`: who saves holds the lock, and has in hand
the newest password (`PWOneSaver`, `PWNewestInHand`).

**Locks.** `AuthLock`: no process is named twice in the chain of locks and
recovery locks (`NamesDiffer`), and a living one only where it holds the lock or a claim (`Named`). Until
the second kill at most one recovery is nested, and whoever retires a lock has its
claim (`FirstKill`). An acquisition that nobody disturbs finds dead owners
above it, each at its first attempt (`Undisturbed`), and there are fewer of them than
locks may nest. `LoneSucceeds` needs more than one attempt and no more kills than
`MaxDepth`; the code allows 3 attempts and 16 nested locks. `HolderNamed` ends
with the second kill, because with two it is false in general:
`auth_lock_stolen` shows the trace. `ApiClient`: the queue holds who waits, once
(`ACQueued`), who may still ask for a login has asked for none for its page (`ACLoginInv`), and what
was sent beyond the rate is missing in the bucket (`ACRateInv`). `Host`: a command that works holds the lock,
and what it knows is what the manifest says until it writes (`HOLockInv`, `HOAddInv`, `HOStartInv`).
`Downloads`: a name was free when it was chosen, so a file found there was
written by a call that was met (`DLCallInv`). `Transcripts`: a job that works runs alone, and
the memory has its entry or room for it (`TRJobInv`); that deleting and evicting entries
keeps the others, in their order, rests on a numbering of the entries that
stay (`TRRanks`).

**Loops.** The loops of `RoomCatalog` and `CrowdmarkWrite` are recursive functions over the
places of a list. The library's theorems on induction and recursion take an operator as a
parameter, which the provers cannot instantiate; `UpTo` and `LoopRuns` say the same of sets
and functions instead. `UpTo` is induction over an interval, from the least
element of a set of naturals (`Least`); `LoopRuns` gives a loop of n steps, each step a function, its
value after each step. `ROWidened`, `ROWalked` and `CWStored` apply them to the three loops.

### Only model-checked

- `RequestsEnd`, `ExpiredIsRemoved` and `WhatBeginsEnds`: liveness under fairness and `ENABLED` are
  beyond the prover.
- `HolderIsNamed` with two kills and one acquisition per process, the instance of `auth_lock`.

## Not modelled

- The Outlook tools, readers and parsers (`piazza.mjs`, `outlines.mjs`,
  `upstream/src/tools` apart from downloads and transcripts) keep no state; what a page says
  is one of a few outcomes of the read that fetched it.
- The other administration scripts (uploads from a local machine, checks, copies) are run by hand,
  one at a time; the wizard's questions and the configuration are left out.
- The Mail Worker and the runner appear as what the gateway sees of them; a
  transcript job's converter and recogniser as one step, though a killed process
  may leave them running.
- Cryptography is assumed to work: sealed files are their contents, and a key
  opens what it sealed. Disk contents are assumed to survive a kill of the
  process; a power failure that loses renamed files is outside the model, and the
  code does not sync. Two gateway processes for one user are outside too: the
  deployment runs one.
