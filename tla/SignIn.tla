------------------------------- MODULE SignIn --------------------------------
(******************************************************************************)
(* The headless Brightspace sign-in (src/upstream/src/auth/browser-auth.ts,   *)
(* purdue-sso.ts, suny-sso.ts, auth-cooldown.ts, browser-state-store.ts).     *)
(* Runs take turns under the authentication lock (module AuthLock).  The      *)
(* identity provider moves the page whenever it likes; the code polls it.     *)
(* Times are events: a poll may always be the last before its deadline.       *)
(******************************************************************************)
EXTENDS Naturals, FiniteSets

CONSTANTS
  Logins,       \* the runs of the authentication program
  Automatic,    \* those no person started
  NoLoginRun,
  MaxFaults     \* kills and failed writes

VARIABLES
  runner,     \* the run that holds the lock
  pc,         \* what it does next
  page,       \* what the browser shows
  account,    \* what the configuration saves: nothing, a name, or also a password
  campus,     \* a SUNY campus is configured (FALSE: the school needs none, or has none)
  hinted,     \* accountHintAttempted, accountHintSubmitted
  polls,      \* passwordPromptPolls
  pushed,     \* this run has shown an MFA challenge that nobody has approved yet
  challenged, \* a poll of handleMFA has seen one
  found,      \* the token, and how it was found
  cooling,    \* auth-status.json: retryAt is in the future
  stored,     \* storage-state.encrypted.json: the saved cookies
  owing,      \* an earlier run left one, seen or missed by handleMFA (history)
  faults      \* (bound and history)

vars == <<runner, pc, page, account, campus, hinted, polls, pushed, challenged,
          found, cooling, stored, owing, faults>>

config == <<account, campus>>
screen == <<page, pushed>>
attempt == <<hinted, polls, challenged, found>>
disk == <<cooling, stored>>
history == <<owing, faults>>

-----------------------------------------------------------------------------

\* "shell" is /d2l/login, "home" the verified /d2l/home, "suny" the campus
\* dropdown, "kmsi" the page "Stay signed in?".
Pages == {"shell", "suny", "email", "password", "mfa", "kmsi", "home", "other"}

emailFields == {"email"}
credentialFields == {"password"}
mfaChallenges == {"mfa"}

hasLiveSession == page = "home"

\* Microsoft asks to stay signed in, and Brightspace opens, after an approval.
Turn(p) ==
  /\ page' = p
  /\ pushed' = (p \in mfaChallenges \/ (pushed /\ p \notin {"kmsi", "home"}))

Strategies == {"local", "nudge", "xsrf", "cookie", "captured"}

After(strategy) ==
  CASE strategy = "local" -> "nudge"
    [] strategy = "nudge" -> "xsrf"
    [] strategy = "xsrf" -> "cookie"
    [] strategy = "cookie" -> "captured"

hasCredentials == account = "password"

Init ==
  /\ runner = NoLoginRun /\ pc = "idle" /\ page = "other"
  /\ account \in {"none", "name", "password"} /\ campus \in BOOLEAN
  /\ hinted = FALSE /\ polls = 0 /\ pushed = FALSE /\ challenged = FALSE /\ found = "none"
  /\ cooling = FALSE /\ stored \in {"none", "login"}
  /\ owing = "none" /\ faults = 0

\* What the runs up to this one leave unanswered.
left == IF challenged THEN "seen" ELSE IF pushed /\ owing = "none" THEN "missed" ELSE owing

\* The finally blocks: the browser is closed and the lock released.
End(what) ==
  /\ runner' = NoLoginRun /\ pc' = "idle" /\ page' = "other" /\ pushed' = FALSE
  /\ hinted' = FALSE /\ polls' = 0 /\ challenged' = FALSE /\ found' = "none"
  /\ owing' = IF what = "ok" THEN "none" ELSE left

Go(label) == pc' = label /\ UNCHANGED <<runner, owing>>

\* The page moves on its own: redirects, approvals on the phone, time-outs.
Move ==
  /\ pc \in {"silent", "wait", "decide", "login", "name", "password", "mfa", "verify"}
  /\ \E p \in Pages \ {page} : Turn(p)
  /\ UNCHANGED <<runner, pc, config, attempt, disk, history>>

\* Four hours pass.
WaitIsOver ==
  /\ cooling \/ owing # "none"
  /\ cooling' = FALSE /\ owing' = "none"
  /\ UNCHANGED <<runner, pc, screen, config, attempt, stored, faults>>

-----------------------------------------------------------------------------
(* authenticate *)

Acquire(r) ==
  /\ runner = NoLoginRun
  /\ runner' = r
  /\ pc' = IF r \in Automatic THEN "allowed" ELSE "load"
  /\ UNCHANGED <<screen, config, attempt, disk, history>>

\* assertAllowed
Allowed ==
  /\ pc = "allowed"
  /\ IF cooling THEN End("cooldown")
     ELSE Go("load") /\ UNCHANGED <<screen, attempt>>
  /\ UNCHANGED <<config, disk, faults>>

\* BrowserStateStore.load, the launch and the first navigation.  A navigation
\* that timed out is followed up like one that arrived.
LoadState ==
  /\ pc = "load"
  /\ \/ /\ Go("silent")
        /\ \E p \in Pages : Turn(p)
        /\ UNCHANGED attempt
     \/ End("failed")
  /\ UNCHANGED <<config, disk, faults>>

-----------------------------------------------------------------------------
(* awaitSilentSSO *)

\* The account name alone, so that a session Microsoft still knows resumes.
IdentifyAccount ==
  /\ page \in emailFields /\ ~hinted /\ account # "none"
  /\ \/ hinted' = TRUE /\ Go("wait")
     \/ Go("decide") /\ UNCHANGED hinted
  /\ UNCHANGED <<screen, polls, challenged, found>>

\* Only a visible challenge justifies entering credentials; a password field
\* has to be seen twice in a row.
NeedsLogin ==
  /\ \/ page \in emailFields /\ (hinted \/ account = "none")
     \/ page \in mfaChallenges
     \/ page \in credentialFields /\ polls = 1
  /\ Go("decide")
  /\ UNCHANGED <<screen, attempt>>

SeePassword ==
  /\ page \in credentialFields /\ polls = 0
  /\ polls' = 1 /\ Go("wait")
  /\ UNCHANGED <<screen, hinted, challenged, found>>

\* clickSilentSurfaces: the campus buttons, the SUNY dropdown and "Stay signed
\* in?"; only the dropdown without a configured campus is a refusal.
ClickSurfaces ==
  /\ page \in {"shell", "suny", "kmsi", "other"}
  /\ \/ /\ polls' = 0 /\ Go("wait")
        /\ \E p \in Pages : Turn(p)
        /\ UNCHANGED <<hinted, challenged, found>>
     \/ page \in {"shell", "suny"} /\ ~campus /\ End("unsupported")
     \/ End("transport")

\* The look at the home page may fail itself: a redirect can replace its context.
Silent ==
  /\ pc = "silent"
  /\ \/ hasLiveSession /\ Go("state") /\ UNCHANGED <<screen, attempt>>
     \/ IdentifyAccount
     \/ NeedsLogin
     \/ SeePassword
     \/ ClickSurfaces
     \/ hasLiveSession /\ End("transport")
  /\ UNCHANGED <<config, disk, faults>>

\* The second until the next poll, which the deadline may come before.
Wait ==
  /\ pc = "wait"
  /\ \/ Go("silent") /\ UNCHANGED <<screen, attempt>>
     \/ End("transport")
  /\ UNCHANGED <<config, disk, faults>>

-----------------------------------------------------------------------------
(* navigateAndLogin after the silent window, and the login of the school *)

Decide ==
  /\ pc = "decide"
  /\ IF page \notin mfaChallenges
        /\ page \notin emailFields \cup credentialFields THEN End("transport")
     ELSE IF page \notin mfaChallenges /\ ~hasCredentials THEN End("unsupported")
     ELSE Go("login") /\ UNCHANGED <<screen, attempt>>
  /\ UNCHANGED <<config, disk, faults>>

\* The campus pages first; a restored session may be past the credentials.
Login ==
  /\ pc = "login"
  /\ \/ /\ Go(IF page \in mfaChallenges \cup {"kmsi", "home"} THEN "mfa"
              ELSE IF hinted THEN "password" ELSE "name")
        /\ UNCHANGED <<screen, attempt>>
     \/ End("unsupported")
  /\ UNCHANGED <<config, disk, faults>>

\* enterCredentials and actWhenReady: each field has 30 seconds to appear.
EnterName ==
  /\ pc = "name"
  /\ \/ page \in emailFields /\ account = "password" /\ Go("password") /\ UNCHANGED <<screen, attempt>>
     \/ End("unsupported")
  /\ UNCHANGED <<config, disk, faults>>

EnterPassword ==
  /\ pc = "password"
  /\ \/ /\ page \in credentialFields /\ account = "password"
        /\ hinted' = FALSE /\ Go("mfa")
        /\ \E p \in Pages : Turn(p)
        /\ UNCHANGED <<polls, challenged, found>>
     \/ End("unsupported")
  /\ UNCHANGED <<config, disk, faults>>

\* Mutant: only a challenge on screen counts.
shownNow == page \in mfaChallenges

\* A poll has seen a challenge: an error now is a failed approval.
shown == challenged

\* One round of handleMFA.  An error after a poll saw a challenge counts as a
\* failed approval, like the end of the five minutes; one that no poll saw does not.
HandleMFA ==
  /\ pc = "mfa"
  /\ \/ /\ hasLiveSession /\ challenged' = FALSE /\ Go("verify")
        /\ UNCHANGED <<screen, hinted, polls, found>>
     \/ /\ ~hasLiveSession /\ challenged' = (challenged \/ page \in mfaChallenges) /\ Go("mfa")
        /\ UNCHANGED <<screen, hinted, polls, found>>
     \/ IF shown
        THEN Go("record") /\ UNCHANGED <<screen, attempt>>
        ELSE End("unsupported")
  /\ UNCHANGED <<config, disk, faults>>

\* recordMfaFailure
Record ==
  /\ pc = "record"
  /\ \/ cooling' = TRUE /\ UNCHANGED faults
     \/ faults < MaxFaults /\ faults' = faults + 1 /\ UNCHANGED cooling
  /\ End("mfa failed")
  /\ UNCHANGED <<config, stored>>

Verify ==
  /\ pc = "verify"
  /\ \/ hasLiveSession /\ Go("state") /\ UNCHANGED <<screen, attempt>>
     \/ End("failed")
  /\ UNCHANGED <<config, disk, faults>>

-----------------------------------------------------------------------------
(* attemptAuthentication after the sign-in *)

\* BrowserStateStore.save comes before the token: a token that cannot be had
\* must not cost the new cookies.
SaveState ==
  /\ pc = "state"
  /\ \/ /\ stored' = "login"
        /\ Go("mint") /\ UNCHANGED <<screen, attempt, faults>>
     \/ faults < MaxFaults /\ faults' = faults + 1 /\ End("failed") /\ UNCHANGED stored
  /\ UNCHANGED <<config, cooling>>

\* harvestSessionMaterial and mintAccessToken; without the cookies or the XSRF
\* token the strategies below are tried.
Mint ==
  /\ pc = "mint"
  /\ \/ found' = "minted" /\ Go("hand over") /\ UNCHANGED <<screen, hinted, polls, challenged>>
     \/ found' = "local" /\ Go("extract") /\ UNCHANGED <<screen, hinted, polls, challenged>>
     \/ End("transport")
     \/ End("failed")
  /\ UNCHANGED <<config, disk, faults>>

\* The answer of validateToken to the token a strategy found, if it found one.
Verdicts == {"none", "accepted", "refused", "unreachable"}

\* tryExtractToken, and the token captured from the page's own requests last.
Extract ==
  /\ pc = "extract"
  /\ \E verdict \in Verdicts :
       CASE verdict = "accepted" ->
              Go("hand over") /\ UNCHANGED <<screen, attempt>>
         [] verdict = "unreachable" -> End("transport")
         [] verdict \in {"none", "refused"} ->
              IF found = "captured" THEN End("no token")
              ELSE /\ found' = After(found) /\ Go("extract")
                   /\ UNCHANGED <<screen, hinted, polls, challenged>>
  /\ UNCHANGED <<config, disk, faults>>

\* An interrupt; onAuthenticated saves the session; then the wait is cleared.
HandOver ==
  /\ pc = "hand over"
  /\ \/ cooling' = FALSE /\ End("ok") /\ UNCHANGED faults
     \/ /\ faults < MaxFaults /\ faults' = faults + 1
        /\ End("failed") /\ UNCHANGED cooling
  /\ UNCHANGED <<config, stored>>

Kill ==
  /\ runner # NoLoginRun /\ faults < MaxFaults /\ faults' = faults + 1
  /\ End("killed")
  /\ UNCHANGED <<config, disk>>

-----------------------------------------------------------------------------

Next ==
  \/ \E r \in Logins : Acquire(r)
  \/ Move \/ WaitIsOver \/ Allowed \/ LoadState \/ Silent \/ Wait \/ Decide \/ Login
  \/ EnterName \/ EnterPassword \/ HandleMFA \/ Record \/ Verify
  \/ SaveState \/ Mint \/ Extract \/ HandOver \/ Kill

Spec == Init /\ [][Next]_vars

-----------------------------------------------------------------------------
(* Properties *)

TypeOK ==
  /\ runner \in Logins \cup {NoLoginRun} /\ page \in Pages
  /\ account \in {"none", "name", "password"} /\ campus \in BOOLEAN
  /\ hinted \in BOOLEAN /\ polls \in 0..1 /\ pushed \in BOOLEAN /\ challenged \in BOOLEAN
  /\ found \in Strategies \cup {"none", "minted"}
  /\ cooling \in BOOLEAN /\ stored \in {"none", "login"}
  /\ owing \in {"none", "missed", "seen"} /\ faults \in 0..MaxFaults

\* After a challenge that a poll of handleMFA saw and nobody approved no automatic
\* run opens the browser again before the wait is over, unless the run was killed
\* or its note could not be written.
NoSecondPush ==
  (owing = "seen" /\ faults = 0 /\ runner \in Automatic) => pc = "allowed"

\* auth-runner.ts:201: "Automatic MFA is paused after an unsuccessful attempt",
\* whoever saw the challenge: browser-auth.ts:78 knows that a redirect with
\* cookies alone can push.
NoPushAfterAnother ==
  (owing # "none" /\ faults = 0 /\ runner \in Automatic) => pc = "allowed"

=============================================================================
