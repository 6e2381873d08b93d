------------------------------- MODULE Tokens -------------------------------
(******************************************************************************)
(* The LEARN sign-in as its clients see it: D2LApiClient.withAuthentication   *)
(* (upstream/src/api/client.ts), the TokenManager of each server process,     *)
(* the SessionStore they share with the sign-in process, and the AuthRunner   *)
(* that starts it.  A token is the number of the access token in it;          *)
(* several may come from one browser session, whose cookies can be traded     *)
(* over HTTP for the next token.                                              *)
(******************************************************************************)
EXTENDS Naturals, Sequences

CONSTANTS
  Calls,     \* API requests being served
  Servers,   \* MCP server processes
  serverOf,  \* the server that serves a call
  Owner,     \* the owner, who may run brightspace-auth at any time
  MaxTokens, \* bound on the tokens issued
  MaxLogins  \* bound on the sign-ins that succeed

ASSUME ServersAssumption == serverOf \in [Calls -> Servers]
ASSUME OwnerIsApart == Owner \notin Servers
ASSUME LimitsAssumption == MaxTokens \in Nat \ {0} /\ MaxLogins \in Nat \ {0}

VARIABLES
  issued,    \* the browser session each token came from; 0: cookies not kept
  expired,   \* tokens that end within the refresh buffer
  dead,      \* browser sessions LEARN no longer knows
  disk,      \* session.json: a token, or 0
  locked,    \* .session-write.lock is held
  cached, rejected,  \* of each TokenManager; 0: null
  mint,      \* the mint in flight of each TokenManager
  login,     \* the sign-in process of each AuthRunner and of the owner
  call,      \* what each request is doing
  saved,     \* tokens that were in session.json
  logins

learnVars == <<issued, expired, dead>>
diskVars == <<disk, saved>>
managerVars == <<cached, rejected, mint>>
vars == <<issued, expired, dead, disk, locked, cached, rejected,
          mint, login, call, saved, logins>>

-----------------------------------------------------------------------------

Token == 1..MaxTokens
MaybeToken == 0..MaxTokens
Session == 0..MaxLogins
People == Servers \cup {Owner}

\* "ok" and "expired" are the mint's two certain answers.
Mint == [at: {"idle", "http", "recheck", "rechecked", "lock", "compare",
              "write", "written", "changed", "changedRead"},
         stale: MaybeToken,   \* the token whose cookies it uses
         token: MaybeToken,   \* the token LEARN gave, or 0: session expired
         seen: MaybeToken]    \* what it read from the disk

Login == [at: {"none", "browser", "lock", "save", "exit"},
          token: MaybeToken]  \* 0 at exit: it failed

\* turn: the token of the first request, the refreshed one, or the one that
\* a browser login gave.
Call == [at: {"get", "load", "loaded", "mint", "send", "login", "loggingIn",
              "done"},
         turn: {"first", "refresh", "last"},
         token: MaybeToken,     \* the token it sent, or sends
         reject: MaybeToken,    \* getToken's argument
         seen: MaybeToken,      \* what it read from the disk, or got
         refused: 0..2]         \* requests refused that it went on from

noMint == [at |-> "idle", stale |-> 0, token |-> 0, seen |-> 0]
noLogin == [at |-> "none", token |-> 0]
newCall == [at |-> "get", turn |-> "first", token |-> 0, reject |-> 0,
            seen |-> 0, refused |-> 0]

\* A saved sign-in, or none.
Init ==
  /\ issued \in {<<>>, <<1>>, <<0>>}
  /\ expired = {} /\ dead = {}
  /\ disk = Len(issued)
  /\ saved = DOMAIN issued
  /\ logins = Len(issued)
  /\ locked = FALSE
  /\ cached = [s \in Servers |-> 0]
  /\ rejected = [s \in Servers |-> 0]
  /\ mint = [s \in Servers |-> noMint]
  /\ login = [l \in People |-> noLogin]
  /\ call = [c \in Calls |-> newCall]

-----------------------------------------------------------------------------
(* What LEARN and the clock do *)

Expire ==
  /\ \E t \in DOMAIN issued \ expired : expired' = expired \cup {t}
  /\ UNCHANGED <<issued, dead, diskVars, locked, managerVars, login,
                 call, logins>>

EndSession ==
  /\ \E t \in DOMAIN issued : issued[t] \notin dead \cup {0} /\ dead' = dead \cup {issued[t]}
  /\ UNCHANGED <<issued, expired, diskVars, locked, managerVars, login,
                 call, logins>>

-----------------------------------------------------------------------------
(* TokenManager.getToken *)

isUsable(s, t) == t # 0 /\ t # rejected[s] /\ t \notin expired

\* Has the cookies that a mint needs.
mintable(t) == t # 0 /\ issued[t] # 0

Move(c, label) == call' = [call EXCEPT ![c].at = label]

\* A call that ends, with its answer or an error.
ended == [newCall EXCEPT !.at = "done"]

End(c) == call' = [call EXCEPT ![c] = ended]

\* What withAuthentication does next with the token, or null, that one of its
\* three getToken calls answers.
got(r, t) ==
  CASE t # 0 /\ ~(r.turn = "refresh" /\ t = r.token) ->
         [r EXCEPT !.at = "send", !.token = t, !.seen = 0]
    [] r.turn = "first" /\ t = 0 ->
         [r EXCEPT !.at = "login", !.seen = 0]
    [] r.turn = "refresh" /\ t \in {0, r.token} ->
         [r EXCEPT !.at = "login", !.reject = r.token, !.seen = t]
    [] r.turn = "last" /\ t = 0 -> ended

Got(c, t) == call' = [call EXCEPT ![c] = got(@, t)]

\* The rejection is noted and the memory cache looked at in one go.
GetToken(c) ==
  LET s == serverOf[c]
      slot == IF call[c].reject = 0 THEN rejected[s] ELSE call[c].reject IN
  /\ call[c].at = "get"
  /\ rejected' = [rejected EXCEPT ![s] = slot]
  /\ IF cached[s] \notin expired \cup {0, slot}
     THEN Got(c, cached[s]) ELSE Move(c, "load")
  /\ UNCHANGED <<learnVars, diskVars, locked, cached, mint, login, logins>>

\* SessionStore.load: the file is read, then decrypted, or it fails.
LoadRead(c) ==
  /\ call[c].at = "load"
  /\ \/ call' = [call EXCEPT ![c].at = "loaded", ![c].seen = disk]
     \/ End(c)
  /\ UNCHANGED <<learnVars, diskVars, locked, managerVars, login, logins>>

\* The token found is used, or its cookies are, in the mint in flight or in a
\* new one.
Loaded(c) ==
  LET s == serverOf[c]  t == call[c].seen IN
  /\ call[c].at = "loaded"
  /\ \/ /\ isUsable(s, t)
        /\ cached' = [cached EXCEPT ![s] = t]
        /\ Got(c, t)
        /\ UNCHANGED mint
     \/ /\ ~isUsable(s, t) /\ mintable(t)
        /\ IF mint[s].at = "idle"
           THEN mint' = [mint EXCEPT ![s] = [noMint EXCEPT !.at = "http", !.stale = t]]
           ELSE UNCHANGED mint
        /\ call' = [call EXCEPT ![c].at = "mint", ![c].seen = 0]
        /\ UNCHANGED cached
     \/ /\ ~isUsable(s, t) /\ ~mintable(t)
        /\ Got(c, 0)
        /\ UNCHANGED <<cached, mint>>
  /\ UNCHANGED <<learnVars, diskVars, locked, rejected, login, logins>>

-----------------------------------------------------------------------------
(* TokenManager.runMint *)

MintAt(s, label) == mint[s].at = label

MintMoves(s, label) == mint' = [mint EXCEPT ![s].at = label]

\* The mint's promise settles for every call that waits for it.
waiting(s) == {c \in Calls : serverOf[c] = s /\ call[c].at = "mint"}

Settle(s, t) ==
  /\ mint' = [mint EXCEPT ![s] = noMint]
  /\ call' = [c \in Calls |-> IF c \in waiting(s)
                THEN got(call[c], t) ELSE call[c]]

\* TokenRefreshError: the calls fail, and no browser login is started.
SettleError(s) ==
  /\ mint' = [mint EXCEPT ![s] = noMint]
  /\ call' = [c \in Calls |-> IF c \in waiting(s)
                THEN ended ELSE call[c]]

\* A live session gives a token, a dead one is recognized, and either may
\* look like a temporary failure.
MintAnswer(s) ==
  LET ses == issued[mint[s].stale] IN
  /\ MintAt(s, "http")
  /\ \/ /\ ses \notin dead
        /\ Len(issued) < MaxTokens
        /\ issued' = Append(issued, ses)
        /\ mint' = [mint EXCEPT ![s].at = "recheck", ![s].token = Len(issued) + 1]
        /\ UNCHANGED call
     \/ /\ ses \in dead
        /\ MintMoves(s, "recheck")
        /\ UNCHANGED <<issued, call>>
     \/ SettleError(s) /\ UNCHANGED issued
  /\ UNCHANGED <<expired, dead, diskVars, locked, cached, rejected,
                 login, logins>>

\* Mutant: a failed load leaves the waiting calls behind.
RecheckForgets(s) ==
  /\ MintAt(s, "recheck")
  /\ \/ mint' = [mint EXCEPT ![s].at = "rechecked", ![s].seen = disk]
     \/ mint' = [mint EXCEPT ![s] = noMint]
  /\ UNCHANGED <<learnVars, diskVars, locked, cached, rejected, login, call,
                 logins>>

\* The login of another process may have been saved meanwhile.
Recheck(s) ==
  /\ MintAt(s, "recheck")
  /\ \/ /\ mint' = [mint EXCEPT ![s].at = "rechecked", ![s].seen = disk]
        /\ UNCHANGED call
     \/ SettleError(s)
  /\ UNCHANGED <<learnVars, diskVars, locked, cached, rejected, login, logins>>

\* It wins over either result of the mint.
Rechecked(s) ==
  LET current == mint[s].seen IN
  /\ MintAt(s, "rechecked")
  /\ \/ /\ current \notin {0, mint[s].stale}
        /\ cached' = [cached EXCEPT ![s] = current]
        /\ IF isUsable(s, current) THEN Settle(s, current) ELSE SettleError(s)
     \/ /\ current \in {0, mint[s].stale}
        /\ MintMoves(s, "lock")
        /\ UNCHANGED <<cached, call>>
  /\ UNCHANGED <<learnVars, diskVars, locked, rejected, login, logins>>

\* saveIfCurrent and clearIfCurrent: the write lock, within 100 attempts.
MintLock(s) ==
  /\ MintAt(s, "lock")
  /\ \/ /\ ~locked
        /\ locked' = TRUE
        /\ MintMoves(s, "compare")
        /\ UNCHANGED call
     \/ /\ locked
        /\ SettleError(s)
        /\ UNCHANGED locked
  /\ UNCHANGED <<learnVars, diskVars, cached, rejected, login, logins>>

\* Mutant: save and clear instead of saveIfCurrent and clearIfCurrent.
CompareNothing(s) ==
  /\ MintAt(s, "compare")
  /\ MintMoves(s, "write")
  /\ UNCHANGED <<learnVars, diskVars, locked, cached, rejected, login, call,
                 logins>>

Compare(s) ==
  /\ MintAt(s, "compare")
  /\ IF disk = mint[s].stale
     THEN MintMoves(s, "write") /\ UNCHANGED locked
     ELSE MintMoves(s, "changed") /\ locked' = FALSE
  /\ UNCHANGED <<learnVars, diskVars, cached, rejected, login, call, logins>>

\* Mutant: a failed save is no reason not to use the token.
MintWriteAnyway(s) ==
  /\ MintAt(s, "write")
  /\ locked' = FALSE
  /\ disk' \in {disk, mint[s].token}
  /\ saved' = (saved \cup {disk'}) \ {0}
  /\ MintMoves(s, "written")
  /\ UNCHANGED <<learnVars, cached, rejected, login, call, logins>>

\* The new token is saved, or the dead session moved to the trash; an error may
\* come before or after that.
MintWrite(s) ==
  /\ MintAt(s, "write")
  /\ locked' = FALSE
  /\ \/ /\ disk' = mint[s].token
        /\ MintMoves(s, "written")
        /\ UNCHANGED call
     \/ disk' \in {disk, mint[s].token} /\ SettleError(s)
  /\ saved' = (saved \cup {disk'}) \ {0}
  /\ UNCHANGED <<learnVars, cached, rejected, login, logins>>

Written(s) ==
  /\ MintAt(s, "written")
  /\ cached' = [cached EXCEPT ![s] = mint[s].token]
  /\ rejected' = IF mint[s].token = 0 THEN rejected
                 ELSE [rejected EXCEPT ![s] = 0]
  /\ Settle(s, mint[s].token)
  /\ UNCHANGED <<learnVars, diskVars, locked, login, logins>>

\* afterConcurrentChange
ChangedRead(s) ==
  /\ MintAt(s, "changed")
  /\ \/ /\ mint' = [mint EXCEPT ![s].at = "changedRead", ![s].seen = disk]
        /\ UNCHANGED call
     \/ SettleError(s)
  /\ UNCHANGED <<learnVars, diskVars, locked, cached, rejected, login, logins>>

Changed(s) ==
  LET current == mint[s].seen IN
  /\ MintAt(s, "changedRead")
  /\ cached' = [cached EXCEPT ![s] = current]
  /\ IF isUsable(s, current) THEN Settle(s, current) ELSE SettleError(s)
  /\ UNCHANGED <<learnVars, diskVars, locked, rejected, login, logins>>

-----------------------------------------------------------------------------
(* D2LApiClient.withAuthentication *)

\* LEARN may refuse any token.  A 401 leads on to a refresh, then to a login,
\* then to an error; any other answer ends the call.
Send(c) ==
  /\ call[c].at = "send"
  /\ \/ End(c)
     \/ /\ call[c].turn = "first"
        /\ call' = [call EXCEPT ![c].at = "get", ![c].turn = "refresh",
                                ![c].reject = call[c].token, ![c].refused = @ + 1]
     \/ /\ call[c].turn = "refresh"
        /\ call' = [call EXCEPT ![c].at = "login",
                                ![c].reject = call[c].token, ![c].refused = @ + 1]
  /\ UNCHANGED <<learnVars, diskVars, locked, managerVars, login, logins>>

\* AuthRunner.run: one sign-in process per server.
RunLogin(c) ==
  LET s == serverOf[c] IN
  /\ call[c].at = "login"
  /\ IF login[s].at = "none"
     THEN /\ login' = [login EXCEPT ![s].at = "browser"]
          /\ call' = [call EXCEPT ![c].at = "loggingIn", ![c].seen = 0]
     ELSE End(c) /\ UNCHANGED login
  /\ UNCHANGED <<learnVars, diskVars, locked, managerVars, logins>>

\* Mutant: the call does not remember that it has logged in.
LoginEndsAnew(c) ==
  LET s == serverOf[c] IN
  /\ call[c].at = "loggingIn"
  /\ login[s].at = "exit"
  /\ login' = [login EXCEPT ![s] = noLogin]
  /\ IF login[s].token # 0 THEN Move(c, "get") ELSE End(c)
  /\ UNCHANGED <<learnVars, diskVars, locked, managerVars, logins>>

\* The process has exited: the token it saved is looked for, or the call fails.
LoginEnds(c) ==
  LET s == serverOf[c] IN
  /\ call[c].at = "loggingIn"
  /\ login[s].at = "exit"
  /\ login' = [login EXCEPT ![s] = noLogin]
  /\ IF login[s].token # 0
     THEN call' = [call EXCEPT ![c].at = "get", ![c].turn = "last"]
     ELSE End(c)
  /\ UNCHANGED <<learnVars, diskVars, locked, managerVars, logins>>

-----------------------------------------------------------------------------
(* The sign-in process: BrowserAuth.authenticate and TokenManager.setToken *)

OwnerLogin ==
  /\ login[Owner].at = "none"
  /\ logins < MaxLogins
  /\ login' = [login EXCEPT ![Owner].at = "browser"]
  /\ UNCHANGED <<learnVars, diskVars, locked, managerVars, call, logins>>

signingIn(l) == login[l].at \in {"lock", "save"}

\* Under .auth.lock; it may be refused by the lock, the cooldown or LEARN.
\* Without the cookies the token cannot be refreshed over HTTP.
SignIn(l) ==
  /\ login[l].at = "browser"
  /\ \/ /\ \A k \in People : ~signingIn(k)
        /\ logins < MaxLogins /\ Len(issued) < MaxTokens
        /\ \E ses \in {0, logins + 1} : issued' = Append(issued, ses)
        /\ logins' = logins + 1
        /\ login' = [login EXCEPT ![l] = [at |-> "lock", token |-> Len(issued) + 1]]
     \/ /\ login' = [login EXCEPT ![l].at = "exit"]
        /\ UNCHANGED <<issued, logins>>
  /\ UNCHANGED <<expired, dead, diskVars, locked, managerVars, call>>

SaveLock(l) ==
  /\ login[l].at = "lock"
  /\ \/ /\ ~locked
        /\ locked' = TRUE
        /\ login' = [login EXCEPT ![l].at = "save"]
     \/ /\ login' = [login EXCEPT ![l] = [at |-> "exit", token |-> 0]]
        /\ UNCHANGED locked
  /\ UNCHANGED <<learnVars, diskVars, managerVars, call, logins>>

\* The file is replaced in one rename.  The save may fail, or a timeout kill the
\* process; its lock is then recovered as a dead owner's.
SaveLogin(l) ==
  /\ login[l].at = "save"
  /\ locked' = FALSE
  /\ \/ disk' = login[l].token /\ login' = [login EXCEPT ![l].at = "exit"]
     \/ /\ disk' \in {disk, login[l].token}
        /\ login' = [login EXCEPT ![l] = [at |-> "exit", token |-> 0]]
  /\ saved' = (saved \cup {disk'}) \ {0}
  /\ UNCHANGED <<learnVars, managerVars, call, logins>>

OwnerDone ==
  /\ login[Owner].at = "exit"
  /\ login' = [login EXCEPT ![Owner] = noLogin]
  /\ UNCHANGED <<learnVars, diskVars, locked, managerVars, call, logins>>

-----------------------------------------------------------------------------

CallStep(c) ==
  \/ GetToken(c) \/ LoadRead(c) \/ Loaded(c) \/ Send(c)
  \/ RunLogin(c) \/ LoginEnds(c)

MintStep(s) ==
  \/ MintAnswer(s) \/ Recheck(s) \/ Rechecked(s) \/ MintLock(s) \/ Compare(s)
  \/ MintWrite(s) \/ Written(s) \/ ChangedRead(s) \/ Changed(s)

LoginStep(l) == SignIn(l) \/ SaveLock(l) \/ SaveLogin(l)

Next ==
  \/ \E c \in Calls : CallStep(c)
  \/ \E s \in Servers : MintStep(s)
  \/ \E l \in People : LoginStep(l)
  \/ OwnerLogin \/ OwnerDone
  \/ Expire \/ EndSession

Spec == Init /\ [][Next]_vars

-----------------------------------------------------------------------------

\* Values stay in their types; in particular a call goes on from at most two
\* refused requests: after a refresh and a login there is only an error.
TypeOK ==
  /\ issued \in Seq(Session) /\ Len(issued) <= MaxTokens
  /\ expired \subseteq Token
  /\ dead \subseteq Session
  /\ disk \in MaybeToken
  /\ locked \in BOOLEAN
  /\ saved \subseteq Token
  /\ cached \in [Servers -> MaybeToken]
  /\ rejected \in [Servers -> MaybeToken]
  /\ mint \in [Servers -> Mint]
  /\ login \in [People -> Login]
  /\ call \in [Calls -> Call]
  /\ logins \in 0..MaxLogins

\* A call that waits for a mint or a sign-in is waited on: the mint is in
\* flight, the process of its own server running, so its answer will come.
NobodyWaitsInVain ==
  \A c \in Calls :
    /\ call[c].at = "mint" => mint[serverOf[c]].at # "idle"
    /\ call[c].at = "loggingIn" => login[serverOf[c]].at # "none"

\* A token is used only once it is saved: one minted from a session that a
\* newer login has replaced, or one that could not be saved, is dropped.
OnlySavedTokensAreUsed ==
  /\ \A s \in Servers : cached[s] \in saved \cup {0}
  /\ \A c \in Calls : call[c].token \in saved \cup {0}

savedByLogin == \E l \in People : login[l].at = "save" /\ disk' = login[l].token

refreshed == disk' > disk /\ issued[disk'] = issued[disk]

clearedDead == disk' = 0 /\ issued[disk] \in dead

\* A slow mint never replaces or clears what a newer login saved: without a
\* login the saved token only gives way to a later one of the same browser
\* session, and is removed only when LEARN has ended that session.
NewerLoginSurvives ==
  [][savedByLogin \/ (disk # 0 /\ (refreshed \/ clearedDead))]_disk

\* token-manager.test.ts, "refreshes a rejected JWT": getToken(t) answers
\* another token or none, so that the login comes after a refresh was tried.
RejectedIsNotHandedBack ==
  \A c \in Calls :
    call[c].at = "login" /\ call[c].turn = "refresh" => call[c].seen # call[c].token

=============================================================================
