---------------------------- MODULE PiazzaSession ----------------------------
(******************************************************************************)
(* The saved Piazza login (src/src/piazza-session.mjs): reads that renew it   *)
(* with the saved password at most once per two minutes, and the owner's      *)
(* form that replaces it.  Everything runs in one queue.                      *)
(******************************************************************************)
EXTENDS Naturals, Sequences

CONSTANTS
  Reads, Forms,
  accountOf,   \* the account each form connects
  NoAccount,
  MaxPending,  \* (the code: 4)
  MaxCrashes

VARIABLES
  saved,     \* session.encrypted.json: the account, and whether Piazza knows the session
  queue,     \* the calls, the first one running
  at,        \* what it does next
  state,     \* the login it works with
  cooling,   \* retryAfter is in the future
  answer,    \* the last answer of each call
  connected, \* the account of the last form whose login was saved (history)
  failures,  \* refused scripted logins within the same two minutes (history)
  crashes

vars == <<saved, queue, at, state, cooling, answer, connected, failures, crashes>>

-----------------------------------------------------------------------------

Callers == Reads \cup Forms

Accounts == {accountOf[f] : f \in Forms}

NoLogin == [account |-> NoAccount, live |-> FALSE]

Login == [account : Accounts \cup {NoAccount}, live : BOOLEAN]

Init ==
  /\ saved = NoLogin /\ state = NoLogin
  /\ queue = <<>> /\ at = "start" /\ cooling = FALSE
  /\ answer = [c \in Callers |-> "none"]
  /\ connected = NoAccount /\ failures = 0 /\ crashes = 0

\* Piazza ends the session.
Expire ==
  /\ saved.live /\ saved' = [saved EXCEPT !.live = FALSE]
  /\ UNCHANGED <<queue, at, state, cooling, answer, connected, failures, crashes>>

\* Two minutes pass without a scripted login.
Pass ==
  /\ cooling \/ failures > 0
  /\ cooling' = FALSE /\ failures' = 0
  /\ UNCHANGED <<saved, queue, at, state, answer, connected, crashes>>

\* exclusive
Begin(c) ==
  /\ c \notin {queue[i] : i \in DOMAIN queue}
  /\ IF Len(queue) >= MaxPending
     THEN answer' = [answer EXCEPT ![c] = "busy"] /\ UNCHANGED queue
     ELSE queue' = Append(queue, c) /\ answer' = [answer EXCEPT ![c] = "none"]
  /\ UNCHANGED <<saved, at, state, cooling, connected, failures, crashes>>

head == Head(queue)

End(what) ==
  /\ queue' = Tail(queue)
  /\ at' = "start" /\ state' = NoLogin
  /\ answer' = [answer EXCEPT ![head] = what]

Go(label, login) ==
  /\ at' = label /\ state' = login
  /\ UNCHANGED <<queue, answer>>

-----------------------------------------------------------------------------
(* connect *)

\* authenticate with what the form says; the session is new.
Authenticate ==
  /\ queue # <<>> /\ head \in Forms /\ at = "start"
  /\ \/ Go("save", [account |-> accountOf[head], live |-> TRUE])
     \/ End("failed")
  /\ UNCHANGED <<saved, cooling, connected, failures, crashes>>

SaveConnect ==
  /\ queue # <<>> /\ head \in Forms /\ at = "save"
  /\ \/ /\ saved' = state /\ cooling' = FALSE /\ failures' = 0
        /\ connected' = state.account
        /\ End("connected")
     \/ End("failed") /\ UNCHANGED <<saved, cooling, connected, failures>>
  /\ UNCHANGED crashes

-----------------------------------------------------------------------------
(* run *)

Load ==
  /\ queue # <<>> /\ head \in Reads /\ at = "start"
  /\ IF saved = NoLogin THEN End("failed") ELSE Go("try", saved) \/ End("failed")
  /\ UNCHANGED <<saved, cooling, connected, failures, crashes>>

\* The read succeeds, fails, or answers that the session is not known; the
\* second time the last is a failure too.
Try ==
  /\ at \in {"try", "retry"}
  /\ \/ state.live /\ End("ok")
     \/ End("failed")
     \/ /\ at = "try"
        /\ IF cooling THEN End("failed") ELSE Go("login", state)
  /\ UNCHANGED <<saved, cooling, connected, failures, crashes>>

\* The wait starts before the login, and ends when the new session is saved.
Relogin ==
  /\ at = "login"
  /\ cooling' = TRUE
  /\ \/ Go("resave", [state EXCEPT !.live = TRUE]) /\ UNCHANGED failures
     \/ End("failed") /\ failures' = failures + 1
  /\ UNCHANGED <<saved, connected, crashes>>

Resave ==
  /\ at = "resave"
  /\ \/ saved' = state /\ cooling' = FALSE /\ Go("retry", state)
     \/ End("failed") /\ UNCHANGED <<saved, cooling>>
  /\ UNCHANGED <<connected, failures, crashes>>

\* The process is killed; a save it had begun may have replaced the file.  The wait
\* is in memory only (retryAfter) and ends with the process.
Crash ==
  /\ crashes < MaxCrashes /\ crashes' = crashes + 1
  /\ queue' = <<>> /\ at' = "start" /\ state' = NoLogin /\ cooling' = FALSE
  /\ \/ UNCHANGED <<saved, connected>>
     \/ /\ at \in {"save", "resave"}
        /\ saved' = state
        /\ connected' = IF at = "save" THEN state.account ELSE connected
  /\ UNCHANGED <<answer, failures>>

Next ==
  \/ Expire \/ Pass
  \/ \E c \in Callers : Begin(c)
  \/ Authenticate \/ SaveConnect \/ Load \/ Try \/ Relogin \/ Resave \/ Crash

Spec == Init /\ [][Next]_vars

-----------------------------------------------------------------------------
(* Properties *)

TypeOK ==
  /\ saved \in Login /\ state \in Login /\ cooling \in BOOLEAN
  /\ at \in {"start", "save", "try", "login", "resave", "retry"}
  /\ answer \in [Callers -> {"none", "busy", "failed", "ok", "connected"}]
  /\ connected \in Accounts \cup {NoAccount}

\* The saved login is of the account the owner's last form connected: a read
\* that renews the login it loaded (run) never puts an older account back.
ConnectedAccountStands == connected # NoAccount => saved.account = connected

\* Each life of the process tries a password that Piazza refuses once in two minutes,
\* unless the owner connects again in between (retryAfter in run).  The wait is not
\* saved: within the two minutes docs/piazza.md:42 names, every restart allows one more
\* refused attempt, and no read does.
RefusedOncePerLife == failures <= 1 + crashes

=============================================================================
