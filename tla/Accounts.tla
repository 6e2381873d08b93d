------------------------------- MODULE Accounts -------------------------------
(* Two requests of one server process and the owner's sign-in, and the components
   that hold secrets: the sign-in itself, the authenticator, the keys and files and the
   setup of an account.  One component runs at a time: each has its own
   state and its own bounds, and part says which one runs. *)
EXTENDS Tokens

VARIABLE part  \* the component that runs

\* Sign-ins of the authentication program.
CONSTANTS siLogins, siAutomatic, siNoLoginRun, siMaxFaults
ASSUME SignInAssumption ==
  siNoLoginRun \notin siLogins /\ siAutomatic \subseteq siLogins /\ siMaxFaults \in Nat
VARIABLES siRunner, siPc, siPage, siAccount, siCampus, siHinted, siPolls,
  siPushed, siChallenged, siFound, siCooling, siStored, siOwing, siFaults

siVars == <<siRunner, siPc, siPage, siAccount, siCampus, siHinted, siPolls,
  siPushed, siChallenged, siFound, siCooling, siStored, siOwing, siFaults>>

SI == INSTANCE SignIn WITH Logins <- siLogins, Automatic <- siAutomatic,
  NoLoginRun <- siNoLoginRun, MaxFaults <- siMaxFaults, runner <- siRunner,
  pc <- siPc, page <- siPage, account <- siAccount, campus <- siCampus,
  hinted <- siHinted, polls <- siPolls, pushed <- siPushed, challenged <- siChallenged,
  found <- siFound, cooling <- siCooling, stored <- siStored, owing <- siOwing,
  faults <- siFaults

\* The Duo authenticator of the scripts.
CONSTANTS auRuns, auMaxCounter, auMaxFaults
ASSUME CounterAssumption == auMaxCounter \in Nat \ {0}
VARIABLES auDisk, auLock, auCookies, auCooling, auDeployed, auRun, auMemory,
  auWrites, auSaveFailed, auDuo, auBroken, auSession, auRaced, auFaults

auVars == <<auDisk, auLock, auCookies, auCooling, auDeployed, auRun, auMemory,
  auWrites, auSaveFailed, auDuo, auBroken, auSession, auRaced, auFaults>>

AU == INSTANCE Authenticator WITH Runs <- auRuns, MaxCounter <- auMaxCounter,
  MaxFaults <- auMaxFaults, disk <- auDisk, lock <- auLock,
  cookies <- auCookies, cooling <- auCooling, deployed <- auDeployed,
  run <- auRun, memory <- auMemory, writes <- auWrites,
  saveFailed <- auSaveFailed, duo <- auDuo, broken <- auBroken,
  session <- auSession, raced <- auRaced, faults <- auFaults

\* The key and the encrypted files.
CONSTANTS ssProcs, ssKeys, ssMaxFaults
ASSUME KeysAssumption == "none" \notin ssProcs \cup ssKeys
VARIABLES ssVault, ssLocks, ssFiles, ssLatest, ssAt, ssTodo, ssHolds, ssFaults

ssVars == <<ssVault, ssLocks, ssFiles, ssLatest, ssAt, ssTodo, ssHolds,
  ssFaults>>

SS == INSTANCE SecureState WITH Procs <- ssProcs, Keys <- ssKeys,
  MaxFaults <- ssMaxFaults, vault <- ssVault, locks <- ssLocks,
  files <- ssFiles, latest <- ssLatest, at <- ssAt, todo <- ssTodo,
  holds <- ssHolds, faults <- ssFaults

\* The setup of an account.
CONSTANTS pwAccounts, pwSetups, pwStarts, pwMaxFaults
ASSUME PasswordsAssumption ==
  "none" \notin pwAccounts \cup pwSetups \cup pwStarts /\ pwMaxFaults \in Nat
VARIABLES pwConfig, pwVault, pwLock, pwAt, pwAccount, pwNumber, pwCount,
  pwSaved, pwClient, pwFaults

pwVars == <<pwConfig, pwVault, pwLock, pwAt, pwAccount, pwNumber, pwCount,
  pwSaved, pwClient, pwFaults>>

PW == INSTANCE Passwords WITH Accounts <- pwAccounts, Setups <- pwSetups,
  Starts <- pwStarts, MaxFaults <- pwMaxFaults, config <- pwConfig,
  vault <- pwVault, lock <- pwLock, at <- pwAt, account <- pwAccount,
  number <- pwNumber, count <- pwCount, saved <- pwSaved, client <- pwClient,
  faults <- pwFaults

-----------------------------------------------------------------------------
(* One component runs; the variables of the others are 0. *)

Parts == {"tokens", "signin", "authenticator", "state", "passwords"}

AllInit ==
  /\ part \in Parts /\ Init
  /\ (part = "tokens" \/ issued = <<>>)
  /\ \/ part = "signin" /\ SI!Init
     \/ part # "signin" /\ siRunner = 0 /\ siPc = 0 /\ siPage = 0 /\
        siAccount = 0 /\ siCampus = 0 /\ siHinted = 0 /\ siPolls = 0 /\
        siPushed = 0 /\ siChallenged = 0 /\ siFound = 0 /\ siCooling = 0 /\ siStored = 0 /\
        siOwing = 0 /\ siFaults = 0
  /\ \/ part = "authenticator" /\ AU!Init
     \/ part # "authenticator" /\ auDisk = 0 /\ auLock = 0 /\ auCookies = 0 /\
        auCooling = 0 /\ auDeployed = 0 /\ auRun = 0 /\ auMemory = 0 /\
        auWrites = 0 /\ auSaveFailed = 0 /\ auDuo = 0 /\ auBroken = 0 /\
        auSession = 0 /\ auRaced = 0 /\ auFaults = 0
  /\ \/ part = "state" /\ SS!Init
     \/ part # "state" /\ ssVault = 0 /\ ssLocks = 0 /\ ssFiles = 0 /\
        ssLatest = 0 /\ ssAt = 0 /\ ssTodo = 0 /\ ssHolds = 0 /\ ssFaults = 0
  /\ \/ part = "passwords" /\ PW!Init
     \/ part # "passwords" /\ pwConfig = 0 /\ pwVault = 0 /\ pwLock = 0 /\
        pwAt = 0 /\ pwAccount = 0 /\ pwNumber = 0 /\ pwCount = 0 /\
        pwSaved = 0 /\ pwClient = 0 /\ pwFaults = 0

TokensStep ==
  part = "tokens" /\ Next /\ UNCHANGED <<part, siVars, auVars, ssVars, pwVars>>

SigninStep ==
  part = "signin" /\ SI!Next /\ UNCHANGED <<part, vars, auVars, ssVars,
    pwVars>>

AuthenticatorStep ==
  part = "authenticator" /\ AU!Next /\ UNCHANGED <<part, vars, siVars, ssVars,
    pwVars>>

StateStep ==
  part = "state" /\ SS!Next /\ UNCHANGED <<part, vars, siVars, auVars, pwVars>>

PasswordsStep ==
  part = "passwords" /\ PW!Next /\ UNCHANGED <<part, vars, siVars, auVars,
    ssVars>>

AllNext ==
  \/ TokensStep \/ SigninStep \/ AuthenticatorStep \/ StateStep
  \/ PasswordsStep

allVars == <<part, vars, siVars, auVars, ssVars, pwVars>>

AllSpec == AllInit /\ [][AllNext]_allVars

-----------------------------------------------------------------------------

\* Values stay in their types, in every component.
AccountsTyped ==
  CASE part = "tokens" -> TypeOK
    [] part = "signin" -> SI!TypeOK
    [] part = "authenticator" -> AU!TypeOK
    [] part = "state" -> SS!TypeOK
    [] part = "passwords" -> PW!TypeOK

\* browser-auth.ts and auth-cooldown.ts: no second push for a challenge that handleMFA
\* saw unanswered.  authenticator.mjs, renew.mjs, enroll.mjs and deploy.mjs: no old
\* counter shown to Duo.
DuoIsSpared ==
  /\ part = "signin" => SI!NoSecondPush
  /\ part = "authenticator" => AU!KeyStaysValid

\* credential-store.ts, session-store.ts, legacy-state.ts, secure-config.ts: no key,
\* session, browser state or password is lost or replaced by an older one.
SecretsSurvive ==
  /\ part = "state" => SS!NothingIsLost
  /\ part = "passwords" => PW!PasswordIsTheLatest

=============================================================================
