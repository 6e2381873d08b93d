------------------------------ MODULE Passwords ------------------------------
(******************************************************************************)
(* The school password of the stand-alone server: the setup wizard            *)
(* (src/upstream/src/setup.ts) saves it in the operating system's credential  *)
(* store and the rest in config.json; every start of a server moves a         *)
(* password that version 1 left in config.json (utils/secure-config.ts).      *)
(* Passwords are numbered in the order in which their saves got the lock.     *)
(******************************************************************************)
EXTENDS Naturals

CONSTANTS
  Accounts,
  Setups,       \* runs of the wizard
  Starts,       \* starts of a server
  MaxFaults     \* kills, and refusals of the credential store or the disk

VARIABLES
  config,     \* config.json: the account, and the password of version 1 or 0
  vault,      \* each account's password in the credential store, or 0
  lock,       \* who holds .config-write.lock
  at, account, number, \* where each process is; its account and its password
  count,      \* passwords numbered
  saved,      \* the password of the last setup that was told "saved" (history)
  client,     \* the servers in an MCP client's configuration file, or "torn"
  faults

vars == <<config, vault, lock, at, account, number, count, saved, client, faults>>

-----------------------------------------------------------------------------

Nil == "none"

Procs == Setups \cup Starts

\* Nothing set up, a version 1 configuration, or a current one.
Init ==
  /\ \E a \in Accounts :
       \/ config = [account |-> Nil, password |-> 0] /\ vault = [b \in Accounts |-> 0]
       \/ config = [account |-> a, password |-> 1] /\ vault = [b \in Accounts |-> 0]
       \/ /\ config = [account |-> a, password |-> 0]
          /\ vault = [b \in Accounts |-> IF b = a THEN 1 ELSE 0]
  /\ lock = Nil /\ at = [p \in Procs |-> "idle"]
  /\ account = [p \in Procs |-> Nil] /\ number = [p \in Procs |-> 0]
  /\ count = 1 /\ saved = [a \in Accounts |-> 0]
  /\ client \in {{}, {"other"}} /\ faults = 0

Goto(p, label) == at' = [at EXCEPT ![p] = label]

Unlock(p) == lock' = IF lock = p THEN Nil ELSE lock

held == <<account, number, count>>

-----------------------------------------------------------------------------

\* main of the wizard, up to the save: an account and a password are asked for.
Ask(p) ==
  /\ p \in Setups /\ at[p] = "idle"
  /\ \E a \in Accounts : account' = [account EXCEPT ![p] = a]
  /\ Goto(p, "lock")
  /\ UNCHANGED <<config, vault, lock, number, count, saved, client, faults>>

\* loadConfig: the configuration as it is now; the environment may name a password.
Load(p) ==
  /\ p \in Starts /\ at[p] = "idle" /\ config.account # Nil
  /\ account' = [account EXCEPT ![p] = config.account]
  /\ number' = [number EXCEPT ![p] = config.password]
  /\ Goto(p, IF config.password # 0 THEN "lock" ELSE "environment")
  /\ UNCHANGED <<config, vault, lock, count, saved, client, faults>>

\* withConfigWriteLock.  A start looks again at the configuration, which a setup may
\* have replaced, and only migrates what is there now.
\* (A mutant: it migrates what it loaded before.)
LockAndMigrateLoaded(p) ==
  /\ at[p] = "lock" /\ lock = Nil
  /\ lock' = p
  /\ Goto(p, "set")
  /\ IF p \in Setups THEN count' = count + 1 /\ number' = [number EXCEPT ![p] = count + 1]
     ELSE UNCHANGED <<number, count>>
  /\ UNCHANGED <<config, vault, account, saved, client, faults>>

Lock(p) ==
  /\ at[p] = "lock" /\ lock = Nil
  /\ \/ /\ p \in Setups /\ lock' = p /\ Goto(p, "set")
        /\ count' = count + 1 /\ number' = [number EXCEPT ![p] = count + 1]
        /\ UNCHANGED account
     \/ /\ p \in Starts /\ config.password # 0 /\ lock' = p /\ Goto(p, "set")
        /\ account' = [account EXCEPT ![p] = config.account]
        /\ number' = [number EXCEPT ![p] = config.password]
        /\ UNCHANGED count
     \/ p \in Starts /\ config.password = 0 /\ Goto(p, "environment") /\ UNCHANGED <<lock, held>>
  /\ UNCHANGED <<config, vault, saved, client, faults>>

\* Somebody else saves: both programs give up.
Busy(p) ==
  /\ at[p] = "lock" /\ lock # Nil
  /\ Goto(p, "over")
  /\ UNCHANGED <<config, vault, lock, held, saved, client, faults>>

\* setStoredPassword, for the account of the record that is saved.
SetPassword(p) ==
  /\ at[p] = "set"
  /\ vault' = [vault EXCEPT ![account[p]] = number[p]]
  /\ Goto(p, "verify")
  /\ UNCHANGED <<config, lock, held, saved, client, faults>>

\* The password is read back, twice, before the configuration is replaced.
SaveConfig(p) ==
  /\ at[p] = "verify"
  /\ IF vault[account[p]] # number[p] THEN Goto(p, "over") /\ UNCHANGED <<config, saved>>
     ELSE /\ config' = [account |-> account[p], password |-> 0]
          /\ IF p \in Setups
             THEN saved' = [saved EXCEPT ![account[p]] = number[p]] /\ Goto(p, "clients")
             ELSE Goto(p, "environment") /\ UNCHANGED saved
  /\ Unlock(p)
  /\ UNCHANGED <<vault, held, client, faults>>

\* D2L_PASSWORD, when it is set, replaces what the store holds; the start goes on.  By
\* the code's rule the environment is the owner's last word: it is numbered as the newest.
Environment(p) ==
  /\ at[p] = "environment"
  /\ \/ UNCHANGED <<vault, count>>
     \/ /\ count' = count + 1
        /\ vault' = [vault EXCEPT ![account[p]] = count + 1]
  /\ Goto(p, "over")
  /\ UNCHANGED <<config, lock, account, number, saved, client, faults>>

\* configureMcpClient: the entry is added to what can be parsed, or the owner declines.
Configure(p) ==
  /\ at[p] = "clients"
  /\ client' \in {client, IF client = {"torn"} THEN {"ours"} ELSE client \cup {"ours"}}
  /\ Goto(p, "over")
  /\ UNCHANGED <<config, vault, lock, held, saved, faults>>

\* A kill or an error; the lock of a dead process is taken over.  The client's file is
\* written in place.
Fault(p) ==
  /\ at[p] \notin {"idle", "over"} /\ faults < MaxFaults
  /\ faults' = faults + 1
  /\ Goto(p, "over") /\ Unlock(p)
  /\ client' \in {client} \cup (IF at[p] = "clients" THEN {{"torn"}} ELSE {})
  /\ UNCHANGED <<config, vault, held, saved>>

Next ==
  \E p \in Procs :
    \/ Ask(p) \/ Load(p) \/ Lock(p) \/ Busy(p) \/ SetPassword(p) \/ SaveConfig(p)
    \/ Environment(p) \/ Configure(p) \/ Fault(p)

Spec == Init /\ [][Next]_vars

-----------------------------------------------------------------------------
(* Properties *)

TypeOK ==
  /\ config.account \in Accounts \cup {Nil} /\ config.password \in {0, 1}
  /\ lock \in Procs \cup {Nil}
  /\ \A a \in Accounts : vault[a] \in 0..count /\ saved[a] \in 0..count
  /\ client \subseteq {"other", "ours", "torn"}

\* The account of the configuration has a password, in the file of version 1 or in the
\* store; and no start that saw an older configuration puts an older password back.
PasswordIsTheLatest ==
  /\ config.account # Nil /\ config.password = 0 => vault[config.account] # 0
  /\ \A a \in Accounts : vault[a] >= saved[a]

=============================================================================
