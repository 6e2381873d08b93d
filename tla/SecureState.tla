----------------------------- MODULE SecureState -----------------------------
(******************************************************************************)
(* The encrypted files of one session directory (src/upstream/src/auth):      *)
(* session.json and the browser's state, under a random key that the          *)
(* operating system's credential store holds (credential-store.ts,            *)
(* encrypted-store.ts).  Files of version 1 are encrypted in place by         *)
(* whichever process meets them (session-store.ts, browser-state-store.ts,    *)
(* legacy-state.ts).                                                          *)
(******************************************************************************)
EXTENDS Naturals, Sequences

CONSTANTS
  Procs,       \* runs of the server and of the sign-in program
  Keys,
  MaxFaults    \* kills and failing writes or credential stores

VARIABLES
  vault,      \* the key in the credential store, or Nil
  locks,      \* who holds .auth.lock, .session-write.lock and .keyring-key-init.lock
  files,      \* "session", "browser" and "legacy": version, key and contents
  latest,     \* the newest contents saved of session and browser (history)
  at, todo,   \* where each process is; the loads and saves before it
  holds,      \* the key and the contents it works with
  faults

vars == <<vault, locks, files, latest, at, todo, holds, faults>>

-----------------------------------------------------------------------------

Nil == "none"

Absent == [version |-> 0, key |-> Nil, data |-> 0]

Old == [version |-> 1, key |-> Nil, data |-> 1]

Sealed(k, d) == [version |-> 2, key |-> k, data |-> d]

LockNames == {"auth", "write", "key"}

\* A directory of version 1, a new one, or one that is encrypted as far as its
\* migration got, and whose key may be missing.
Init ==
  /\ \/ /\ vault = Nil
        /\ files \in {[session |-> s, browser |-> Absent, legacy |-> l] :
                        s \in {Absent, Old}, l \in {Absent, Old}}
     \/ \E k \in Keys :
          /\ vault \in {Nil, k}
          /\ files \in {[session |-> Sealed(k, 1), browser |-> b, legacy |-> l] :
                          b \in {Absent, Sealed(k, 1)}, l \in {Absent, Old}}
  /\ latest = [session |-> files.session.data,
               browser |-> IF files.browser = Absent THEN files.legacy.data ELSE files.browser.data]
  /\ locks = [l \in LockNames |-> Nil]
  /\ at = [p \in Procs |-> "idle"] /\ todo = [p \in Procs |-> <<>>]
  /\ holds = [p \in Procs |-> [key |-> Nil, data |-> 0, new |-> FALSE]]
  /\ faults = 0

store == <<vault, files, latest>>

Goto(p, label) == at' = [at EXCEPT ![p] = label]

File(p) == Head(todo[p]).file

\* The end of a process, in order or by an error: every finally releases its lock.
End(p) ==
  /\ at' = [at EXCEPT ![p] = "over"] /\ todo' = [todo EXCEPT ![p] = <<>>]
  /\ holds' = [holds EXCEPT ![p] = [key |-> Nil, data |-> 0, new |-> FALSE]]
  /\ locks' = [l \in LockNames |-> IF locks[l] = p THEN Nil ELSE locks[l]]

\* One load or save is done: the session's write lock is released, and the next begins.
Done(p) ==
  IF Len(todo[p]) = 1 THEN End(p)
  ELSE /\ todo' = [todo EXCEPT ![p] = Tail(todo[p])]
       /\ holds' = [holds EXCEPT ![p] = [key |-> Nil, data |-> 0, new |-> FALSE]]
       /\ locks' = [locks EXCEPT !.write = IF @ = p THEN Nil ELSE @]
       /\ Goto(p, "begin")

-----------------------------------------------------------------------------
(* Programs *)

Does(op, f) == [op |-> op, file |-> f]

\* migrateLegacyState takes .auth.lock when something of version 1 is left, and only
\* reads otherwise; a sign-in holds the lock throughout; a refresh saves the session alone.
Start(p) ==
  /\ at[p] = "idle"
  /\ \/ /\ todo' = [todo EXCEPT ![p] = <<Does("load", "session"), Does("load", "browser")>>]
        /\ IF files.legacy = Absent /\ files.session.version # 1 THEN UNCHANGED locks
           ELSE locks.auth = Nil /\ locks' = [locks EXCEPT !.auth = p]
     \/ /\ todo' = [todo EXCEPT ![p] =
             <<Does("load", "browser"), Does("save", "browser"), Does("save", "session")>>]
        /\ locks.auth = Nil /\ locks' = [locks EXCEPT !.auth = p]
     \/ /\ files.session # Absent /\ UNCHANGED locks
        /\ todo' = [todo EXCEPT ![p] = <<Does("save", "session")>>]
  /\ Goto(p, "begin")
  /\ UNCHANGED <<store, holds, faults>>

\* The lock is taken: the program gives up.
Refused(p) ==
  /\ at[p] = "idle" /\ locks.auth # Nil
  /\ End(p)
  /\ UNCHANGED <<store, faults>>

\* SessionStore.load and BrowserStateStore.load up to the point where the file is read.
\* What is encrypted is only decrypted, with the key it needs.
Load(p) ==
  /\ at[p] = "begin" /\ Head(todo[p]).op = "load"
  /\ LET f == IF File(p) = "browser" /\ files.browser = Absent THEN "legacy" ELSE File(p) IN
     CASE files[f].version = 0 -> Done(p) /\ UNCHANGED files
       [] files[f].version = 2 /\ vault # files[f].key -> End(p) /\ UNCHANGED files
       [] files[f].version = 2 /\ vault = files[f].key ->
            \* A browser's state that was encrypted before its deletion failed.
            /\ files' = IF f = "browser" THEN [files EXCEPT !.legacy = Absent] ELSE files
            /\ Done(p)
       [] f = "session" /\ files[f].version = 1 ->
            Goto(p, "lock") /\ UNCHANGED <<files, todo, locks, holds>>
       [] f = "legacy" /\ files[f].version = 1 ->
            /\ holds' = [holds EXCEPT ![p] = [key |-> Nil, data |-> files.legacy.data, new |-> FALSE]]
            /\ Goto(p, "key") /\ UNCHANGED <<files, todo, locks>>
  /\ UNCHANGED <<vault, latest, faults>>

\* A save first decrypts what it replaces, and the session's takes its write lock.
Save(p) ==
  /\ at[p] = "begin" /\ Head(todo[p]).op = "save"
  /\ IF File(p) = "session" THEN Goto(p, "lock") /\ UNCHANGED <<locks, todo, holds>>
     ELSE IF files.browser.version = 2 /\ vault # files.browser.key THEN End(p)
     ELSE /\ holds' = [holds EXCEPT ![p] = [key |-> Nil, data |-> latest.browser + 1, new |-> TRUE]]
          /\ Goto(p, "key") /\ UNCHANGED <<todo, locks>>
  /\ UNCHANGED <<store, faults>>

\* withWriteLock, and the session as it is by then.
SessionLock(p) ==
  /\ at[p] = "lock" /\ locks.write = Nil
  /\ LET saves == Head(todo[p]).op = "save" IN
     IF files.session.version = 2 /\ vault # files.session.key THEN End(p)
     ELSE IF ~saves /\ files.session.version # 1 THEN Done(p)
     ELSE /\ locks' = [locks EXCEPT !.write = p]
          /\ holds' = [holds EXCEPT ![p] =
               [key |-> Nil, new |-> saves,
                data |-> IF saves THEN latest.session + 1 ELSE files.session.data]]
          /\ Goto(p, "key") /\ UNCHANGED todo
  /\ UNCHANGED <<store, faults>>

-----------------------------------------------------------------------------
(* The key *)

\* getSessionEncryptionKey: the key at hand, or a new one under a lock of its own.
Key(p) ==
  /\ at[p] = "key"
  /\ IF vault # Nil THEN holds' = [holds EXCEPT ![p].key = vault] /\ Goto(p, "write")
     ELSE Goto(p, "keylock") /\ UNCHANGED holds
  /\ UNCHANGED <<store, locks, todo, faults>>

encryptedExists == files.browser # Absent \/ files.session.version = 2

\* A key that another process has stored by now is taken; a new one is refused while
\* there are files that only an older one can open.
\* (A mutant: no look at the files.)
KeyLockAlways(p) ==
  /\ at[p] = "keylock" /\ locks.key = Nil
  /\ IF vault # Nil
     THEN holds' = [holds EXCEPT ![p].key = vault] /\ Goto(p, "write") /\ UNCHANGED <<locks, todo>>
     ELSE /\ locks' = [locks EXCEPT !.key = p] /\ Goto(p, "make") /\ UNCHANGED <<holds, todo>>
  /\ UNCHANGED <<store, faults>>

KeyLock(p) ==
  /\ at[p] = "keylock" /\ locks.key = Nil
  /\ IF vault # Nil
     THEN holds' = [holds EXCEPT ![p].key = vault] /\ Goto(p, "write") /\ UNCHANGED <<locks, todo>>
     ELSE IF encryptedExists THEN End(p)
     ELSE /\ locks' = [locks EXCEPT !.key = p] /\ Goto(p, "make") /\ UNCHANGED <<holds, todo>>
  /\ UNCHANGED <<store, faults>>

\* The new key is stored and read back.
MakeKey(p) ==
  /\ at[p] = "make"
  /\ \E k \in Keys :
       /\ \A q \in Procs : holds[q].key # k
       /\ files.session.key # k /\ files.browser.key # k
       /\ vault' = k /\ holds' = [holds EXCEPT ![p].key = k]
  /\ locks' = [locks EXCEPT !.key = Nil]
  /\ Goto(p, "write")
  /\ UNCHANGED <<files, latest, todo, faults>>

-----------------------------------------------------------------------------
(* Writing *)

\* saveEncryptedRecord: the temporary file is decrypted with the key in the store, then
\* renamed, then decrypted again.  A migrated browser's state is then deleted.
Write(p) ==
  /\ at[p] = "write"
  /\ IF vault # holds[p].key THEN End(p) /\ UNCHANGED <<files, latest>>
     ELSE /\ files' = [files EXCEPT ![File(p)] = Sealed(holds[p].key, holds[p].data)]
          /\ latest' = IF holds[p].new THEN [latest EXCEPT ![File(p)] = holds[p].data] ELSE latest
          /\ IF File(p) = "browser" /\ ~holds[p].new
             THEN Goto(p, "trash") /\ UNCHANGED <<todo, locks, holds>>
             ELSE Done(p)
  /\ UNCHANGED <<vault, faults>>

Trash(p) ==
  /\ at[p] = "trash"
  /\ files' = [files EXCEPT !.legacy = Absent]
  /\ Done(p)
  /\ UNCHANGED <<vault, latest, faults>>

\* A kill, or an error of the disk or of the credential store, which may have stored
\* the key all the same.  The lock of a dead process is taken over (AuthLock).
Fault(p) ==
  /\ at[p] \notin {"idle", "over"} /\ faults < MaxFaults
  /\ faults' = faults + 1
  /\ IF at[p] = "make" THEN \E k \in Keys \cup {vault} :
                              /\ k # vault => files.session.key # k /\ files.browser.key # k
                              /\ vault' = k
     ELSE UNCHANGED vault
  /\ End(p)
  /\ UNCHANGED <<files, latest>>

\* The user restores a missing entry of the credential store.
Restore ==
  /\ vault = Nil /\ encryptedExists
  /\ vault' = IF files.browser # Absent THEN files.browser.key ELSE files.session.key
  /\ UNCHANGED <<files, latest, locks, at, todo, holds, faults>>

Next ==
  \/ \E p \in Procs :
       \/ Start(p) \/ Refused(p) \/ Load(p) \/ Save(p) \/ SessionLock(p) \/ Key(p) \/ KeyLock(p)
       \/ MakeKey(p) \/ Write(p) \/ Trash(p) \/ Fault(p)
  \/ Restore

Spec == Init /\ [][Next]_vars

-----------------------------------------------------------------------------
(* Properties *)

TypeOK ==
  /\ vault \in Keys \cup {Nil}
  /\ locks \in [LockNames -> Procs \cup {Nil}]
  /\ \A f \in {"session", "browser", "legacy"} : files[f].version \in 0..2
  /\ \A p \in Procs : holds[p].key \in Keys \cup {Nil}

\* However many processes meet an old directory, and wherever one fails: what is
\* encrypted opens with the stored key, and the newest session and browser's state are
\* on disk, encrypted or still in the file of version 1.
NothingIsLost ==
  /\ \A f \in {"session", "browser"} :
       files[f].version = 2 /\ vault # Nil => files[f].key = vault
  /\ files.session.data = latest.session
  /\ (IF files.browser = Absent THEN files.legacy.data ELSE files.browser.data) = latest.browser

=============================================================================
