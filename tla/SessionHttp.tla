---------------------------- MODULE SessionHttp ----------------------------
(*******************************************************************************)
(* One service of the university read over HTTP (src/src/session-http.mjs): a  *)
(* queue of reads over a cookie jar made from the saved browser login, with    *)
(* one scripted sign-in, and, around it, the readers that may renew the        *)
(* login once (src/src/odyssey.mjs, src/src/marmoset.mjs).                     *)
(*******************************************************************************)
EXTENDS Naturals, Sequences

CONSTANTS
  Calls,
  MaxPending,  \* reads queued (the code: 4; Marmoset itself admits 3)
  MaxLogins    \* bound on the logins saved

VARIABLES
  source,   \* the login in browser.json; 0: missing or unreadable
  logins,   \* logins saved so far
  jar,      \* the cookie jar
  queue,    \* the reads, the first one running
  at,       \* what the running read does next
  loaded,   \* the login it found
  rejected, \* the last read of the queue ended in an error
  timer,    \* the idle timer is armed
  phase,    \* the object is open, closing or closed
  reader    \* what each reader is doing

vars == <<source, logins, jar, queue, at, loaded, rejected, timer, phase, reader>>

-----------------------------------------------------------------------------

NoJar == [login |-> 0, aged |-> FALSE]

Init ==
  /\ source = 1 /\ logins = 1
  /\ jar = NoJar /\ queue = <<>> /\ at = "load" /\ loaded = 0
  /\ rejected = FALSE /\ timer = FALSE /\ phase = "open"
  /\ reader = [c \in Calls |-> "idle"]

\* The owner signs in anew, or the file is lost.
Replace ==
  /\ \/ logins < MaxLogins /\ logins' = logins + 1 /\ source' = logins + 1
     \/ source # 0 /\ source' = 0 /\ UNCHANGED logins
  /\ UNCHANGED <<jar, queue, at, loaded, rejected, timer, phase, reader>>

\* 30 minutes.
Age ==
  /\ jar.login # 0 /\ jar' = [jar EXCEPT !.aged = TRUE]
  /\ UNCHANGED <<source, logins, queue, at, loaded, rejected, timer, phase, reader>>

-----------------------------------------------------------------------------
(* SessionHttp.run *)

\* A refused read answers SERVICE_BUSY.
Enqueue(c, try) ==
  /\ IF phase # "open" \/ Len(queue) >= MaxPending
     THEN reader' = [reader EXCEPT ![c] = "idle"] /\ UNCHANGED queue
     ELSE reader' = [reader EXCEPT ![c] = try] /\ queue' = Append(queue, c)
  /\ UNCHANGED <<jar, at, loaded, rejected, timer, phase>>

Call(c) ==
  /\ reader[c] = "idle"
  /\ Enqueue(c, "first")
  /\ UNCHANGED <<source, logins>>

\* The reader starts renew.mjs, and reads once more if that succeeds.
Renew(c) ==
  /\ reader[c] = "renew"
  /\ \/ logins < MaxLogins /\ logins' = logins + 1 /\ source' = logins + 1
        /\ Enqueue(c, "second")
     \/ reader' = [reader EXCEPT ![c] = "idle"]
        /\ UNCHANGED <<source, logins, jar, queue, at, loaded, rejected, timer, phase>>

\* A SessionExpired empties the jar; whatever the end, the idle timer is armed.
End(outcome) ==
  /\ queue' = Tail(queue)
  /\ at' = "load"
  /\ rejected' = (outcome # "ok")
  /\ timer' = TRUE
  /\ reader' = [reader EXCEPT ![Head(queue)] =
                IF outcome = "expired" /\ @ = "first" THEN "renew" ELSE "idle"]

Go(label) == at' = label /\ UNCHANGED <<queue, rejected, reader>>

usable == jar.login = source /\ ~jar.aged

\* The saved login is read each time; a jar of another login, or an old one, is
\* replaced, which may fail after the old one is gone.
Load ==
  /\ queue # <<>> /\ at = "load"
  /\ loaded' = source
  /\ IF source = 0 THEN jar' = NoJar /\ End("expired")
     ELSE IF usable THEN Go("read") /\ timer' = FALSE /\ UNCHANGED jar
     ELSE \/ jar' = [login |-> source, aged |-> FALSE] /\ Go("read") /\ timer' = FALSE
          \/ jar' = NoJar /\ End("error")
  /\ UNCHANGED <<source, logins, phase>>

Read ==
  /\ at \in {"read", "reread"}
  /\ \/ End("ok") /\ UNCHANGED jar
     \/ End("error") /\ UNCHANGED jar
     \/ /\ jar' = NoJar
        /\ IF at = "read" THEN Go("login") /\ UNCHANGED timer ELSE End("expired")
  /\ UNCHANGED <<source, logins, loaded, phase>>

\* bootstrap: the scripted sign-in with the login that was loaded.
Bootstrap ==
  /\ at = "login"
  /\ \/ jar' = [login |-> loaded, aged |-> FALSE] /\ Go("reread") /\ UNCHANGED timer
     \/ \E outcome \in {"expired", "error"} : End(outcome) /\ UNCHANGED jar
  /\ UNCHANGED <<source, logins, loaded, phase>>

\* Five minutes without a read.  The disposal is chained to the queue, and does
\* not run when the last read was rejected.
Idle ==
  /\ timer
  /\ timer' = FALSE
  /\ jar' = IF queue = <<>> /\ ~rejected THEN NoJar ELSE jar
  /\ UNCHANGED <<source, logins, queue, at, loaded, rejected, phase, reader>>

Close ==
  /\ \/ phase = "open" /\ phase' = "closing" /\ UNCHANGED <<jar, timer>>
     \/ phase = "closing" /\ queue = <<>>
        /\ phase' = "closed" /\ jar' = NoJar /\ timer' = FALSE
  /\ UNCHANGED <<source, logins, queue, at, loaded, rejected, reader>>

Next ==
  \/ Replace \/ Age
  \/ \E c \in Calls : Call(c) \/ Renew(c)
  \/ Load \/ Read \/ Bootstrap \/ Idle \/ Close

Spec == Init /\ [][Next]_vars

-----------------------------------------------------------------------------
(* Properties *)

TypeOK ==
  /\ {source, logins, loaded, jar.login} \subseteq 0..MaxLogins
  /\ at \in {"load", "read", "login", "reread"} /\ jar.aged \in BOOLEAN
  /\ rejected \in BOOLEAN /\ timer \in BOOLEAN /\ phase \in {"open", "closing", "closed"}
  /\ Len(queue) <= MaxPending
  /\ reader \in [Calls -> {"idle", "first", "renew", "second"}]

\* A read uses the cookies of the login that was saved when it started, and a
\* closed service holds no cookies, however renewals, aging and closing mix.
CookiesAreOfTheLogin ==
  /\ at \in {"read", "reread"} => jar.login = loaded /\ loaded # 0
  /\ phase = "closed" => jar = NoJar /\ ~timer

\* A jar that nobody uses has a timer that will dispose of it.
JarExpires == queue = <<>> /\ ~timer => jar = NoJar

=============================================================================
