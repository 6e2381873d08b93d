--------------------------- MODULE Accounts_proofs ---------------------------
(* The sign-in's clients and the components that hold secrets: each keeps its inductive
   invariant, for every value of its constants, and what each promises follows from it.
   The names of an instance's definitions and lemmas here begin with its two letters in
   Accounts; those of Tokens have none. *)
EXTENDS Accounts, SequenceTheorems, TLAPS

-----------------------------------------------------------------------------
(* Requests, mints and sign-ins: Tokens *)

\* The tokens that a server may use: those that were saved, and none.
Usable == saved \cup {0}

\* A request sends and remembers only such tokens, and goes on from few refusals.
CallOk(r, usable) ==
  /\ r \in Call /\ r.token \in usable /\ r.seen \in usable
  /\ r.turn = "first" => r.refused = 0
  /\ r.turn = "refresh" /\ r.at \notin {"login", "loggingIn"} => r.refused <= 1

\* A mint in flight works with the cookies of a saved token; the token it got is a later one of the
\* same browser session, or none since LEARN has ended that session.
MintOk(m, usable, given, gone) ==
  /\ m \in Mint /\ m.stale \in usable /\ m.seen \in usable /\ m.token \in 0..Len(given)
  /\ m.at # "idle" => m.stale # 0
  /\ m.at = "http" => m.token = 0
  /\ m.at \notin {"idle", "http"} =>
       IF m.token = 0 THEN given[m.stale] \in gone
       ELSE m.token > m.stale /\ given[m.token] = given[m.stale]
  /\ m.at = "written" => m.token \in usable

\* Types of what is not one request's or one mint's.
Shape ==
  /\ issued \in Seq(Session) /\ Len(issued) <= MaxTokens
  /\ expired \subseteq Token /\ dead \subseteq Session
  /\ saved \subseteq 1..Len(issued) /\ disk \in Usable
  /\ locked \in BOOLEAN /\ logins \in 0..MaxLogins
  /\ cached \in [Servers -> Usable] /\ rejected \in [Servers -> MaybeToken]
  /\ mint \in [Servers -> Mint] /\ call \in [Calls -> Call]
  /\ login \in [People -> Login] /\ \A l \in People : login[l].token <= Len(issued)

\* Whoever waits is waited on, and a sign-in has one request to answer.
Waits ==
  /\ NobodyWaitsInVain
  /\ \A c, d \in Calls :
       call[c].at = "loggingIn" /\ call[d].at = "loggingIn" /\ serverOf[c] = serverOf[d] => c = d

\* One holder of the write lock; what a mint compared stays so until it has written.
Locks ==
  /\ \A s \in Servers : mint[s].at \in {"compare", "write"} => locked
  /\ \A l \in People : login[l].at = "save" => locked
  /\ \A s, t \in Servers :
       mint[s].at \in {"compare", "write"} /\ mint[t].at \in {"compare", "write"} => s = t
  /\ \A l, k \in People : login[l].at = "save" /\ login[k].at = "save" => l = k
  /\ \A s \in Servers, l \in People : ~(mint[s].at \in {"compare", "write"} /\ login[l].at = "save")
  /\ \A s \in Servers : mint[s].at = "write" => disk = mint[s].stale

\* The inductive invariant of the sign-in's clients.
IInv ==
  /\ Shape /\ Waits /\ Locks
  /\ \A c \in Calls : CallOk(call[c], Usable)
  /\ \A s \in Servers : MintOk(mint[s], Usable, issued, dead)

\* The numbers involved.
LEMMA Numbers ==
  ASSUME Shape
  PROVE  /\ Len(issued) \in Nat /\ Usable \subseteq 0..Len(issued) /\ Usable \subseteq MaybeToken
         /\ 0 \in Usable /\ \A t \in Usable : t # 0 => t \in 1..Len(issued) /\ issued[t] \in Session
<1>1. Len(issued) \in Nat /\ Len(issued) <= MaxTokens /\ saved \subseteq 1..Len(issued)
  BY DEF Shape
<1>2. Usable \subseteq 0..Len(issued) /\ 0 \in Usable
  BY <1>1 DEF Usable
<1>3. MaxTokens \in Nat
  BY LimitsAssumption
<1>4. 0..Len(issued) \subseteq 0..MaxTokens
  BY <1>1, <1>3
<1>5. \A t \in Usable : t # 0 => t \in 1..Len(issued)
  BY <1>1 DEF Usable
<1>6. \A t \in 1..Len(issued) : issued[t] \in Session
  BY DEF Shape
<1>7. QED
  BY <1>1, <1>2, <1>4, <1>5, <1>6 DEF MaybeToken

\* No request and no mint in flight.
LEMMA InitInv == Init => IInv
<1> SUFFICES ASSUME Init PROVE IInv
  OBVIOUS
<1>1. /\ issued \in {<<>>, <<1>>, <<0>>} /\ expired = {} /\ dead = {} /\ disk = Len(issued)
      /\ saved = DOMAIN issued /\ logins = Len(issued) /\ locked = FALSE
      /\ cached = [s \in Servers |-> 0] /\ rejected = [s \in Servers |-> 0]
      /\ mint = [s \in Servers |-> noMint] /\ login = [l \in People |-> noLogin]
      /\ call = [c \in Calls |-> newCall]
  BY DEF Init
<1>2. MaxTokens \in Nat \ {0} /\ MaxLogins \in Nat \ {0}
  BY LimitsAssumption
<1>3. /\ 0 \in Session /\ 1 \in Session /\ 0 \in MaybeToken /\ 1 \in 0..MaxLogins
  BY <1>2 DEF Session, MaybeToken
<1>4. /\ issued \in Seq(Session) /\ Len(issued) \in {0, 1} /\ DOMAIN issued = 1..Len(issued)
  <2>1. /\ <<>> \in Seq(Session) /\ Len(<<>>) = 0 /\ <<0>> \in Seq(Session) /\ Len(<<0>>) = 1
        /\ <<1>> \in Seq(Session) /\ Len(<<1>>) = 1
    BY <1>3
  <2>2. issued \in Seq(Session) /\ Len(issued) \in {0, 1}
    BY <1>1, <2>1
  <2>3. QED
    BY <2>2
<1>5. Len(issued) \in Usable /\ 0 \in Usable /\ saved \subseteq 1..Len(issued)
  <2>1. saved = 1..Len(issued)
    BY <1>1, <1>4
  <2>2. QED
    BY <1>4, <2>1 DEF Usable
<1>6. /\ noMint \in Mint /\ newCall \in Call /\ noLogin \in Login
      /\ noMint.at = "idle" /\ newCall.at = "get" /\ noLogin.at = "none"
  BY <1>3 DEF noMint, newCall, noLogin, Mint, Call, Login
<1>7. Shape
  <2>1. Len(issued) <= MaxTokens /\ logins \in 0..MaxLogins
    BY <1>1, <1>2, <1>4
  <2>2. /\ cached \in [Servers -> Usable] /\ rejected \in [Servers -> MaybeToken]
        /\ mint \in [Servers -> Mint] /\ call \in [Calls -> Call] /\ login \in [People -> Login]
    BY <1>1, <1>3, <1>5, <1>6
  <2>3. \A l \in People : login[l].token <= Len(issued)
    BY <1>1, <1>4 DEF noLogin
  <2>4. QED
    BY <1>1, <1>4, <1>5, <2>1, <2>2, <2>3 DEF Shape
<1>8. Waits
  BY <1>1, <1>6, ServersAssumption DEF Waits, NobodyWaitsInVain
<1>9. Locks
  BY <1>1, <1>6 DEF Locks
<1>10. \A c \in Calls : CallOk(call[c], Usable)
  BY <1>1, <1>5, <1>6 DEF CallOk, newCall
<1>11. \A s \in Servers : MintOk(mint[s], Usable, issued, dead)
  BY <1>1, <1>4, <1>5, <1>6 DEF MintOk, noMint
<1>12. QED
  BY <1>7, <1>8, <1>9, <1>10, <1>11 DEF IInv

\* A request that has ended is in order.
LEMMA EndedOk ==
  ASSUME NEW usable, 0 \in usable
  PROVE  CallOk(ended, usable) /\ ended.at = "done"
<1>1. 0 \in MaybeToken
  BY LimitsAssumption DEF MaybeToken
<1>2. QED
  BY <1>1 DEF CallOk, ended, newCall, Call

\* What withAuthentication does with a token leaves the request in order, and done with
\* the wait for it.
LEMMA GotOk ==
  ASSUME NEW r, NEW usable, usable \subseteq MaybeToken, 0 \in usable, CallOk(r, usable),
         r.at \notin {"login", "loggingIn"}, NEW t \in usable
  PROVE  CallOk(got(r, t), usable) /\ got(r, t).at \in {"send", "login", "done"}
<1>1. /\ r \in Call /\ r.token \in usable /\ r.seen \in usable /\ r.turn \in {"first", "refresh", "last"}
      /\ r.refused \in 0..2 /\ r.token \in MaybeToken /\ t \in MaybeToken
      /\ r.turn = "first" => r.refused = 0
      /\ r.turn = "refresh" => r.refused <= 1
  BY DEF CallOk, Call
<1>2. CASE t # 0 /\ ~(r.turn = "refresh" /\ t = r.token)
  <2> DEFINE x == [r EXCEPT !.at = "send", !.token = t, !.seen = 0]
  <2>1. got(r, t) = x
    BY <1>2 DEF got
  <2>2. /\ x \in Call /\ x.token = t /\ x.seen = 0 /\ x.turn = r.turn /\ x.refused = r.refused
        /\ x.at = "send"
    BY <1>1 DEF Call, MaybeToken
  <2> HIDE DEF x
  <2>3. QED
    BY <1>1, <2>1, <2>2 DEF CallOk
<1>3. CASE r.turn = "first" /\ t = 0
  <2> DEFINE x == [r EXCEPT !.at = "login", !.seen = 0]
  <2>1. got(r, t) = x
    BY <1>3 DEF got
  <2>2. /\ x \in Call /\ x.token = r.token /\ x.seen = 0 /\ x.turn = r.turn /\ x.refused = r.refused
        /\ x.at = "login"
    BY <1>1 DEF Call, MaybeToken
  <2> HIDE DEF x
  <2>3. QED
    BY <1>1, <2>1, <2>2 DEF CallOk
<1>4. CASE r.turn = "refresh" /\ t \in {0, r.token}
  <2> DEFINE x == [r EXCEPT !.at = "login", !.reject = r.token, !.seen = t]
  <2>1. got(r, t) = x
    BY <1>4 DEF got
  <2>2. /\ x \in Call /\ x.token = r.token /\ x.seen = t /\ x.turn = r.turn /\ x.refused = r.refused
        /\ x.at = "login"
    BY <1>1 DEF Call, MaybeToken
  <2> HIDE DEF x
  <2>3. QED
    BY <1>1, <1>4, <2>1, <2>2 DEF CallOk
<1>5. CASE r.turn = "last" /\ t = 0
  <2>1. got(r, t) = ended
    BY <1>5 DEF got
  <2>2. QED
    BY <2>1, EndedOk
<1>6. QED
  BY <1>1, <1>2, <1>3, <1>4, <1>5

\* What a request or a mint relies on only grows: the saved tokens, the tokens issued, the
\* sessions LEARN has ended.
Grows ==
  /\ Usable \subseteq Usable' /\ Len(issued)' \in Nat /\ Len(issued) <= Len(issued)'
  /\ \A t \in 1..Len(issued) : issued'[t] = issued[t]
  /\ dead \subseteq dead'

\* So a request in order stays so, and a mint too.
LEMMA Kept ==
  ASSUME Shape, Grows
  PROVE  /\ \A r : CallOk(r, Usable) => CallOk(r, Usable')
         /\ \A m : MintOk(m, Usable, issued, dead) => MintOk(m, Usable', issued', dead')
<1>1. Usable \subseteq Usable' /\ dead \subseteq dead'
  BY DEF Grows
<1>2. ASSUME NEW r, CallOk(r, Usable) PROVE CallOk(r, Usable')
  BY <1>1, <1>2 DEF CallOk
<1>3. ASSUME NEW m, MintOk(m, Usable, issued, dead) PROVE MintOk(m, Usable', issued', dead')
  <2>1. Len(issued) \in Nat /\ Usable \subseteq 0..Len(issued)
    BY Numbers
  <2>2. /\ m \in Mint /\ m.stale \in Usable /\ m.seen \in Usable /\ m.token \in 0..Len(issued)
        /\ m.at # "idle" => m.stale # 0
        /\ m.at = "http" => m.token = 0
        /\ m.at \notin {"idle", "http"} =>
             IF m.token = 0 THEN issued[m.stale] \in dead
             ELSE m.token > m.stale /\ issued[m.token] = issued[m.stale]
        /\ m.at = "written" => m.token \in Usable
    BY <1>3 DEF MintOk
  <2>3. m.token \in 0..Len(issued') /\ m.stale \in 0..Len(issued)
    <3>1. Len(issued') \in Nat /\ Len(issued) <= Len(issued')
      BY DEF Grows
    <3>2. \A n, k \in Nat : n <= k => 0..n \subseteq 0..k
      OBVIOUS
    <3>3. 0..Len(issued) \subseteq 0..Len(issued')
      BY <2>1, <3>1, <3>2
    <3>4. QED
      BY <2>1, <2>2, <3>3
  <2>4. m.stale # 0 => issued'[m.stale] = issued[m.stale]
    BY <2>1, <2>3 DEF Grows
  <2>5. m.token # 0 => issued'[m.token] = issued[m.token]
    BY <2>1, <2>2 DEF Grows
  <2>6. m.at \notin {"idle", "http"} =>
             IF m.token = 0 THEN issued'[m.stale] \in dead'
             ELSE m.token > m.stale /\ issued'[m.token] = issued'[m.stale]
    BY <1>1, <2>2, <2>4, <2>5
  <2>7. QED
    BY <1>1, <2>2, <2>3, <2>6 DEF MintOk
<1>4. QED
  BY <1>2, <1>3

\* Nothing is saved, issued or ended.
LEMMA Same ==
  ASSUME Shape, UNCHANGED <<issued, dead, saved>>
  PROVE  Grows /\ Usable' = Usable
<1>1. Usable' = Usable
  BY DEF Usable
<1>2. Len(issued) \in Nat
  BY Numbers
<1>3. QED
  BY <1>1, <1>2 DEF Grows

\* A step of one request that neither waits nor logs in for it.
LEMMA CallOnly ==
  ASSUME IInv, NEW c \in Calls, NEW r, CallOk(r, Usable), call' = [call EXCEPT ![c] = r],
         UNCHANGED <<issued, expired, dead, disk, saved, locked, mint, login, logins>>,
         cached' \in [Servers -> Usable], rejected' \in [Servers -> MaybeToken],
         r.at = "mint" => mint[serverOf[c]].at # "idle", r.at # "loggingIn"
  PROVE  IInv'
<1>1. Shape /\ Waits /\ Locks
  BY DEF IInv
<1>2. Grows /\ Usable' = Usable
  BY <1>1, Same
<1>3. r \in Call /\ call \in [Calls -> Call]
  BY <1>1 DEF CallOk, Shape
<1>4. /\ call' \in [Calls -> Call] /\ call'[c] = r
      /\ \A d \in Calls : d # c => call'[d] = call[d]
  BY <1>3
<1>5. Shape'
  BY <1>1, <1>2, <1>4 DEF Shape
<1>6. Waits'
  BY <1>1, <1>4 DEF Waits, NobodyWaitsInVain
<1>7. Locks'
  BY <1>1 DEF Locks
<1>8. \A d \in Calls : CallOk(call'[d], Usable')
  BY <1>2, <1>4 DEF IInv
<1>9. \A s \in Servers : MintOk(mint'[s], Usable', issued', dead')
  BY <1>2 DEF IInv
<1>10. QED
  BY <1>5, <1>6, <1>7, <1>8, <1>9 DEF IInv

\* The same when the call starts a mint: its server had none.
LEMMA MintStarts ==
  ASSUME IInv, NEW c \in Calls, NEW r, CallOk(r, Usable), call' = [call EXCEPT ![c] = r],
         r.at # "loggingIn", NEW m, MintOk(m, Usable, issued, dead), m.at = "http",
         mint' = [mint EXCEPT ![serverOf[c]] = m], mint[serverOf[c]].at = "idle",
         UNCHANGED <<issued, expired, dead, disk, saved, locked, cached, rejected, login, logins>>
  PROVE  IInv'
<1> DEFINE s == serverOf[c]
<1>1. Shape /\ Waits /\ Locks
  BY DEF IInv
<1>2. Grows /\ Usable' = Usable
  BY <1>1, Same
<1>3. r \in Call /\ call \in [Calls -> Call] /\ m \in Mint /\ mint \in [Servers -> Mint] /\ s \in Servers
  BY <1>1, ServersAssumption DEF CallOk, MintOk, Shape
<1>4. /\ call' \in [Calls -> Call] /\ call'[c] = r
      /\ \A d \in Calls : d # c => call'[d] = call[d]
  BY <1>3
<1>5. /\ mint' \in [Servers -> Mint] /\ mint'[s] = m
      /\ \A k \in Servers : k # s => mint'[k] = mint[k]
  BY <1>3
<1>6. Shape'
  BY <1>1, <1>2, <1>4, <1>5 DEF Shape
<1>7. Waits'
  <2>1. \A k \in Servers : mint[k].at # "idle" => mint'[k].at # "idle"
    BY <1>5
  <2>2. mint'[s].at # "idle" /\ \A d \in Calls : serverOf[d] \in Servers
    BY <1>5, ServersAssumption
  <2> HIDE DEF s
  <2>3. s = serverOf[c]
    BY DEF s
  <2>4. QED
    BY <1>1, <1>4, <2>1, <2>2, <2>3 DEF Waits, NobodyWaitsInVain
<1>8. Locks'
  BY <1>1, <1>5 DEF Locks
<1>9. \A d \in Calls : CallOk(call'[d], Usable')
  BY <1>2, <1>4 DEF IInv
<1>10. \A k \in Servers : MintOk(mint'[k], Usable', issued', dead')
  BY <1>2, <1>5 DEF IInv
<1>11. QED
  BY <1>6, <1>7, <1>8, <1>9, <1>10 DEF IInv

\* The same when the call starts or ends its server's sign-in.
LEMMA LoginTurns ==
  ASSUME IInv, NEW c \in Calls, NEW r, CallOk(r, Usable), call' = [call EXCEPT ![c] = r],
         NEW l \in Login, login' = [login EXCEPT ![serverOf[c]] = l], l.at # "save",
         l.token <= Len(issued), r.at # "mint",
         \/ call[c].at = "loggingIn" /\ r.at # "loggingIn"
         \/ login[serverOf[c]].at = "none" /\ l.at # "none",
         UNCHANGED <<issued, expired, dead, disk, saved, locked, cached, rejected, mint, logins>>
  PROVE  IInv'
<1> DEFINE s == serverOf[c]
<1>1. Shape /\ Waits /\ Locks
  BY DEF IInv
<1>2. Grows /\ Usable' = Usable
  BY <1>1, Same
<1>3. r \in Call /\ call \in [Calls -> Call] /\ login \in [People -> Login] /\ s \in People
  BY <1>1, ServersAssumption DEF CallOk, Shape, People
<1>4. /\ call' \in [Calls -> Call] /\ call'[c] = r
      /\ \A d \in Calls : d # c => call'[d] = call[d]
  BY <1>3
<1>5. /\ login' \in [People -> Login] /\ login'[s] = l
      /\ \A k \in People : k # s => login'[k] = login[k]
  BY <1>3
<1>6. Shape'
  <2>1. \A k \in People : login'[k].token <= Len(issued)
    BY <1>1, <1>5 DEF Shape
  <2>2. QED
    BY <1>1, <1>2, <1>4, <1>5, <2>1 DEF Shape
<1>7. Waits'
  <2>0. \A d \in Calls : serverOf[d] \in People
    BY ServersAssumption DEF People
  <2> HIDE DEF s
  <2>1. s = serverOf[c]
    BY DEF s
  <2>2. CASE call[c].at = "loggingIn" /\ r.at # "loggingIn"
    <3>1. \A d \in Calls : d # c /\ call'[d].at = "loggingIn" => serverOf[d] # s
      BY <1>1, <1>4, <2>1, <2>2 DEF Waits
    <3>2. \A d \in Calls : d # c /\ call'[d].at = "loggingIn" => login'[serverOf[d]].at # "none"
      BY <1>1, <1>4, <1>5, <2>0, <3>1 DEF Waits, NobodyWaitsInVain
    <3>3. QED
      BY <1>1, <1>4, <2>2, <3>2 DEF Waits, NobodyWaitsInVain
  <2>3. CASE login[s].at = "none" /\ l.at # "none"
    <3>1. \A d \in Calls : call[d].at = "loggingIn" => serverOf[d] # s
      BY <1>1, <2>3 DEF Waits, NobodyWaitsInVain
    <3>2. \A d \in Calls : d # c /\ call'[d].at = "loggingIn" =>
             serverOf[d] # s /\ login'[serverOf[d]].at # "none"
      BY <1>1, <1>4, <1>5, <2>0, <3>1 DEF Waits, NobodyWaitsInVain
    <3>3. login'[serverOf[c]].at # "none"
      BY <1>5, <2>1, <2>3
    <3>4. QED
      BY <1>1, <1>4, <2>1, <3>2, <3>3 DEF Waits, NobodyWaitsInVain
  <2>4. QED
    BY <2>1, <2>2, <2>3
<1>8. Locks'
  BY <1>1, <1>5 DEF Locks
<1>9. \A d \in Calls : CallOk(call'[d], Usable')
  BY <1>2, <1>4 DEF IInv
<1>10. \A k \in Servers : MintOk(mint'[k], Usable', issued', dead')
  BY <1>2 DEF IInv
<1>11. QED
  BY <1>6, <1>7, <1>8, <1>9, <1>10 DEF IInv

\* The rejection is noted, and the memory cache looked at.
LEMMA GetTokenKeeps == ASSUME IInv, NEW c \in Calls, GetToken(c) PROVE IInv'
<1> DEFINE s == serverOf[c]
<1> DEFINE slot == IF call[c].reject = 0 THEN rejected[s] ELSE call[c].reject
<1>1. Shape /\ CallOk(call[c], Usable) /\ s \in Servers
  BY ServersAssumption DEF IInv
<1>2. call[c] \in Call /\ cached \in [Servers -> Usable] /\ rejected \in [Servers -> MaybeToken]
  BY <1>1 DEF CallOk, Shape
<1>3. Usable \subseteq MaybeToken /\ 0 \in Usable
  BY <1>1, Numbers
<1>4. slot \in MaybeToken
  BY <1>1, <1>2 DEF Call
<1>5. rejected' \in [Servers -> MaybeToken] /\ cached' = cached
  BY <1>1, <1>2, <1>4 DEF GetToken
<1>6. UNCHANGED <<issued, expired, dead, disk, saved, locked, mint, login, logins>>
  BY DEF GetToken, learnVars, diskVars
<1>7. call[c].at = "get"
  BY DEF GetToken
<1>8. CASE cached[s] \notin expired \cup {0, slot}
  <2> DEFINE x == got(call[c], cached[s])
  <2>1. call' = [call EXCEPT ![c] = x]
    BY <1>8 DEF GetToken, Got
  <2>2. CallOk(x, Usable) /\ x.at \in {"send", "login", "done"}
    BY <1>1, <1>2, <1>3, <1>7, GotOk
  <2> HIDE DEF x
  <2>3. QED
    BY <1>2, <1>5, <1>6, <2>1, <2>2, CallOnly
<1>9. CASE ~(cached[s] \notin expired \cup {0, slot})
  <2> DEFINE x == [call[c] EXCEPT !.at = "load"]
  <2>1. call' = [call EXCEPT ![c] = x]
    BY <1>9 DEF GetToken, Move
  <2>2. /\ x \in Call /\ x.at = "load" /\ x.token = call[c].token /\ x.seen = call[c].seen
        /\ x.turn = call[c].turn /\ x.refused = call[c].refused
    BY <1>2 DEF Call
  <2> HIDE DEF x
  <2>3. CallOk(x, Usable)
    BY <1>1, <1>7, <2>2 DEF CallOk
  <2>4. QED
    BY <1>2, <1>5, <1>6, <2>1, <2>2, <2>3, CallOnly
<1>10. QED
  BY <1>8, <1>9

\* The file is read, or the call ends.
LEMMA LoadReadKeeps == ASSUME IInv, NEW c \in Calls, LoadRead(c) PROVE IInv'
<1>1. Shape /\ CallOk(call[c], Usable)
  BY DEF IInv
<1>2. /\ call[c] \in Call /\ cached' \in [Servers -> Usable] /\ rejected' \in [Servers -> MaybeToken]
      /\ disk \in Usable
  BY <1>1 DEF CallOk, Shape, LoadRead, managerVars
<1>3. Usable \subseteq MaybeToken /\ 0 \in Usable
  BY <1>1, Numbers
<1>4. /\ UNCHANGED <<issued, expired, dead, disk, saved, locked, mint, login, logins>>
      /\ call[c].at = "load"
  BY DEF LoadRead, learnVars, diskVars, managerVars
<1>5. CASE End(c)
  <2>1. call' = [call EXCEPT ![c] = ended]
    BY <1>5 DEF End
  <2>2. QED
    BY <1>2, <1>3, <1>4, <2>1, EndedOk, CallOnly
<1>6. CASE call' = [call EXCEPT ![c].at = "loaded", ![c].seen = disk]
  <2> DEFINE x == [call[c] EXCEPT !.at = "loaded", !.seen = disk]
  <2>1. call' = [call EXCEPT ![c] = x]
    BY <1>1, <1>6 DEF Shape
  <2>2. /\ x \in Call /\ x.at = "loaded" /\ x.token = call[c].token /\ x.seen = disk
        /\ x.turn = call[c].turn /\ x.refused = call[c].refused
    BY <1>2, <1>3 DEF Call
  <2> HIDE DEF x
  <2>3. CallOk(x, Usable)
    BY <1>1, <1>2, <1>4, <2>2 DEF CallOk
  <2>4. QED
    BY <1>2, <1>4, <2>1, <2>2, <2>3, CallOnly
<1>7. QED
  BY <1>5, <1>6 DEF LoadRead

\* What was read is used, or its cookies are.
LEMMA LoadedKeeps == ASSUME IInv, NEW c \in Calls, Loaded(c) PROVE IInv'
<1> DEFINE s == serverOf[c]
<1> DEFINE t == call[c].seen
<1>1. Shape /\ CallOk(call[c], Usable) /\ s \in Servers
  BY ServersAssumption DEF IInv
<1>2. /\ call[c] \in Call /\ cached \in [Servers -> Usable] /\ t \in Usable
      /\ call \in [Calls -> Call] /\ mint \in [Servers -> Mint]
  BY <1>1 DEF CallOk, Shape
<1>3. Usable \subseteq MaybeToken /\ 0 \in Usable
  BY <1>1, Numbers
<1>4. /\ UNCHANGED <<issued, expired, dead, disk, saved, locked, login, logins>>
      /\ call[c].at = "loaded" /\ rejected' = rejected /\ rejected' \in [Servers -> MaybeToken]
  BY <1>1 DEF Loaded, learnVars, diskVars, Shape
<1>5. CallOk(got(call[c], t), Usable) /\ got(call[c], t).at \in {"send", "login", "done"}
  BY <1>1, <1>2, <1>3, <1>4, GotOk
<1>6. CallOk(got(call[c], 0), Usable) /\ got(call[c], 0).at \in {"send", "login", "done"}
  BY <1>1, <1>2, <1>3, <1>4, GotOk
<1>7. ASSUME isUsable(s, t), cached' = [cached EXCEPT ![s] = t], Got(c, t), UNCHANGED mint
      PROVE  IInv'
  <2>1. cached' \in [Servers -> Usable]
    BY <1>2, <1>7
  <2> DEFINE x == got(call[c], t)
  <2>2. call' = [call EXCEPT ![c] = x]
    BY <1>7 DEF Got
  <2>3. CallOk(x, Usable) /\ x.at \in {"send", "login", "done"}
    BY <1>5
  <2> HIDE DEF x
  <2>4. QED
    BY <1>4, <1>7, <2>1, <2>2, <2>3, CallOnly
<1>8. ASSUME Got(c, 0), UNCHANGED <<cached, mint>> PROVE IInv'
  <2> DEFINE x == got(call[c], 0)
  <2>2. call' = [call EXCEPT ![c] = x]
    BY <1>8 DEF Got
  <2>3. CallOk(x, Usable) /\ x.at \in {"send", "login", "done"}
    BY <1>6
  <2> HIDE DEF x
  <2>4. QED
    BY <1>2, <1>4, <1>8, <2>2, <2>3, CallOnly
<1>9. ASSUME mintable(t), call' = [call EXCEPT ![c].at = "mint", ![c].seen = 0], UNCHANGED cached,
             IF mint[s].at = "idle"
             THEN mint' = [mint EXCEPT ![s] = [noMint EXCEPT !.at = "http", !.stale = t]]
             ELSE UNCHANGED mint
      PROVE  IInv'
  <2> DEFINE x == [call[c] EXCEPT !.at = "mint", !.seen = 0]
  <2>1. call' = [call EXCEPT ![c] = x]
    BY <1>2, <1>9
  <2>2. /\ x \in Call /\ x.at = "mint" /\ x.token = call[c].token /\ x.seen = 0
        /\ x.turn = call[c].turn /\ x.refused = call[c].refused
    BY <1>2, <1>3 DEF Call
  <2> DEFINE m == [noMint EXCEPT !.at = "http", !.stale = t]
  <2>3. m \in Mint /\ m.at = "http" /\ m.stale = t /\ m.token = 0 /\ m.seen = 0
    BY <1>2, <1>3 DEF noMint, Mint
  <2>4. mint[s].at = "idle" => mint' = [mint EXCEPT ![s] = m]
    BY <1>9
  <2> HIDE DEF x, m, t
  <2>5. CallOk(x, Usable)
    BY <1>1, <1>3, <1>4, <2>2 DEF CallOk
  <2>6. MintOk(m, Usable, issued, dead)
    <3>1. t # 0 /\ Len(issued) \in Nat
      BY <1>1, <1>9, Numbers DEF mintable
    <3>2. QED
      BY <1>2, <1>3, <2>3, <3>1 DEF MintOk
  <2>7. CASE mint[s].at = "idle"
    BY <1>4, <1>9, <2>1, <2>2, <2>3, <2>4, <2>5, <2>6, <2>7, MintStarts
  <2>8. CASE mint[s].at # "idle"
    BY <1>2, <1>4, <1>9, <2>1, <2>2, <2>5, <2>8, CallOnly
  <2>9. QED
    BY <2>7, <2>8
<1>10. QED
  BY <1>7, <1>8, <1>9 DEF Loaded

\* An answer ends the call, or a 401 leads on.
LEMMA SendKeeps == ASSUME IInv, NEW c \in Calls, Send(c) PROVE IInv'
<1>1. Shape /\ CallOk(call[c], Usable)
  BY DEF IInv
<1>2. /\ call[c] \in Call /\ cached' \in [Servers -> Usable] /\ rejected' \in [Servers -> MaybeToken]
      /\ call \in [Calls -> Call]
  BY <1>1 DEF CallOk, Shape, Send, managerVars
<1>3. Usable \subseteq MaybeToken /\ 0 \in Usable
  BY <1>1, Numbers
<1>4. /\ UNCHANGED <<issued, expired, dead, disk, saved, locked, mint, login, logins>>
      /\ call[c].at = "send"
  BY DEF Send, learnVars, diskVars, managerVars
<1>5. /\ call[c].refused \in 0..2 /\ call[c].token \in MaybeToken
      /\ call[c].turn = "first" => call[c].refused = 0
      /\ call[c].turn = "refresh" => call[c].refused <= 1
  BY <1>1, <1>2, <1>4 DEF CallOk, Call
<1>6. CASE End(c)
  <2>1. call' = [call EXCEPT ![c] = ended]
    BY <1>6 DEF End
  <2>2. QED
    BY <1>2, <1>3, <1>4, <2>1, EndedOk, CallOnly
<1>7. ASSUME call[c].turn = "first",
             call' = [call EXCEPT ![c].at = "get", ![c].turn = "refresh",
                                  ![c].reject = call[c].token, ![c].refused = @ + 1]
      PROVE  IInv'
  <2> DEFINE x == [call[c] EXCEPT !.at = "get", !.turn = "refresh",
                                  !.reject = call[c].token, !.refused = @ + 1]
  <2>1. call' = [call EXCEPT ![c] = x]
    BY <1>2, <1>7
  <2>2. call[c].refused + 1 = 1 /\ 1 \in 0..2 /\ 1 <= 1
    BY <1>5, <1>7
  <2>3. /\ x \in Call /\ x.at = "get" /\ x.token = call[c].token /\ x.seen = call[c].seen
        /\ x.turn = "refresh" /\ x.refused = call[c].refused + 1
    BY <1>2, <1>5, <2>2 DEF Call
  <2> HIDE DEF x
  <2>4. CallOk(x, Usable)
    BY <1>1, <2>2, <2>3 DEF CallOk
  <2>5. QED
    BY <1>2, <1>4, <2>1, <2>3, <2>4, CallOnly
<1>8. ASSUME call[c].turn = "refresh",
             call' = [call EXCEPT ![c].at = "login",
                                  ![c].reject = call[c].token, ![c].refused = @ + 1]
      PROVE  IInv'
  <2> DEFINE x == [call[c] EXCEPT !.at = "login", !.reject = call[c].token, !.refused = @ + 1]
  <2>1. call' = [call EXCEPT ![c] = x]
    BY <1>2, <1>8
  <2>2. call[c].refused + 1 \in 0..2
    BY <1>5, <1>8
  <2>3. /\ x \in Call /\ x.at = "login" /\ x.token = call[c].token /\ x.seen = call[c].seen
        /\ x.turn = "refresh"
    BY <1>2, <1>5, <1>8, <2>2 DEF Call
  <2> HIDE DEF x
  <2>4. CallOk(x, Usable)
    BY <1>1, <2>3 DEF CallOk
  <2>5. QED
    BY <1>2, <1>4, <2>1, <2>3, <2>4, CallOnly
<1>9. QED
  BY <1>6, <1>7, <1>8 DEF Send

\* The sign-in process of the call's server starts, or runs already.
LEMMA RunLoginKeeps == ASSUME IInv, NEW c \in Calls, RunLogin(c) PROVE IInv'
<1> DEFINE s == serverOf[c]
<1>1. Shape /\ CallOk(call[c], Usable) /\ s \in People
  BY ServersAssumption DEF IInv, People
<1>2. /\ call[c] \in Call /\ cached' \in [Servers -> Usable] /\ rejected' \in [Servers -> MaybeToken]
      /\ call \in [Calls -> Call] /\ login \in [People -> Login] /\ login[s].token <= Len(issued)
  BY <1>1 DEF CallOk, Shape, RunLogin, managerVars
<1>3. Usable \subseteq MaybeToken /\ 0 \in Usable
  BY <1>1, Numbers
<1>4. UNCHANGED <<issued, expired, dead, disk, saved, locked, cached, rejected, mint, logins>>
      /\ call[c].at = "login"
  BY DEF RunLogin, learnVars, diskVars, managerVars
<1>5. CASE login[s].at # "none"
  <2>1. call' = [call EXCEPT ![c] = ended] /\ login' = login
    BY <1>5 DEF RunLogin, End
  <2>2. QED
    BY <1>2, <1>3, <1>4, <2>1, EndedOk, CallOnly
<1>6. CASE login[s].at = "none"
  <2> DEFINE x == [call[c] EXCEPT !.at = "loggingIn", !.seen = 0]
  <2> DEFINE l == [login[s] EXCEPT !.at = "browser"]
  <2>1. call' = [call EXCEPT ![c] = x] /\ login' = [login EXCEPT ![s] = l]
    BY <1>1, <1>2, <1>6 DEF RunLogin
  <2>2. /\ x \in Call /\ x.at = "loggingIn" /\ x.token = call[c].token /\ x.seen = 0
        /\ x.turn = call[c].turn /\ x.refused = call[c].refused
    BY <1>2, <1>3 DEF Call
  <2>3. l \in Login /\ l.at = "browser" /\ l.token = login[s].token
    BY <1>1, <1>2 DEF Login
  <2> HIDE DEF x, l
  <2>4. CallOk(x, Usable)
    BY <1>1, <1>3, <1>4, <2>2 DEF CallOk
  <2>5. QED
    BY <1>2, <1>4, <1>6, <2>1, <2>2, <2>3, <2>4, LoginTurns
<1>7. QED
  BY <1>5, <1>6

\* The sign-in process has ended: its token is looked for, or the call fails.
LEMMA LoginEndsKeeps == ASSUME IInv, NEW c \in Calls, LoginEnds(c) PROVE IInv'
<1> DEFINE s == serverOf[c]
<1>1. Shape /\ CallOk(call[c], Usable) /\ s \in People
  BY ServersAssumption DEF IInv, People
<1>2. call[c] \in Call /\ call \in [Calls -> Call] /\ login \in [People -> Login]
  BY <1>1 DEF CallOk, Shape
<1>3. Usable \subseteq MaybeToken /\ 0 \in Usable /\ 0 <= Len(issued)
  BY <1>1, Numbers
<1>4. /\ UNCHANGED <<issued, expired, dead, disk, saved, locked, cached, rejected, mint, logins>>
      /\ call[c].at = "loggingIn" /\ login' = [login EXCEPT ![s] = noLogin]
  BY DEF LoginEnds, learnVars, diskVars, managerVars
<1>5. noLogin \in Login /\ noLogin.at = "none" /\ noLogin.token = 0
  BY <1>3 DEF noLogin, Login
<1>6. CASE login[s].token = 0
  <2>1. call' = [call EXCEPT ![c] = ended]
    BY <1>6 DEF LoginEnds, End
  <2>2. CallOk(ended, Usable) /\ ended.at = "done"
    BY <1>3, EndedOk
  <2>3. QED
    BY <1>3, <1>4, <1>5, <2>1, <2>2, LoginTurns
<1>7. CASE login[s].token # 0
  <2> DEFINE x == [call[c] EXCEPT !.at = "get", !.turn = "last"]
  <2>1. call' = [call EXCEPT ![c] = x]
    BY <1>2, <1>7 DEF LoginEnds
  <2>2. /\ x \in Call /\ x.at = "get" /\ x.token = call[c].token /\ x.seen = call[c].seen
        /\ x.turn = "last"
    BY <1>2 DEF Call
  <2> HIDE DEF x
  <2>3. CallOk(x, Usable)
    BY <1>1, <2>2 DEF CallOk
  <2>4. QED
    BY <1>3, <1>4, <1>5, <2>1, <2>2, <2>3, LoginTurns
<1>8. QED
  BY <1>6, <1>7

\* The calls that waited for a mint have been told, and none is left over.
Answered(s) ==
  /\ mint' = [mint EXCEPT ![s] = noMint]
  /\ call' \in [Calls -> Call]
  /\ \A c \in Calls :
       \/ call'[c] = call[c] /\ ~(serverOf[c] = s /\ call[c].at = "mint")
       \/ CallOk(call'[c], Usable) /\ call'[c].at \in {"send", "login", "done"}

\* An answer is told to whoever waits for it.
LEMMA SettleAnswers ==
  ASSUME IInv, NEW s \in Servers, NEW t \in Usable, Settle(s, t)
  PROVE  Answered(s)
<1>1. Shape /\ \A c \in Calls : CallOk(call[c], Usable)
  BY DEF IInv
<1>2. Usable \subseteq MaybeToken /\ 0 \in Usable
  BY <1>1, Numbers
<1>3. /\ mint' = [mint EXCEPT ![s] = noMint]
      /\ call' = [c \in Calls |-> IF c \in waiting(s) THEN got(call[c], t) ELSE call[c]]
  BY DEF Settle
<1>4. ASSUME NEW c \in Calls, c \in waiting(s)
      PROVE  CallOk(got(call[c], t), Usable) /\ got(call[c], t).at \in {"send", "login", "done"}
  <2>1. call[c].at = "mint"
    BY <1>4 DEF waiting
  <2>2. QED
    BY <1>1, <1>2, <2>1, GotOk
<1>5. \A c \in Calls : got(call[c], t) \in Call \/ c \notin waiting(s)
  BY <1>4 DEF CallOk
<1>6. \A c \in Calls : call[c] \in Call
  BY <1>1 DEF CallOk
<1>7. call' \in [Calls -> Call]
  BY <1>3, <1>5, <1>6
<1>8. QED
  BY <1>3, <1>4, <1>7 DEF Answered, waiting

\* So is an error.
LEMMA ErrorAnswers ==
  ASSUME IInv, NEW s \in Servers, SettleError(s)
  PROVE  Answered(s)
<1>1. Shape /\ \A c \in Calls : CallOk(call[c], Usable)
  BY DEF IInv
<1>2. 0 \in Usable
  BY <1>1, Numbers
<1>3. /\ mint' = [mint EXCEPT ![s] = noMint]
      /\ call' = [c \in Calls |-> IF c \in waiting(s) THEN ended ELSE call[c]]
  BY DEF SettleError
<1>4. CallOk(ended, Usable) /\ ended.at = "done"
  BY <1>2, EndedOk
<1>5. ended \in Call /\ \A c \in Calls : call[c] \in Call
  BY <1>1, <1>4 DEF CallOk
<1>6. call' \in [Calls -> Call]
  BY <1>3, <1>5
<1>7. QED
  BY <1>3, <1>4, <1>6 DEF Answered, waiting

\* A mint that moves on, in order, or answers, keeps every invariant but those on the lock.
LEMMA MintOnly ==
  ASSUME IInv, NEW s \in Servers, Grows, UNCHANGED login, Shape', Locks',
         \/ Answered(s)
         \/ \E m \in Mint : /\ MintOk(m, Usable', issued', dead') /\ m.at # "idle"
                            /\ mint' = [mint EXCEPT ![s] = m] /\ call' = call
  PROVE  IInv'
<1>1. Shape /\ Waits /\ mint \in [Servers -> Mint]
  BY DEF IInv, Shape
<1>2. /\ \A r : CallOk(r, Usable) => CallOk(r, Usable')
      /\ \A m : MintOk(m, Usable, issued, dead) => MintOk(m, Usable', issued', dead')
  BY <1>1, Kept
<1>3. noMint \in Mint /\ noMint.at = "idle" /\ MintOk(noMint, Usable', issued', dead')
  <2>1. 0 \in MaybeToken
    BY LimitsAssumption DEF MaybeToken
  <2>2. 0 \in Usable' /\ Len(issued') \in Nat
    BY <1>1, Numbers DEF Grows
  <2>3. QED
    BY <2>1, <2>2 DEF MintOk, noMint, Mint
<1>4. \A c \in Calls : CallOk(call[c], Usable')
  BY <1>2 DEF IInv
<1>5. \A k \in Servers : MintOk(mint[k], Usable', issued', dead')
  BY <1>2 DEF IInv
<1>6. CASE Answered(s)
  <2>1. /\ mint'[s] = noMint /\ \A k \in Servers : k # s => mint'[k] = mint[k]
    BY <1>1, <1>6 DEF Answered
  <2>2. \A c \in Calls :
          \/ call'[c] = call[c] /\ ~(serverOf[c] = s /\ call[c].at = "mint")
          \/ CallOk(call'[c], Usable') /\ call'[c].at \in {"send", "login", "done"}
    BY <1>2, <1>6 DEF Answered
  <2>3. Waits'
    BY <1>1, <2>1, <2>2, ServersAssumption DEF Waits, NobodyWaitsInVain
  <2>4. \A c \in Calls : CallOk(call'[c], Usable')
    BY <1>4, <2>2
  <2>5. \A k \in Servers : MintOk(mint'[k], Usable', issued', dead')
    BY <1>3, <1>5, <2>1
  <2>6. QED
    BY <2>3, <2>4, <2>5 DEF IInv
<1>7. ASSUME NEW m \in Mint, MintOk(m, Usable', issued', dead'), m.at # "idle",
             mint' = [mint EXCEPT ![s] = m], call' = call
      PROVE  IInv'
  <2>1. /\ mint'[s] = m /\ \A k \in Servers : k # s => mint'[k] = mint[k]
    BY <1>1, <1>7
  <2>2. Waits'
    BY <1>1, <1>7, <2>1, ServersAssumption DEF Waits, NobodyWaitsInVain
  <2>3. \A c \in Calls : CallOk(call'[c], Usable')
    BY <1>4, <1>7
  <2>4. \A k \in Servers : MintOk(mint'[k], Usable', issued', dead')
    BY <1>5, <1>7, <2>1
  <2>5. QED
    BY <2>2, <2>3, <2>4 DEF IInv
<1>8. QED
  BY <1>6, <1>7

\* The types, when nothing is issued.
LEMMA ShapeKept ==
  ASSUME Shape, NEW s \in Servers, UNCHANGED <<issued, expired, dead, login, logins>>,
         Answered(s) \/ \E m \in Mint : mint' = [mint EXCEPT ![s] = m] /\ call' = call,
         cached' \in [Servers -> Usable'], rejected' \in [Servers -> MaybeToken],
         locked' \in BOOLEAN, saved' \subseteq 1..Len(issued), disk' \in Usable'
  PROVE  Shape'
<1>1. noMint \in Mint
  BY LimitsAssumption DEF noMint, Mint, MaybeToken
<1>2. mint' \in [Servers -> Mint] /\ call' \in [Calls -> Call]
  BY <1>1 DEF Shape, Answered
<1>3. QED
  BY <1>2 DEF Shape

\* The lock, when the mint neither takes it nor goes on under it.
LEMMA Released ==
  ASSUME Shape, Locks, NEW s \in Servers, NEW m, mint' = [mint EXCEPT ![s] = m],
         m.at \notin {"compare", "write"}, UNCHANGED login,
         (locked' = locked /\ disk' = disk) \/ mint[s].at \in {"compare", "write"}
  PROVE  Locks'
<1>1. mint'[s] = m /\ \A k \in Servers : k # s => mint'[k] = mint[k]
  BY DEF Shape
<1>2. \A k \in Servers : mint'[k].at \in {"compare", "write"} => k # s /\ mint'[k] = mint[k]
  BY <1>1
<1>3. CASE locked' = locked /\ disk' = disk
  BY <1>2, <1>3 DEF Locks
<1>4. CASE mint[s].at \in {"compare", "write"}
  <2>1. \A k \in Servers : mint'[k].at \notin {"compare", "write"}
    BY <1>2, <1>4 DEF Locks
  <2>2. \A l \in People : login'[l].at # "save"
    BY <1>4 DEF Locks
  <2>3. QED
    BY <2>1, <2>2 DEF Locks
<1>5. QED
  BY <1>3, <1>4

\* The mint in flight, and what it may rely on.
LEMMA MintFacts ==
  ASSUME IInv, NEW s \in Servers
  PROVE  /\ Shape /\ Locks /\ MintOk(mint[s], Usable, issued, dead) /\ mint[s] \in Mint
         /\ Usable \subseteq MaybeToken /\ 0 \in Usable
         /\ cached \in [Servers -> Usable] /\ rejected \in [Servers -> MaybeToken]
         /\ locked \in BOOLEAN /\ saved \subseteq 1..Len(issued) /\ disk \in Usable
         /\ mint \in [Servers -> Mint] /\ noMint.at = "idle"
<1>1. Shape /\ Locks /\ MintOk(mint[s], Usable, issued, dead)
  BY DEF IInv
<1>2. QED
  BY <1>1, Numbers DEF MintOk, Shape, noMint

\* A step of a mint that saves nothing and issues nothing, and ends up away from the lock.
LEMMA MintGoesOn ==
  ASSUME IInv, NEW s \in Servers, UNCHANGED <<issued, expired, dead, disk, saved, login, logins>>,
         cached' \in [Servers -> Usable], rejected' \in [Servers -> MaybeToken],
         locked' \in BOOLEAN, locked' = locked \/ mint[s].at \in {"compare", "write"},
         \/ Answered(s)
         \/ \E m \in Mint : /\ MintOk(m, Usable, issued, dead)
                            /\ m.at \notin {"idle", "compare", "write"}
                            /\ mint' = [mint EXCEPT ![s] = m] /\ call' = call
  PROVE  IInv'
<1>1. Shape /\ Locks /\ locked \in BOOLEAN /\ saved \subseteq 1..Len(issued) /\ disk \in Usable
      /\ noMint.at = "idle"
  BY MintFacts
<1>2. Grows /\ Usable' = Usable
  BY <1>1, Same
<1>3. Shape'
  <2>1. Answered(s) \/ \E m \in Mint : mint' = [mint EXCEPT ![s] = m] /\ call' = call
    OBVIOUS
  <2>2. locked' \in BOOLEAN
    BY <1>1
  <2>3. cached' \in [Servers -> Usable'] /\ disk' \in Usable' /\ saved' \subseteq 1..Len(issued)
    BY <1>1, <1>2
  <2>4. QED
    BY <1>1, <2>1, <2>2, <2>3, ShapeKept
<1>4. Locks'
  <2>1. \E m : mint' = [mint EXCEPT ![s] = m] /\ m.at \notin {"compare", "write"}
    BY <1>1 DEF Answered
  <2>2. QED
    BY <1>1, <2>1, Released
<1>5. \/ Answered(s)
      \/ \E m \in Mint : /\ MintOk(m, Usable', issued', dead') /\ m.at # "idle"
                         /\ mint' = [mint EXCEPT ![s] = m] /\ call' = call
  BY <1>2
<1>6. QED
  BY <1>2, <1>3, <1>4, <1>5, MintOnly

\* An answer, and a move.
LEMMA MintEnds ==
  ASSUME IInv, NEW s \in Servers, UNCHANGED <<issued, expired, dead, disk, saved, login, logins>>,
         cached' \in [Servers -> Usable], rejected' \in [Servers -> MaybeToken],
         locked' = locked, Answered(s)
  PROVE  IInv'
<1>1. locked' \in BOOLEAN
  BY MintFacts
<1>2. QED
  BY <1>1, MintGoesOn

\* A mint that goes to another place, and neither takes nor keeps the lock there.
LEMMA MintMovesOn ==
  ASSUME IInv, NEW s \in Servers, UNCHANGED <<issued, expired, dead, disk, saved, login, logins>>,
         cached' = cached, rejected' = rejected,
         locked' \in BOOLEAN, locked' = locked \/ mint[s].at \in {"compare", "write"},
         NEW m, MintOk(m, Usable, issued, dead), m.at \notin {"idle", "compare", "write"},
         mint' = [mint EXCEPT ![s] = m], call' = call
  PROVE  IInv'
<1>1. m \in Mint /\ cached' \in [Servers -> Usable] /\ rejected' \in [Servers -> MaybeToken]
  BY MintFacts DEF MintOk
<1>2. \E x \in Mint : /\ MintOk(x, Usable, issued, dead)
                      /\ x.at \notin {"idle", "compare", "write"}
                      /\ mint' = [mint EXCEPT ![s] = x] /\ call' = call
  BY <1>1
<1>3. QED
  BY <1>1, <1>2, MintGoesOn

\* The places of a mint that has its answer and has saved nothing.
Answering == {"recheck", "rechecked", "lock", "compare", "write", "changed", "changedRead"}

\* A mint that goes on with its answer stays in order.
LEMMA Relabelled ==
  ASSUME IInv, NEW s \in Servers, mint[s].at \notin {"idle", "http"}, NEW l \in Answering,
         mint' = [mint EXCEPT ![s].at = l]
  PROVE  \E m \in Mint : /\ m.at = l /\ m.stale = mint[s].stale /\ MintOk(m, Usable, issued, dead)
                         /\ mint' = [mint EXCEPT ![s] = m]
<1> DEFINE x == [mint[s] EXCEPT !.at = l]
<1>1. /\ MintOk(mint[s], Usable, issued, dead) /\ mint[s] \in Mint /\ mint \in [Servers -> Mint]
  BY MintFacts
<1>2. /\ x \in Mint /\ x.at = l /\ x.stale = mint[s].stale /\ x.token = mint[s].token
      /\ x.seen = mint[s].seen
  BY <1>1 DEF Mint, Answering
<1>3. mint' = [mint EXCEPT ![s] = x]
  BY <1>1
<1>4. l \notin {"idle", "http", "written"}
  BY DEF Answering
<1> HIDE DEF x
<1>5. MintOk(x, Usable, issued, dead)
  BY <1>1, <1>2, <1>4 DEF MintOk
<1>6. QED
  BY <1>2, <1>3, <1>5

\* So does one that reads the file.
LEMMA Reread ==
  ASSUME IInv, NEW s \in Servers, mint[s].at \notin {"idle", "http"}, NEW l \in Answering,
         mint' = [mint EXCEPT ![s].at = l, ![s].seen = disk]
  PROVE  \E m \in Mint : /\ m.at = l /\ MintOk(m, Usable, issued, dead)
                         /\ mint' = [mint EXCEPT ![s] = m]
<1> DEFINE x == [mint[s] EXCEPT !.at = l, !.seen = disk]
<1>1. /\ MintOk(mint[s], Usable, issued, dead) /\ mint[s] \in Mint /\ mint \in [Servers -> Mint]
      /\ Usable \subseteq MaybeToken /\ disk \in Usable
  BY MintFacts
<1>2. /\ x \in Mint /\ x.at = l /\ x.stale = mint[s].stale /\ x.token = mint[s].token
      /\ x.seen = disk
  BY <1>1 DEF Mint, Answering
<1>3. mint' = [mint EXCEPT ![s] = x]
  BY <1>1
<1>4. l \notin {"idle", "http", "written"}
  BY DEF Answering
<1> HIDE DEF x
<1>5. MintOk(x, Usable, issued, dead)
  BY <1>1, <1>2, <1>4 DEF MintOk
<1>6. QED
  BY <1>2, <1>3, <1>5

\* LEARN's answer: a later token of the session, its end, or an error.
LEMMA MintAnswerKeeps == ASSUME IInv, NEW s \in Servers, MintAnswer(s) PROVE IInv'
<1> DEFINE ses == issued[mint[s].stale]
<1>1. /\ Shape /\ Locks /\ MintOk(mint[s], Usable, issued, dead) /\ mint[s] \in Mint
      /\ Usable \subseteq MaybeToken /\ 0 \in Usable
      /\ cached \in [Servers -> Usable] /\ rejected \in [Servers -> MaybeToken]
      /\ locked \in BOOLEAN /\ mint \in [Servers -> Mint]
  BY MintFacts
<1>2. /\ UNCHANGED <<expired, dead, disk, saved, locked, cached, rejected, login, logins>>
      /\ mint[s].at = "http"
  BY DEF MintAnswer, MintAt, diskVars
<1>3. /\ mint[s].stale \in 1..Len(issued) /\ mint[s].token = 0 /\ ses \in Session
      /\ mint[s].stale \in Usable /\ mint[s].seen \in Usable /\ Len(issued) \in Nat
      /\ Len(issued) <= MaxTokens
  BY <1>1, <1>2, Numbers DEF MintOk, Shape
<1>4. CASE SettleError(s) /\ UNCHANGED issued
  <2>1. Answered(s)
    BY <1>4, ErrorAnswers
  <2>2. QED
    BY <1>1, <1>2, <1>4, <2>1, MintEnds
<1>5. CASE ses \in dead /\ MintMoves(s, "recheck") /\ UNCHANGED <<issued, call>>
  <2> DEFINE m == [mint[s] EXCEPT !.at = "recheck"]
  <2>1. mint' = [mint EXCEPT ![s] = m]
    BY <1>1, <1>5 DEF MintMoves
  <2>2. /\ m \in Mint /\ m.at = "recheck" /\ m.stale = mint[s].stale /\ m.token = mint[s].token
        /\ m.seen = mint[s].seen
    BY <1>1 DEF Mint
  <2>3. issued[m.stale] \in dead
    BY <1>5, <2>2
  <2> HIDE DEF m
  <2>4. MintOk(m, Usable, issued, dead)
    BY <1>3, <2>2, <2>3 DEF MintOk
  <2>5. QED
    BY <1>1, <1>2, <1>5, <2>1, <2>2, <2>4, MintMovesOn
<1>6. CASE /\ Len(issued) < MaxTokens
           /\ issued' = Append(issued, ses)
           /\ mint' = [mint EXCEPT ![s].at = "recheck", ![s].token = Len(issued) + 1]
           /\ UNCHANGED call
  <2> DEFINE n == Len(issued)
  <2> DEFINE m == [mint[s] EXCEPT !.at = "recheck", !.token = n + 1]
  <2>1. mint' = [mint EXCEPT ![s] = m]
    BY <1>1, <1>6
  <2>2. n + 1 \in MaybeToken /\ n + 1 \in 1..(n + 1) /\ n + 1 # 0 /\ n + 1 > mint[s].stale
        /\ n <= n + 1 /\ n + 1 \in Nat /\ 1..n \subseteq 1..(n + 1) /\ n + 1 <= MaxTokens
        /\ n + 1 \in 0..(n + 1)
    BY <1>3, <1>6, LimitsAssumption DEF MaybeToken
  <2>3. /\ issued' \in Seq(Session) /\ Len(issued') = n + 1 /\ issued'[n + 1] = ses
        /\ \A t \in 1..n : issued'[t] = issued[t]
    BY <1>1, <1>3, <1>6, AppendProperties DEF Shape
  <2>4. /\ m \in Mint /\ m.at = "recheck" /\ m.stale = mint[s].stale /\ m.token = n + 1
        /\ m.seen = mint[s].seen
    BY <1>1, <2>2 DEF Mint
  <2>5. issued'[m.token] = issued'[m.stale]
    BY <1>3, <2>3, <2>4
  <2> HIDE DEF m, ses
  <2>6. Usable' = Usable
    BY <1>2 DEF Usable
  <2>7. MintOk(m, Usable', issued', dead')
    BY <1>2, <1>3, <2>2, <2>3, <2>4, <2>5, <2>6 DEF MintOk
  <2>8. Grows
    BY <1>2, <1>3, <2>2, <2>3, <2>6 DEF Grows
  <2>9. mint' \in [Servers -> Mint]
    BY <1>1, <2>1, <2>4
  <2>10. Shape'
    <3>1. /\ saved' \subseteq 1..Len(issued') /\ disk' \in Usable'
          /\ \A l \in People : login'[l].token <= Len(issued')
      <4>1. \A l \in People : login[l].token \in 0..MaxTokens /\ login[l].token <= n
        BY <1>1 DEF Shape, Login, MaybeToken
      <4>2. \A k \in 0..MaxTokens : k <= n => k <= n + 1
        BY <1>3, LimitsAssumption
      <4>3. QED
        BY <1>1, <1>2, <2>2, <2>3, <2>6, <4>1, <4>2 DEF Shape
    <3>2. QED
      BY <1>1, <1>2, <1>6, <2>2, <2>3, <2>6, <2>9, <3>1 DEF Shape
  <2>11. Locks'
    BY <1>1, <1>2, <2>1, <2>4, Released
  <2>12. QED
    BY <1>2, <1>6, <2>1, <2>4, <2>7, <2>8, <2>10, <2>11, MintOnly
<1>7. QED
  BY <1>4, <1>5, <1>6 DEF MintAnswer

\* The file is read again.
LEMMA RecheckKeeps == ASSUME IInv, NEW s \in Servers, Recheck(s) PROVE IInv'
<1>1. /\ UNCHANGED <<issued, expired, dead, disk, saved, locked, cached, rejected, login, logins>>
      /\ mint[s].at = "recheck"
  BY DEF Recheck, MintAt, learnVars, diskVars
<1>2. cached \in [Servers -> Usable] /\ rejected \in [Servers -> MaybeToken] /\ locked \in BOOLEAN
  BY MintFacts
<1>3. CASE SettleError(s)
  BY <1>1, <1>2, <1>3, ErrorAnswers, MintEnds
<1>4. CASE mint' = [mint EXCEPT ![s].at = "rechecked", ![s].seen = disk] /\ UNCHANGED call
  <2>1. PICK m \in Mint : /\ m.at = "rechecked" /\ MintOk(m, Usable, issued, dead)
                          /\ mint' = [mint EXCEPT ![s] = m]
    <3>1. "rechecked" \in Answering /\ mint[s].at \notin {"idle", "http"}
      BY <1>1 DEF Answering
    <3>2. QED
      BY <1>1, <1>4, <3>1, Reread
  <2>2. QED
    BY <1>1, <1>2, <1>4, <2>1, MintMovesOn
<1>5. QED
  BY <1>3, <1>4 DEF Recheck

\* What a login of another process saved meanwhile wins.
LEMMA RecheckedKeeps == ASSUME IInv, NEW s \in Servers, Rechecked(s) PROVE IInv'
<1> DEFINE current == mint[s].seen
<1>1. /\ UNCHANGED <<issued, expired, dead, disk, saved, locked, rejected, login, logins>>
      /\ mint[s].at = "rechecked"
  BY DEF Rechecked, MintAt, learnVars, diskVars
<1>2. /\ cached \in [Servers -> Usable] /\ rejected \in [Servers -> MaybeToken]
      /\ locked \in BOOLEAN /\ current \in Usable
  BY MintFacts DEF MintOk
<1>3. ASSUME cached' = [cached EXCEPT ![s] = current],
             IF isUsable(s, current) THEN Settle(s, current) ELSE SettleError(s)
      PROVE  IInv'
  <2>1. Answered(s)
    BY <1>2, <1>3, SettleAnswers, ErrorAnswers
  <2>2. cached' \in [Servers -> Usable]
    BY <1>2, <1>3
  <2>3. QED
    BY <1>1, <1>2, <2>1, <2>2, MintEnds
<1>4. ASSUME MintMoves(s, "lock"), UNCHANGED <<cached, call>> PROVE IInv'
  <2>1. PICK m \in Mint : /\ m.at = "lock" /\ MintOk(m, Usable, issued, dead)
                          /\ mint' = [mint EXCEPT ![s] = m]
    <3>1. "lock" \in Answering /\ mint[s].at \notin {"idle", "http"}
      BY <1>1 DEF Answering
    <3>2. QED
      BY <1>1, <1>4, <3>1, Relabelled DEF MintMoves
  <2>2. QED
    BY <1>1, <1>2, <1>4, <2>1, MintMovesOn
<1>5. QED
  BY <1>3, <1>4 DEF Rechecked

\* The write lock is taken, or not to be had.
LEMMA MintLockKeeps == ASSUME IInv, NEW s \in Servers, MintLock(s) PROVE IInv'
<1>1. /\ UNCHANGED <<issued, expired, dead, disk, saved, cached, rejected, login, logins>>
      /\ mint[s].at = "lock"
  BY DEF MintLock, MintAt, learnVars, diskVars
<1>2. /\ cached \in [Servers -> Usable] /\ rejected \in [Servers -> MaybeToken] /\ Shape /\ Locks
      /\ mint \in [Servers -> Mint] /\ saved \subseteq 1..Len(issued) /\ disk \in Usable
  BY MintFacts
<1>3. CASE SettleError(s) /\ UNCHANGED locked
  BY <1>1, <1>2, <1>3, ErrorAnswers, MintEnds
<1>4. CASE ~locked /\ locked' = TRUE /\ MintMoves(s, "compare") /\ UNCHANGED call
  <2>1. PICK m \in Mint : /\ m.at = "compare" /\ MintOk(m, Usable, issued, dead)
                          /\ mint' = [mint EXCEPT ![s] = m]
    <3>1. "compare" \in Answering /\ mint[s].at \notin {"idle", "http"}
      BY <1>1 DEF Answering
    <3>2. QED
      BY <1>1, <1>4, <3>1, Relabelled DEF MintMoves
  <2>2. Grows /\ Usable' = Usable
    BY <1>1, <1>2, Same
  <2>3. Shape'
    <3>1. \E x \in Mint : mint' = [mint EXCEPT ![s] = x] /\ call' = call
      BY <1>4, <2>1
    <3>2. cached' \in [Servers -> Usable'] /\ disk' \in Usable' /\ saved' \subseteq 1..Len(issued)
      BY <1>1, <1>2, <2>2
    <3>3. QED
      BY <1>1, <1>2, <1>4, <3>1, <3>2, ShapeKept
  <2>4. mint'[s] = m /\ \A k \in Servers : k # s => mint'[k] = mint[k]
    BY <1>2, <2>1
  <2>5. /\ \A k \in Servers : mint[k].at \notin {"compare", "write"}
        /\ \A l \in People : login[l].at # "save"
    BY <1>2, <1>4 DEF Locks
  <2>6. Locks'
    BY <1>1, <1>4, <2>1, <2>4, <2>5 DEF Locks
  <2>7. MintOk(m, Usable', issued', dead')
    BY <1>1, <2>1, <2>2
  <2>8. QED
    BY <1>1, <1>4, <2>1, <2>2, <2>3, <2>6, <2>7, MintOnly
<1>5. QED
  BY <1>3, <1>4 DEF MintLock

\* The file is compared under the lock.
LEMMA CompareKeeps == ASSUME IInv, NEW s \in Servers, Compare(s) PROVE IInv'
<1>1. /\ UNCHANGED <<issued, expired, dead, disk, saved, cached, rejected, login, call, logins>>
      /\ mint[s].at = "compare"
  BY DEF Compare, MintAt, learnVars, diskVars
<1>2. /\ cached \in [Servers -> Usable] /\ rejected \in [Servers -> MaybeToken] /\ Shape /\ Locks
      /\ mint \in [Servers -> Mint] /\ saved \subseteq 1..Len(issued) /\ disk \in Usable
      /\ locked \in BOOLEAN
  BY MintFacts
<1>3. CASE disk # mint[s].stale
  <2>1. PICK m \in Mint : /\ m.at = "changed" /\ MintOk(m, Usable, issued, dead)
                          /\ mint' = [mint EXCEPT ![s] = m]
    <3>1. "changed" \in Answering /\ mint[s].at \notin {"idle", "http"}
      BY <1>1 DEF Answering
    <3>2. QED
      BY <1>1, <1>3, <3>1, Relabelled DEF MintMoves, Compare
  <2>2. locked' \in BOOLEAN
    BY <1>3 DEF Compare
  <2>3. QED
    BY <1>1, <1>2, <2>1, <2>2, MintMovesOn
<1>4. CASE disk = mint[s].stale
  <2>1. PICK m \in Mint : /\ m.at = "write" /\ m.stale = mint[s].stale
                          /\ MintOk(m, Usable, issued, dead) /\ mint' = [mint EXCEPT ![s] = m]
    <3>1. "write" \in Answering /\ mint[s].at \notin {"idle", "http"}
      BY <1>1 DEF Answering
    <3>2. mint' = [mint EXCEPT ![s].at = "write"]
      BY <1>4 DEF Compare, MintMoves
    <3>3. QED
      BY <1>1, <3>1, <3>2, Relabelled, ZenonT(60)
  <2>2. Grows /\ Usable' = Usable /\ locked' = locked
    BY <1>1, <1>2, <1>4, Same DEF Compare
  <2>3. Shape'
    <3>1. \E x \in Mint : mint' = [mint EXCEPT ![s] = x] /\ call' = call
      BY <1>1, <2>1
    <3>2. cached' \in [Servers -> Usable'] /\ disk' \in Usable' /\ saved' \subseteq 1..Len(issued)
          /\ locked' \in BOOLEAN
      BY <1>1, <1>2, <2>2
    <3>3. QED
      BY <1>1, <1>2, <3>1, <3>2, ShapeKept
  <2>4. mint'[s] = m /\ \A k \in Servers : k # s => mint'[k] = mint[k]
    BY <1>2, <2>1
  <2>5. mint'[s].at = "write" /\ disk' = mint'[s].stale
    BY <1>1, <1>4, <2>1, <2>4
  <2>6. /\ locked /\ \A k \in Servers : k # s => mint[k].at \notin {"compare", "write"}
        /\ \A l \in People : login[l].at # "save"
    BY <1>1, <1>2 DEF Locks
  <2>7. Locks'
    BY <1>1, <2>2, <2>4, <2>5, <2>6 DEF Locks
  <2>8. MintOk(m, Usable', issued', dead')
    BY <1>1, <2>1, <2>2
  <2>9. QED
    BY <1>1, <2>1, <2>2, <2>3, <2>7, <2>8, MintOnly
<1>5. QED
  BY <1>3, <1>4

\* What is saved becomes usable.
LEMMA Saving ==
  ASSUME Shape, UNCHANGED <<issued, dead>>, NEW n \in 0..Len(issued), disk' = n,
         saved' = (saved \cup {disk'}) \ {0}
  PROVE  Grows /\ saved' \subseteq 1..Len(issued) /\ disk' \in Usable' /\ n \in Usable'
<1>1. Len(issued) \in Nat /\ saved \subseteq 1..Len(issued)
  BY Numbers DEF Shape
<1>2. Usable' = saved' \cup {0}
  BY DEF Usable
<1>3. n \in Usable' /\ Usable \subseteq Usable'
  BY <1>2 DEF Usable
<1>4. saved' \subseteq 1..Len(issued)
  BY <1>1
<1>5. QED
  BY <1>1, <1>3, <1>4 DEF Grows

\* Under the lock the mint's token is saved, or its dead session's file removed.
LEMMA MintWriteKeeps == ASSUME IInv, NEW s \in Servers, MintWrite(s) PROVE IInv'
<1>1. /\ UNCHANGED <<issued, expired, dead, cached, rejected, login, logins>>
      /\ mint[s].at = "write" /\ locked' = FALSE /\ locked' \in BOOLEAN
      /\ saved' = (saved \cup {disk'}) \ {0} /\ disk' \in {disk, mint[s].token}
  BY DEF MintWrite, MintAt, learnVars, diskVars
<1>2. /\ cached \in [Servers -> Usable] /\ rejected \in [Servers -> MaybeToken] /\ Shape /\ Locks
      /\ mint \in [Servers -> Mint] /\ disk \in Usable /\ noMint.at = "idle"
      /\ MintOk(mint[s], Usable, issued, dead) /\ mint[s] \in Mint
  BY MintFacts
<1>3. disk' \in 0..Len(issued)
  BY <1>1, <1>2, Numbers DEF MintOk
<1>4. Grows /\ saved' \subseteq 1..Len(issued) /\ disk' \in Usable'
  BY <1>1, <1>2, <1>3, Saving
<1>5. cached' \in [Servers -> Usable'] /\ rejected' \in [Servers -> MaybeToken]
  BY <1>1, <1>2, <1>4 DEF Grows
<1>6. CASE SettleError(s)
  <2>1. Answered(s)
    BY <1>6, ErrorAnswers
  <2>2. Shape'
    BY <1>1, <1>2, <1>4, <1>5, <2>1, ShapeKept
  <2>3. Locks'
    <3>1. mint' = [mint EXCEPT ![s] = noMint]
      BY <2>1 DEF Answered
    <3>2. QED
      BY <1>1, <1>2, <3>1, Released
  <2>4. QED
    BY <1>1, <1>4, <2>1, <2>2, <2>3, MintOnly
<1>7. CASE disk' = mint[s].token /\ MintMoves(s, "written") /\ UNCHANGED call
  <2> DEFINE m == [mint[s] EXCEPT !.at = "written"]
  <2>1. mint' = [mint EXCEPT ![s] = m]
    BY <1>2, <1>7 DEF MintMoves
  <2>2. /\ m \in Mint /\ m.at = "written" /\ m.stale = mint[s].stale /\ m.token = mint[s].token
        /\ m.seen = mint[s].seen
    BY <1>2 DEF Mint
  <2> HIDE DEF m
  <2>3. MintOk(mint[s], Usable', issued', dead')
    BY <1>2, <1>4, Kept
  <2>4. MintOk(m, Usable', issued', dead')
    BY <1>1, <1>4, <1>7, <2>2, <2>3 DEF MintOk
  <2>5. Shape'
    <3>1. \E x \in Mint : mint' = [mint EXCEPT ![s] = x] /\ call' = call
      BY <1>7, <2>1, <2>2
    <3>2. QED
      BY <1>1, <1>2, <1>4, <1>5, <3>1, ShapeKept
  <2>6. Locks'
    BY <1>1, <1>2, <2>1, <2>2, Released
  <2>7. QED
    BY <1>1, <1>4, <1>7, <2>1, <2>2, <2>4, <2>5, <2>6, MintOnly
<1>8. QED
  BY <1>6, <1>7 DEF MintWrite

\* The saved token is used.
LEMMA WrittenKeeps == ASSUME IInv, NEW s \in Servers, Written(s) PROVE IInv'
<1>1. /\ UNCHANGED <<issued, expired, dead, disk, saved, locked, login, logins>>
      /\ mint[s].at = "written" /\ Settle(s, mint[s].token)
      /\ cached' = [cached EXCEPT ![s] = mint[s].token]
      /\ rejected' = IF mint[s].token = 0 THEN rejected ELSE [rejected EXCEPT ![s] = 0]
  BY DEF Written, MintAt, learnVars, diskVars
<1>2. /\ cached \in [Servers -> Usable] /\ rejected \in [Servers -> MaybeToken]
      /\ mint[s].token \in Usable /\ 0 \in MaybeToken
  BY <1>1, MintFacts DEF MintOk
<1>3. Answered(s)
  BY <1>1, <1>2, SettleAnswers
<1>4. cached' \in [Servers -> Usable] /\ rejected' \in [Servers -> MaybeToken]
  BY <1>1, <1>2
<1>5. QED
  BY <1>1, <1>3, <1>4, MintEnds

\* afterConcurrentChange reads the file.
LEMMA ChangedReadKeeps == ASSUME IInv, NEW s \in Servers, ChangedRead(s) PROVE IInv'
<1>1. /\ UNCHANGED <<issued, expired, dead, disk, saved, locked, cached, rejected, login, logins>>
      /\ mint[s].at = "changed"
  BY DEF ChangedRead, MintAt, learnVars, diskVars
<1>2. cached \in [Servers -> Usable] /\ rejected \in [Servers -> MaybeToken] /\ locked \in BOOLEAN
  BY MintFacts
<1>3. CASE SettleError(s)
  BY <1>1, <1>2, <1>3, ErrorAnswers, MintEnds
<1>4. CASE mint' = [mint EXCEPT ![s].at = "changedRead", ![s].seen = disk] /\ UNCHANGED call
  <2>1. PICK m \in Mint : /\ m.at = "changedRead" /\ MintOk(m, Usable, issued, dead)
                          /\ mint' = [mint EXCEPT ![s] = m]
    <3>1. "changedRead" \in Answering /\ mint[s].at \notin {"idle", "http"}
      BY <1>1 DEF Answering
    <3>2. QED
      BY <1>1, <1>4, <3>1, Reread
  <2>2. QED
    BY <1>1, <1>2, <1>4, <2>1, MintMovesOn
<1>5. QED
  BY <1>3, <1>4 DEF ChangedRead

\* And uses what it read.
LEMMA ChangedKeeps == ASSUME IInv, NEW s \in Servers, Changed(s) PROVE IInv'
<1>1. /\ UNCHANGED <<issued, expired, dead, disk, saved, locked, rejected, login, logins>>
      /\ cached' = [cached EXCEPT ![s] = mint[s].seen]
      /\ IF isUsable(s, mint[s].seen) THEN Settle(s, mint[s].seen) ELSE SettleError(s)
  BY DEF Changed, learnVars, diskVars
<1>2. /\ cached \in [Servers -> Usable] /\ rejected \in [Servers -> MaybeToken]
      /\ mint[s].seen \in Usable
  BY MintFacts DEF MintOk
<1>3. Answered(s)
  BY <1>1, <1>2, SettleAnswers, ErrorAnswers
<1>4. cached' \in [Servers -> Usable]
  BY <1>1, <1>2
<1>5. QED
  BY <1>1, <1>2, <1>3, <1>4, MintEnds

\* A step of a sign-in process keeps what is not about the lock.
LEMMA LoginOnly ==
  ASSUME IInv, NEW l \in People, NEW x, login' = [login EXCEPT ![l] = x], x.at # "none" \/ l = Owner,
         UNCHANGED <<mint, call>>, Grows, Shape', Locks'
  PROVE  IInv'
<1>1. Shape /\ Waits /\ login \in [People -> Login]
  BY DEF IInv, Shape
<1>2. login'[l] = x /\ \A k \in People : k # l => login'[k] = login[k]
  BY <1>1
<1>3. \A c \in Calls : serverOf[c] \in People /\ serverOf[c] # Owner /\ serverOf[c] \in Servers
  BY ServersAssumption, OwnerIsApart DEF People
<1>4. \A c \in Calls : login[serverOf[c]].at # "none" => login'[serverOf[c]].at # "none"
  BY <1>2, <1>3
<1>5. Waits'
  BY <1>1, <1>4 DEF Waits, NobodyWaitsInVain
<1>6. \A c \in Calls : CallOk(call'[c], Usable')
  BY <1>1, Kept DEF IInv
<1>7. \A s \in Servers : MintOk(mint'[s], Usable', issued', dead')
  BY <1>1, Kept DEF IInv
<1>8. QED
  BY <1>5, <1>6, <1>7 DEF IInv

\* The lock, when the process neither takes it nor goes on under it.
LEMMA LoginReleased ==
  ASSUME Shape, Locks, NEW l \in People, NEW x, login' = [login EXCEPT ![l] = x], x.at # "save",
         UNCHANGED mint, (locked' = locked /\ disk' = disk) \/ login[l].at = "save"
  PROVE  Locks'
<1>1. login'[l] = x /\ \A k \in People : k # l => login'[k] = login[k]
  BY DEF Shape
<1>2. \A k \in People : login'[k].at = "save" => k # l /\ login'[k] = login[k]
  BY <1>1
<1>3. CASE locked' = locked /\ disk' = disk
  BY <1>2, <1>3 DEF Locks
<1>4. CASE login[l].at = "save"
  <2>1. \A k \in People : login'[k].at # "save"
    BY <1>2, <1>4 DEF Locks
  <2>2. \A s \in Servers : mint'[s].at \notin {"compare", "write"}
    BY <1>4 DEF Locks
  <2>3. QED
    BY <2>1, <2>2 DEF Locks
<1>5. QED
  BY <1>3, <1>4

\* The types, when nothing is issued.
LEMMA LoginShape ==
  ASSUME Shape, NEW l \in People, NEW x \in Login, login' = [login EXCEPT ![l] = x],
         x.token <= Len(issued),
         UNCHANGED <<issued, expired, dead, cached, rejected, mint, call, logins>>, Grows,
         locked' \in BOOLEAN, saved' \subseteq 1..Len(issued), disk' \in Usable'
  PROVE  Shape'
<1>1. /\ login' \in [People -> Login] /\ login'[l] = x
      /\ \A k \in People : k # l => login'[k] = login[k]
  BY DEF Shape
<1>2. \A k \in People : login'[k].token <= Len(issued)
  BY <1>1 DEF Shape
<1>3. cached' \in [Servers -> Usable']
  BY DEF Shape, Grows
<1>4. QED
  BY <1>1, <1>2, <1>3 DEF Shape

\* A sign-in gives a token, or ends without one.
LEMMA SignInKeeps == ASSUME IInv, NEW l \in People, SignIn(l) PROVE IInv'
<1>1. /\ UNCHANGED <<expired, dead, disk, saved, locked, cached, rejected, mint, call>>
      /\ login[l].at = "browser"
  BY DEF SignIn, diskVars, managerVars
<1>2. Shape /\ Locks /\ login \in [People -> Login] /\ login[l] \in Login
  BY DEF IInv, Shape
<1>3. CASE login' = [login EXCEPT ![l].at = "exit"] /\ UNCHANGED <<issued, logins>>
  <2> DEFINE x == [login[l] EXCEPT !.at = "exit"]
  <2>1. login' = [login EXCEPT ![l] = x]
    BY <1>2, <1>3
  <2>2. x \in Login /\ x.at = "exit" /\ x.token = login[l].token
    BY <1>2 DEF Login
  <2> HIDE DEF x
  <2>3. x.token <= Len(issued) /\ locked' \in BOOLEAN /\ saved' \subseteq 1..Len(issued)
    BY <1>1, <1>2, <2>2 DEF Shape
  <2>4. Grows /\ disk' \in Usable'
    BY <1>1, <1>2, <1>3, Same DEF Shape
  <2>5. Shape'
    BY <1>1, <1>2, <1>3, <2>1, <2>2, <2>3, <2>4, LoginShape
  <2>6. Locks'
    BY <1>1, <1>2, <2>1, <2>2, LoginReleased
  <2>7. QED
    BY <1>1, <2>1, <2>2, <2>4, <2>5, <2>6, LoginOnly
<1>4. ASSUME logins < MaxLogins, Len(issued) < MaxTokens,
             NEW ses \in {0, logins + 1}, issued' = Append(issued, ses), logins' = logins + 1,
             login' = [login EXCEPT ![l] = [at |-> "lock", token |-> Len(issued) + 1]]
      PROVE  IInv'
  <2> DEFINE n == Len(issued)
  <2> DEFINE x == [at |-> "lock", token |-> n + 1]
  <2>1. /\ n \in Nat /\ n <= MaxTokens /\ logins \in 0..MaxLogins /\ MaxTokens \in Nat
        /\ MaxLogins \in Nat
    BY <1>2, Numbers, LimitsAssumption DEF Shape
  <2>2. /\ n + 1 \in MaybeToken /\ n <= n + 1 /\ n + 1 \in Nat /\ 1..n \subseteq 1..(n + 1)
        /\ n + 1 <= MaxTokens /\ \A k \in 0..MaxTokens : k <= n => k <= n + 1
    BY <1>4, <2>1 DEF MaybeToken
  <2>3. ses \in Session /\ logins' \in 0..MaxLogins
    BY <1>4, <2>1 DEF Session
  <2>4. /\ issued' \in Seq(Session) /\ Len(issued') = n + 1
        /\ \A t \in 1..n : issued'[t] = issued[t]
    BY <1>2, <1>4, <2>3, AppendProperties DEF Shape
  <2>5. login' = [login EXCEPT ![l] = x] /\ x \in Login /\ x.at = "lock" /\ x.token = n + 1
    BY <1>4, <2>2 DEF Login
  <2> HIDE DEF x
  <2>6. Usable' = Usable
    BY <1>1 DEF Usable
  <2>7. Grows
    BY <1>1, <2>1, <2>2, <2>4, <2>6 DEF Grows
  <2>8. /\ login' \in [People -> Login] /\ login'[l] = x
        /\ \A k \in People : k # l => login'[k] = login[k]
    BY <1>2, <2>5
  <2>9. \A k \in People : login'[k].token <= n + 1
    <3>1. \A k \in People : login[k].token \in 0..MaxTokens /\ login[k].token <= n
      BY <1>2 DEF Shape, Login, MaybeToken
    <3>2. \A k \in People : login[k].token <= n + 1
      BY <2>2, <3>1
    <3>3. x.token <= n + 1
      BY <2>2, <2>5
    <3>4. QED
      BY <2>8, <3>2, <3>3
  <2>10. Shape'
    <3>1. saved' \subseteq 1..Len(issued') /\ disk' \in Usable' /\ cached' \in [Servers -> Usable']
      BY <1>1, <1>2, <2>2, <2>4, <2>6 DEF Shape
    <3>2. Len(issued') <= MaxTokens /\ \A k \in People : login'[k].token <= Len(issued')
      BY <2>2, <2>4, <2>9
    <3>3. QED
      BY <1>1, <1>2, <2>3, <2>4, <2>8, <3>1, <3>2 DEF Shape
  <2>11. Locks'
    BY <1>1, <1>2, <2>5, LoginReleased
  <2>12. QED
    BY <1>1, <2>5, <2>7, <2>10, <2>11, LoginOnly
<1>5. QED
  BY <1>3, <1>4 DEF SignIn

\* The write lock is taken, or the sign-in fails.
LEMMA SaveLockKeeps == ASSUME IInv, NEW l \in People, SaveLock(l) PROVE IInv'
<1>1. /\ UNCHANGED <<issued, expired, dead, disk, saved, cached, rejected, mint, call, logins>>
      /\ login[l].at = "lock"
  BY DEF SaveLock, learnVars, diskVars, managerVars
<1>2. /\ Shape /\ Locks /\ login \in [People -> Login] /\ login[l] \in Login /\ locked \in BOOLEAN
      /\ saved' \subseteq 1..Len(issued) /\ login[l].token <= Len(issued)
  BY <1>1 DEF IInv, Shape
<1>3. Grows /\ disk' \in Usable' /\ 0 <= Len(issued)
  BY <1>1, <1>2, Same, Numbers DEF Shape
<1>4. CASE login' = [login EXCEPT ![l] = [at |-> "exit", token |-> 0]] /\ UNCHANGED locked
  <2> DEFINE x == [at |-> "exit", token |-> 0]
  <2>1. login' = [login EXCEPT ![l] = x] /\ x \in Login /\ x.at = "exit" /\ x.token = 0
    BY <1>4, LimitsAssumption DEF Login, MaybeToken
  <2> HIDE DEF x
  <2>2. Shape'
    BY <1>1, <1>2, <1>3, <1>4, <2>1, LoginShape
  <2>3. Locks'
    BY <1>1, <1>2, <1>4, <2>1, LoginReleased
  <2>4. QED
    BY <1>1, <1>3, <2>1, <2>2, <2>3, LoginOnly
<1>5. CASE ~locked /\ locked' = TRUE /\ login' = [login EXCEPT ![l].at = "save"]
  <2> DEFINE x == [login[l] EXCEPT !.at = "save"]
  <2>1. login' = [login EXCEPT ![l] = x]
    BY <1>2, <1>5
  <2>2. x \in Login /\ x.at = "save" /\ x.token = login[l].token
    BY <1>2 DEF Login
  <2> HIDE DEF x
  <2>3. Shape'
    BY <1>1, <1>2, <1>3, <1>5, <2>1, <2>2, LoginShape
  <2>4. /\ \A s \in Servers : mint[s].at \notin {"compare", "write"}
        /\ \A k \in People : login[k].at # "save"
    BY <1>2, <1>5 DEF Locks
  <2>5. login'[l] = x /\ \A k \in People : k # l => login'[k] = login[k]
    BY <1>2, <2>1
  <2>6. Locks'
    BY <1>1, <1>5, <2>4, <2>5 DEF Locks
  <2>7. QED
    BY <1>1, <1>3, <2>1, <2>2, <2>3, <2>6, LoginOnly
<1>6. QED
  BY <1>4, <1>5 DEF SaveLock

\* The session is saved, or the process ends.
LEMMA SaveLoginKeeps == ASSUME IInv, NEW l \in People, SaveLogin(l) PROVE IInv'
<1>1. /\ UNCHANGED <<issued, expired, dead, cached, rejected, mint, call, logins>>
      /\ login[l].at = "save" /\ locked' \in BOOLEAN /\ disk' \in {disk, login[l].token}
      /\ saved' = (saved \cup {disk'}) \ {0}
  BY DEF SaveLogin, learnVars, managerVars
<1>2. /\ Shape /\ Locks /\ login \in [People -> Login] /\ login[l] \in Login /\ disk \in Usable
      /\ login[l].token <= Len(issued) /\ login[l].token \in 0..MaxTokens
  BY DEF IInv, Shape, Login, MaybeToken
<1>3. Len(issued) \in Nat /\ MaxTokens \in Nat /\ Usable \subseteq 0..Len(issued)
  BY <1>2, Numbers, LimitsAssumption
<1>4. disk' \in 0..Len(issued) /\ 0 <= Len(issued)
  BY <1>1, <1>2, <1>3
<1>5. Grows /\ saved' \subseteq 1..Len(issued) /\ disk' \in Usable'
  BY <1>1, <1>2, <1>4, Saving
<1>6. \E x \in Login : login' = [login EXCEPT ![l] = x] /\ x.at = "exit" /\ x.token <= Len(issued)
  <2>1. CASE login' = [login EXCEPT ![l].at = "exit"]
    <3> DEFINE x == [login[l] EXCEPT !.at = "exit"]
    <3>1. login' = [login EXCEPT ![l] = x]
      BY <1>2, <2>1
    <3>2. x \in Login /\ x.at = "exit" /\ x.token = login[l].token
      BY <1>2 DEF Login
    <3> HIDE DEF x
    <3>3. QED
      BY <1>2, <3>1, <3>2
  <2>2. CASE login' = [login EXCEPT ![l] = [at |-> "exit", token |-> 0]]
    <3> DEFINE x == [at |-> "exit", token |-> 0]
    <3>1. login' = [login EXCEPT ![l] = x] /\ x \in Login /\ x.at = "exit" /\ x.token = 0
      BY <2>2, LimitsAssumption DEF Login, MaybeToken
    <3> HIDE DEF x
    <3>2. QED
      BY <1>4, <3>1
  <2>3. QED
    BY <2>1, <2>2 DEF SaveLogin
<1>7. PICK x \in Login : login' = [login EXCEPT ![l] = x] /\ x.at = "exit" /\ x.token <= Len(issued)
  BY <1>6
<1>8. Shape'
  BY <1>1, <1>2, <1>5, <1>7, LoginShape
<1>9. Locks'
  BY <1>1, <1>2, <1>7, LoginReleased
<1>10. QED
  BY <1>1, <1>5, <1>7, <1>8, <1>9, LoginOnly

\* The owner's own sign-in starts, and ends.
LEMMA OwnerKeeps == ASSUME IInv, OwnerLogin \/ OwnerDone PROVE IInv'
<1>1. /\ UNCHANGED <<issued, expired, dead, disk, saved, locked, cached, rejected, mint, call, logins>>
      /\ Owner \in People
  BY DEF OwnerLogin, OwnerDone, learnVars, diskVars, managerVars, People
<1>2. /\ Shape /\ Locks /\ login \in [People -> Login] /\ login[Owner] \in Login
      /\ login[Owner].token <= Len(issued) /\ saved' \subseteq 1..Len(issued) /\ locked' \in BOOLEAN
  BY <1>1 DEF IInv, Shape
<1>3. Grows /\ disk' \in Usable' /\ 0 <= Len(issued)
  BY <1>1, <1>2, Same, Numbers DEF Shape
<1>4. \E x \in Login : login' = [login EXCEPT ![Owner] = x] /\ x.at # "save" /\ x.token <= Len(issued)
  <2>1. CASE OwnerLogin
    <3> DEFINE x == [login[Owner] EXCEPT !.at = "browser"]
    <3>1. login' = [login EXCEPT ![Owner] = x]
      BY <1>2, <2>1 DEF OwnerLogin
    <3>2. x \in Login /\ x.at = "browser" /\ x.token = login[Owner].token
      BY <1>2 DEF Login
    <3> HIDE DEF x
    <3>3. QED
      BY <1>2, <3>1, <3>2
  <2>2. CASE OwnerDone
    <3>1. login' = [login EXCEPT ![Owner] = noLogin]
      BY <2>2 DEF OwnerDone
    <3>2. noLogin \in Login /\ noLogin.at = "none" /\ noLogin.token = 0
      BY LimitsAssumption DEF noLogin, Login, MaybeToken
    <3>3. QED
      BY <1>3, <3>1, <3>2
  <2>3. QED
    BY <2>1, <2>2
<1>5. PICK x \in Login :
        login' = [login EXCEPT ![Owner] = x] /\ x.at # "save" /\ x.token <= Len(issued)
  BY <1>4
<1>6. Shape'
  BY <1>1, <1>2, <1>3, <1>5, LoginShape
<1>7. Locks'
  BY <1>1, <1>2, <1>5, LoginReleased
<1>8. QED
  BY <1>1, <1>3, <1>5, <1>6, <1>7, LoginOnly

\* A token ends, or a session.
LEMMA LearnKeeps == ASSUME IInv, Expire \/ EndSession PROVE IInv'
<1>1. UNCHANGED <<issued, disk, saved, locked, cached, rejected, mint, login, call, logins>>
  BY DEF Expire, EndSession, diskVars, managerVars
<1>2. Shape /\ Waits /\ Locks /\ Len(issued) \in Nat /\ Len(issued) <= MaxTokens
  BY Numbers DEF IInv, Shape
<1>3. Usable' = Usable
  BY <1>1 DEF Usable
<1>4. /\ dead \subseteq dead' /\ expired' \subseteq Token /\ dead' \subseteq Session
  <2>1. \A t \in DOMAIN issued : t \in Token /\ issued[t] \in Session
    BY <1>2, LimitsAssumption DEF Shape, Token
  <2>2. CASE Expire
    BY <1>2, <2>1, <2>2 DEF Expire, Shape
  <2>3. CASE EndSession
    BY <1>2, <2>1, <2>3 DEF EndSession, Shape
  <2>4. QED
    BY <2>2, <2>3
<1>5. Grows
  BY <1>1, <1>2, <1>3, <1>4 DEF Grows
<1>6. Shape'
  BY <1>1, <1>2, <1>3, <1>4 DEF Shape
<1>7. Waits' /\ Locks'
  BY <1>1, <1>2 DEF Waits, NobodyWaitsInVain, Locks
<1>8. \A c \in Calls : CallOk(call'[c], Usable')
  BY <1>1, <1>2, <1>5, Kept DEF IInv
<1>9. \A s \in Servers : MintOk(mint'[s], Usable', issued', dead')
  BY <1>1, <1>2, <1>5, Kept DEF IInv
<1>10. QED
  BY <1>6, <1>7, <1>8, <1>9 DEF IInv

\* So every step keeps it.
LEMMA NextInv == IInv /\ [Next]_vars => IInv'
<1> SUFFICES ASSUME IInv, [Next]_vars PROVE IInv'
  OBVIOUS
<1>1. ASSUME NEW c \in Calls, CallStep(c) PROVE IInv'
  BY <1>1, GetTokenKeeps, LoadReadKeeps, LoadedKeeps, SendKeeps, RunLoginKeeps,
     LoginEndsKeeps
     DEF CallStep
<1>2. ASSUME NEW s \in Servers, MintStep(s) PROVE IInv'
  BY <1>2, MintAnswerKeeps, RecheckKeeps, RecheckedKeeps, MintLockKeeps, CompareKeeps,
     MintWriteKeeps, WrittenKeeps, ChangedReadKeeps, ChangedKeeps DEF MintStep
<1>3. ASSUME NEW l \in People, LoginStep(l) PROVE IInv'
  BY <1>3, SignInKeeps, SaveLockKeeps, SaveLoginKeeps DEF LoginStep
<1>4. CASE OwnerLogin \/ OwnerDone
  BY <1>4, OwnerKeeps
<1>5. CASE Expire \/ EndSession
  BY <1>5, LearnKeeps
<1>6. CASE UNCHANGED vars
  <2>1. UNCHANGED <<issued, expired, dead, disk, locked, cached, rejected, mint, login, call, saved,
                    logins>>
    BY <1>6 DEF vars
  <2>2. Usable' = Usable
    BY <2>1 DEF Usable
  <2>3. Shape' /\ Waits' /\ Locks'
    BY <2>1, <2>2 DEF IInv, Shape, Waits, NobodyWaitsInVain, Locks
  <2>4. QED
    BY <2>1, <2>2, <2>3 DEF IInv
<1>7. QED
  BY <1>1, <1>2, <1>3, <1>4, <1>5, <1>6 DEF Next

\* What the invariant says of the properties.
LEMMA Consequences == IInv => TypeOK /\ NobodyWaitsInVain /\ OnlySavedTokensAreUsed
<1> SUFFICES ASSUME IInv PROVE TypeOK /\ NobodyWaitsInVain /\ OnlySavedTokensAreUsed
  OBVIOUS
<1>1. Shape /\ Waits /\ Usable \subseteq MaybeToken
  BY Numbers DEF IInv
<1>2. /\ \A s \in Servers : cached[s] \in saved \cup {0}
      /\ \A c \in Calls : call[c].token \in saved \cup {0}
  BY <1>1 DEF IInv, Shape, CallOk, Usable
<1>3. saved \subseteq Token /\ disk \in MaybeToken /\ cached \in [Servers -> MaybeToken]
  <2>1. \A t \in saved : t \in MaybeToken /\ t # 0
    BY <1>1, Numbers DEF Shape, Usable
  <2>2. \A t \in MaybeToken : t # 0 => t \in Token
    BY LimitsAssumption DEF MaybeToken, Token
  <2>3. QED
    BY <1>1, <2>1, <2>2 DEF Shape
<1>4. TypeOK
  BY <1>1, <1>3 DEF Shape, TypeOK
<1>5. QED
  BY <1>1, <1>2, <1>4 DEF Waits, OnlySavedTokensAreUsed

\* A step that changes the saved token is a login's, or a mint's that had compared it.
LEMMA SurvivesStep ==
  IInv /\ [Next]_vars => [savedByLogin \/ (disk # 0 /\ (refreshed \/ clearedDead))]_disk
<1> SUFFICES ASSUME IInv, Next, disk' # disk
             PROVE  savedByLogin \/ (disk # 0 /\ (refreshed \/ clearedDead))
  BY DEF vars
<1>1. ASSUME NEW l \in People, SaveLogin(l) PROVE savedByLogin
  <2>1. login[l].at = "save" /\ disk' = login[l].token
    BY <1>1 DEF SaveLogin
  <2>2. QED
    BY <2>1 DEF savedByLogin
<1>2. ASSUME NEW s \in Servers, MintWrite(s) PROVE disk # 0 /\ (refreshed \/ clearedDead)
  <2>1. disk' = mint[s].token /\ mint[s].at = "write"
    BY <1>2 DEF MintWrite, MintAt
  <2>2. disk = mint[s].stale
    BY <2>1 DEF IInv, Locks
  <2>3. /\ mint[s].stale # 0
        /\ IF mint[s].token = 0 THEN issued[mint[s].stale] \in dead
           ELSE /\ mint[s].token > mint[s].stale
                /\ issued[mint[s].token] = issued[mint[s].stale]
    BY <2>1 DEF IInv, MintOk
  <2>4. QED
    BY <2>1, <2>2, <2>3 DEF refreshed, clearedDead
<1>3. \A c \in Calls : CallStep(c) => UNCHANGED disk
  BY DEF CallStep, GetToken, LoadRead, Loaded, Send, RunLogin, LoginEnds, diskVars
<1>4. \A s \in Servers : MintStep(s) => MintWrite(s) \/ UNCHANGED disk
  BY DEF MintStep, MintAnswer, Recheck, Rechecked, MintLock, Compare, Written,
     ChangedRead, Changed,
         diskVars
<1>5. \A l \in People : LoginStep(l) => SaveLogin(l) \/ UNCHANGED disk
  BY DEF LoginStep, SignIn, SaveLock, diskVars
<1>6. OwnerLogin \/ OwnerDone \/ Expire \/ EndSession => UNCHANGED disk
  BY DEF OwnerLogin, OwnerDone, Expire, EndSession, diskVars
<1>7. QED
  BY <1>1, <1>2, <1>3, <1>4, <1>5, <1>6 DEF Next

-----------------------------------------------------------------------------
(* The sign-in: SignIn *)

\* Types, and that the strategies have one to go on from.
SIShape == SI!TypeOK /\ (siPc = "extract" => siFound \in SI!Strategies)

\* Only a run that waits for the answer to a challenge, or notes that none came, has
\* seen one in handleMFA.
SISeen ==
  /\ siChallenged => siPc \in {"mfa", "record"}
  /\ siRunner = siNoLoginRun => siPc = "idle"

\* While a challenge that was seen is owed an answer the wait is noted, and keeps automatic runs out.
SIGuarded ==
  siFaults = 0 /\ siOwing = "seen" => siCooling /\ (siRunner \in siAutomatic => siPc = "allowed")

\* The inductive invariant of the sign-in.
SIIInv == SIShape /\ SISeen /\ SIGuarded

\* What is assumed of the constants: no run is called "none".
SISane == siNoLoginRun \notin siLogins /\ siAutomatic \subseteq siLogins /\ siMaxFaults \in Nat

\* Nothing runs, and nothing is owed.
LEMMA SIInitInv == SISane /\ SI!Init => SIIInv
<1> SUFFICES ASSUME SISane, SI!Init PROVE SIIInv
  OBVIOUS
<1>1. SI!TypeOK
  <2>1. 0 \in 0..siMaxFaults /\ 0 \in 0..1 /\ "other" \in SI!Pages
    BY DEF SISane, SI!Pages
  <2>2. QED
    BY <2>1, Zenon DEF SI!Init, SI!TypeOK
<1>2. siPc = "idle" /\ siChallenged = FALSE /\ siOwing = "none"
  BY DEF SI!Init
<1>3. QED
  BY <1>1, <1>2 DEF SIIInv, SIShape, SISeen, SIGuarded

\* A run goes on: nothing is owed or noted by that, and past the check only when no wait
\* is noted.
LEMMA SIGoInv ==
  ASSUME SISane, SIIInv, NEW label, SI!Go(label), siPage' \in SI!Pages, siHinted' \in BOOLEAN, siPolls' \in 0..1,
         siPushed' \in BOOLEAN, siChallenged' \in BOOLEAN, siFound' \in SI!Strategies \cup {"none", "minted"},
         siStored' \in {"none", "login"}, UNCHANGED <<siAccount, siCampus, siCooling, siFaults>>,
         label = "extract" => siFound' \in SI!Strategies,
         siChallenged' => label \in {"mfa", "record"},
         siPc = "allowed" => ~siCooling, siPc # "idle"
  PROVE  SIIInv'
<1>1. SIShape /\ SIGuarded /\ SI!TypeOK /\ SISeen
  BY DEF SIIInv, SIShape
<1>2. siPc' = label /\ UNCHANGED <<siRunner, siOwing>>
  BY DEF SI!Go
<1>3. SI!TypeOK'
  <2>1. /\ siRunner \in siLogins \cup {siNoLoginRun} /\ siAccount \in {"none", "name", "password"}
        /\ siCampus \in BOOLEAN /\ siCooling \in BOOLEAN /\ siOwing \in {"none", "missed", "seen"} /\ siFaults \in 0..siMaxFaults
    BY <1>1 DEF SI!TypeOK
  <2>2. UNCHANGED <<siRunner, siOwing, siAccount, siCampus, siCooling, siFaults>>
    BY <1>2
  <2>3. QED
    BY <2>1, <2>2 DEF SI!TypeOK
<1>4. SIShape' /\ SISeen'
  BY <1>1, <1>2, <1>3 DEF SIShape, SISeen
<1>5. SIGuarded'
  <2>1. siFaults = 0 /\ siOwing = "seen" => siCooling /\ siRunner \notin siAutomatic
    BY <1>1 DEF SIGuarded
  <2>2. QED
    BY <1>2, <2>1 DEF SIGuarded
<1>6. QED
  BY <1>4, <1>5 DEF SIIInv

\* A run ends: it owes nothing, or the wait is noted, or something failed.
LEMMA SIEndInv ==
  ASSUME SISane, SIIInv, NEW what, SI!End(what), UNCHANGED <<siAccount, siCampus>>,
         siCooling' \in BOOLEAN, siStored' \in {"none", "login"}, siFaults' \in 0..siMaxFaults,
         siFaults' = 0 => siFaults = 0 /\ (what = "ok" \/ (siOwing = "seen" \/ siChallenged => siCooling'))
  PROVE  SIIInv'
<1>1. SI!TypeOK
  BY DEF SIIInv, SIShape
<1>2. /\ siRunner' = siNoLoginRun /\ siPc' = "idle" /\ siPage' = "other" /\ siPushed' = FALSE
      /\ siHinted' = FALSE /\ siPolls' = 0 /\ siChallenged' = FALSE /\ siFound' = "none"
      /\ siOwing' = IF what = "ok" THEN "none" ELSE SI!left
  BY DEF SI!End
<1>3. siOwing' \in {"none", "missed", "seen"} /\ (siOwing' = "seen" => what # "ok" /\ (siOwing = "seen" \/ siChallenged))
  BY <1>1, <1>2 DEF SI!left, SI!TypeOK
<1>4. SI!TypeOK'
  <2>1. siPage' \in SI!Pages /\ siPolls' \in 0..1
    BY <1>2 DEF SI!Pages
  <2>2. siAccount' \in {"none", "name", "password"} /\ siCampus' \in BOOLEAN
    BY <1>1 DEF SI!TypeOK
  <2>3. QED
    BY <1>2, <1>3, <2>1, <2>2 DEF SI!TypeOK
<1>5. SIShape' /\ SISeen'
  BY <1>2, <1>4 DEF SIShape, SISeen
<1>6. SIGuarded'
  BY <1>2, <1>3 DEF SIGuarded, SISane
<1>7. QED
  BY <1>5, <1>6 DEF SIIInv

\* A run that ends with neither a challenge nor a note keeps the invariant.
LEMMA SIPlainEndInv ==
  ASSUME SISane, SIIInv, NEW what, SI!End(what), siPc \notin {"mfa", "record"} \/ ~siChallenged,
         UNCHANGED <<SI!config, SI!disk, siFaults>>
  PROVE  SIIInv'
<1>1. SI!TypeOK /\ SIGuarded /\ SISeen
  BY DEF SIIInv, SIShape
<1>2. ~siChallenged /\ (siFaults = 0 /\ siOwing = "seen" => siCooling)
  BY <1>1 DEF SISeen, SIGuarded
<1>3. UNCHANGED <<siAccount, siCampus, siCooling, siStored, siFaults>>
  BY DEF SI!config, SI!disk
<1>4. siCooling' \in BOOLEAN /\ siStored' \in {"none", "login"} /\ siFaults' \in 0..siMaxFaults
  BY <1>1, <1>3 DEF SI!TypeOK
<1>5. QED
  BY <1>2, <1>3, <1>4, SIEndInv

\* Another page.
LEMMA SITurned ==
  ASSUME NEW p \in SI!Pages, SI!Turn(p), siPushed \in BOOLEAN
  PROVE  siPage' \in SI!Pages /\ siPushed' \in BOOLEAN
BY DEF SI!Turn

\* The page moves on, or a run goes on with the page as it is.
LEMMA SIWalkInv ==
  ASSUME SISane, SIIInv, NEW label, SI!Go(label), siPage' \in SI!Pages, siPushed' \in BOOLEAN,
         UNCHANGED <<SI!attempt, SI!config, SI!disk, siFaults>>,
         label \notin {"extract"}, siChallenged => label \in {"mfa", "record"},
         siPc = "allowed" => ~siCooling, siPc # "idle"
  PROVE  SIIInv'
<1>1. SI!TypeOK
  BY DEF SIIInv, SIShape
<1>2. UNCHANGED <<siHinted, siPolls, siChallenged, siFound, siAccount, siCampus, siCooling, siStored, siFaults>>
  BY DEF SI!attempt, SI!config, SI!disk
<1>3. /\ siHinted' \in BOOLEAN /\ siPolls' \in 0..1 /\ siChallenged' \in BOOLEAN
      /\ siFound' \in SI!Strategies \cup {"none", "minted"} /\ siStored' \in {"none", "login"}
  BY <1>1, <1>2 DEF SI!TypeOK
<1>4. QED
  BY <1>2, <1>3, SIGoInv

\* One look at the page during the silent sign-in.
LEMMA SISilentInv == ASSUME SISane, SIIInv, SI!Silent PROVE SIIInv'
<1>1. siPc = "silent" /\ UNCHANGED <<SI!config, SI!disk, siFaults>>
  BY DEF SI!Silent
<1>2. SI!TypeOK /\ ~siChallenged
  BY <1>1 DEF SIIInv, SIShape, SISeen
<1>3. /\ siPage \in SI!Pages /\ siHinted \in BOOLEAN /\ siPolls \in 0..1 /\ siPushed \in BOOLEAN /\ siChallenged \in BOOLEAN
      /\ siFound \in SI!Strategies \cup {"none", "minted"} /\ siStored \in {"none", "login"}
  BY <1>2 DEF SI!TypeOK
<1>4. UNCHANGED <<siAccount, siCampus, siCooling, siFaults, siStored>>
  BY <1>1 DEF SI!config, SI!disk
<1>5. CASE (SI!Go("state") \/ SI!Go("decide")) /\ UNCHANGED <<SI!screen, SI!attempt>>
  BY <1>1, <1>2, <1>3, <1>5, SIWalkInv DEF SI!screen
<1>6. ASSUME NEW what, SI!End(what) PROVE SIIInv'
  BY <1>1, <1>6, SIPlainEndInv
<1>7. ASSUME SI!Go("wait") \/ SI!Go("decide"), siPage' \in SI!Pages, siPushed' \in BOOLEAN, siHinted' \in {siHinted, TRUE},
             siPolls' \in {siPolls, 0, 1}, UNCHANGED <<siChallenged, siFound>>
      PROVE  SIIInv'
  <2>1. siHinted' \in BOOLEAN
    BY <1>3, <1>7
  <2>2. siPolls' \in 0..1
    BY <1>3, <1>7
  <2>3. QED
    BY <1>1, <1>2, <1>3, <1>4, <1>7, <2>1, <2>2, SIGoInv
<1>8. CASE SI!IdentifyAccount
  BY <1>3, <1>7, <1>8 DEF SI!IdentifyAccount, SI!screen
<1>9. CASE SI!NeedsLogin
  BY <1>5, <1>9 DEF SI!NeedsLogin
<1>10. CASE SI!SeePassword
  BY <1>3, <1>7, <1>10 DEF SI!SeePassword, SI!screen
<1>11. CASE SI!ClickSurfaces
  BY <1>3, <1>6, <1>7, <1>11, SITurned DEF SI!ClickSurfaces
<1>12. QED
  BY <1>5, <1>6, <1>8, <1>9, <1>10, <1>11 DEF SI!Silent

\* Every step keeps the invariant.
LEMMA SINextInv == SISane /\ SIIInv /\ [SI!Next]_(SI!vars) => SIIInv'
<1> SUFFICES ASSUME SISane, SIIInv, [SI!Next]_(SI!vars) PROVE SIIInv'
  OBVIOUS
<1>1. SI!TypeOK /\ SISeen /\ SIGuarded
  BY DEF SIIInv, SIShape
<1>2. /\ siPage \in SI!Pages /\ siHinted \in BOOLEAN /\ siPolls \in 0..1 /\ siPushed \in BOOLEAN /\ siChallenged \in BOOLEAN
      /\ siFound \in SI!Strategies \cup {"none", "minted"} /\ siStored \in {"none", "login"}
      /\ siCooling \in BOOLEAN /\ siFaults \in 0..siMaxFaults /\ siFaults \in Nat
  BY <1>1 DEF SI!TypeOK, SISane
<1>a. siFaults < siMaxFaults => siFaults + 1 \in 0..siMaxFaults /\ siFaults + 1 # 0
  BY <1>2 DEF SISane
<1>3. ASSUME NEW r \in siLogins, SI!Acquire(r) PROVE SIIInv'
  <2>1. /\ siRunner' = r /\ UNCHANGED <<siPage, siHinted, siPolls, siPushed, siChallenged, siFound, siAccount,
                                         siCampus, siCooling, siStored, siOwing, siFaults>>
        /\ siPc' = IF r \in siAutomatic THEN "allowed" ELSE "load"
    BY <1>3 DEF SI!Acquire, SI!screen, SI!attempt, SI!config, SI!disk, SI!history
  <2>2. SI!TypeOK'
    BY <1>1, <2>1 DEF SI!TypeOK
  <2>3. SIShape' /\ SIGuarded'
    BY <1>1, <2>1, <2>2 DEF SIShape, SIGuarded
  <2>4. SISeen'
    <3>1. siRunner = siNoLoginRun
      BY <1>3 DEF SI!Acquire
    <3>2. QED
      BY <1>1, <2>1, <3>1 DEF SISeen, SISane
  <2>5. QED
    BY <2>3, <2>4 DEF SIIInv
<1>4. CASE SI!Move
  <2>1. /\ UNCHANGED <<siRunner, siPc, siHinted, siPolls, siChallenged, siFound, siAccount, siCampus, siCooling,
                       siStored, siOwing, siFaults>>
        /\ siPage' \in SI!Pages /\ siPushed' \in BOOLEAN
    BY <1>2, <1>4, SITurned DEF SI!Move, SI!attempt, SI!config, SI!disk, SI!history
  <2>2. SI!TypeOK'
    BY <1>1, <2>1 DEF SI!TypeOK
  <2>3. QED
    BY <1>1, <2>1, <2>2 DEF SIIInv, SIShape, SISeen, SIGuarded
<1>5. CASE SI!WaitIsOver
  <2>1. /\ UNCHANGED <<siRunner, siPc, siPage, siHinted, siPolls, siPushed, siChallenged, siFound, siAccount,
                       siCampus, siStored, siFaults>>
        /\ siCooling' = FALSE /\ siOwing' = "none"
    BY <1>5 DEF SI!WaitIsOver, SI!screen, SI!attempt, SI!config
  <2>2. SI!TypeOK'
    BY <1>1, <2>1 DEF SI!TypeOK
  <2>3. QED
    BY <1>1, <2>1, <2>2 DEF SIIInv, SIShape, SISeen, SIGuarded
<1>6. CASE SI!Allowed
  <2>1. siPc = "allowed" /\ ~siChallenged /\ UNCHANGED <<SI!config, SI!disk, siFaults>>
    BY <1>1, <1>6 DEF SI!Allowed, SISeen
  <2>2. CASE siCooling
    BY <1>6, <2>1, <2>2, SIPlainEndInv DEF SI!Allowed
  <2>3. CASE ~siCooling
    BY <1>2, <1>6, <2>1, <2>3, SIWalkInv DEF SI!Allowed, SI!screen
  <2>4. QED
    BY <2>2, <2>3
<1>7. CASE SI!LoadState
  <2>1. siPc = "load" /\ ~siChallenged /\ UNCHANGED <<SI!config, SI!disk, siFaults>>
    BY <1>1, <1>7 DEF SI!LoadState, SISeen
  <2>2. CASE SI!End("failed")
    BY <2>1, <2>2, SIPlainEndInv
  <2>3. CASE SI!Go("silent") /\ siPage' \in SI!Pages /\ siPushed' \in BOOLEAN /\ UNCHANGED SI!attempt
    BY <2>1, <2>3, SIWalkInv
  <2>4. QED
    BY <1>2, <1>7, <2>2, <2>3, SITurned DEF SI!LoadState
<1>8. CASE SI!Wait \/ SI!Decide \/ SI!Login \/ SI!EnterName \/ SI!Verify
  <2>1. siPc \in {"wait", "decide", "login", "name", "verify"} /\ ~siChallenged /\ UNCHANGED <<SI!config, SI!disk, siFaults>>
    BY <1>1, <1>8 DEF SI!Wait, SI!Decide, SI!Login, SI!EnterName, SI!Verify, SISeen
  <2>2. ASSUME NEW what, SI!End(what) PROVE SIIInv'
    BY <2>1, <2>2, SIPlainEndInv
  <2>3. ASSUME NEW label \in {"silent", "login", "mfa", "password", "name", "state"}, SI!Go(label),
               UNCHANGED <<SI!screen, SI!attempt>>
        PROVE  SIIInv'
    BY <1>2, <2>1, <2>3, SIWalkInv DEF SI!screen
  <2>4. QED
    BY <1>8, <2>2, <2>3 DEF SI!Wait, SI!Decide, SI!Login, SI!EnterName, SI!Verify
<1>9. CASE SI!EnterPassword
  <2>1. siPc = "password" /\ ~siChallenged /\ UNCHANGED <<SI!config, SI!disk, siFaults>>
    BY <1>1, <1>9 DEF SI!EnterPassword, SISeen
  <2>2. CASE SI!End("unsupported")
    BY <2>1, <2>2, SIPlainEndInv
  <2>3. CASE /\ siHinted' = FALSE /\ SI!Go("mfa") /\ siPage' \in SI!Pages /\ siPushed' \in BOOLEAN
             /\ UNCHANGED <<siPolls, siChallenged, siFound>>
    <3>1. UNCHANGED <<siAccount, siCampus, siCooling, siFaults, siStored>>
      BY <2>1 DEF SI!config, SI!disk
    <3>2. QED
      BY <1>2, <2>1, <2>3, <3>1, SIGoInv
  <2>4. QED
    BY <1>2, <1>9, <2>2, <2>3, SITurned DEF SI!EnterPassword
<1>10. CASE SI!HandleMFA
  <2>1. siPc = "mfa" /\ UNCHANGED <<SI!config, SI!disk, siFaults>>
    BY <1>10 DEF SI!HandleMFA
  <2>2. UNCHANGED <<siAccount, siCampus, siCooling, siFaults, siStored>>
    BY <2>1 DEF SI!config, SI!disk
  <2>3. CASE SI!End("unsupported") /\ ~SI!shown
    BY <2>1, <2>3, SIPlainEndInv DEF SI!shown
  <2>4. CASE siChallenged' = FALSE /\ SI!Go("verify") /\ UNCHANGED <<SI!screen, siHinted, siPolls, siFound>>
    BY <1>2, <2>1, <2>2, <2>4, SIGoInv DEF SI!screen
  <2>5. CASE /\ siChallenged' = (siChallenged \/ siPage \in SI!mfaChallenges) /\ SI!Go("mfa")
             /\ UNCHANGED <<SI!screen, siHinted, siPolls, siFound>>
    BY <1>2, <2>1, <2>2, <2>5, SIGoInv DEF SI!screen
  <2>6. CASE SI!Go("record") /\ UNCHANGED <<SI!screen, SI!attempt>>
    BY <1>2, <2>1, <2>6, SIWalkInv DEF SI!screen
  <2>7. QED
    BY <1>10, <2>3, <2>4, <2>5, <2>6 DEF SI!HandleMFA
<1>11. CASE SI!Record
  <2>1. /\ SI!End("mfa failed") /\ UNCHANGED <<siAccount, siCampus, siStored>>
        /\ \/ siCooling' = TRUE /\ UNCHANGED siFaults
           \/ siFaults < siMaxFaults /\ siFaults' = siFaults + 1 /\ UNCHANGED siCooling
    BY <1>11 DEF SI!Record, SI!config
  <2>2. QED
    BY <1>2, <1>a, <2>1, SIEndInv
<1>12. CASE SI!SaveState
  <2>1. siPc = "state" /\ ~siChallenged /\ UNCHANGED <<siAccount, siCampus, siCooling>>
    BY <1>1, <1>12 DEF SI!SaveState, SISeen, SI!config
  <2>2. CASE siStored' = "login" /\ SI!Go("mint") /\ UNCHANGED <<SI!screen, SI!attempt, siFaults>>
    <3>1. UNCHANGED <<siPage, siPushed, siHinted, siPolls, siChallenged, siFound>>
      BY <2>2 DEF SI!screen, SI!attempt
    <3>2. QED
      BY <1>2, <2>1, <2>2, <3>1, SIGoInv
  <2>3. CASE siFaults < siMaxFaults /\ siFaults' = siFaults + 1 /\ SI!End("failed") /\ UNCHANGED siStored
    BY <1>2, <1>a, <2>1, <2>3, SIEndInv
  <2>4. QED
    BY <1>12, <2>2, <2>3 DEF SI!SaveState
<1>13. CASE SI!Mint
  <2>1. siPc = "mint" /\ ~siChallenged /\ UNCHANGED <<SI!config, SI!disk, siFaults>>
    BY <1>1, <1>13 DEF SI!Mint, SISeen
  <2>2. ASSUME NEW what, SI!End(what) PROVE SIIInv'
    BY <2>1, <2>2, SIPlainEndInv
  <2>3. ASSUME NEW label \in {"hand over", "extract"}, SI!Go(label), siFound' \in {"minted", "local"},
               label = "extract" => siFound' = "local", UNCHANGED <<SI!screen, siHinted, siPolls, siChallenged>>
        PROVE  SIIInv'
    <3>1. UNCHANGED <<siAccount, siCampus, siCooling, siFaults, siStored>>
      BY <2>1 DEF SI!config, SI!disk
    <3>2. siFound' \in SI!Strategies \cup {"none", "minted"} /\ (label = "extract" => siFound' \in SI!Strategies)
      BY <2>3 DEF SI!Strategies
    <3>3. QED
      BY <1>2, <2>1, <2>3, <3>1, <3>2, SIGoInv DEF SI!screen
  <2>4. QED
    BY <1>13, <2>2, <2>3 DEF SI!Mint
<1>14. CASE SI!Extract
  <2>1. siPc = "extract" /\ ~siChallenged /\ UNCHANGED <<SI!config, SI!disk, siFaults>> /\ siFound \in SI!Strategies
    BY <1>1, <1>14 DEF SI!Extract, SISeen, SIIInv, SIShape
  <2>2. ASSUME NEW what, SI!End(what) PROVE SIIInv'
    BY <2>1, <2>2, SIPlainEndInv
  <2>3. CASE SI!Go("hand over") /\ UNCHANGED <<SI!screen, SI!attempt>>
    BY <1>2, <2>1, <2>3, SIWalkInv DEF SI!screen
  <2>4. CASE /\ siFound # "captured" /\ siFound' = SI!After(siFound) /\ SI!Go("extract")
             /\ UNCHANGED <<SI!screen, siHinted, siPolls, siChallenged>>
    <3>1. UNCHANGED <<siAccount, siCampus, siCooling, siFaults, siStored>>
      BY <2>1 DEF SI!config, SI!disk
    <3>2. siFound' \in SI!Strategies
      BY <2>1, <2>4 DEF SI!Strategies, SI!After
    <3>3. QED
      BY <1>2, <2>1, <2>4, <3>1, <3>2, SIGoInv DEF SI!screen
  <2>5. QED
    BY <1>14, <2>2, <2>3, <2>4 DEF SI!Extract, SI!Verdicts
<1>15. CASE SI!HandOver
  <2>1. siPc = "hand over" /\ ~siChallenged /\ UNCHANGED <<siAccount, siCampus, siStored>>
    BY <1>1, <1>15 DEF SI!HandOver, SISeen, SI!config
  <2>2. CASE siCooling' = FALSE /\ SI!End("ok") /\ UNCHANGED siFaults
    BY <1>2, <2>1, <2>2, SIEndInv
  <2>3. CASE siFaults < siMaxFaults /\ siFaults' = siFaults + 1 /\ SI!End("failed") /\ UNCHANGED siCooling
    BY <1>2, <1>a, <2>1, <2>3, SIEndInv
  <2>4. QED
    BY <1>15, <2>2, <2>3 DEF SI!HandOver
<1>16. CASE SI!Kill
  <2>1. /\ siFaults < siMaxFaults /\ siFaults' = siFaults + 1 /\ SI!End("killed")
        /\ UNCHANGED <<siAccount, siCampus, siCooling, siStored>>
    BY <1>16 DEF SI!Kill, SI!config, SI!disk
  <2>2. QED
    BY <1>2, <1>a, <2>1, SIEndInv
<1>17. CASE UNCHANGED SI!vars
  <2>1. UNCHANGED <<siRunner, siPc, siPage, siAccount, siCampus, siHinted, siPolls, siPushed, siChallenged,
                    siFound, siCooling, siStored, siOwing, siFaults>>
    BY <1>17 DEF SI!vars
  <2>2. QED
    BY <2>1 DEF SIIInv, SIShape, SISeen, SIGuarded, SI!TypeOK
<1>18. QED
  BY <1>3, <1>4, <1>5, <1>6, <1>7, <1>8, <1>9, <1>10, <1>11, <1>12, <1>13, <1>14, <1>15,
     <1>16,
     <1>17, SISilentInv DEF SI!Next

\* The invariant implies the types and the property.
LEMMA SIConsequences == SIIInv => SI!TypeOK /\ SI!NoSecondPush
BY DEF SIIInv, SIShape, SIGuarded, SI!NoSecondPush

-----------------------------------------------------------------------------
(* The Duo authenticator: Authenticator *)

AULabels == {"idle", "lock", "read", "cool", "sign in", "await", "learn", "cookies", "remember",
           "whoami", "end"}
AUScripts == {"none", "enroll", "restore", "renew"}
AUCounters == 0..auMaxCounter

\* Types.
AUShape ==
  /\ auDisk \in [AU!Machines -> AUCounters] /\ auLock \in [AU!Machines -> BOOLEAN]
  /\ auCookies \in [AU!Machines -> BOOLEAN] /\ auCooling \in [AU!Machines -> BOOLEAN]
  /\ auDeployed \in {"no", "claimed", "sent", "failed"}
  /\ auRun \in [auRuns -> [script : AUScripts, machine : AU!Machines, at : AULabels]]
  /\ auMemory \in [auRuns -> AUCounters] /\ auWrites \in [auRuns -> Seq(AUCounters)]
  /\ auSaveFailed \in [auRuns -> BOOLEAN] /\ auDuo \in AUCounters
  /\ auSession \in [AU!Machines -> {"none", "owner"}]
  /\ auBroken \in BOOLEAN /\ auRaced \in BOOLEAN /\ auFaults \in Nat

\* A run that has got past the lock; the machine that may use the key; the counter that
\* will be on disk when the run's saves are done.
AUActive(r) == auRun[r].at \notin {"idle", "lock"}
AUCurrent == IF auDeployed \in {"no", "claimed"} THEN "local" ELSE "vm"
AULastSaved(r) == IF auWrites[r] = <<>> THEN auDisk[AU!machine(r)] ELSE auWrites[r][Len(auWrites[r])]

\* Runs are on the machine that has the key, at most one of them past the lock.
AUOnePlace ==
  \A r \in auRuns : ~AU!At(r, "idle") => auDeployed \in {"no", "sent"} /\ AU!machine(r) = AUCurrent
AUOneRun ==
  /\ \A r \in auRuns : AUActive(r) => auLock[AUCurrent]
  /\ \A r, q \in auRuns : AUActive(r) /\ AUActive(q) => r = q

\* Nothing is left over from a run that has ended.
AUFresh == \A r \in auRuns : ~AUActive(r) => auWrites[r] = <<>> /\ auMemory[r] = 0

\* What is on disk, or on its way there, and in the browser is what Duo saw last.
AUInStep ==
  /\ (\A r \in auRuns : ~AUActive(r)) /\ auDeployed # "failed" => auDisk[AUCurrent] = auDuo
  /\ \A r \in auRuns : AUActive(r) =>
       /\ AULastSaved(r) = auDuo
       /\ AU!At(r, "read") => auWrites[r] = <<>>
       /\ auRun[r].at \notin {"read", "end"} => auMemory[r] = auDuo

\* Nothing has gone wrong yet.
AUUndisturbed == auFaults = 0 /\ ~auRaced

AUKeyInv == AUOnePlace /\ AUOneRun /\ AUFresh /\ AUInStep /\ ~auBroken

\* The inductive invariant of the authenticator.
AUIInv == AUShape /\ (AUUndisturbed => AUKeyInv)

\* A counter joins the saves to come, and the last of them is done.
LEMMA AUChain ==
  ASSUME NEW s \in Seq(AUCounters)
  PROVE  /\ \A c \in AUCounters : /\ Append(s, c) \in Seq(AUCounters) /\ Append(s, c) # <<>>
                                  /\ Append(s, c)[Len(Append(s, c))] = c
         /\ s # <<>> => /\ Head(s) \in AUCounters /\ Tail(s) \in Seq(AUCounters)
                        /\ Tail(s) = <<>> => Head(s) = s[Len(s)]
                        /\ Tail(s) # <<>> => Tail(s)[Len(Tail(s))] = s[Len(s)]
<1>1. ASSUME NEW c \in AUCounters
      PROVE  /\ Append(s, c) \in Seq(AUCounters) /\ Append(s, c) # <<>>
             /\ Append(s, c)[Len(Append(s, c))] = c
  OBVIOUS
<1>2. ASSUME s # <<>>
      PROVE  /\ Head(s) \in AUCounters /\ Tail(s) \in Seq(AUCounters)
             /\ Tail(s) = <<>> => Head(s) = s[Len(s)]
             /\ Tail(s) # <<>> => Tail(s)[Len(Tail(s))] = s[Len(s)]
  <2>1. /\ Head(s) \in AUCounters /\ Tail(s) \in Seq(AUCounters) /\ Len(s) \in Nat \ {0}
        /\ Head(s) = s[1] /\ Len(Tail(s)) = Len(s) - 1
        /\ \A i \in 1..Len(Tail(s)) : Tail(s)[i] = s[i + 1]
    BY <1>2
  <2>2. ASSUME Tail(s) = <<>> PROVE Head(s) = s[Len(s)]
    <3>1. \A t : t = <<>> => Len(t) = 0
      OBVIOUS
    <3>2. Len(s) = 1
      <4>1. Len(Tail(s)) = 0
        BY <2>2, <3>1
      <4>2. \A n \in Nat \ {0} : 0 = n - 1 => n = 1
        OBVIOUS
      <4>3. QED
        BY <2>1, <4>1, <4>2
    <3>3. QED
      BY <2>1, <3>2
  <2>3. ASSUME Tail(s) # <<>> PROVE Tail(s)[Len(Tail(s))] = s[Len(s)]
    <3>1. Len(Tail(s)) \in Nat \ {0}
      BY <2>1, <2>3
    <3>2. Len(Tail(s)) \in 1..Len(Tail(s)) /\ Len(Tail(s)) + 1 = Len(s)
      BY <2>1, <3>1
    <3>3. QED
      BY <2>1, <3>2
  <2>4. QED
    BY <2>1, <2>2, <2>3
<1>3. QED
  BY <1>1, <1>2

\* No run, no credential.
LEMMA AUInitInv == auMaxCounter \in Nat \ {0} /\ AU!Init => AUIInv
<1> SUFFICES ASSUME auMaxCounter \in Nat \ {0}, AU!Init PROVE AUIInv
  OBVIOUS
<1>0. 0 \in AUCounters /\ "local" \in AU!Machines
  BY DEF AUCounters, AU!Machines
<1>1. AU!Idle \in [script : AUScripts, machine : AU!Machines, at : AULabels] /\ AU!Idle.at = "idle"
  BY DEF AU!Idle, AUScripts, AU!Machines, AULabels
<1>2. AUShape
  <2>1. /\ auDisk \in [AU!Machines -> AUCounters] /\ auMemory \in [auRuns -> AUCounters] /\ auDuo \in AUCounters
        /\ auWrites \in [auRuns -> Seq(AUCounters)]
    BY <1>0 DEF AU!Init
  <2>2. /\ auLock \in [AU!Machines -> BOOLEAN] /\ auCooling \in [AU!Machines -> BOOLEAN]
        /\ auSaveFailed \in [auRuns -> BOOLEAN] /\ auSession \in [AU!Machines -> {"none", "owner"}]
    BY DEF AU!Init
  <2>3. auCookies \in [AU!Machines -> BOOLEAN]
    BY Zenon DEF AU!Init
  <2>4. auRun \in [auRuns -> [script : AUScripts, machine : AU!Machines, at : AULabels]]
    BY <1>1 DEF AU!Init
  <2>5. /\ auDeployed \in {"no", "claimed", "sent", "failed"}
        /\ auBroken \in BOOLEAN /\ auRaced \in BOOLEAN /\ auFaults \in Nat
    BY DEF AU!Init
  <2>6. QED
    BY <2>1, <2>2, <2>3, <2>4, <2>5 DEF AUShape
<1>3. /\ \A r \in auRuns : auRun[r].at = "idle" /\ auWrites[r] = <<>> /\ auMemory[r] = 0
      /\ auDisk["local"] = 0 /\ auDuo = 0 /\ ~auBroken /\ auDeployed = "no"
  BY <1>0, <1>1 DEF AU!Init
<1>4. AUOnePlace /\ AUOneRun /\ AUFresh
  BY <1>3 DEF AUOnePlace, AUOneRun, AUFresh, AUActive, AU!At
<1>5. AUInStep
  BY <1>3 DEF AUInStep, AUActive, AUCurrent
<1>6. QED
  BY <1>2, <1>3, <1>4, <1>5 DEF AUIInv, AUKeyInv

\* The one run that is active goes on in step with Duo.
LEMMA AUActiveStep ==
  ASSUME AUShape, AUKeyInv, NEW r \in auRuns, AUActive(r), AU!machine(r)' = AU!machine(r),
         \A q \in auRuns \ {r} : /\ auRun'[q] = auRun[q] /\ auWrites'[q] = auWrites[q]
                                 /\ auMemory'[q] = auMemory[q],
         UNCHANGED <<auLock, auDeployed>>, AUActive(r)', AULastSaved(r)' = auDuo',
         auRun'[r].at # "read", auRun'[r].at # "end" => auMemory'[r] = auDuo', ~auBroken'
  PROVE  AUKeyInv'
<1>1. AUOnePlace /\ AUOneRun /\ AUFresh
  BY DEF AUKeyInv
<1>2. auDeployed \in {"no", "sent"} /\ AU!machine(r) = AUCurrent /\ AUCurrent' = AUCurrent
  BY <1>1 DEF AUOnePlace, AUActive, AU!At, AUCurrent
<1>3. \A q \in auRuns \ {r} : ~AUActive(q) /\ ~AUActive(q)' /\ AU!machine(q)' = AU!machine(q)
  BY <1>1 DEF AUOneRun, AUActive, AU!machine
<1>4. AUOnePlace'
  BY <1>1, <1>2, <1>3 DEF AUOnePlace, AU!At
<1>5. AUOneRun'
  BY <1>1, <1>2, <1>3 DEF AUOneRun
<1>6. AUFresh'
  BY <1>1, <1>3 DEF AUFresh
<1>7. AUInStep'
  BY <1>3 DEF AUInStep, AU!At
<1>8. QED
  BY <1>4, <1>5, <1>6, <1>7 DEF AUKeyInv

\* What moves no run and no counter, and leaves the lock of a run alone, changes nothing.
LEMMA AUQuietStep ==
  ASSUME AUShape, AUKeyInv, UNCHANGED <<auDisk, auDeployed, auRun, auMemory, auWrites, auDuo, auBroken>>,
         \A r \in auRuns : AUActive(r) => auLock'[AUCurrent] = auLock[AUCurrent]
  PROVE  AUKeyInv'
<1>1. AUOnePlace /\ AUOneRun /\ AUFresh /\ AUInStep /\ ~auBroken
  BY DEF AUKeyInv
<1>2. AUCurrent' = AUCurrent /\ \A r \in auRuns : AUActive(r)' = AUActive(r) /\ AU!machine(r)' = AU!machine(r)
  BY DEF AUCurrent, AUActive, AU!machine
<1>3. AUOnePlace' /\ AUOneRun' /\ AUFresh'
  BY <1>1, <1>2 DEF AUOnePlace, AUOneRun, AUFresh, AU!At
<1>4. \A r \in auRuns : AULastSaved(r)' = AULastSaved(r)
  BY <1>2 DEF AULastSaved
<1>5. AUInStep'
  BY <1>1, <1>2, <1>4 DEF AUInStep, AU!At
<1>6. QED
  BY <1>1, <1>3, <1>5 DEF AUKeyInv

\* A run goes on to its next place, with or without a change of script.
LEMMA AUGoTyped ==
  ASSUME AUShape, NEW r \in auRuns, NEW label \in AULabels, AU!Go(r, label)
  PROVE  /\ auRun' \in [auRuns -> [script : AUScripts, machine : AU!Machines, at : AULabels]]
         /\ auRun'[r].at = label /\ auRun'[r].machine = auRun[r].machine /\ auRun'[r].script = auRun[r].script
         /\ \A q \in auRuns \ {r} : auRun'[q] = auRun[q]
<1> DEFINE new == [auRun[r] EXCEPT !.at = label]
<1>1. auRun \in [auRuns -> [script : AUScripts, machine : AU!Machines, at : AULabels]]
  BY DEF AUShape
<1>2. auRun' = [auRun EXCEPT ![r] = new]
  BY DEF AU!Go
<1>3. /\ new \in [script : AUScripts, machine : AU!Machines, at : AULabels]
      /\ new.at = label /\ new.machine = auRun[r].machine /\ new.script = auRun[r].script
  BY <1>1
<1> HIDE DEF new
<1>4. QED
  BY <1>1, <1>2, <1>3

\* A run starts where the key is.
LEMMA AUStartInv ==
  ASSUME AUIInv, NEW r \in auRuns, NEW m \in AU!Machines, NEW s \in {"enroll", "restore", "renew"},
         AU!Start(r, s, m)
  PROVE  AUIInv'
<1> DEFINE new == [script |-> s, machine |-> m, at |-> "lock"]
<1>1. /\ AU!At(r, "idle") /\ auWrites[r] = <<>> /\ (m = "local" => auDeployed = "no")
      /\ (m = "vm" => auDeployed = "sent") /\ auRun' = [auRun EXCEPT ![r] = new]
      /\ UNCHANGED <<auDisk, auLock, auCookies, auCooling, auDeployed, auSession, auMemory, auWrites, auSaveFailed,
                     auDuo, auBroken, auRaced, auFaults>>
  BY DEF AU!Start, AU!machineState, AU!mine, AU!key, AU!history
<1>2. AUShape
  BY DEF AUIInv
<1>3. /\ new \in [script : AUScripts, machine : AU!Machines, at : AULabels] /\ new.at = "lock"
      /\ new.machine = m
  BY DEF AUScripts, AULabels
<1> HIDE DEF new
<1>4. /\ auRun' \in [auRuns -> [script : AUScripts, machine : AU!Machines, at : AULabels]]
      /\ auRun'[r] = new /\ \A q \in auRuns \ {r} : auRun'[q] = auRun[q]
  BY <1>1, <1>2, <1>3 DEF AUShape
<1>5. AUShape'
  BY <1>1, <1>2, <1>4 DEF AUShape
<1>6. ASSUME AUUndisturbed' PROVE AUKeyInv'
  <2>1. AUKeyInv
    BY <1>1, <1>6 DEF AUIInv, AUUndisturbed
  <2>2. AUOnePlace /\ AUOneRun /\ AUFresh /\ AUInStep /\ ~auBroken
    BY <2>1 DEF AUKeyInv
  <2>3. ~AUActive(r) /\ \A q \in auRuns : AUActive(q)' = AUActive(q)
    BY <1>1, <1>3, <1>4 DEF AUActive, AU!At
  <2>4. AUCurrent' = AUCurrent /\ m = AUCurrent /\ auDeployed \in {"no", "sent"}
    BY <1>1 DEF AUCurrent, AU!Machines
  <2>5. AUOnePlace'
    BY <1>1, <1>3, <1>4, <2>2, <2>4 DEF AUOnePlace, AU!At, AU!machine
  <2>6. AUOneRun' /\ AUFresh'
    BY <1>1, <2>2, <2>3, <2>4 DEF AUOneRun, AUFresh
  <2>7. \A q \in auRuns : AUActive(q) => auRun'[q] = auRun[q] /\ AULastSaved(q)' = AULastSaved(q)
    BY <1>1, <1>4, <2>3 DEF AULastSaved, AU!machine
  <2>8. AUInStep'
    BY <1>1, <2>2, <2>3, <2>4, <2>7 DEF AUInStep, AU!At
  <2>9. QED
    BY <1>1, <2>2, <2>5, <2>6, <2>8 DEF AUKeyInv
<1>7. QED
  BY <1>5, <1>6 DEF AUIInv

\* A run gets past the lock when no other is; then the disk has what Duo saw.
LEMMA AULockInv == ASSUME AUIInv, NEW r \in auRuns, AU!Lock(r) PROVE AUIInv'
<1>1. /\ AU!At(r, "lock")
      /\ UNCHANGED <<auDisk, auCookies, auCooling, auDeployed, auSession, auMemory, auWrites, auSaveFailed, auDuo,
                     auBroken, auRaced, auFaults>>
  BY DEF AU!Lock, AU!mine, AU!key, AU!history
<1>2. AUShape /\ AU!machine(r) \in AU!Machines
  BY DEF AUIInv, AUShape, AU!machine
<1>3. AU!Idle \in [script : AUScripts, machine : AU!Machines, at : AULabels] /\ AU!Idle.at = "idle"
  BY DEF AU!Idle, AUScripts, AU!Machines, AULabels
<1>4. CASE auRun' = [auRun EXCEPT ![r] = AU!Idle] /\ UNCHANGED auLock
  <2>1. /\ auRun' \in [auRuns -> [script : AUScripts, machine : AU!Machines, at : AULabels]]
        /\ auRun'[r] = AU!Idle /\ \A q \in auRuns \ {r} : auRun'[q] = auRun[q]
    BY <1>2, <1>3, <1>4 DEF AUShape
  <2>2. AUShape'
    BY <1>1, <1>2, <1>4, <2>1 DEF AUShape
  <2>3. ASSUME AUUndisturbed' PROVE AUKeyInv'
    <3>1. AUOnePlace /\ AUOneRun /\ AUFresh /\ AUInStep /\ ~auBroken
      BY <1>1, <2>3 DEF AUIInv, AUUndisturbed, AUKeyInv
    <3>2. ~AUActive(r) /\ ~AU!At(r, "idle") /\ \A q \in auRuns : AUActive(q)' = AUActive(q)
      BY <1>1, <1>3, <2>1 DEF AUActive, AU!At
    <3>3. AUCurrent' = AUCurrent
      BY <1>1 DEF AUCurrent
    <3>4. AUOnePlace'
      BY <1>1, <1>3, <2>1, <3>1, <3>3 DEF AUOnePlace, AU!At, AU!machine
    <3>5. AUOneRun' /\ AUFresh'
      BY <1>1, <1>4, <3>1, <3>2, <3>3 DEF AUOneRun, AUFresh
    <3>6. \A q \in auRuns : AUActive(q) => auRun'[q] = auRun[q] /\ AULastSaved(q)' = AULastSaved(q)
      BY <1>1, <2>1, <3>2 DEF AULastSaved, AU!machine
    <3>7. AUInStep'
      BY <1>1, <3>1, <3>2, <3>3, <3>6 DEF AUInStep, AU!At
    <3>8. QED
      BY <1>1, <3>1, <3>4, <3>5, <3>7 DEF AUKeyInv
  <2>4. QED
    BY <2>2, <2>3 DEF AUIInv
<1>5. CASE ~auLock[AU!machine(r)] /\ auLock' = [auLock EXCEPT ![AU!machine(r)] = TRUE] /\ AU!Go(r, "read")
  <2>1. "read" \in AULabels
    BY DEF AULabels
  <2>2. /\ auRun' \in [auRuns -> [script : AUScripts, machine : AU!Machines, at : AULabels]]
        /\ auRun'[r].at = "read" /\ AU!machine(r)' = AU!machine(r)
        /\ \A q \in auRuns \ {r} : auRun'[q] = auRun[q]
    BY <1>2, <1>5, <2>1, AUGoTyped DEF AU!machine
  <2>3. auLock' \in [AU!Machines -> BOOLEAN] /\ auLock'[AU!machine(r)] = TRUE
    BY <1>2, <1>5, Zenon DEF AUShape
  <2>4. AUShape'
    BY <1>1, <1>2, <2>2, <2>3 DEF AUShape
  <2>5. ASSUME AUUndisturbed' PROVE AUKeyInv'
    <3>1. AUOnePlace /\ AUOneRun /\ AUFresh /\ AUInStep /\ ~auBroken
      BY <1>1, <2>5 DEF AUIInv, AUUndisturbed, AUKeyInv
    <3>2. ~AUActive(r) /\ ~AU!At(r, "idle")
      BY <1>1 DEF AUActive, AU!At
    <3>3. auDeployed \in {"no", "sent"} /\ AU!machine(r) = AUCurrent /\ AUCurrent' = AUCurrent
      BY <1>1, <3>1, <3>2 DEF AUOnePlace, AUCurrent
    <3>4. \A q \in auRuns : ~AUActive(q)
      BY <1>5, <3>1, <3>3 DEF AUOneRun
    <3>5. AUActive(r)' /\ \A q \in auRuns \ {r} : ~AUActive(q)'
      BY <2>2, <3>4 DEF AUActive
    <3>6. AUOnePlace'
      BY <1>1, <2>2, <3>1, <3>3 DEF AUOnePlace, AU!At, AU!machine
    <3>7. AUOneRun'
      BY <2>3, <3>3, <3>5 DEF AUOneRun
    <3>8. AUFresh'
      BY <1>1, <3>1, <3>4, <3>5 DEF AUFresh
    <3>9. AULastSaved(r)' = auDuo' /\ auWrites'[r] = <<>>
      BY <1>1, <2>2, <3>1, <3>2, <3>3, <3>4 DEF AULastSaved, AUInStep, AUFresh
    <3>10. AUInStep'
      BY <2>2, <3>5, <3>9 DEF AUInStep
    <3>11. QED
      BY <1>1, <3>1, <3>6, <3>7, <3>8, <3>10 DEF AUKeyInv
  <2>6. QED
    BY <2>4, <2>5 DEF AUIInv
<1>6. QED
  BY <1>4, <1>5 DEF AU!Lock

\* A run that ends leaves what it saved, which is what Duo saw, unless its saves go on
\* after the lock.
LEMMA AUUnlockInv ==
  ASSUME auMaxCounter \in Nat \ {0}, AUIInv, NEW r \in auRuns, AU!Unlock(r)
  PROVE AUIInv'
<1> DEFINE new == [AU!Idle EXCEPT !.machine = AU!machine(r)]
<1>1. /\ AU!At(r, "end") /\ auRaced' = (auRaced \/ auWrites[r] # <<>>)
      /\ auLock' = [auLock EXCEPT ![AU!machine(r)] = FALSE] /\ auRun' = [auRun EXCEPT ![r] = new]
      /\ auMemory' = [auMemory EXCEPT ![r] = 0] /\ auSaveFailed' = [auSaveFailed EXCEPT ![r] = FALSE]
      /\ UNCHANGED <<auDisk, auCookies, auCooling, auDeployed, auSession, auWrites, auDuo, auBroken, auFaults>>
  BY DEF AU!Unlock, AU!key
<1>2. AUShape /\ AU!machine(r) \in AU!Machines
  BY DEF AUIInv, AUShape, AU!machine
<1>3. /\ new \in [script : AUScripts, machine : AU!Machines, at : AULabels] /\ new.at = "idle"
      /\ new.machine = AU!machine(r)
  BY <1>2 DEF AU!Idle, AUScripts, AU!Machines, AULabels
<1> HIDE DEF new
<1>4. /\ auRun' \in [auRuns -> [script : AUScripts, machine : AU!Machines, at : AULabels]]
      /\ auRun'[r] = new /\ \A q \in auRuns \ {r} : auRun'[q] = auRun[q]
  BY <1>1, <1>2, <1>3 DEF AUShape
<1>5. /\ auMemory' \in [auRuns -> AUCounters] /\ auMemory'[r] = 0
      /\ \A q \in auRuns \ {r} : auMemory'[q] = auMemory[q]
  BY <1>1, <1>2 DEF AUShape, AUCounters
<1>6. auLock' \in [AU!Machines -> BOOLEAN] /\ auSaveFailed' \in [auRuns -> BOOLEAN] /\ auRaced' \in BOOLEAN
  <2>1. auLock \in [AU!Machines -> BOOLEAN] /\ auSaveFailed \in [auRuns -> BOOLEAN]
    BY <1>2 DEF AUShape
  <2>2. QED
    BY <1>1, <2>1, Zenon
<1>7. AUShape'
  BY <1>1, <1>2, <1>4, <1>5, <1>6 DEF AUShape
<1>8. ASSUME AUUndisturbed' PROVE AUKeyInv'
  <2>1. AUOnePlace /\ AUOneRun /\ AUFresh /\ AUInStep /\ ~auBroken /\ auWrites[r] = <<>>
    BY <1>1, <1>8 DEF AUIInv, AUUndisturbed, AUKeyInv
  <2>2. AUActive(r) /\ \A q \in auRuns \ {r} : ~AUActive(q)
    BY <1>1, <2>1 DEF AUActive, AU!At, AUOneRun
  <2>3. \A q \in auRuns : ~AUActive(q)'
    BY <1>3, <1>4, <2>2 DEF AUActive
  <2>4. AU!machine(r) = AUCurrent /\ AUCurrent' = AUCurrent
    BY <1>1, <2>1 DEF AUOnePlace, AU!At, AUCurrent
  <2>5. AUOnePlace'
    BY <1>1, <1>3, <1>4, <2>1, <2>4 DEF AUOnePlace, AU!At, AU!machine
  <2>6. AUOneRun'
    BY <2>3 DEF AUOneRun
  <2>7. AUFresh'
    BY <1>1, <1>5, <2>1, <2>2 DEF AUFresh
  <2>8. auDisk[AUCurrent] = auDuo
    BY <2>1, <2>2, <2>4 DEF AUInStep, AULastSaved
  <2>9. AUInStep'
    BY <1>1, <2>3, <2>4, <2>8 DEF AUInStep
  <2>10. QED
    BY <1>1, <2>1, <2>5, <2>6, <2>7, <2>9 DEF AUKeyInv
<1>9. QED
  BY <1>7, <1>8 DEF AUIInv

\* What a run finds on disk is what Duo saw.
LEMMA AUReadPriorInv == ASSUME AUIInv, NEW r \in auRuns, AU!ReadPrior(r) PROVE AUIInv'
<1>1. /\ AU!At(r, "read")
      /\ UNCHANGED <<auDisk, auLock, auCookies, auCooling, auDeployed, auSession, auWrites, auSaveFailed, auDuo,
                     auBroken, auRaced, auFaults>>
  BY DEF AU!ReadPrior, AU!machineState, AU!key, AU!history
<1>2. AUShape /\ AU!machine(r) \in AU!Machines
  BY DEF AUIInv, AUShape, AU!machine
<1>3. PICK label \in {"cool", "sign in", "end"} :
        /\ AU!Go(r, label)
        /\ \/ auMemory' = [auMemory EXCEPT ![r] = auDisk[AU!machine(r)]]
           \/ label = "end" /\ UNCHANGED auMemory
  BY DEF AU!ReadPrior
<1>4. label \in AULabels
  BY DEF AULabels
<1>5. /\ auRun' \in [auRuns -> [script : AUScripts, machine : AU!Machines, at : AULabels]]
      /\ auRun'[r].at = label /\ AU!machine(r)' = AU!machine(r)
      /\ \A q \in auRuns \ {r} : auRun'[q] = auRun[q]
  BY <1>2, <1>3, <1>4, AUGoTyped DEF AU!machine
<1>6. /\ auMemory' \in [auRuns -> AUCounters] /\ \A q \in auRuns \ {r} : auMemory'[q] = auMemory[q]
      /\ label # "end" => auMemory'[r] = auDisk[AU!machine(r)]
  BY <1>2, <1>3 DEF AUShape
<1>7. AUShape'
  BY <1>1, <1>2, <1>5, <1>6 DEF AUShape
<1>8. ASSUME AUUndisturbed' PROVE AUKeyInv'
  <2>1. AUKeyInv
    BY <1>1, <1>8 DEF AUIInv, AUUndisturbed
  <2>2. AUActive(r) /\ auWrites[r] = <<>> /\ auDisk[AU!machine(r)] = auDuo
    BY <1>1, <2>1 DEF AUKeyInv, AUInStep, AUActive, AU!At, AULastSaved
  <2>3. AUActive(r)' /\ AULastSaved(r)' = auDuo' /\ ~auBroken'
    BY <1>1, <1>5, <2>1, <2>2 DEF AUActive, AULastSaved, AUKeyInv
  <2>4. auRun'[r].at # "read" /\ (auRun'[r].at # "end" => auMemory'[r] = auDuo')
    BY <1>1, <1>5, <1>6, <2>2
  <2>5. QED
    BY <1>1, <1>2, <1>5, <1>6, <2>1, <2>2, <2>3, <2>4, AUActiveStep
<1>9. QED
  BY <1>7, <1>8 DEF AUIInv

\* A run goes from place to place, with neither a signature nor a save.
LEMMA AUWalkInv ==
  ASSUME AUIInv, NEW r \in auRuns, AUActive(r), ~AU!At(r, "read"), NEW label \in AULabels, AU!Go(r, label),
         label \notin {"idle", "lock", "read"}, AU!At(r, "end") => label = "end",
         auCookies' \in [AU!Machines -> BOOLEAN], auCooling' \in [AU!Machines -> BOOLEAN],
         auSession' \in [AU!Machines -> {"none", "owner"}],
         UNCHANGED <<auDisk, auLock, auDeployed, AU!mine, AU!key, AU!history>>
  PROVE  AUIInv'
<1>1. AUShape
  BY DEF AUIInv
<1>2. /\ auRun' \in [auRuns -> [script : AUScripts, machine : AU!Machines, at : AULabels]]
      /\ auRun'[r].at = label /\ AU!machine(r)' = AU!machine(r)
      /\ \A q \in auRuns \ {r} : auRun'[q] = auRun[q]
  BY <1>1, AUGoTyped DEF AU!machine
<1>3. UNCHANGED <<auDisk, auLock, auDeployed, auMemory, auWrites, auSaveFailed, auDuo, auBroken, auRaced, auFaults>>
  BY DEF AU!mine, AU!key, AU!history
<1>4. AUShape'
  BY <1>1, <1>2, <1>3 DEF AUShape
<1>5. ASSUME AUUndisturbed' PROVE AUKeyInv'
  <2>1. AUKeyInv
    BY <1>3, <1>5 DEF AUIInv, AUUndisturbed
  <2>2. /\ AULastSaved(r) = auDuo /\ ~auBroken
        /\ auRun[r].at \notin {"read", "end"} => auMemory[r] = auDuo
    BY <2>1 DEF AUKeyInv, AUInStep
  <2>3. AUActive(r)' /\ AULastSaved(r)' = auDuo' /\ ~auBroken'
    BY <1>2, <1>3, <2>2 DEF AUActive, AULastSaved
  <2>4. auRun'[r].at # "read" /\ (auRun'[r].at # "end" => auMemory'[r] = auDuo')
    BY <1>2, <1>3, <2>2 DEF AU!At
  <2>5. QED
    BY <1>1, <1>2, <1>3, <2>1, <2>3, <2>4, AUActiveStep
<1>6. QED
  BY <1>4, <1>5 DEF AUIInv

\* A signature or an enrolment: Duo sees the counter that is then saved.
LEMMA AUPersistInv ==
  ASSUME auMaxCounter \in Nat \ {0}, AUIInv, NEW r \in auRuns, auRun[r].at \in {"sign in", "learn"},
         NEW counter \in AUCounters, AU!Persist(r, counter), UNCHANGED <<AU!machineState, auRun, auSaveFailed, AU!history>>,
         auDuo' \in AUCounters, auBroken' \in BOOLEAN,
         auMemory[r] = auDuo /\ ~auBroken => auDuo' = counter /\ ~auBroken'
  PROVE  AUIInv'
<1>1. UNCHANGED <<auDisk, auLock, auCookies, auCooling, auDeployed, auSession, auRun, auSaveFailed, auRaced, auFaults>>
  BY DEF AU!machineState, AU!history
<1>2. AUShape
  BY DEF AUIInv
<1>3. /\ auMemory' \in [auRuns -> AUCounters] /\ auMemory'[r] = counter
      /\ \A q \in auRuns \ {r} : auMemory'[q] = auMemory[q]
  BY <1>2 DEF AU!Persist, AUShape
<1>4. /\ auWrites' \in [auRuns -> Seq(AUCounters)] /\ auWrites'[r] = Append(auWrites[r], counter)
      /\ \A q \in auRuns \ {r} : auWrites'[q] = auWrites[q]
  <2>1. auWrites \in [auRuns -> Seq(AUCounters)] /\ auWrites' = [auWrites EXCEPT ![r] = Append(auWrites[r], counter)]
    BY <1>2 DEF AU!Persist, AUShape
  <2>2. Append(auWrites[r], counter) \in Seq(AUCounters)
    BY <2>1, AUChain
  <2>3. QED
    BY <2>1, <2>2
<1>5. AUShape'
  BY <1>1, <1>2, <1>3, <1>4 DEF AUShape
<1>6. ASSUME AUUndisturbed' PROVE AUKeyInv'
  <2>1. AUKeyInv /\ AUActive(r)
    BY <1>1, <1>6 DEF AUIInv, AUUndisturbed, AUActive
  <2>2. auMemory[r] = auDuo /\ ~auBroken
    BY <2>1 DEF AUKeyInv, AUInStep
  <2>3. auWrites'[r] # <<>> /\ auWrites'[r][Len(auWrites'[r])] = counter
    <3>1. auWrites[r] \in Seq(AUCounters)
      BY <1>2 DEF AUShape
    <3>2. /\ Append(auWrites[r], counter) # <<>>
          /\ Append(auWrites[r], counter)[Len(Append(auWrites[r], counter))] = counter
      BY <3>1, AUChain
    <3>3. QED
      BY <1>4, <3>2, Zenon
  <2>4. AUActive(r)' /\ AULastSaved(r)' = auDuo' /\ AU!machine(r)' = AU!machine(r)
    BY <1>1, <2>1, <2>2, <2>3 DEF AUActive, AULastSaved, AU!machine
  <2>5. auRun'[r].at # "read" /\ auMemory'[r] = auDuo' /\ ~auBroken'
    BY <1>1, <1>3, <2>2
  <2>6. QED
    BY <1>1, <1>2, <1>3, <1>4, <2>1, <2>4, <2>5, AUActiveStep
<1>7. QED
  BY <1>5, <1>6 DEF AUIInv

\* One save: the disk is a step nearer to what Duo saw.
LEMMA AUWriteSaveInv == ASSUME AUIInv, NEW r \in auRuns, AU!WriteSave(r) PROVE AUIInv'
<1>1. /\ auWrites[r] # <<>> /\ auWrites' = [auWrites EXCEPT ![r] = Tail(@)]
      /\ UNCHANGED <<auLock, auCookies, auCooling, auDeployed, auSession, auRun, auMemory, auDuo, auBroken, auRaced>>
  BY DEF AU!WriteSave, AU!key
<1>2. AUShape /\ AU!machine(r) \in AU!Machines
  BY DEF AUIInv, AUShape, AU!machine
<1>3. auWrites[r] \in Seq(AUCounters)
  BY <1>2 DEF AUShape
<1>4. /\ Head(auWrites[r]) \in AUCounters /\ Tail(auWrites[r]) \in Seq(AUCounters)
      /\ Tail(auWrites[r]) = <<>> => Head(auWrites[r]) = auWrites[r][Len(auWrites[r])]
      /\ Tail(auWrites[r]) # <<>> => Tail(auWrites[r])[Len(Tail(auWrites[r]))] = auWrites[r][Len(auWrites[r])]
  BY <1>1, <1>3, AUChain
<1>5. /\ auWrites' \in [auRuns -> Seq(AUCounters)] /\ auWrites'[r] = Tail(auWrites[r])
      /\ \A q \in auRuns \ {r} : auWrites'[q] = auWrites[q]
  BY <1>1, <1>2, <1>4 DEF AUShape
<1>6. CASE auDisk' = [auDisk EXCEPT ![AU!machine(r)] = Head(auWrites[r])] /\ UNCHANGED <<auSaveFailed, auFaults>>
  <2>1. auDisk' \in [AU!Machines -> AUCounters] /\ auDisk'[AU!machine(r)] = Head(auWrites[r])
    BY <1>2, <1>4, <1>6 DEF AUShape
  <2>2. AUShape'
    BY <1>1, <1>2, <1>5, <1>6, <2>1 DEF AUShape
  <2>3. ASSUME AUUndisturbed' PROVE AUKeyInv'
    <3>1. AUKeyInv
      BY <1>1, <1>6, <2>3 DEF AUIInv, AUUndisturbed
    <3>2. AUActive(r) /\ ~AU!At(r, "read")
      BY <1>1, <3>1 DEF AUKeyInv, AUFresh, AUInStep
    <3>3. auWrites[r][Len(auWrites[r])] = auDuo /\ ~auBroken
          /\ (auRun[r].at \notin {"read", "end"} => auMemory[r] = auDuo)
      BY <1>1, <3>1, <3>2 DEF AUKeyInv, AUInStep, AULastSaved
    <3>4. IF auWrites'[r] = <<>> THEN auDisk'[AU!machine(r)] = auDuo ELSE auWrites'[r][Len(auWrites'[r])] = auDuo
      BY <1>4, <1>5, <2>1, <3>3
    <3>5. AUActive(r)' /\ AULastSaved(r)' = auDuo' /\ AU!machine(r)' = AU!machine(r)
      BY <1>1, <3>2, <3>4 DEF AUActive, AULastSaved, AU!machine
    <3>6. auRun'[r].at # "read" /\ (auRun'[r].at # "end" => auMemory'[r] = auDuo') /\ ~auBroken'
      BY <1>1, <3>2, <3>3 DEF AU!At
    <3>7. QED
      BY <1>1, <1>2, <1>5, <3>1, <3>2, <3>5, <3>6, AUActiveStep
  <2>4. QED
    BY <2>2, <2>3 DEF AUIInv
<1>7. CASE auFaults' = auFaults + 1 /\ auSaveFailed' = [auSaveFailed EXCEPT ![r] = TRUE] /\ UNCHANGED auDisk
  <2>1. auSaveFailed' \in [auRuns -> BOOLEAN]
    <3>1. auSaveFailed \in [auRuns -> BOOLEAN]
      BY <1>2 DEF AUShape
    <3>2. QED
      BY <1>7, <3>1, Zenon
  <2>2. auFaults' \in Nat /\ auFaults' # 0
    BY <1>2, <1>7 DEF AUShape
  <2>3. AUShape'
    BY <1>1, <1>2, <1>5, <1>7, <2>1, <2>2 DEF AUShape
  <2>4. QED
    BY <2>2, <2>3 DEF AUIInv, AUUndisturbed
<1>8. QED
  BY <1>6, <1>7 DEF AU!WriteSave

\* Steps of the machines that touch no run: the cooldown, new cookies, an administrator.
LEMMA AUMachineInv ==
  ASSUME AUIInv, auCookies' \in [AU!Machines -> BOOLEAN], auCooling' \in [AU!Machines -> BOOLEAN],
         auLock' \in [AU!Machines -> BOOLEAN], auSession' \in [AU!Machines -> {"none", "owner"}],
         \A r \in auRuns : AUActive(r) => auLock'[AU!machine(r)] = auLock[AU!machine(r)],
         UNCHANGED <<auDisk, auDeployed, auRun, AU!mine, AU!key, AU!history>>
  PROVE  AUIInv'
<1>1. AUShape
  BY DEF AUIInv
<1>2. UNCHANGED <<auDisk, auDeployed, auRun, auMemory, auWrites, auSaveFailed, auDuo, auBroken, auRaced, auFaults>>
  BY DEF AU!mine, AU!key, AU!history
<1>3. AUShape'
  BY <1>1, <1>2 DEF AUShape
<1>4. ASSUME AUUndisturbed' PROVE AUKeyInv'
  <2>1. AUKeyInv
    BY <1>2, <1>4 DEF AUIInv, AUUndisturbed
  <2>2. \A r \in auRuns : AUActive(r) => auLock'[AUCurrent] = auLock[AUCurrent]
    BY <2>1 DEF AUKeyInv, AUOnePlace, AUActive, AU!At
  <2>3. QED
    BY <1>1, <1>2, <2>1, <2>2, AUQuietStep
<1>5. QED
  BY <1>3, <1>4 DEF AUIInv

\* The transfer claims the key while no local run is under way, or is noted as a race.
LEMMA AUClaimInv == ASSUME AUIInv, AU!Claim PROVE AUIInv'
<1>1. /\ auDeployed = "no" /\ auDeployed' = "claimed"
      /\ auRaced' = (auRaced \/ \E r \in auRuns : AU!machine(r) = "local" /\ ~AU!At(r, "idle"))
      /\ UNCHANGED <<auDisk, auLock, auCookies, auCooling, auSession, auRun, auMemory, auWrites, auSaveFailed, auDuo,
                     auBroken, auFaults>>
  BY DEF AU!Claim, AU!mine, AU!key
<1>2. AUShape
  BY DEF AUIInv
<1>3. auRaced' \in BOOLEAN
  BY <1>1
<1>4. AUShape'
  BY <1>1, <1>2, <1>3 DEF AUShape
<1>5. ASSUME AUUndisturbed' PROVE AUKeyInv'
  <2>1. AUOnePlace /\ AUOneRun /\ AUFresh /\ AUInStep /\ ~auBroken
    BY <1>1, <1>5 DEF AUIInv, AUUndisturbed, AUKeyInv
  <2>2. AUCurrent = "local" /\ AUCurrent' = "local"
    BY <1>1 DEF AUCurrent
  <2>3. \A r \in auRuns : AU!At(r, "idle")
    BY <1>1, <1>5, <2>1, <2>2 DEF AUUndisturbed, AUOnePlace
  <2>4. \A r \in auRuns : ~AUActive(r) /\ ~AUActive(r)' /\ AU!At(r, "idle")'
    BY <1>1, <2>3 DEF AUActive, AU!At
  <2>5. AUOnePlace' /\ AUOneRun' /\ AUFresh' /\ AUInStep'
    BY <1>1, <2>1, <2>2, <2>4 DEF AUOnePlace, AUOneRun, AUFresh, AUInStep
  <2>6. QED
    BY <1>1, <2>1, <2>5 DEF AUKeyInv
<1>6. QED
  BY <1>4, <1>5 DEF AUIInv

\* The VM gets what is on the local disk, which is what Duo saw.
LEMMA AUUploadInv == ASSUME AUIInv, AU!Upload PROVE AUIInv'
<1>1. /\ auDeployed = "claimed"
      /\ UNCHANGED <<auLock, auCooling, auRun, auMemory, auWrites, auSaveFailed, auDuo, auBroken, auRaced, auFaults>>
  BY DEF AU!Upload, AU!mine, AU!key, AU!history
<1>2. AUShape /\ "vm" \in AU!Machines /\ "local" \in AU!Machines
  BY DEF AUIInv, AU!Machines
<1>3. \/ /\ auDeployed' = "sent" /\ auDisk' = [auDisk EXCEPT !["vm"] = auDisk["local"]]
         /\ auCookies' = [auCookies EXCEPT !["vm"] = auCookies["local"]]
         /\ auSession' = [auSession EXCEPT !["vm"] = auSession["local"]]
      \/ auDeployed' = "failed" /\ UNCHANGED <<auDisk, auCookies, auSession>>
  BY DEF AU!Upload
<1>4. /\ auDisk' \in [AU!Machines -> AUCounters] /\ (auDeployed' = "sent" => auDisk'["vm"] = auDisk["local"])
      /\ auSession' \in [AU!Machines -> {"none", "owner"}]
  BY <1>2, <1>3 DEF AUShape
<1>5. auCookies' \in [AU!Machines -> BOOLEAN]
  <2>1. auCookies \in [AU!Machines -> BOOLEAN]
    BY <1>2 DEF AUShape
  <2>2. QED
    BY <1>2, <1>3, <2>1, Zenon
<1>6. auDeployed' \in {"sent", "failed"}
  BY <1>3
<1>7. AUShape'
  BY <1>1, <1>2, <1>4, <1>5, <1>6 DEF AUShape
<1>8. ASSUME AUUndisturbed' PROVE AUKeyInv'
  <2>1. AUOnePlace /\ AUOneRun /\ AUFresh /\ AUInStep /\ ~auBroken
    BY <1>1, <1>8 DEF AUIInv, AUUndisturbed, AUKeyInv
  <2>2. \A r \in auRuns : AU!At(r, "idle")
    BY <1>1, <2>1 DEF AUOnePlace
  <2>3. \A r \in auRuns : ~AUActive(r) /\ ~AUActive(r)' /\ AU!At(r, "idle")'
    BY <1>1, <2>2 DEF AUActive, AU!At
  <2>4. auDisk["local"] = auDuo
    BY <1>1, <2>1, <2>3 DEF AUInStep, AUCurrent
  <2>5. auDeployed' # "failed" => auDisk'[AUCurrent'] = auDuo'
    BY <1>1, <1>4, <1>6, <2>4 DEF AUCurrent
  <2>6. AUOnePlace' /\ AUOneRun' /\ AUFresh' /\ AUInStep'
    BY <1>1, <2>1, <2>3, <2>5 DEF AUOnePlace, AUOneRun, AUFresh, AUInStep
  <2>7. QED
    BY <1>1, <2>1, <2>6 DEF AUKeyInv
<1>9. QED
  BY <1>7, <1>8 DEF AUIInv

\* A kill is a fault, after which nothing is promised.
LEMMA AUKillInv ==
  ASSUME auMaxCounter \in Nat \ {0}, AUIInv, NEW r \in auRuns, AU!Kill(r)
  PROVE AUIInv'
<1>1. /\ auFaults' = auFaults + 1 /\ auRun' = [auRun EXCEPT ![r] = AU!Idle]
      /\ auMemory' = [auMemory EXCEPT ![r] = 0] /\ auWrites' = [auWrites EXCEPT ![r] = <<>>]
      /\ auSaveFailed' = [auSaveFailed EXCEPT ![r] = FALSE]
      /\ UNCHANGED <<auDisk, auLock, auCookies, auCooling, auDeployed, auSession, auDuo, auBroken, auRaced>>
  BY DEF AU!Kill, AU!machineState, AU!key
<1>2. AUShape
  BY DEF AUIInv
<1>3. AU!Idle \in [script : AUScripts, machine : AU!Machines, at : AULabels]
  BY DEF AU!Idle, AUScripts, AU!Machines, AULabels
<1>4. /\ auRun' \in [auRuns -> [script : AUScripts, machine : AU!Machines, at : AULabels]]
      /\ auMemory' \in [auRuns -> AUCounters] /\ auWrites' \in [auRuns -> Seq(AUCounters)]
  BY <1>1, <1>2, <1>3 DEF AUShape, AUCounters
<1>5. auSaveFailed' \in [auRuns -> BOOLEAN]
  <2>1. auSaveFailed \in [auRuns -> BOOLEAN]
    BY <1>2 DEF AUShape
  <2>2. QED
    BY <1>1, <2>1, Zenon
<1>6. auFaults' \in Nat /\ auFaults' # 0
  BY <1>1, <1>2 DEF AUShape
<1>7. AUShape'
  BY <1>1, <1>2, <1>4, <1>5, <1>6 DEF AUShape
<1>8. QED
  BY <1>6, <1>7 DEF AUIInv, AUUndisturbed

\* Every step keeps the invariant.
LEMMA AUNextInv == auMaxCounter \in Nat \ {0} /\ AUIInv /\ [AU!Next]_(AU!vars) => AUIInv'
<1> SUFFICES ASSUME auMaxCounter \in Nat \ {0}, AUIInv, [AU!Next]_(AU!vars) PROVE AUIInv'
  OBVIOUS
<1>0. AUShape
  BY DEF AUIInv
<1>a. /\ auCookies \in [AU!Machines -> BOOLEAN] /\ auCooling \in [AU!Machines -> BOOLEAN]
      /\ auLock \in [AU!Machines -> BOOLEAN] /\ auSession \in [AU!Machines -> {"none", "owner"}]
      /\ auMemory \in [auRuns -> AUCounters] /\ auDuo \in AUCounters /\ auBroken \in BOOLEAN
  BY <1>0 DEF AUShape
<1>b. \A f \in [AU!Machines -> BOOLEAN] :
        \A m \in AU!Machines : /\ [f EXCEPT ![m] = TRUE] \in [AU!Machines -> BOOLEAN]
                               /\ [f EXCEPT ![m] = FALSE] \in [AU!Machines -> BOOLEAN]
  BY Zenon
<1>c. \A r \in auRuns : AU!machine(r) \in AU!Machines
  BY <1>0 DEF AUShape, AU!machine
<1>d. AULabels = {"idle", "lock", "read", "cool", "sign in", "await", "learn", "cookies", "remember",
                "whoami", "end"}
  BY DEF AULabels
<1>1. ASSUME NEW r \in auRuns, AU!Cool(r) PROVE AUIInv'
  <2>1. /\ auRun[r].at = "cool" /\ auCooling' \in {auCooling, [auCooling EXCEPT ![AU!machine(r)] = TRUE]}
        /\ (AU!Go(r, "end") \/ AU!Go(r, "sign in"))
        /\ UNCHANGED <<auDisk, auLock, auCookies, auDeployed, auSession, AU!mine, AU!key, AU!history>>
    BY <1>1 DEF AU!Cool, AU!At
  <2>2. auCooling' \in [AU!Machines -> BOOLEAN]
    BY <1>a, <1>b, <1>c, <2>1
  <2>3. QED
    BY <1>a, <1>d, <2>1, <2>2, AUWalkInv DEF AUActive, AU!At
<1>2. ASSUME NEW r \in auRuns, AU!Arrive(r) PROVE AUIInv'
  <2>1. /\ auRun[r].at \in {"sign in", "learn"}
        /\ AU!Go(r, "end") \/ AU!Go(r, "cookies") \/ AU!Go(r, "await")
        /\ UNCHANGED <<AU!machineState, AU!mine, AU!key, AU!history>>
    BY <1>2 DEF AU!Arrive, AU!At
  <2>2. QED
    BY <1>a, <1>d, <2>1, AUWalkInv DEF AUActive, AU!At, AU!machineState
<1>3. ASSUME NEW r \in auRuns, AU!AwaitWrites(r) PROVE AUIInv'
  <2>1. /\ auRun[r].at = "await" /\ (AU!Go(r, "end") \/ AU!Go(r, "learn"))
        /\ UNCHANGED <<AU!machineState, AU!mine, AU!key, AU!history>>
    BY <1>3 DEF AU!AwaitWrites, AU!At
  <2>2. QED
    BY <1>a, <1>d, <2>1, AUWalkInv DEF AUActive, AU!At, AU!machineState
<1>4. ASSUME NEW r \in auRuns, AU!Cookies(r) PROVE AUIInv'
  <2>1. /\ auRun[r].at = "cookies" /\ (AU!Go(r, "end") \/ AU!Go(r, "remember"))
        /\ UNCHANGED <<AU!machineState, AU!mine, AU!key, AU!history>>
    BY <1>4 DEF AU!Cookies, AU!At
  <2>2. QED
    BY <1>a, <1>d, <2>1, AUWalkInv DEF AUActive, AU!At, AU!machineState
<1>5. ASSUME NEW r \in auRuns, AU!Remember(r) PROVE AUIInv'
  <2>1. /\ auRun[r].at = "remember" /\ auCookies' \in {auCookies, [auCookies EXCEPT ![AU!machine(r)] = TRUE]}
        /\ (AU!Go(r, "end") \/ AU!Go(r, "whoami"))
        /\ UNCHANGED <<auDisk, auLock, auCooling, auDeployed, auSession, AU!mine, AU!key, AU!history>>
    BY <1>5 DEF AU!Remember, AU!At
  <2>2. auCookies' \in [AU!Machines -> BOOLEAN]
    BY <1>a, <1>b, <1>c, <2>1
  <2>3. QED
    BY <1>a, <1>d, <2>1, <2>2, AUWalkInv DEF AUActive, AU!At
<1>6. ASSUME NEW r \in auRuns, AU!Whoami(r) PROVE AUIInv'
  <2>1. /\ auRun[r].at = "whoami" /\ auSession' \in {auSession, [auSession EXCEPT ![AU!machine(r)] = "owner"]}
        /\ AU!Go(r, "end")
        /\ UNCHANGED <<auDisk, auLock, auCookies, auCooling, auDeployed, AU!mine, AU!key, AU!history>>
    BY <1>6 DEF AU!Whoami, AU!At
  <2>2. auSession' \in [AU!Machines -> {"none", "owner"}]
    BY <1>a, <1>c, <2>1
  <2>3. QED
    BY <1>a, <1>d, <2>1, <2>2, AUWalkInv DEF AUActive, AU!At
<1>7. ASSUME NEW r \in auRuns, AU!Enrol(r) PROVE AUIInv'
  <2>1. /\ auRun[r].at = "sign in" /\ AU!Persist(r, 1) /\ auDuo' = 1
        /\ UNCHANGED <<AU!machineState, auRun, auSaveFailed, auBroken, AU!history>>
    BY <1>7 DEF AU!Enrol, AU!At
  <2>2. 1 \in AUCounters
    BY DEF AUCounters
  <2>3. QED
    BY <1>a, <2>1, <2>2, AUPersistInv
<1>8. ASSUME NEW r \in auRuns, AU!Assert(r) PROVE AUIInv'
  <2>1. /\ auRun[r].at \in {"sign in", "learn"} /\ auMemory[r] \in 1..(auMaxCounter - 1)
        /\ AU!Persist(r, auMemory[r] + 1)
        /\ IF auMemory[r] + 1 > auDuo THEN auDuo' = auMemory[r] + 1 /\ auBroken' = auBroken
           ELSE auBroken' = TRUE /\ auDuo' = auDuo
        /\ UNCHANGED <<AU!machineState, auRun, auSaveFailed, AU!history>>
    BY <1>8 DEF AU!Assert, AU!At
  <2>a. \A n \in 1..(auMaxCounter - 1) : n + 1 \in AUCounters /\ n + 1 > n
    BY DEF AUCounters
  <2>2. auMemory[r] + 1 \in AUCounters
    BY <2>1, <2>a
  <2>3. auDuo' \in AUCounters
    BY <1>a, <2>1, <2>2
  <2>4. auBroken' \in BOOLEAN
    BY <1>a, <2>1
  <2>5. auMemory[r] = auDuo /\ ~auBroken => auDuo' = auMemory[r] + 1 /\ ~auBroken'
    <3>1. auMemory[r] = auDuo => auMemory[r] + 1 > auDuo
      BY <2>1, <2>a
    <3>2. QED
      BY <2>1, <3>1
  <2>6. QED
    BY <2>1, <2>2, <2>3, <2>4, <2>5, AUPersistInv
<1>9. ASSUME NEW m \in AU!Machines, AU!Pass(m) \/ AU!RemoveLock(m) \/ AU!ImportSession(m) PROVE AUIInv'
  <2>1. /\ auCooling' \in {auCooling, [auCooling EXCEPT ![m] = FALSE]}
        /\ auCookies' \in {auCookies, [auCookies EXCEPT ![m] = TRUE]}
        /\ auSession' \in {auSession, [auSession EXCEPT ![m] = "owner"]}
        /\ UNCHANGED <<auDisk, auDeployed, auRun, AU!mine, AU!key, AU!history>>
        /\ \/ auLock' = auLock
           \/ /\ auLock' = [auLock EXCEPT ![m] = FALSE]
              /\ \A r \in auRuns : auRun[r].at \in {"idle", "lock"} \/ AU!machine(r) # m
    BY <1>9 DEF AU!Pass, AU!RemoveLock, AU!ImportSession
  <2>2. /\ auCookies' \in [AU!Machines -> BOOLEAN] /\ auCooling' \in [AU!Machines -> BOOLEAN]
        /\ auLock' \in [AU!Machines -> BOOLEAN]
    BY <1>a, <1>b, <2>1
  <2>3. auSession' \in [AU!Machines -> {"none", "owner"}]
    BY <1>a, <2>1
  <2>4. \A r \in auRuns : AUActive(r) => auLock'[AU!machine(r)] = auLock[AU!machine(r)]
    BY <1>a, <1>c, <2>1 DEF AUActive
  <2>5. QED
    BY <2>1, <2>2, <2>3, <2>4, AUMachineInv
<1>10. CASE AU!SendSession
  <2>1. /\ auCookies' = [auCookies EXCEPT !["vm"] = auCookies["local"]]
        /\ auSession' = [auSession EXCEPT !["vm"] = auSession["local"]]
        /\ UNCHANGED <<auDisk, auLock, auCooling, auDeployed, auRun, AU!mine, AU!key, AU!history>>
    BY <1>10 DEF AU!SendSession
  <2>2. auCookies' \in [AU!Machines -> BOOLEAN]
    <3>1. "local" \in AU!Machines
      BY DEF AU!Machines
    <3>2. QED
      BY <1>a, <2>1, <3>1, Zenon
  <2>3. auSession' \in [AU!Machines -> {"none", "owner"}]
    <3>1. "local" \in AU!Machines
      BY DEF AU!Machines
    <3>2. QED
      BY <1>a, <2>1, <3>1
  <2>4. QED
    BY <1>a, <2>1, <2>2, <2>3, AUMachineInv
<1>11. CASE UNCHANGED AU!vars
  <2>1. /\ \A r \in auRuns : AUActive(r) => auLock'[AU!machine(r)] = auLock[AU!machine(r)]
        /\ UNCHANGED <<auDisk, auDeployed, auRun, AU!mine, AU!key, AU!history, auCookies, auCooling, auLock, auSession>>
    BY <1>11 DEF AU!vars, AU!mine, AU!key, AU!history
  <2>2. QED
    BY <1>a, <2>1, AUMachineInv
<1>12. QED
  BY <1>1, <1>2, <1>3, <1>4, <1>5, <1>6, <1>7, <1>8, <1>9, <1>10, <1>11, AUStartInv,
     AULockInv,
     AUUnlockInv, AUReadPriorInv, AUWriteSaveInv, AUKillInv, AUClaimInv, AUUploadInv DEF AU!Next

\* The invariant implies the types and the property.
LEMMA AUConsequences == AUIInv => AU!TypeOK /\ AU!KeyStaysValid
<1> SUFFICES ASSUME AUIInv PROVE AU!TypeOK /\ AU!KeyStaysValid
  OBVIOUS
<1>1. AUShape
  BY DEF AUIInv
<1>2. AU!TypeOK
  BY <1>1 DEF AU!TypeOK, AUShape, AUCounters, AUScripts
<1>3. AU!KeyStaysValid
  BY DEF AUIInv, AU!KeyStaysValid, AUUndisturbed, AUKeyInv
<1>4. QED
  BY <1>2, <1>3

-----------------------------------------------------------------------------
(* The key and the encrypted files: SecureState *)

\* The places of the programs, and those between the choice of what to write and its end.
SSLabels == {"idle", "begin", "lock", "key", "keylock", "make", "write", "trash", "over"}
SSWorking == {"key", "keylock", "make", "write"}

SSFileNames == {"session", "browser"}
SSOps == [op : {"load", "save"}, file : SSFileNames]
SSSealedFiles == [version : {2}, key : ssKeys, data : Nat]

\* Types; the browser's state of version 1 has a file of its own.
SSShape ==
  /\ ssVault \in ssKeys \cup {SS!Nil}
  /\ ssLocks \in [SS!LockNames -> ssProcs \cup {SS!Nil}]
  /\ ssFiles \in [session : {SS!Absent, SS!Old} \cup SSSealedFiles, browser : {SS!Absent} \cup SSSealedFiles,
                legacy : {SS!Absent, SS!Old}]
  /\ ssLatest \in [session : Nat, browser : Nat]
  /\ ssAt \in [ssProcs -> SSLabels]
  /\ ssTodo \in [ssProcs -> Seq(SSOps)]
  /\ ssHolds \in [ssProcs -> [key : ssKeys \cup {SS!Nil}, data : Nat, new : BOOLEAN]]

\* What a process may count on: the lock of the file it writes, that what it migrates is
\* still the newest, that nothing is encrypted while it makes a key, and that the key in
\* its hand is the stored one.
SSOk(p) ==
  /\ ssAt[p] \notin {"idle", "over"} => ssTodo[p] # <<>>
  /\ ssAt[p] \notin {"idle", "over"} /\ ssLocks["auth"] # p =>
       \A i \in 1..Len(ssTodo[p]) :
         ssTodo[p][i].file = "browser" => ssTodo[p][i].op = "load" /\ ssFiles.legacy = SS!Absent
  /\ ssAt[p] = "lock" => SS!File(p) = "session"
  /\ ssAt[p] \in SSWorking =>
       ssLocks[IF SS!File(p) = "session" THEN "write" ELSE "auth"] = p
  /\ ssAt[p] \in SSWorking /\ ~ssHolds[p].new => ssHolds[p].data = ssLatest[SS!File(p)]
  /\ ssAt[p] = "make" => ssLocks["key"] = p /\ ssVault = SS!Nil /\ ~SS!encryptedExists
  /\ ssAt[p] = "write" => ssHolds[p].key = ssVault /\ ssVault # SS!Nil
  /\ ssAt[p] = "trash" => ssFiles.browser # SS!Absent

\* What is encrypted is encrypted with one key, in the store or not.
SSOneKey ==
  ssFiles.session.version = 2 /\ ssFiles.browser.version = 2 => ssFiles.session.key = ssFiles.browser.key

\* The inductive invariant of the encrypted files.
SSIInv == SSShape /\ SS!NothingIsLost /\ SSOneKey /\ \A p \in ssProcs : SSOk(p)

\* What is assumed of the constants: Nil names neither a process nor a key.
SSSane == SS!Nil \notin ssProcs /\ SS!Nil \notin ssKeys

\* The sizes and kinds of the values that appear literally.
LEMMA SSLiterals ==
  /\ SS!LockNames = {"auth", "write", "key"}
  /\ SS!Absent = [version |-> 0, key |-> SS!Nil, data |-> 0]
  /\ SS!Old = [version |-> 1, key |-> SS!Nil, data |-> 1]
  /\ SS!Absent # SS!Old /\ SS!Absent.version = 0 /\ SS!Old.version = 1 /\ SS!Absent.data = 0 /\ SS!Old.data = 1
  /\ \A k \in ssKeys, d \in Nat : SS!Sealed(k, d) \in SSSealedFiles /\ SS!Sealed(k, d).key = k /\ SS!Sealed(k, d).data = d
  /\ \A f \in SSSealedFiles : f.version = 2 /\ f.key \in ssKeys /\ f.data \in Nat /\ f # SS!Absent /\ f # SS!Old
BY DEF SS!LockNames, SS!Absent, SS!Old, SS!Sealed, SSSealedFiles

\* Every directory that is found is in the invariant.
LEMMA SSInitInv == SSSane /\ SS!Init => SSIInv
<1> SUFFICES ASSUME SSSane, SS!Init PROVE SSIInv
  OBVIOUS
<1>1. /\ ssFiles \in [session : {SS!Absent, SS!Old} \cup SSSealedFiles, browser : {SS!Absent} \cup SSSealedFiles,
                    legacy : {SS!Absent, SS!Old}]
      /\ ssVault \in ssKeys \cup {SS!Nil}
      /\ \A f \in SSFileNames : ssFiles[f].version = 2 /\ ssVault # SS!Nil => ssFiles[f].key = ssVault
      /\ SSOneKey
  <2>1. CASE /\ ssVault = SS!Nil
             /\ ssFiles \in {[session |-> s, browser |-> SS!Absent, legacy |-> l] :
                             s \in {SS!Absent, SS!Old}, l \in {SS!Absent, SS!Old}}
    BY <2>1, SSLiterals DEF SSOneKey
  <2>2. ASSUME NEW k \in ssKeys, ssVault \in {SS!Nil, k},
               ssFiles \in {[session |-> SS!Sealed(k, 1), browser |-> b, legacy |-> l] :
                             b \in {SS!Absent, SS!Sealed(k, 1)}, l \in {SS!Absent, SS!Old}}
        PROVE  /\ ssFiles \in [session : {SS!Absent, SS!Old} \cup SSSealedFiles,
                             browser : {SS!Absent} \cup SSSealedFiles, legacy : {SS!Absent, SS!Old}]
               /\ ssVault \in ssKeys \cup {SS!Nil}
               /\ \A f \in SSFileNames : ssFiles[f].version = 2 /\ ssVault # SS!Nil => ssFiles[f].key = ssVault
               /\ SSOneKey
    <3>1. PICK b \in {SS!Absent, SS!Sealed(k, 1)}, l \in {SS!Absent, SS!Old} :
            ssFiles = [session |-> SS!Sealed(k, 1), browser |-> b, legacy |-> l]
      BY <2>2
    <3>2. SS!Sealed(k, 1) \in SSSealedFiles /\ SS!Sealed(k, 1).key = k
      BY SSLiterals
    <3>3. b \in {SS!Absent} \cup SSSealedFiles /\ (b.version = 2 => b.key = k)
      BY <3>1, <3>2, SSLiterals
    <3>4. \A f \in SSFileNames : ssFiles[f] = IF f = "session" THEN SS!Sealed(k, 1) ELSE b
      BY <3>1 DEF SSFileNames
    <3>5. SSOneKey
      BY <3>1, <3>2, <3>3 DEF SSOneKey
    <3>6. QED
      BY <2>2, <3>1, <3>2, <3>3, <3>4, <3>5
  <2>3. QED
    BY <2>1, <2>2 DEF SS!Init
<1>2. ssLatest = [session |-> ssFiles.session.data,
                browser |-> IF ssFiles.browser = SS!Absent THEN ssFiles.legacy.data ELSE ssFiles.browser.data]
  BY DEF SS!Init
<1>3. /\ ssLocks = [l \in SS!LockNames |-> SS!Nil]
      /\ ssAt = [p \in ssProcs |-> "idle"] /\ ssTodo = [p \in ssProcs |-> <<>>]
      /\ ssHolds = [p \in ssProcs |-> [key |-> SS!Nil, data |-> 0, new |-> FALSE]]
  BY DEF SS!Init
<1>4. ssLatest \in [session : Nat, browser : Nat]
  <2>1. ssFiles.session.data \in Nat /\ ssFiles.legacy.data \in Nat
    BY <1>1, SSLiterals
  <2>2. ssFiles.browser # SS!Absent => ssFiles.browser.data \in Nat
    BY <1>1, SSLiterals
  <2>3. QED
    BY <1>2, <2>1, <2>2
<1>5. SSShape
  BY <1>1, <1>3, <1>4 DEF SSShape, SSLabels
<1>6. SS!NothingIsLost
  BY <1>1, <1>2 DEF SS!NothingIsLost, SSFileNames
<1>7. \A p \in ssProcs : SSOk(p)
  BY <1>3 DEF SSOk, SSWorking
<1>8. QED
  BY <1>1, <1>5, <1>6, <1>7 DEF SSIInv

\* What a process has to do next.
LEMMA SSHeadOp ==
  ASSUME SSShape, NEW p \in ssProcs, SSOk(p), ssAt[p] \notin {"idle", "over"}
  PROVE  Head(ssTodo[p]) \in SSOps /\ SS!File(p) \in SSFileNames /\ Len(ssTodo[p]) \in Nat \ {0}
<1>1. ssTodo[p] # <<>> /\ ssTodo[p] \in Seq(SSOps)
  BY DEF SSOk, SSShape
<1>2. Head(ssTodo[p]) \in SSOps /\ Len(ssTodo[p]) \in Nat \ {0}
  BY <1>1
<1>3. Head(ssTodo[p]).file \in SSFileNames
  BY <1>2 DEF SSOps
<1>4. QED
  BY <1>2, <1>3 DEF SS!File

\* What a process counts on stays so when others move, as long as they write only under
\* their locks.
LEMMA SSOthersOk ==
  ASSUME SSSane, SSShape, NEW q \in ssProcs, NEW p \in ssProcs, p # q, SSOk(q),
         ssAt'[q] = ssAt[q], ssTodo'[q] = ssTodo[q], ssHolds'[q] = ssHolds[q],
         \A l \in SS!LockNames : ssLocks[l] = q => ssLocks'[l] = q,
         ssFiles.legacy = SS!Absent => ssFiles'.legacy = SS!Absent,
         ssFiles.browser # SS!Absent => ssFiles'.browser # SS!Absent,
         ssVault # SS!Nil => ssVault' = ssVault,
         ssLocks["key"] = q => ssVault' = ssVault,
         ssVault = SS!Nil /\ SS!encryptedExists' => SS!encryptedExists,
         ssLatest'.session = ssLatest.session \/ ssLocks["write"] = p,
         ssLatest'.browser = ssLatest.browser \/ ssLocks["auth"] = p
  PROVE  SSOk(q)'
<1>1. SS!File(q)' = SS!File(q)
  BY DEF SS!File
<1>2. "auth" \in SS!LockNames /\ "write" \in SS!LockNames /\ "key" \in SS!LockNames
  BY DEF SS!LockNames
<1>3. ssAt[q] \in SSWorking => SS!File(q) \in SSFileNames
  BY SSHeadOp DEF SSWorking
<1>4. ASSUME ssAt[q] \in SSWorking, ~ssHolds[q].new PROVE ssHolds[q].data = ssLatest'[SS!File(q)]
  <2>1. CASE SS!File(q) = "session"
    <3>1. ssLocks["write"] = q
      BY <1>4, <2>1 DEF SSOk
    <3>2. QED
      BY <1>4, <2>1, <3>1 DEF SSOk
  <2>2. CASE SS!File(q) = "browser"
    <3>1. ssLocks["auth"] = q
      BY <1>4, <2>2 DEF SSOk
    <3>2. QED
      BY <1>4, <2>2, <3>1 DEF SSOk
  <2>3. QED
    BY <1>3, <1>4, <2>1, <2>2 DEF SSFileNames
<1>5. ssAt[q] \in SSWorking => ssLocks'[IF SS!File(q) = "session" THEN "write" ELSE "auth"] = q
  BY <1>2 DEF SSOk
<1>6. ssAt[q] = "make" => ssLocks'["key"] = q /\ ssVault' = SS!Nil /\ ~SS!encryptedExists'
  BY <1>2 DEF SSOk
<1>7. ssAt[q] = "write" => ssHolds[q].key = ssVault' /\ ssVault' # SS!Nil
  BY DEF SSOk
<1>8. ssAt[q] \notin {"idle", "over"} /\ ssLocks'["auth"] # q =>
        \A i \in 1..Len(ssTodo[q]) :
          ssTodo[q][i].file = "browser" => ssTodo[q][i].op = "load" /\ ssFiles'.legacy = SS!Absent
  BY <1>2 DEF SSOk
<1>9. QED
  BY <1>1, <1>4, <1>5, <1>6, <1>7, <1>8 DEF SSOk

\* A program that ends its work, or one load or save of it, keeps the types, and holds
\* nothing that others count on.
LEMMA SSDoneOk ==
  ASSUME SSSane, SSShape, NEW p \in ssProcs, SSOk(p), SS!End(p) \/ (ssAt[p] \notin {"idle", "over"} /\ SS!Done(p)),
         ssFiles.legacy = SS!Absent => ssFiles'.legacy = SS!Absent
  PROVE  /\ ssAt' \in [ssProcs -> SSLabels] /\ ssTodo' \in [ssProcs -> Seq(SSOps)]
         /\ ssHolds' \in [ssProcs -> [key : ssKeys \cup {SS!Nil}, data : Nat, new : BOOLEAN]]
         /\ ssLocks' \in [SS!LockNames -> ssProcs \cup {SS!Nil}]
         /\ \A q \in ssProcs \ {p} : ssAt'[q] = ssAt[q] /\ ssTodo'[q] = ssTodo[q] /\ ssHolds'[q] = ssHolds[q]
         /\ \A l \in SS!LockNames : ssLocks[l] # p => ssLocks'[l] = ssLocks[l]
         /\ SSOk(p)'
<1> DEFINE none == [key |-> SS!Nil, data |-> 0, new |-> FALSE]
<1>1. none \in [key : ssKeys \cup {SS!Nil}, data : Nat, new : BOOLEAN] /\ <<>> \in Seq(SSOps)
  OBVIOUS
<1>2. /\ ssAt \in [ssProcs -> SSLabels] /\ ssTodo \in [ssProcs -> Seq(SSOps)]
      /\ ssHolds \in [ssProcs -> [key : ssKeys \cup {SS!Nil}, data : Nat, new : BOOLEAN]]
      /\ ssLocks \in [SS!LockNames -> ssProcs \cup {SS!Nil}] /\ "write" \in SS!LockNames /\ "auth" \in SS!LockNames
      /\ "over" \in SSLabels /\ "begin" \in SSLabels
  BY DEF SSShape, SSLabels, SS!LockNames
<1>3. CASE SS!End(p)
  <2>1. /\ ssAt' = [ssAt EXCEPT ![p] = "over"] /\ ssTodo' = [ssTodo EXCEPT ![p] = <<>>]
        /\ ssHolds' = [ssHolds EXCEPT ![p] = none]
        /\ ssLocks' = [l \in SS!LockNames |-> IF ssLocks[l] = p THEN SS!Nil ELSE ssLocks[l]]
    BY <1>3 DEF SS!End
  <2> HIDE DEF none
  <2>2. ssAt' \in [ssProcs -> SSLabels] /\ ssAt'[p] = "over" /\ \A q \in ssProcs \ {p} : ssAt'[q] = ssAt[q]
    BY <1>2, <2>1
  <2>3. ssTodo' \in [ssProcs -> Seq(SSOps)] /\ \A q \in ssProcs \ {p} : ssTodo'[q] = ssTodo[q]
    BY <1>1, <1>2, <2>1
  <2>4. /\ ssHolds' \in [ssProcs -> [key : ssKeys \cup {SS!Nil}, data : Nat, new : BOOLEAN]]
        /\ \A q \in ssProcs \ {p} : ssHolds'[q] = ssHolds[q]
    BY <1>1, <1>2, <2>1
  <2>5. /\ ssLocks' \in [SS!LockNames -> ssProcs \cup {SS!Nil}]
        /\ \A l \in SS!LockNames : ssLocks[l] # p => ssLocks'[l] = ssLocks[l]
    BY <1>2, <2>1
  <2>6. SSOk(p)'
    BY <2>2 DEF SSOk, SSWorking
  <2>7. QED
    BY <2>2, <2>3, <2>4, <2>5, <2>6
<1>4. CASE ssAt[p] \notin {"idle", "over"} /\ SS!Done(p) /\ Len(ssTodo[p]) # 1
  <2>1. /\ ssAt' = [ssAt EXCEPT ![p] = "begin"] /\ ssTodo' = [ssTodo EXCEPT ![p] = Tail(ssTodo[p])]
        /\ ssHolds' = [ssHolds EXCEPT ![p] = none]
        /\ ssLocks' = [ssLocks EXCEPT !["write"] = IF ssLocks["write"] = p THEN SS!Nil ELSE ssLocks["write"]]
    BY <1>4 DEF SS!Done, SS!Goto
  <2> HIDE DEF none
  <2>2. ssAt' \in [ssProcs -> SSLabels] /\ ssAt'[p] = "begin" /\ \A q \in ssProcs \ {p} : ssAt'[q] = ssAt[q]
    BY <1>2, <2>1
  <2>3. /\ ssTodo[p] \in Seq(SSOps) /\ Len(ssTodo[p]) \in Nat /\ Len(ssTodo[p]) > 1
    <3>1. Len(ssTodo[p]) \in Nat \ {0}
      BY <1>4, SSHeadOp
    <3>2. Len(ssTodo[p]) # 1
      BY <1>4
    <3>3. ssTodo[p] \in Seq(SSOps)
      BY <1>2
    <3>4. \A n \in Nat \ {0} : n # 1 => n \in Nat /\ n > 1
      OBVIOUS
    <3>5. QED
      BY <3>1, <3>2, <3>3, <3>4
  <2>4. /\ Tail(ssTodo[p]) \in Seq(SSOps) /\ Len(Tail(ssTodo[p])) = Len(ssTodo[p]) - 1
        /\ \A i \in 1..Len(Tail(ssTodo[p])) : Tail(ssTodo[p])[i] = ssTodo[p][i + 1]
    BY <2>3
  <2>5. /\ ssTodo' \in [ssProcs -> Seq(SSOps)] /\ ssTodo'[p] = Tail(ssTodo[p])
        /\ \A q \in ssProcs \ {p} : ssTodo'[q] = ssTodo[q]
    BY <1>2, <2>1, <2>4
  <2>6. /\ ssHolds' \in [ssProcs -> [key : ssKeys \cup {SS!Nil}, data : Nat, new : BOOLEAN]]
        /\ \A q \in ssProcs \ {p} : ssHolds'[q] = ssHolds[q]
    BY <1>1, <1>2, <2>1
  <2>7. /\ ssLocks' \in [SS!LockNames -> ssProcs \cup {SS!Nil}] /\ ssLocks'["auth"] = ssLocks["auth"]
        /\ \A l \in SS!LockNames : ssLocks[l] # p => ssLocks'[l] = ssLocks[l]
    BY <1>2, <2>1
  <2>8. ssTodo'[p] # <<>>
    BY <2>3, <2>4, <2>5
  <2>9. ASSUME ssLocks'["auth"] # p, NEW i \in 1..Len(ssTodo'[p]), ssTodo'[p][i].file = "browser"
        PROVE  ssTodo'[p][i].op = "load" /\ ssFiles'.legacy = SS!Absent
    <3>1. i + 1 \in 1..Len(ssTodo[p]) /\ ssTodo'[p][i] = ssTodo[p][i + 1]
      BY <2>3, <2>4, <2>5
    <3>2. QED
      BY <1>4, <2>7, <2>9, <3>1 DEF SSOk
  <2>10. SSOk(p)'
    BY <2>2, <2>8, <2>9 DEF SSOk, SSWorking
  <2>11. QED
    BY <2>2, <2>5, <2>6, <2>7, <2>10
<1>5. QED
  BY <1>3, <1>4 DEF SS!Done

\* A step of p keeps the invariant when it keeps the types, what p counts on and what is
\* saved, and writes only under p's locks.
LEMMA SSStepInv ==
  ASSUME SSSane, SSIInv, NEW p \in ssProcs, SSShape', SS!NothingIsLost', SSOk(p)',
         \A q \in ssProcs \ {p} : ssAt'[q] = ssAt[q] /\ ssTodo'[q] = ssTodo[q] /\ ssHolds'[q] = ssHolds[q],
         \A l \in SS!LockNames : ssLocks[l] \notin {p, SS!Nil} => ssLocks'[l] = ssLocks[l],
         ssFiles.legacy = SS!Absent => ssFiles'.legacy = SS!Absent,
         ssFiles.browser # SS!Absent => ssFiles'.browser # SS!Absent,
         ssVault # SS!Nil => ssVault' = ssVault,
         ssVault' = ssVault \/ ssLocks["key"] = p,
         ssVault' # SS!Nil \/ (ssFiles'.session = ssFiles.session /\ ssFiles'.browser = ssFiles.browser),
         ssVault = SS!Nil /\ SS!encryptedExists' => SS!encryptedExists,
         ssLatest'.session = ssLatest.session \/ ssLocks["write"] = p,
         ssLatest'.browser = ssLatest.browser \/ ssLocks["auth"] = p
  PROVE  SSIInv'
<1>1. ASSUME NEW q \in ssProcs PROVE SSOk(q)'
  <2>1. CASE q = p
    BY <2>1
  <2>2. CASE q # p
    <3>1. q # SS!Nil /\ SSShape /\ SSOk(q)
      BY DEF SSSane, SSIInv
    <3>2. \A l \in SS!LockNames : ssLocks[l] = q => ssLocks'[l] = q
      BY <2>2, <3>1
    <3>3. ssLocks["key"] = q => ssVault' = ssVault
      BY <2>2
    <3>4. QED
      BY <2>2, <3>1, <3>2, <3>3, SSOthersOk
  <2>3. QED
    BY <2>1, <2>2
<1>2. SSOneKey'
  <2>1. CASE ssVault' # SS!Nil
    BY <2>1 DEF SS!NothingIsLost, SSOneKey
  <2>2. CASE ssFiles'.session = ssFiles.session /\ ssFiles'.browser = ssFiles.browser
    BY <2>2 DEF SSIInv, SSOneKey
  <2>3. QED
    BY <2>1, <2>2
<1>3. QED
  BY <1>1, <1>2 DEF SSIInv

\* A step that ends its work, or one load or save of it, without a change of what is
\* saved, keeps the invariant; the leftover of a migrated browser's state may go.
LEMMA SSEndInv ==
  ASSUME SSSane, SSIInv, NEW p \in ssProcs, SS!End(p) \/ (ssAt[p] \notin {"idle", "over"} /\ SS!Done(p)),
         UNCHANGED <<ssVault, ssLatest>>,
         ssFiles' = ssFiles \/ (ssFiles.browser # SS!Absent /\ ssFiles' = [ssFiles EXCEPT !.legacy = SS!Absent])
  PROVE  SSIInv'
<1>1. SSShape /\ SS!NothingIsLost /\ SSOk(p)
  BY DEF SSIInv
<1>2. /\ ssFiles'.session = ssFiles.session /\ ssFiles'.browser = ssFiles.browser
      /\ ssFiles'.legacy \in {ssFiles.legacy, SS!Absent}
      /\ ssFiles.browser = SS!Absent => ssFiles'.legacy = ssFiles.legacy
      /\ ssFiles' \in [session : {SS!Absent, SS!Old} \cup SSSealedFiles, browser : {SS!Absent} \cup SSSealedFiles,
                     legacy : {SS!Absent, SS!Old}]
  BY <1>1 DEF SSShape
<1>3. /\ ssAt' \in [ssProcs -> SSLabels] /\ ssTodo' \in [ssProcs -> Seq(SSOps)]
      /\ ssHolds' \in [ssProcs -> [key : ssKeys \cup {SS!Nil}, data : Nat, new : BOOLEAN]]
      /\ ssLocks' \in [SS!LockNames -> ssProcs \cup {SS!Nil}]
      /\ \A q \in ssProcs \ {p} : ssAt'[q] = ssAt[q] /\ ssTodo'[q] = ssTodo[q] /\ ssHolds'[q] = ssHolds[q]
      /\ \A l \in SS!LockNames : ssLocks[l] # p => ssLocks'[l] = ssLocks[l]
      /\ SSOk(p)'
  BY <1>1, <1>2, SSDoneOk
<1>4. SSShape'
  BY <1>1, <1>2, <1>3 DEF SSShape
<1>5. SS!NothingIsLost'
  <2>1. \A f \in {"session", "browser"} : ssFiles'[f] = ssFiles[f]
    BY <1>1, <1>2 DEF SSShape
  <2>2. QED
    BY <1>1, <1>2, <2>1 DEF SS!NothingIsLost
<1>6. SS!encryptedExists' = SS!encryptedExists
  BY <1>2 DEF SS!encryptedExists
<1>7. QED
  BY <1>2, <1>3, <1>4, <1>5, <1>6, SSStepInv

\* A step of p that stores and saves nothing, and after which p goes on with what it
\* may count on, keeps the invariant.
LEMMA SSGoInv ==
  ASSUME SSSane, SSIInv, NEW p \in ssProcs, NEW label \in SSLabels, SS!Goto(p, label),
         UNCHANGED SS!store, SSOk(p)',
         ssTodo' \in [ssProcs -> Seq(SSOps)], \A q \in ssProcs \ {p} : ssTodo'[q] = ssTodo[q],
         ssHolds' = ssHolds \/ \E h \in [key : ssKeys \cup {SS!Nil}, data : Nat, new : BOOLEAN] :
                                 ssHolds' = [ssHolds EXCEPT ![p] = h],
         ssLocks' = ssLocks \/ \E l \in SS!LockNames : ssLocks[l] = SS!Nil /\ ssLocks' = [ssLocks EXCEPT ![l] = p]
  PROVE  SSIInv'
<1>1. SSShape /\ SS!NothingIsLost /\ SSOk(p) /\ UNCHANGED <<ssVault, ssFiles, ssLatest>>
  BY DEF SSIInv, SS!store
<1>2. ssAt' \in [ssProcs -> SSLabels] /\ ssAt'[p] = label /\ \A q \in ssProcs \ {p} : ssAt'[q] = ssAt[q]
  BY <1>1 DEF SSShape, SS!Goto
<1>3. /\ ssHolds' \in [ssProcs -> [key : ssKeys \cup {SS!Nil}, data : Nat, new : BOOLEAN]]
      /\ \A q \in ssProcs \ {p} : ssHolds'[q] = ssHolds[q]
  <2>1. ssHolds \in [ssProcs -> [key : ssKeys \cup {SS!Nil}, data : Nat, new : BOOLEAN]]
    BY <1>1 DEF SSShape
  <2>2. ASSUME NEW h \in [key : ssKeys \cup {SS!Nil}, data : Nat, new : BOOLEAN],
               ssHolds' = [ssHolds EXCEPT ![p] = h]
        PROVE  /\ ssHolds' \in [ssProcs -> [key : ssKeys \cup {SS!Nil}, data : Nat, new : BOOLEAN]]
               /\ \A q \in ssProcs \ {p} : ssHolds'[q] = ssHolds[q]
    BY <2>1, <2>2
  <2>3. QED
    BY <2>1, <2>2
<1>4. /\ ssLocks' \in [SS!LockNames -> ssProcs \cup {SS!Nil}]
      /\ \A l \in SS!LockNames : ssLocks[l] \notin {p, SS!Nil} => ssLocks'[l] = ssLocks[l]
  <2>1. ssLocks \in [SS!LockNames -> ssProcs \cup {SS!Nil}]
    BY <1>1 DEF SSShape
  <2>2. CASE ssLocks' = ssLocks
    BY <2>1, <2>2
  <2>3. ASSUME NEW l \in SS!LockNames, ssLocks[l] = SS!Nil, ssLocks' = [ssLocks EXCEPT ![l] = p]
        PROVE  /\ ssLocks' \in [SS!LockNames -> ssProcs \cup {SS!Nil}]
               /\ \A m \in SS!LockNames : ssLocks[m] \notin {p, SS!Nil} => ssLocks'[m] = ssLocks[m]
    BY <2>1, <2>3
  <2>4. QED
    BY <2>2, <2>3
<1>5. SSShape'
  BY <1>1, <1>2, <1>3, <1>4 DEF SSShape
<1>6. SS!NothingIsLost' /\ SS!encryptedExists' = SS!encryptedExists
  BY <1>1 DEF SS!NothingIsLost, SS!encryptedExists
<1>7. QED
  BY <1>1, <1>2, <1>3, <1>4, <1>5, <1>6, SSStepInv

\* A program begins with the lock of the migration when there is something to migrate.
LEMMA SSStartInv == ASSUME SSSane, SSIInv, NEW p \in ssProcs, SS!Start(p) PROVE SSIInv'
<1>1. /\ ssAt[p] = "idle" /\ SS!Goto(p, "begin") /\ UNCHANGED <<SS!store, ssHolds>>
      /\ UNCHANGED ssFiles
  BY DEF SS!Start, SS!store
<1>2. SSShape
  BY DEF SSIInv
<1>3. ssAt'[p] = "begin"
  BY <1>1, <1>2 DEF SSShape, SS!Goto
<1>4. ASSUME NEW ops \in Seq(SSOps), ops # <<>>, ssTodo' = [ssTodo EXCEPT ![p] = ops],
             ssLocks' = ssLocks \/ (ssLocks["auth"] = SS!Nil /\ ssLocks' = [ssLocks EXCEPT !["auth"] = p]),
             ssLocks' = ssLocks =>
               \A i \in 1..Len(ops) :
                 ops[i].file = "browser" => ops[i].op = "load" /\ ssFiles.legacy = SS!Absent
      PROVE  SSIInv'
  <2>1. /\ ssTodo' \in [ssProcs -> Seq(SSOps)] /\ ssTodo'[p] = ops
        /\ \A q \in ssProcs \ {p} : ssTodo'[q] = ssTodo[q]
    BY <1>2, <1>4 DEF SSShape
  <2>2. ssLocks'["auth"] # p => ssLocks' = ssLocks
    BY <1>2, <1>4 DEF SSShape, SS!LockNames
  <2>3. SSOk(p)'
    BY <1>1, <1>3, <1>4, <2>1, <2>2 DEF SSOk, SSWorking
  <2>4. ssLocks' = ssLocks \/ \E l \in SS!LockNames : ssLocks[l] = SS!Nil /\ ssLocks' = [ssLocks EXCEPT ![l] = p]
    BY <1>4 DEF SS!LockNames
  <2>5. "begin" \in SSLabels
    BY DEF SSLabels
  <2>6. QED
    BY <1>1, <2>1, <2>3, <2>4, <2>5, SSGoInv
<1>5. /\ SS!Does("load", "session") \in SSOps /\ SS!Does("load", "browser") \in SSOps
      /\ SS!Does("save", "session") \in SSOps /\ SS!Does("save", "browser") \in SSOps
  BY DEF SS!Does, SSOps, SSFileNames
<1>6. CASE /\ ssTodo' = [ssTodo EXCEPT ![p] = <<SS!Does("load", "session"), SS!Does("load", "browser")>>]
           /\ IF ssFiles.legacy = SS!Absent /\ ssFiles.session.version # 1 THEN UNCHANGED ssLocks
              ELSE ssLocks.auth = SS!Nil /\ ssLocks' = [ssLocks EXCEPT !.auth = p]
  <2> DEFINE ops == <<SS!Does("load", "session"), SS!Does("load", "browser")>>
  <2>1. ops \in Seq(SSOps) /\ ops # <<>> /\ \A i \in 1..Len(ops) : ops[i].op = "load"
    BY <1>5 DEF SS!Does
  <2>2. CASE ssFiles.legacy = SS!Absent /\ UNCHANGED ssLocks
    BY <1>4, <1>6, <2>1, <2>2
  <2>3. CASE ssLocks["auth"] = SS!Nil /\ ssLocks' = [ssLocks EXCEPT !["auth"] = p]
    <3>1. ssLocks' # ssLocks
      BY <1>2, <2>3 DEF SSShape, SSSane, SS!LockNames
    <3>2. QED
      BY <1>4, <1>6, <2>1, <2>3, <3>1
  <2>4. QED
    BY <1>6, <2>2, <2>3
<1>7. CASE /\ ssTodo' = [ssTodo EXCEPT ![p] =
                <<SS!Does("load", "browser"), SS!Does("save", "browser"), SS!Does("save", "session")>>]
           /\ ssLocks.auth = SS!Nil /\ ssLocks' = [ssLocks EXCEPT !.auth = p]
  <2>1. ssLocks["auth"] = SS!Nil /\ ssLocks' = [ssLocks EXCEPT !["auth"] = p]
    BY <1>7
  <2>2. ssLocks' # ssLocks
    BY <1>2, <2>1 DEF SSShape, SSSane, SS!LockNames
  <2>3. <<SS!Does("load", "browser"), SS!Does("save", "browser"), SS!Does("save", "session")>> \in Seq(SSOps)
    BY <1>5
  <2>4. QED
    BY <1>4, <1>7, <2>1, <2>2, <2>3
<1>8. CASE ssTodo' = [ssTodo EXCEPT ![p] = <<SS!Does("save", "session")>>] /\ UNCHANGED ssLocks
  <2> DEFINE ops == <<SS!Does("save", "session")>>
  <2>1. ops \in Seq(SSOps) /\ ops # <<>> /\ \A i \in 1..Len(ops) : ops[i].file # "browser"
    BY <1>5 DEF SS!Does
  <2>2. QED
    BY <1>4, <1>8, <2>1
<1>9. QED
  BY <1>6, <1>7, <1>8 DEF SS!Start

\* A load reads, fails, or goes on to the migration of what it found.
LEMMA SSLoadInv == ASSUME SSSane, SSIInv, NEW p \in ssProcs, SS!Load(p) PROVE SSIInv'
<1> DEFINE f == IF SS!File(p) = "browser" /\ ssFiles.browser = SS!Absent THEN "legacy" ELSE SS!File(p)
<1>1. ssAt[p] = "begin" /\ Head(ssTodo[p]).op = "load" /\ UNCHANGED <<ssVault, ssLatest>>
  BY DEF SS!Load
<1>2. SSShape /\ SSOk(p) /\ SS!NothingIsLost
  BY DEF SSIInv
<1>3. /\ Head(ssTodo[p]) \in SSOps /\ SS!File(p) \in SSFileNames /\ Len(ssTodo[p]) \in Nat \ {0}
      /\ ssTodo[p] # <<>>
  BY <1>1, <1>2, SSHeadOp
<1>4. CASE ssFiles[f].version = 0 /\ SS!Done(p) /\ UNCHANGED ssFiles
  BY <1>1, <1>4, SSEndInv
<1>5. CASE SS!End(p) /\ UNCHANGED ssFiles
  BY <1>1, <1>5, SSEndInv
<1>6. CASE /\ ssFiles' = IF f = "browser" THEN [ssFiles EXCEPT !.legacy = SS!Absent] ELSE ssFiles
           /\ SS!Done(p)
  <2>1. f = "browser" => ssFiles.browser # SS!Absent
    BY <1>3 DEF SSFileNames
  <2>2. QED
    BY <1>1, <1>6, <2>1, SSEndInv
<1>7. CASE f = "session" /\ SS!Goto(p, "lock") /\ UNCHANGED <<ssFiles, ssTodo, ssLocks, ssHolds>>
  <2>1. ssAt'[p] = "lock" /\ "lock" \in SSLabels
    BY <1>2, <1>7 DEF SSShape, SS!Goto, SSLabels
  <2>2. SS!File(p)' = "session"
    BY <1>3, <1>7 DEF SS!File, SSFileNames
  <2>3. SSOk(p)'
    BY <1>1, <1>2, <1>7, <2>1, <2>2 DEF SSOk, SSWorking
  <2>4. QED
    BY <1>1, <1>2, <1>7, <2>1, <2>3, SSGoInv DEF SSShape, SS!store
<1>8. CASE /\ f = "legacy" /\ ssFiles[f].version = 1
           /\ ssHolds' = [ssHolds EXCEPT ![p] = [key |-> SS!Nil, data |-> ssFiles.legacy.data, new |-> FALSE]]
           /\ SS!Goto(p, "key") /\ UNCHANGED <<ssFiles, ssTodo, ssLocks>>
  <2>1. SS!File(p) = "browser" /\ ssFiles.browser = SS!Absent /\ ssFiles.legacy.version = 1
    BY <1>3, <1>8 DEF SSFileNames
  <2>2. ssFiles.legacy # SS!Absent /\ ssFiles.legacy.data \in Nat
    BY <1>2, <2>1, SSLiterals DEF SSShape
  <2>3. ssLocks["auth"] = p
    <3>1. 1 \in 1..Len(ssTodo[p]) /\ ssTodo[p][1] = Head(ssTodo[p])
      BY <1>2, <1>3 DEF SSShape
    <3>2. QED
      BY <1>1, <1>2, <2>1, <2>2, <3>1 DEF SSOk, SS!File
  <2>4. ssFiles.legacy.data = ssLatest.browser
    BY <1>2, <2>1 DEF SS!NothingIsLost
  <2> DEFINE h == [key |-> SS!Nil, data |-> ssFiles.legacy.data, new |-> FALSE]
  <2>5. h \in [key : ssKeys \cup {SS!Nil}, data : Nat, new : BOOLEAN] /\ h.data = ssLatest.browser
    BY <2>2, <2>4
  <2>6. ssHolds' = [ssHolds EXCEPT ![p] = h]
    BY <1>8
  <2> HIDE DEF h
  <2>7. ssHolds'[p] = h /\ ssAt'[p] = "key" /\ "key" \in SSLabels
    BY <1>2, <1>8, <2>6 DEF SSShape, SS!Goto, SSLabels
  <2>8. SS!File(p)' = "browser"
    BY <1>8, <2>1 DEF SS!File
  <2>9. ssLatest'[SS!File(p)'] = h.data
    BY <1>1, <2>5, <2>8
  <2>10. SSOk(p)'
    BY <1>1, <1>2, <1>3, <1>8, <2>3, <2>7, <2>8, <2>9 DEF SSOk, SSWorking
  <2>11. QED
    BY <1>1, <1>2, <1>8, <2>5, <2>6, <2>7, <2>10, SSGoInv DEF SSShape, SS!store
<1>9. \/ ssFiles[f].version = 0 /\ SS!Done(p) /\ UNCHANGED ssFiles
      \/ SS!End(p) /\ UNCHANGED ssFiles
      \/ /\ ssFiles' = IF f = "browser" THEN [ssFiles EXCEPT !.legacy = SS!Absent] ELSE ssFiles
         /\ SS!Done(p)
      \/ f = "session" /\ SS!Goto(p, "lock") /\ UNCHANGED <<ssFiles, ssTodo, ssLocks, ssHolds>>
      \/ /\ f = "legacy" /\ ssFiles[f].version = 1
         /\ ssHolds' = [ssHolds EXCEPT ![p] = [key |-> SS!Nil, data |-> ssFiles.legacy.data, new |-> FALSE]]
         /\ SS!Goto(p, "key") /\ UNCHANGED <<ssFiles, ssTodo, ssLocks>>
  <2>1. \/ ssFiles[f].version = 0
        \/ ssFiles[f].version = 2 /\ ssVault # ssFiles[f].key
        \/ ssFiles[f].version = 2 /\ ssVault = ssFiles[f].key
        \/ f = "session" /\ ssFiles[f].version = 1
        \/ f = "legacy" /\ ssFiles[f].version = 1
    <3>1. f \in {"session", "browser", "legacy"} /\ (f = "browser" => ssFiles.browser # SS!Absent)
      BY <1>3 DEF SSFileNames
    <3>2. ssFiles[f].version \in {0, 1, 2} /\ (f = "browser" => ssFiles[f].version = 2)
      BY <1>2, <3>1, SSLiterals DEF SSShape
    <3>3. QED
      BY <3>1, <3>2
  <2> HIDE DEF f
  <2>2. QED
    BY <2>1 DEF SS!Load, f
<1>10. QED
  BY <1>4, <1>5, <1>6, <1>7, <1>8, <1>9

\* A save goes on to the lock, or to the key of the browser's state.
LEMMA SSSaveInv == ASSUME SSSane, SSIInv, NEW p \in ssProcs, SS!Save(p) PROVE SSIInv'
<1>1. ssAt[p] = "begin" /\ Head(ssTodo[p]).op = "save" /\ UNCHANGED SS!store
  BY DEF SS!Save
<1>2. SSShape /\ SSOk(p) /\ SS!NothingIsLost
  BY DEF SSIInv
<1>3. /\ Head(ssTodo[p]) \in SSOps /\ SS!File(p) \in SSFileNames /\ Len(ssTodo[p]) \in Nat \ {0}
      /\ ssTodo[p] # <<>>
  BY <1>1, <1>2, SSHeadOp
<1>4. CASE SS!End(p)
  BY <1>1, <1>4, SSEndInv DEF SS!store
<1>5. CASE SS!File(p) = "session" /\ SS!Goto(p, "lock") /\ UNCHANGED <<ssLocks, ssTodo, ssHolds>>
  <2>1. ssAt'[p] = "lock" /\ "lock" \in SSLabels
    BY <1>2, <1>5 DEF SSShape, SS!Goto, SSLabels
  <2>2. SS!File(p)' = "session"
    BY <1>5 DEF SS!File
  <2>3. SSOk(p)'
    BY <1>1, <1>2, <1>5, <2>1, <2>2 DEF SSOk, SSWorking, SS!store
  <2>4. QED
    BY <1>1, <1>2, <1>5, <2>1, <2>3, SSGoInv DEF SSShape
<1>6. CASE /\ SS!File(p) # "session"
           /\ ssHolds' = [ssHolds EXCEPT ![p] = [key |-> SS!Nil, data |-> ssLatest.browser + 1, new |-> TRUE]]
           /\ SS!Goto(p, "key") /\ UNCHANGED <<ssTodo, ssLocks>>
  <2>1. SS!File(p) = "browser"
    BY <1>3, <1>6 DEF SSFileNames
  <2>2. ssLocks["auth"] = p
    <3>1. 1 \in 1..Len(ssTodo[p]) /\ ssTodo[p][1] = Head(ssTodo[p])
      BY <1>2, <1>3 DEF SSShape
    <3>2. QED
      BY <1>1, <1>2, <2>1, <3>1 DEF SSOk, SS!File
  <2> DEFINE h == [key |-> SS!Nil, data |-> ssLatest.browser + 1, new |-> TRUE]
  <2>3. ssLatest.browser \in Nat
    BY <1>2 DEF SSShape
  <2>4. h \in [key : ssKeys \cup {SS!Nil}, data : Nat, new : BOOLEAN] /\ h.new = TRUE
    BY <2>3
  <2>5. ssHolds' = [ssHolds EXCEPT ![p] = h]
    BY <1>6
  <2> HIDE DEF h
  <2>6. ssHolds'[p] = h /\ ssAt'[p] = "key" /\ "key" \in SSLabels
    BY <1>2, <1>6, <2>5 DEF SSShape, SS!Goto, SSLabels
  <2>7. SS!File(p)' = "browser"
    BY <1>6, <2>1 DEF SS!File
  <2>8. SSOk(p)'
    BY <1>1, <1>2, <1>3, <1>6, <2>2, <2>4, <2>6, <2>7 DEF SSOk, SSWorking
  <2>9. QED
    BY <1>1, <1>2, <1>6, <2>4, <2>5, <2>6, <2>8, SSGoInv DEF SSShape
<1>7. QED
  BY <1>4, <1>5, <1>6 DEF SS!Save

\* The session is looked at again under its lock.
LEMMA SSSessionLockInv ==
  ASSUME SSSane, SSIInv, NEW p \in ssProcs, SS!SessionLock(p)
  PROVE SSIInv'
<1> DEFINE saves == Head(ssTodo[p]).op = "save"
<1>1. ssAt[p] = "lock" /\ ssLocks["write"] = SS!Nil /\ UNCHANGED SS!store
  BY DEF SS!SessionLock
<1>2. SSShape /\ SSOk(p) /\ SS!NothingIsLost
  BY DEF SSIInv
<1>3. /\ Head(ssTodo[p]) \in SSOps /\ Len(ssTodo[p]) \in Nat \ {0} /\ SS!File(p) = "session"
      /\ ssTodo[p] # <<>>
  BY <1>1, <1>2, SSHeadOp DEF SSOk
<1>4. CASE SS!End(p) \/ SS!Done(p)
  BY <1>1, <1>4, SSEndInv DEF SS!store
<1>5. CASE /\ saves \/ ssFiles.session.version = 1
           /\ ssLocks' = [ssLocks EXCEPT !["write"] = p]
           /\ ssHolds' = [ssHolds EXCEPT ![p] =
                [key |-> SS!Nil, new |-> saves,
                 data |-> IF saves THEN ssLatest.session + 1 ELSE ssFiles.session.data]]
           /\ SS!Goto(p, "key") /\ UNCHANGED ssTodo
  <2> DEFINE h == [key |-> SS!Nil, new |-> saves,
                   data |-> IF saves THEN ssLatest.session + 1 ELSE ssFiles.session.data]
  <2>1. ssLatest.session \in Nat /\ ssFiles.session.data = ssLatest.session
    BY <1>2 DEF SSShape, SS!NothingIsLost
  <2>2. saves \in BOOLEAN
    OBVIOUS
  <2> HIDE DEF saves
  <2>3. /\ h \in [key : ssKeys \cup {SS!Nil}, data : Nat, new : BOOLEAN]
        /\ ~h.new => h.data = ssLatest.session
    BY <2>1, <2>2
  <2>4. ssHolds' = [ssHolds EXCEPT ![p] = h]
    BY <1>5 DEF saves
  <2> HIDE DEF h
  <2>5. ssHolds'[p] = h /\ ssAt'[p] = "key" /\ "key" \in SSLabels
    BY <1>2, <1>5, <2>4 DEF SSShape, SS!Goto, SSLabels
  <2>6. SS!File(p)' = "session"
    BY <1>3, <1>5 DEF SS!File
  <2>7. ssLocks'["write"] = p /\ ssLocks'["auth"] = ssLocks["auth"]
    BY <1>2, <1>5 DEF SSShape, SS!LockNames
  <2>8. ssLatest'[SS!File(p)'] = ssLatest.session /\ UNCHANGED ssFiles
    BY <1>1, <1>2, <2>6 DEF SS!store, SSShape
  <2>9. SSOk(p)'
    BY <1>1, <1>2, <1>3, <1>5, <2>3, <2>5, <2>6, <2>7, <2>8 DEF SSOk, SSWorking
  <2>10. "write" \in SS!LockNames
    BY DEF SS!LockNames
  <2>11. QED
    BY <1>1, <1>2, <1>5, <2>3, <2>4, <2>5, <2>9, <2>10, SSGoInv DEF SSShape
<1>6. QED
  BY <1>4, <1>5 DEF SS!SessionLock

\* Whoever finds a key takes it; whoever finds none waits for the lock of the key.
LEMMA SSTakeKeyInv ==
  ASSUME SSSane, SSIInv, NEW p \in ssProcs, ssAt[p] \in {"key", "keylock"}, UNCHANGED <<SS!store, ssLocks, ssTodo>>,
         \/ ssVault # SS!Nil /\ ssHolds' = [ssHolds EXCEPT ![p].key = ssVault] /\ SS!Goto(p, "write")
         \/ SS!Goto(p, "keylock") /\ UNCHANGED ssHolds
  PROVE  SSIInv'
<1>1. SSShape /\ SSOk(p) /\ UNCHANGED <<ssVault, ssFiles, ssLatest>>
  BY DEF SSIInv, SS!store
<1>2. SS!File(p)' = SS!File(p)
  BY DEF SS!File
<1>3. CASE ssVault # SS!Nil /\ ssHolds' = [ssHolds EXCEPT ![p].key = ssVault] /\ SS!Goto(p, "write")
  <2> DEFINE h == [ssHolds[p] EXCEPT !.key = ssVault]
  <2>1. ssHolds' = [ssHolds EXCEPT ![p] = h]
    BY <1>3
  <2>2. /\ h \in [key : ssKeys \cup {SS!Nil}, data : Nat, new : BOOLEAN] /\ h.key = ssVault
        /\ h.data = ssHolds[p].data /\ h.new = ssHolds[p].new
    BY <1>1 DEF SSShape
  <2> HIDE DEF h
  <2>3. ssHolds'[p] = h /\ ssAt'[p] = "write" /\ "write" \in SSLabels
    BY <1>1, <1>3, <2>1 DEF SSShape, SS!Goto, SSLabels
  <2>4. SSOk(p)'
    BY <1>1, <1>2, <1>3, <2>2, <2>3 DEF SSOk, SSWorking
  <2>5. QED
    BY <1>1, <1>3, <2>1, <2>2, <2>3, <2>4, SSGoInv DEF SSShape
<1>4. CASE SS!Goto(p, "keylock") /\ UNCHANGED ssHolds
  <2>1. ssAt'[p] = "keylock" /\ "keylock" \in SSLabels
    BY <1>1, <1>4 DEF SSShape, SS!Goto, SSLabels
  <2>2. SSOk(p)'
    BY <1>1, <1>2, <1>4, <2>1 DEF SSOk, SSWorking
  <2>3. QED
    BY <1>1, <1>4, <2>1, <2>2, SSGoInv DEF SSShape
<1>5. QED
  BY <1>3, <1>4

\* Under the lock of the key a new one is only made when nothing is encrypted.
LEMMA SSKeyLockInv ==
  ASSUME SSSane, SSIInv, NEW p \in ssProcs, SS!KeyLock(p)
  PROVE SSIInv'
<1>1. ssAt[p] = "keylock" /\ ssLocks["key"] = SS!Nil /\ UNCHANGED SS!store
  BY DEF SS!KeyLock
<1>2. SSShape /\ SSOk(p)
  BY DEF SSIInv
<1>3. CASE ssVault # SS!Nil /\ ssHolds' = [ssHolds EXCEPT ![p].key = ssVault] /\ SS!Goto(p, "write") /\ UNCHANGED <<ssLocks, ssTodo>>
  BY <1>1, <1>3, SSTakeKeyInv
<1>4. CASE SS!End(p)
  BY <1>1, <1>4, SSEndInv DEF SS!store
<1>5. CASE /\ ssVault = SS!Nil /\ ~SS!encryptedExists
           /\ ssLocks' = [ssLocks EXCEPT !["key"] = p] /\ SS!Goto(p, "make") /\ UNCHANGED <<ssHolds, ssTodo>>
  <2>1. ssAt'[p] = "make" /\ "make" \in SSLabels /\ "key" \in SS!LockNames
    BY <1>2, <1>5 DEF SSShape, SS!Goto, SSLabels, SS!LockNames
  <2>2. /\ ssLocks'["key"] = p /\ ssLocks'["auth"] = ssLocks["auth"] /\ ssLocks'["write"] = ssLocks["write"]
    BY <1>2, <1>5 DEF SSShape, SS!LockNames
  <2>3. SS!File(p)' = SS!File(p)
    BY <1>5 DEF SS!File
  <2>4. UNCHANGED <<ssVault, ssFiles, ssLatest>> /\ SS!encryptedExists' = SS!encryptedExists
    BY <1>1 DEF SS!store, SS!encryptedExists
  <2>5. SSOk(p)'
    BY <1>1, <1>2, <1>5, <2>1, <2>2, <2>3, <2>4 DEF SSOk, SSWorking
  <2>6. QED
    BY <1>1, <1>2, <1>5, <2>1, <2>5, SSGoInv DEF SSShape
<1>6. QED
  BY <1>3, <1>4, <1>5 DEF SS!KeyLock

\* The new key is stored while nothing is encrypted.
LEMMA SSMakeKeyInv ==
  ASSUME SSSane, SSIInv, NEW p \in ssProcs, SS!MakeKey(p)
  PROVE SSIInv'
<1>1. PICK k \in ssKeys : ssVault' = k /\ ssHolds' = [ssHolds EXCEPT ![p].key = k]
  BY DEF SS!MakeKey
<1>2. /\ ssAt[p] = "make" /\ ssLocks' = [ssLocks EXCEPT !["key"] = SS!Nil] /\ SS!Goto(p, "write")
      /\ UNCHANGED <<ssFiles, ssLatest, ssTodo>>
  BY DEF SS!MakeKey
<1>3. SSShape /\ SSOk(p) /\ SS!NothingIsLost
  BY DEF SSIInv
<1>4. ssLocks["key"] = p /\ ssVault = SS!Nil /\ ~SS!encryptedExists
  BY <1>2, <1>3 DEF SSOk
<1>5. ssAt' \in [ssProcs -> SSLabels] /\ ssAt'[p] = "write" /\ \A q \in ssProcs \ {p} : ssAt'[q] = ssAt[q]
  BY <1>2, <1>3 DEF SSShape, SS!Goto, SSLabels
<1>6. /\ ssHolds' \in [ssProcs -> [key : ssKeys \cup {SS!Nil}, data : Nat, new : BOOLEAN]]
      /\ ssHolds'[p].key = k /\ ssHolds'[p].data = ssHolds[p].data /\ ssHolds'[p].new = ssHolds[p].new
      /\ \A q \in ssProcs \ {p} : ssHolds'[q] = ssHolds[q]
  <2> DEFINE h == [ssHolds[p] EXCEPT !.key = k]
  <2>1. ssHolds' = [ssHolds EXCEPT ![p] = h]
    BY <1>1
  <2>2. /\ h \in [key : ssKeys \cup {SS!Nil}, data : Nat, new : BOOLEAN] /\ h.key = k
        /\ h.data = ssHolds[p].data /\ h.new = ssHolds[p].new
    BY <1>3 DEF SSShape
  <2> HIDE DEF h
  <2>3. ssHolds' \in [ssProcs -> [key : ssKeys \cup {SS!Nil}, data : Nat, new : BOOLEAN]] /\ ssHolds'[p] = h
        /\ \A q \in ssProcs \ {p} : ssHolds'[q] = ssHolds[q]
    BY <1>3, <2>1, <2>2 DEF SSShape
  <2>4. QED
    BY <2>2, <2>3
<1>7. /\ ssLocks' \in [SS!LockNames -> ssProcs \cup {SS!Nil}] /\ ssLocks'["auth"] = ssLocks["auth"]
      /\ ssLocks'["write"] = ssLocks["write"]
      /\ \A l \in SS!LockNames : ssLocks[l] # p => ssLocks'[l] = ssLocks[l]
  BY <1>2, <1>3, <1>4 DEF SSShape, SS!LockNames
<1>8. SSShape'
  BY <1>1, <1>2, <1>3, <1>5, <1>6, <1>7 DEF SSShape
<1>9. SS!encryptedExists' = SS!encryptedExists
  BY <1>2 DEF SS!encryptedExists
<1>10. SS!NothingIsLost'
  <2>1. ssFiles.session.version # 2 /\ ssFiles.browser.version # 2
    BY <1>4, SSLiterals DEF SS!encryptedExists
  <2>2. \A f \in {"session", "browser"} : ssFiles[f].version # 2
    BY <1>3, <2>1 DEF SSShape
  <2>3. QED
    BY <1>2, <1>3, <2>2 DEF SS!NothingIsLost
<1>11. SSOk(p)'
  <2>1. SS!File(p)' = SS!File(p)
    BY <1>2 DEF SS!File
  <2>2. k # SS!Nil
    BY DEF SSSane
  <2>3. QED
    BY <1>1, <1>2, <1>3, <1>5, <1>6, <1>7, <2>1, <2>2 DEF SSOk, SSWorking
<1>12. QED
  BY <1>2, <1>4, <1>5, <1>6, <1>7, <1>8, <1>9, <1>10, <1>11, SSStepInv

\* What is written is sealed with the stored key, and is the newest or still is.
LEMMA SSWriteInv == ASSUME SSSane, SSIInv, NEW p \in ssProcs, SS!Write(p) PROVE SSIInv'
<1>1. ssAt[p] = "write" /\ UNCHANGED ssVault
  BY DEF SS!Write
<1>2. SSShape /\ SSOk(p) /\ SS!NothingIsLost
  BY DEF SSIInv
<1>3. /\ SS!File(p) \in SSFileNames /\ ssVault # SS!Nil /\ ssVault \in ssKeys /\ ssHolds[p].key = ssVault
      /\ ssLocks[IF SS!File(p) = "session" THEN "write" ELSE "auth"] = p
      /\ ~ssHolds[p].new => ssHolds[p].data = ssLatest[SS!File(p)]
      /\ ssHolds[p].data \in Nat /\ ssHolds[p].new \in BOOLEAN
  BY <1>1, <1>2, SSHeadOp DEF SSOk, SSWorking, SSShape
<1> DEFINE sealed == SS!Sealed(ssHolds[p].key, ssHolds[p].data)
<1>4. /\ ssFiles' = [ssFiles EXCEPT ![SS!File(p)] = sealed]
      /\ ssLatest' = IF ssHolds[p].new THEN [ssLatest EXCEPT ![SS!File(p)] = ssHolds[p].data] ELSE ssLatest
      /\ \/ SS!Goto(p, "trash") /\ SS!File(p) = "browser" /\ UNCHANGED <<ssTodo, ssLocks, ssHolds>>
         \/ SS!Done(p)
  BY <1>3 DEF SS!Write
<1>5. sealed \in SSSealedFiles /\ sealed.key = ssVault /\ sealed.data = ssHolds[p].data
      /\ sealed # SS!Absent
  BY <1>3, SSLiterals
<1> HIDE DEF sealed
<1>6. /\ ssFiles' \in [session : {SS!Absent, SS!Old} \cup SSSealedFiles, browser : {SS!Absent} \cup SSSealedFiles,
                     legacy : {SS!Absent, SS!Old}]
      /\ ssFiles'[SS!File(p)] = sealed /\ ssFiles'.legacy = ssFiles.legacy
      /\ \A f \in SSFileNames \ {SS!File(p)} : ssFiles'[f] = ssFiles[f]
  <2>1. ssFiles \in [session : {SS!Absent, SS!Old} \cup SSSealedFiles, browser : {SS!Absent} \cup SSSealedFiles,
                   legacy : {SS!Absent, SS!Old}]
    BY <1>2 DEF SSShape
  <2>2. CASE SS!File(p) = "session"
    BY <1>4, <1>5, <2>1, <2>2 DEF SSFileNames
  <2>3. CASE SS!File(p) = "browser"
    BY <1>4, <1>5, <2>1, <2>3 DEF SSFileNames
  <2>4. QED
    BY <1>3, <2>2, <2>3 DEF SSFileNames
<1>7. /\ ssLatest' \in [session : Nat, browser : Nat] /\ ssLatest'[SS!File(p)] = ssHolds[p].data
      /\ \A f \in SSFileNames \ {SS!File(p)} : ssLatest'[f] = ssLatest[f]
  <2>1. ssLatest \in [session : Nat, browser : Nat]
    BY <1>2 DEF SSShape
  <2>2. CASE ssHolds[p].new
    <3>1. ssLatest' = [ssLatest EXCEPT ![SS!File(p)] = ssHolds[p].data]
      BY <1>4, <2>2
    <3>2. CASE SS!File(p) = "session"
      BY <1>3, <2>1, <3>1, <3>2 DEF SSFileNames
    <3>3. CASE SS!File(p) = "browser"
      BY <1>3, <2>1, <3>1, <3>3 DEF SSFileNames
    <3>4. QED
      BY <1>3, <3>2, <3>3 DEF SSFileNames
  <2>3. CASE ~ssHolds[p].new
    BY <1>3, <1>4, <2>1, <2>3
  <2>4. QED
    BY <2>2, <2>3
<1>8. SS!NothingIsLost'
  <2>1. \A f \in {"session", "browser"} : ssFiles'[f].version = 2 /\ ssVault' # SS!Nil => ssFiles'[f].key = ssVault'
    BY <1>1, <1>2, <1>3, <1>5, <1>6 DEF SS!NothingIsLost, SSFileNames
  <2>2. ssFiles'.session.data = ssLatest'.session
    <3>1. CASE SS!File(p) = "session"
      BY <1>5, <1>6, <1>7, <3>1
    <3>2. CASE SS!File(p) # "session"
      <4>1. "session" \in SSFileNames \ {SS!File(p)}
        BY <3>2 DEF SSFileNames
      <4>2. ssFiles'.session = ssFiles.session /\ ssLatest'.session = ssLatest.session
        BY <1>2, <1>6, <1>7, <4>1 DEF SSShape
      <4>3. QED
        BY <1>2, <4>2 DEF SS!NothingIsLost
    <3>3. QED
      BY <3>1, <3>2
  <2>3. (IF ssFiles'.browser = SS!Absent THEN ssFiles'.legacy.data ELSE ssFiles'.browser.data) = ssLatest'.browser
    <3>1. CASE SS!File(p) = "browser"
      BY <1>5, <1>6, <1>7, <3>1
    <3>2. CASE SS!File(p) # "browser"
      <4>1. "browser" \in SSFileNames \ {SS!File(p)}
        BY <3>2 DEF SSFileNames
      <4>2. ssFiles'.browser = ssFiles.browser /\ ssLatest'.browser = ssLatest.browser
        BY <1>2, <1>6, <1>7, <4>1 DEF SSShape
      <4>3. QED
        BY <1>2, <1>6, <4>2 DEF SS!NothingIsLost
    <3>3. QED
      BY <3>1, <3>2
  <2>4. QED
    BY <2>1, <2>2, <2>3 DEF SS!NothingIsLost
<1>9. ssFiles.browser # SS!Absent => ssFiles'.browser # SS!Absent
  <2>1. CASE SS!File(p) = "browser"
    BY <1>5, <1>6, <2>1
  <2>2. CASE SS!File(p) # "browser"
    <3>1. "browser" \in SSFileNames \ {SS!File(p)}
      BY <2>2 DEF SSFileNames
    <3>2. QED
      BY <1>2, <1>6, <3>1 DEF SSShape
  <2>3. QED
    BY <2>1, <2>2
<1>10. /\ ssLatest'.session = ssLatest.session \/ ssLocks["write"] = p
       /\ ssLatest'.browser = ssLatest.browser \/ ssLocks["auth"] = p
  <2>1. CASE SS!File(p) = "session"
    <3>1. "browser" \in SSFileNames \ {SS!File(p)}
      BY <2>1 DEF SSFileNames
    <3>2. QED
      BY <1>2, <1>3, <1>7, <2>1, <3>1 DEF SSShape
  <2>2. CASE SS!File(p) = "browser"
    <3>1. "session" \in SSFileNames \ {SS!File(p)}
      BY <2>2 DEF SSFileNames
    <3>2. QED
      BY <1>2, <1>3, <1>7, <2>2, <3>1 DEF SSShape
  <2>3. QED
    BY <1>3, <2>1, <2>2 DEF SSFileNames
<1>11. CASE SS!Done(p)
  <2>1. /\ ssAt' \in [ssProcs -> SSLabels] /\ ssTodo' \in [ssProcs -> Seq(SSOps)]
        /\ ssHolds' \in [ssProcs -> [key : ssKeys \cup {SS!Nil}, data : Nat, new : BOOLEAN]]
        /\ ssLocks' \in [SS!LockNames -> ssProcs \cup {SS!Nil}]
        /\ \A q \in ssProcs \ {p} : ssAt'[q] = ssAt[q] /\ ssTodo'[q] = ssTodo[q] /\ ssHolds'[q] = ssHolds[q]
        /\ \A l \in SS!LockNames : ssLocks[l] # p => ssLocks'[l] = ssLocks[l]
        /\ SSOk(p)'
    BY <1>1, <1>2, <1>6, <1>11, SSDoneOk
  <2>2. SSShape'
    BY <1>1, <1>2, <1>6, <1>7, <2>1 DEF SSShape
  <2>3. QED
    BY <1>1, <1>3, <1>6, <1>8, <1>9, <1>10, <2>1, <2>2, SSStepInv
<1>12. CASE SS!Goto(p, "trash") /\ SS!File(p) = "browser" /\ UNCHANGED <<ssTodo, ssLocks, ssHolds>>
  <2>1. ssAt' \in [ssProcs -> SSLabels] /\ ssAt'[p] = "trash" /\ \A q \in ssProcs \ {p} : ssAt'[q] = ssAt[q]
    BY <1>2, <1>12 DEF SSShape, SS!Goto, SSLabels
  <2>2. SSShape'
    BY <1>1, <1>2, <1>6, <1>7, <1>12, <2>1 DEF SSShape
  <2>3. ssFiles'.browser # SS!Absent
    BY <1>5, <1>6, <1>12
  <2>4. SSOk(p)'
    BY <1>1, <1>2, <1>6, <1>12, <2>1, <2>3 DEF SSOk, SSWorking
  <2>5. QED
    BY <1>1, <1>3, <1>6, <1>8, <1>9, <1>10, <1>12, <2>1, <2>2, <2>4, SSStepInv
<1>13. QED
  BY <1>4, <1>11, <1>12

\* A fault releases what the process held, and may leave a key for files yet to come.
LEMMA SSFaultInv == ASSUME SSSane, SSIInv, NEW p \in ssProcs, SS!Fault(p) PROVE SSIInv'
<1>1. ssAt[p] \notin {"idle", "over"} /\ SS!End(p) /\ UNCHANGED <<ssFiles, ssLatest>>
  BY DEF SS!Fault
<1>2. SSShape /\ SSOk(p) /\ SS!NothingIsLost
  BY DEF SSIInv
<1>3. CASE UNCHANGED ssVault
  BY <1>1, <1>3, SSEndInv
<1>4. CASE ssAt[p] = "make" /\ \E k \in ssKeys \cup {ssVault} : ssVault' = k
  <2>1. ssLocks["key"] = p /\ ssVault = SS!Nil /\ ~SS!encryptedExists
    BY <1>2, <1>4 DEF SSOk
  <2>2. /\ ssAt' \in [ssProcs -> SSLabels] /\ ssTodo' \in [ssProcs -> Seq(SSOps)]
        /\ ssHolds' \in [ssProcs -> [key : ssKeys \cup {SS!Nil}, data : Nat, new : BOOLEAN]]
        /\ ssLocks' \in [SS!LockNames -> ssProcs \cup {SS!Nil}]
        /\ \A q \in ssProcs \ {p} : ssAt'[q] = ssAt[q] /\ ssTodo'[q] = ssTodo[q] /\ ssHolds'[q] = ssHolds[q]
        /\ \A l \in SS!LockNames : ssLocks[l] # p => ssLocks'[l] = ssLocks[l]
        /\ SSOk(p)'
    BY <1>1, <1>2, SSDoneOk
  <2>3. SSShape'
    BY <1>1, <1>2, <1>4, <2>2 DEF SSShape
  <2>4. SS!NothingIsLost' /\ SS!encryptedExists' = SS!encryptedExists
    <3>1. ssFiles.session.version # 2 /\ ssFiles.browser.version # 2
      BY <2>1, SSLiterals DEF SS!encryptedExists
    <3>2. \A f \in {"session", "browser"} : ssFiles[f].version # 2
      BY <1>2, <3>1 DEF SSShape
    <3>3. QED
      BY <1>1, <1>2, <3>2 DEF SS!NothingIsLost, SS!encryptedExists
  <2>5. QED
    BY <1>1, <2>1, <2>2, <2>3, <2>4, SSStepInv
<1>5. QED
  BY <1>3, <1>4 DEF SS!Fault

\* The restored key opens what is encrypted.
LEMMA SSRestoreInv == ASSUME SSSane, SSIInv, SS!Restore PROVE SSIInv'
<1>1. /\ ssVault = SS!Nil /\ SS!encryptedExists /\ UNCHANGED <<ssFiles, ssLatest, ssLocks, ssAt, ssTodo, ssHolds>>
      /\ ssVault' = IF ssFiles.browser # SS!Absent THEN ssFiles.browser.key ELSE ssFiles.session.key
  BY DEF SS!Restore
<1>2. SSShape /\ SS!NothingIsLost /\ SSOneKey
  BY DEF SSIInv
<1>3. ssVault' \in ssKeys /\ ssVault' # SS!Nil
  <2>1. ssFiles.browser # SS!Absent => ssFiles.browser.key \in ssKeys
    BY <1>2, SSLiterals DEF SSShape
  <2>2. ssFiles.session.version = 2 => ssFiles.session.key \in ssKeys
    BY <1>2, SSLiterals DEF SSShape
  <2>3. QED
    BY <1>1, <2>1, <2>2 DEF SS!encryptedExists, SSSane
<1>4. SSShape'
  BY <1>1, <1>2, <1>3 DEF SSShape
<1>5. ASSUME NEW p \in ssProcs PROVE SSOk(p)'
  <2>1. SSOk(p) /\ ssAt[p] # "make" /\ ssAt[p] # "write"
    BY <1>1 DEF SSIInv, SSOk
  <2>2. SS!File(p)' = SS!File(p)
    BY <1>1 DEF SS!File
  <2>3. QED
    BY <1>1, <2>1, <2>2 DEF SSOk
<1>6. SS!NothingIsLost' /\ SSOneKey'
  <2>1. /\ ssFiles.browser.version = 2 => ssFiles.browser.key = ssVault'
        /\ ssFiles.session.version = 2 => ssFiles.session.key = ssVault'
    BY <1>1, <1>2, SSLiterals DEF SSOneKey, SSShape, SS!encryptedExists
  <2>2. QED
    BY <1>1, <1>2, <2>1 DEF SS!NothingIsLost, SSOneKey
<1>7. QED
  BY <1>4, <1>5, <1>6 DEF SSIInv

\* Every step keeps the invariant.
LEMMA SSNextInv == SSSane /\ SSIInv /\ [SS!Next]_(SS!vars) => SSIInv'
<1> SUFFICES ASSUME SSSane, SSIInv, [SS!Next]_(SS!vars) PROVE SSIInv'
  OBVIOUS
<1>1. ASSUME NEW p \in ssProcs, SS!Refused(p) PROVE SSIInv'
  BY <1>1, SSEndInv DEF SS!Refused, SS!store
<1>2. ASSUME NEW p \in ssProcs, SS!Key(p) PROVE SSIInv'
  BY <1>2, SSTakeKeyInv DEF SS!Key
<1>3. ASSUME NEW p \in ssProcs, SS!Trash(p) PROVE SSIInv'
  <2>1. SSOk(p) /\ ssAt[p] = "trash" /\ SS!Done(p) /\ UNCHANGED <<ssVault, ssLatest>>
        /\ ssFiles' = [ssFiles EXCEPT !.legacy = SS!Absent]
    BY <1>3 DEF SS!Trash, SSIInv
  <2>2. ssFiles.browser # SS!Absent
    BY <2>1 DEF SSOk
  <2>3. QED
    BY <2>1, <2>2, SSEndInv
<1>4. CASE UNCHANGED SS!vars
  <2>1. UNCHANGED <<ssVault, ssLocks, ssFiles, ssLatest, ssAt, ssTodo, ssHolds>>
    BY <1>4 DEF SS!vars
  <2>2. QED
    BY <2>1 DEF SSIInv, SSShape, SS!NothingIsLost, SSOneKey, SSOk, SS!encryptedExists,
       SS!File
<1>5. QED
  BY <1>1, <1>2, <1>3, <1>4, SSStartInv, SSLoadInv, SSSaveInv, SSSessionLockInv,
     SSKeyLockInv, SSMakeKeyInv,
     SSWriteInv, SSFaultInv, SSRestoreInv DEF SS!Next

\* The invariant implies the types and the property.
LEMMA SSConsequences == SSIInv => SS!TypeOK /\ SS!NothingIsLost
<1> SUFFICES ASSUME SSIInv PROVE SS!TypeOK /\ SS!NothingIsLost
  OBVIOUS
<1>1. SSShape /\ SS!NothingIsLost
  BY DEF SSIInv
<1>2. ssFiles.session.version \in 0..2 /\ ssFiles.browser.version \in 0..2 /\ ssFiles.legacy.version \in 0..2
  BY <1>1, SSLiterals DEF SSShape
<1>3. \A f \in {"session", "browser", "legacy"} : ssFiles[f].version \in 0..2
  BY <1>1, <1>2 DEF SSShape
<1>4. QED
  BY <1>1, <1>3 DEF SS!TypeOK, SSShape

-----------------------------------------------------------------------------
(* The setup of an account: Passwords *)

\* The places of the programs.
PWLabels == {"idle", "lock", "set", "verify", "environment", "clients", "over"}

\* Types, and the bound on the numbers of passwords.
PWShape ==
  /\ pwConfig \in [account : pwAccounts \cup {PW!Nil}, password : {0, 1}]
  /\ pwCount \in Nat \ {0}
  /\ pwVault \in [pwAccounts -> Nat] /\ pwSaved \in [pwAccounts -> Nat] /\ pwNumber \in [PW!Procs -> Nat]
  /\ pwAccount \in [PW!Procs -> pwAccounts \cup {PW!Nil}]
  /\ pwAt \in [PW!Procs -> PWLabels]
  /\ pwLock \in PW!Procs \cup {PW!Nil}

\* No password has a number yet to be given.
PWCounted ==
  /\ \A a \in pwAccounts : pwVault[a] <= pwCount /\ pwSaved[a] <= pwCount
  /\ \A p \in PW!Procs : pwNumber[p] <= pwCount

\* Whoever is past the question knows its account.
PWAccountKnown ==
  /\ \A p \in PW!Procs : pwAt[p] \notin {"idle", "over"} => pwAccount[p] \in pwAccounts
  /\ pwConfig.password # 0 => pwConfig.account \in pwAccounts

\* Who saves a password holds the lock.
PWOneSaver == \A p \in PW!Procs : pwAt[p] \in {"set", "verify"} => pwLock = p

\* What a saver is about to store is newer than all that was saved; a password of
\* version 1 is left only as long as nothing was saved.
PWNewestInHand ==
  /\ \A p \in PW!Procs : pwAt[p] \in {"set", "verify"} =>
       pwNumber[p] # 0 /\ \A a \in pwAccounts : pwSaved[a] <= pwNumber[p]
  /\ pwConfig.password # 0 => \A a \in pwAccounts : pwSaved[a] = 0

\* The inductive invariant of the setup.
PWIInv ==
  /\ PWShape /\ PWCounted /\ PWAccountKnown /\ PWOneSaver /\ PWNewestInHand
  /\ PW!PasswordIsTheLatest /\ pwClient \subseteq {"other", "ours", "torn"}

\* What is assumed of the constants: Nil names neither a process nor an account.
PWSane == PW!Nil \notin PW!Procs /\ PW!Nil \notin pwAccounts /\ pwMaxFaults \in Nat

\* The directory that is found is in the invariant.
LEMMA PWInitInv == PWSane /\ PW!Init => PWIInv
<1> SUFFICES ASSUME PWSane, PW!Init PROVE PWIInv
  OBVIOUS
<1>1. PICK a \in pwAccounts :
        \/ pwConfig = [account |-> PW!Nil, password |-> 0] /\ pwVault = [b \in pwAccounts |-> 0]
        \/ pwConfig = [account |-> a, password |-> 1] /\ pwVault = [b \in pwAccounts |-> 0]
        \/ /\ pwConfig = [account |-> a, password |-> 0]
           /\ pwVault = [b \in pwAccounts |-> IF b = a THEN 1 ELSE 0]
  BY DEF PW!Init
<1>2. /\ pwConfig \in [account : pwAccounts \cup {PW!Nil}, password : {0, 1}]
      /\ pwVault \in [pwAccounts -> Nat]
      /\ \A b \in pwAccounts : pwVault[b] <= 1
      /\ pwConfig.password # 0 => pwConfig.account \in pwAccounts
      /\ pwConfig.account # PW!Nil /\ pwConfig.password = 0 => pwVault[pwConfig.account] # 0
  <2>1. CASE pwConfig = [account |-> PW!Nil, password |-> 0] /\ pwVault = [b \in pwAccounts |-> 0]
    BY <2>1
  <2>2. CASE pwConfig = [account |-> a, password |-> 1] /\ pwVault = [b \in pwAccounts |-> 0]
    BY <2>2
  <2>3. CASE /\ pwConfig = [account |-> a, password |-> 0]
             /\ pwVault = [b \in pwAccounts |-> IF b = a THEN 1 ELSE 0]
    BY <2>3
  <2>4. QED
    BY <1>1, <2>1, <2>2, <2>3
<1>3. /\ pwCount = 1 /\ pwLock = PW!Nil /\ pwAt = [p \in PW!Procs |-> "idle"]
      /\ pwAccount = [p \in PW!Procs |-> PW!Nil] /\ pwNumber = [p \in PW!Procs |-> 0]
      /\ pwSaved = [b \in pwAccounts |-> 0] /\ pwClient \in {{}, {"other"}}
  BY DEF PW!Init
<1>4. PWShape
  BY <1>2, <1>3 DEF PWShape, PWLabels
<1>5. PWCounted
  BY <1>2, <1>3 DEF PWCounted
<1>6. PWAccountKnown /\ PWOneSaver /\ PWNewestInHand
  BY <1>2, <1>3 DEF PWAccountKnown, PWOneSaver, PWNewestInHand
<1>7. PW!PasswordIsTheLatest
  BY <1>2, <1>3 DEF PW!PasswordIsTheLatest
<1>8. pwClient \subseteq {"other", "ours", "torn"}
  BY <1>3
<1>9. QED
  BY <1>4, <1>5, <1>6, <1>7, <1>8 DEF PWIInv

\* A process that holds nothing goes on, with the same password or none, and nothing else
\* that is saved changes: what is in hand stays the newest.
LEMMA PWMoveInv ==
  ASSUME PWSane, PWIInv, NEW p \in PW!Procs, NEW label \in PWLabels, PW!Goto(p, label),
         label \in {"set", "verify"} => pwAt[p] \in {"set", "verify"},
         label \notin {"idle", "over"} => pwAccount'[p] \in pwAccounts,
         pwAccount' \in [PW!Procs -> pwAccounts \cup {PW!Nil}],
         \A q \in PW!Procs \ {p} : pwAccount'[q] = pwAccount[q],
         pwLock' = pwLock \/ (pwLock' = PW!Nil /\ pwLock = p /\ label \notin {"set", "verify"}),
         UNCHANGED pwConfig
  PROVE  pwAt' \in [PW!Procs -> PWLabels] /\ pwLock' \in PW!Procs \cup {PW!Nil} /\ PWAccountKnown' /\ PWOneSaver'
<1>1. /\ pwAt \in [PW!Procs -> PWLabels] /\ pwAt' = [pwAt EXCEPT ![p] = label]
      /\ pwLock \in PW!Procs \cup {PW!Nil} /\ PWAccountKnown /\ PWOneSaver
  BY DEF PWIInv, PWShape, PW!Goto
<1>2. pwAt' \in [PW!Procs -> PWLabels] /\ pwAt'[p] = label /\ \A q \in PW!Procs \ {p} : pwAt'[q] = pwAt[q]
  BY <1>1
<1>3. PWAccountKnown'
  BY <1>1, <1>2 DEF PWAccountKnown
<1>4. ASSUME NEW q \in PW!Procs, pwAt'[q] \in {"set", "verify"} PROVE pwLock' = q
  <2>1. pwAt[q] \in {"set", "verify"} /\ pwLock = q
    BY <1>1, <1>2, <1>4 DEF PWOneSaver
  <2>2. CASE pwLock' = pwLock
    BY <2>1, <2>2
  <2>3. CASE pwLock = p /\ label \notin {"set", "verify"}
    BY <1>2, <1>4, <2>1, <2>3
  <2>4. QED
    BY <2>2, <2>3
<1>5. QED
  BY <1>1, <1>2, <1>3, <1>4 DEF PWOneSaver

\* A step that gives no number and stores nothing, and after which no more processes hold
\* a password, keeps the invariant.
LEMMA PWQuietInv ==
  ASSUME PWSane, PWIInv, NEW p \in PW!Procs, NEW label \in PWLabels, PW!Goto(p, label),
         label \in {"set", "verify"} => pwAt[p] \in {"set", "verify"} /\ pwNumber'[p] = pwNumber[p],
         label \notin {"idle", "over"} => pwAccount'[p] \in pwAccounts,
         pwAccount' \in [PW!Procs -> pwAccounts \cup {PW!Nil}],
         \A q \in PW!Procs \ {p} : pwAccount'[q] = pwAccount[q],
         pwNumber' \in [PW!Procs -> Nat], pwNumber'[p] <= pwCount,
         \A q \in PW!Procs \ {p} : pwNumber'[q] = pwNumber[q],
         pwLock' = pwLock \/ (pwLock' = PW!Nil /\ pwLock = p /\ label \notin {"set", "verify"}),
         UNCHANGED <<pwConfig, pwVault, pwCount, pwSaved>>, pwClient' \subseteq {"other", "ours", "torn"}
  PROVE  PWIInv'
<1>1. pwAt' \in [PW!Procs -> PWLabels] /\ pwLock' \in PW!Procs \cup {PW!Nil} /\ PWAccountKnown' /\ PWOneSaver'
  BY PWMoveInv
<1>2. PWShape /\ PWCounted /\ PWNewestInHand /\ PW!PasswordIsTheLatest
  BY DEF PWIInv
<1>3. PWShape'
  BY <1>1, <1>2 DEF PWShape
<1>4. PWCounted'
  BY <1>2 DEF PWCounted
<1>5. PWNewestInHand'
  <2>1. pwAt'[p] = label /\ \A q \in PW!Procs \ {p} : pwAt'[q] = pwAt[q]
    BY <1>2 DEF PWShape, PW!Goto
  <2>2. \A q \in PW!Procs : pwAt'[q] \in {"set", "verify"} =>
          pwAt[q] \in {"set", "verify"} /\ pwNumber'[q] = pwNumber[q]
    BY <2>1
  <2>3. QED
    BY <1>2, <2>2 DEF PWNewestInHand
<1>6. PW!PasswordIsTheLatest'
  BY <1>2 DEF PW!PasswordIsTheLatest
<1>7. QED
  BY <1>1, <1>3, <1>4, <1>5, <1>6 DEF PWIInv

\* A setup asks for an account.
LEMMA PWAskInv == ASSUME PWSane, PWIInv, NEW p \in PW!Procs, PW!Ask(p) PROVE PWIInv'
<1>1. PICK a \in pwAccounts : pwAccount' = [pwAccount EXCEPT ![p] = a]
  BY DEF PW!Ask
<1>2. PW!Goto(p, "lock") /\ UNCHANGED <<pwConfig, pwVault, pwLock, pwNumber, pwCount, pwSaved, pwClient>>
  BY DEF PW!Ask
<1>3. /\ pwAccount \in [PW!Procs -> pwAccounts \cup {PW!Nil}] /\ pwNumber \in [PW!Procs -> Nat]
      /\ pwNumber[p] <= pwCount /\ pwClient \subseteq {"other", "ours", "torn"}
  BY DEF PWIInv, PWShape, PWCounted
<1>4. /\ pwAccount' \in [PW!Procs -> pwAccounts \cup {PW!Nil}] /\ pwAccount'[p] \in pwAccounts
      /\ \A q \in PW!Procs \ {p} : pwAccount'[q] = pwAccount[q]
  BY <1>1, <1>3
<1>5. "lock" \in PWLabels
  BY DEF PWLabels
<1>6. QED
  BY <1>2, <1>3, <1>4, <1>5, PWQuietInv

\* A start takes the account of the configuration.
LEMMA PWLoadInv == ASSUME PWSane, PWIInv, NEW p \in PW!Procs, PW!Load(p) PROVE PWIInv'
<1> DEFINE label == IF pwConfig.password # 0 THEN "lock" ELSE "environment"
<1>1. /\ pwConfig.account # PW!Nil /\ pwAccount' = [pwAccount EXCEPT ![p] = pwConfig.account]
      /\ pwNumber' = [pwNumber EXCEPT ![p] = pwConfig.password]
      /\ PW!Goto(p, label) /\ UNCHANGED <<pwConfig, pwVault, pwLock, pwCount, pwSaved, pwClient>>
  BY DEF PW!Load
<1>2. label \in PWLabels /\ label \notin {"set", "verify"}
  BY DEF PWLabels
<1> HIDE DEF label
<1>3. /\ pwAccount \in [PW!Procs -> pwAccounts \cup {PW!Nil}] /\ pwNumber \in [PW!Procs -> Nat]
      /\ pwConfig.account \in pwAccounts \cup {PW!Nil} /\ pwConfig.password \in {0, 1}
      /\ pwClient \subseteq {"other", "ours", "torn"} /\ pwCount \in Nat
  BY DEF PWIInv, PWShape
<1>4. /\ pwAccount' \in [PW!Procs -> pwAccounts \cup {PW!Nil}] /\ pwAccount'[p] \in pwAccounts
      /\ \A q \in PW!Procs \ {p} : pwAccount'[q] = pwAccount[q]
  BY <1>1, <1>3
<1>5. /\ pwNumber' \in [PW!Procs -> Nat] /\ pwNumber'[p] = pwConfig.password
      /\ \A q \in PW!Procs \ {p} : pwNumber'[q] = pwNumber[q]
  BY <1>1, <1>3
<1>6. pwConfig.password <= pwCount
  BY DEF PWIInv, PWShape
<1>7. QED
  BY <1>1, <1>2, <1>3, <1>4, <1>5, <1>6, PWQuietInv

\* The lock is taken for a password that is numbered then, or for the one the
\* configuration holds, or a start finds nothing left to move.
LEMMA PWLockInv == ASSUME PWSane, PWIInv, NEW p \in PW!Procs, PW!Lock(p) PROVE PWIInv'
<1>1. /\ pwAt[p] = "lock" /\ pwLock = PW!Nil /\ UNCHANGED <<pwConfig, pwVault, pwSaved, pwClient>>
  BY DEF PW!Lock
<1>2. /\ PWShape /\ PWCounted /\ PWAccountKnown /\ PWOneSaver /\ PWNewestInHand /\ PW!PasswordIsTheLatest
      /\ pwClient \subseteq {"other", "ours", "torn"}
  BY DEF PWIInv
<1>3. p # PW!Nil /\ \A q \in PW!Procs : pwAt[q] \notin {"set", "verify"}
  BY <1>1, <1>2 DEF PWOneSaver, PWSane
<1>4. ASSUME pwLock' = p, PW!Goto(p, "set"), pwCount' \in Nat \ {0}, pwCount <= pwCount',
             pwAccount' \in [PW!Procs -> pwAccounts \cup {PW!Nil}], pwAccount'[p] \in pwAccounts,
             \A q \in PW!Procs \ {p} : pwAccount'[q] = pwAccount[q],
             pwNumber' \in [PW!Procs -> Nat], pwNumber'[p] # 0, pwNumber'[p] <= pwCount',
             \A q \in PW!Procs \ {p} : pwNumber'[q] = pwNumber[q],
             \A a \in pwAccounts : pwSaved[a] <= pwNumber'[p]
      PROVE  PWIInv'
  <2>1. pwAt' \in [PW!Procs -> PWLabels] /\ pwAt'[p] = "set" /\ \A q \in PW!Procs \ {p} : pwAt'[q] = pwAt[q]
    BY <1>2, <1>4 DEF PWShape, PW!Goto, PWLabels
  <2>2. PWShape'
    BY <1>1, <1>2, <1>4, <2>1 DEF PWShape
  <2>3. PWCounted'
    <3>1. \A a \in pwAccounts : pwVault'[a] <= pwCount' /\ pwSaved'[a] <= pwCount'
      BY <1>1, <1>2, <1>4 DEF PWShape, PWCounted
    <3>2. \A q \in PW!Procs : pwNumber'[q] <= pwCount'
      BY <1>2, <1>4 DEF PWShape, PWCounted
    <3>3. QED
      BY <3>1, <3>2 DEF PWCounted
  <2>4. PWAccountKnown'
    BY <1>1, <1>2, <1>4, <2>1 DEF PWAccountKnown
  <2>5. PWOneSaver'
    BY <1>3, <1>4, <2>1 DEF PWOneSaver
  <2>6. PWNewestInHand'
    BY <1>1, <1>2, <1>3, <1>4, <2>1 DEF PWNewestInHand
  <2>7. PW!PasswordIsTheLatest'
    BY <1>1, <1>2 DEF PW!PasswordIsTheLatest
  <2>8. QED
    BY <1>1, <1>2, <2>2, <2>3, <2>4, <2>5, <2>6, <2>7 DEF PWIInv
<1>5. CASE /\ pwLock' = p /\ PW!Goto(p, "set")
           /\ pwCount' = pwCount + 1 /\ pwNumber' = [pwNumber EXCEPT ![p] = pwCount + 1]
           /\ UNCHANGED pwAccount
  <2>1. pwCount \in Nat \ {0} /\ pwNumber \in [PW!Procs -> Nat] /\ pwSaved \in [pwAccounts -> Nat]
    BY <1>2 DEF PWShape
  <2>2. pwCount' \in Nat \ {0} /\ pwCount <= pwCount' /\ pwNumber' \in [PW!Procs -> Nat] /\ pwNumber'[p] = pwCount'
        /\ \A q \in PW!Procs \ {p} : pwNumber'[q] = pwNumber[q]
    BY <1>5, <2>1
  <2>3. \A a \in pwAccounts : pwSaved[a] <= pwNumber'[p]
    BY <1>2, <1>5, <2>1, <2>2 DEF PWCounted
  <2>4. pwAccount' \in [PW!Procs -> pwAccounts \cup {PW!Nil}] /\ pwAccount'[p] \in pwAccounts
    BY <1>1, <1>2, <1>5 DEF PWShape, PWAccountKnown
  <2>5. QED
    BY <1>4, <1>5, <2>1, <2>2, <2>3, <2>4
<1>6. CASE /\ p \in pwStarts /\ pwConfig.password # 0 /\ pwLock' = p /\ PW!Goto(p, "set")
           /\ pwAccount' = [pwAccount EXCEPT ![p] = pwConfig.account]
           /\ pwNumber' = [pwNumber EXCEPT ![p] = pwConfig.password]
           /\ UNCHANGED pwCount
  <2>1. /\ pwConfig.password = 1 /\ pwConfig.account \in pwAccounts /\ \A a \in pwAccounts : pwSaved[a] = 0
        /\ pwCount \in Nat \ {0} /\ pwNumber \in [PW!Procs -> Nat]
        /\ pwAccount \in [PW!Procs -> pwAccounts \cup {PW!Nil}]
    BY <1>2, <1>6 DEF PWShape, PWAccountKnown, PWNewestInHand
  <2>2. /\ pwNumber' \in [PW!Procs -> Nat] /\ pwNumber'[p] = 1
        /\ \A q \in PW!Procs \ {p} : pwNumber'[q] = pwNumber[q]
    BY <1>6, <2>1
  <2>3. /\ pwAccount' \in [PW!Procs -> pwAccounts \cup {PW!Nil}] /\ pwAccount'[p] \in pwAccounts
        /\ \A q \in PW!Procs \ {p} : pwAccount'[q] = pwAccount[q]
    BY <1>6, <2>1
  <2>4. QED
    BY <1>4, <1>6, <2>1, <2>2, <2>3
<1>7. CASE p \in pwStarts /\ PW!Goto(p, "environment") /\ UNCHANGED <<pwLock, PW!held>>
  <2>1. pwAccount \in [PW!Procs -> pwAccounts \cup {PW!Nil}] /\ pwAccount[p] \in pwAccounts
        /\ pwNumber \in [PW!Procs -> Nat] /\ pwNumber[p] <= pwCount
    BY <1>1, <1>2 DEF PWShape, PWAccountKnown, PWCounted
  <2>2. "environment" \in PWLabels
    BY DEF PWLabels
  <2>3. QED
    BY <1>1, <1>2, <1>7, <2>1, <2>2, PWQuietInv DEF PW!held
<1>8. QED
  BY <1>5, <1>6, <1>7 DEF PW!Lock

\* A program that gives up, declines or fails leaves the password as it is.
LEMMA PWOverInv ==
  ASSUME PWSane, PWIInv, NEW p \in PW!Procs, PW!Goto(p, "over"), UNCHANGED <<pwConfig, pwVault, PW!held, pwSaved>>,
         pwClient' \subseteq {"other", "ours", "torn"}, UNCHANGED pwLock \/ PW!Unlock(p)
  PROVE  PWIInv'
<1>1. /\ pwAccount \in [PW!Procs -> pwAccounts \cup {PW!Nil}] /\ pwNumber \in [PW!Procs -> Nat]
      /\ pwNumber[p] <= pwCount
  BY DEF PWIInv, PWShape, PWCounted
<1>2. pwLock' = pwLock \/ (pwLock' = PW!Nil /\ pwLock = p)
  BY DEF PW!Unlock
<1>3. "over" \in PWLabels
  BY DEF PWLabels
<1>4. QED
  BY <1>1, <1>2, <1>3, PWQuietInv DEF PW!held

\* The store gets the password in hand.
LEMMA PWSetPasswordInv ==
  ASSUME PWSane, PWIInv, NEW p \in PW!Procs, PW!SetPassword(p)
  PROVE PWIInv'
<1>1. /\ pwAt[p] = "set" /\ pwVault' = [pwVault EXCEPT ![pwAccount[p]] = pwNumber[p]]
      /\ PW!Goto(p, "verify") /\ UNCHANGED <<pwConfig, pwLock, pwAccount, pwNumber, pwCount, pwSaved, pwClient>>
  BY DEF PW!SetPassword, PW!held
<1>2. /\ PWShape /\ PWCounted /\ PWAccountKnown /\ PWOneSaver /\ PWNewestInHand /\ PW!PasswordIsTheLatest
      /\ pwClient \subseteq {"other", "ours", "torn"}
  BY DEF PWIInv
<1>3. pwAt' \in [PW!Procs -> PWLabels] /\ pwAt'[p] = "verify" /\ \A q \in PW!Procs \ {p} : pwAt'[q] = pwAt[q]
  BY <1>1, <1>2 DEF PWShape, PW!Goto, PWLabels
<1>4. /\ pwAccount[p] \in pwAccounts /\ pwNumber[p] \in Nat \ {0} /\ pwNumber[p] <= pwCount
      /\ \A a \in pwAccounts : pwSaved[a] <= pwNumber[p]
  BY <1>1, <1>2 DEF PWShape, PWAccountKnown, PWCounted, PWNewestInHand
<1>5. /\ pwVault' \in [pwAccounts -> Nat] /\ pwVault'[pwAccount[p]] = pwNumber[p]
      /\ \A a \in pwAccounts \ {pwAccount[p]} : pwVault'[a] = pwVault[a]
  BY <1>1, <1>2, <1>4 DEF PWShape
<1>6. PWShape'
  BY <1>1, <1>2, <1>3, <1>5 DEF PWShape
<1>7. PWCounted'
  BY <1>1, <1>2, <1>4, <1>5 DEF PWCounted
<1>8. PWAccountKnown' /\ PWOneSaver' /\ PWNewestInHand'
  <2>1. \A q \in PW!Procs : pwAt'[q] \in {"set", "verify"} => pwAt[q] \in {"set", "verify"}
    BY <1>1, <1>3
  <2>2. \A q \in PW!Procs : pwAt'[q] \notin {"idle", "over"} => pwAt[q] \notin {"idle", "over"}
    BY <1>1, <1>3
  <2>3. QED
    BY <1>1, <1>2, <2>1, <2>2 DEF PWAccountKnown, PWOneSaver, PWNewestInHand
<1>9. PW!PasswordIsTheLatest'
  <2>1. pwConfig.account \in pwAccounts \cup {PW!Nil}
    BY <1>2 DEF PWShape
  <2>2. \A a \in pwAccounts : pwVault[a] # 0 => pwVault'[a] # 0
    BY <1>4, <1>5
  <2>3. \A a \in pwAccounts : pwVault'[a] >= pwSaved[a]
    BY <1>2, <1>4, <1>5 DEF PW!PasswordIsTheLatest, PWShape
  <2>4. QED
    BY <1>1, <1>2, <2>1, <2>2, <2>3 DEF PW!PasswordIsTheLatest
<1>10. QED
  BY <1>1, <1>2, <1>6, <1>7, <1>8, <1>9 DEF PWIInv

\* The configuration is replaced once the store holds what was meant.
LEMMA PWSaveConfigInv ==
  ASSUME PWSane, PWIInv, NEW p \in PW!Procs, PW!SaveConfig(p)
  PROVE PWIInv'
<1>1. pwAt[p] = "verify" /\ PW!Unlock(p) /\ UNCHANGED <<pwVault, PW!held, pwClient>>
  BY DEF PW!SaveConfig
<1>2. /\ PWShape /\ PWCounted /\ PWAccountKnown /\ PWOneSaver /\ PWNewestInHand /\ PW!PasswordIsTheLatest
      /\ pwClient \subseteq {"other", "ours", "torn"}
  BY DEF PWIInv
<1>3. CASE pwVault[pwAccount[p]] # pwNumber[p]
  <2>1. PW!Goto(p, "over") /\ UNCHANGED <<pwConfig, pwSaved>>
    BY <1>3 DEF PW!SaveConfig
  <2>2. pwClient' \subseteq {"other", "ours", "torn"}
    BY <1>1, <1>2
  <2>3. QED
    BY <1>1, <2>1, <2>2, PWOverInv
<1>4. CASE pwVault[pwAccount[p]] = pwNumber[p]
  <2> DEFINE label == IF p \in pwSetups THEN "clients" ELSE "environment"
  <2>1. /\ pwConfig' = [account |-> pwAccount[p], password |-> 0] /\ PW!Goto(p, label)
        /\ \/ pwSaved' = pwSaved
           \/ pwSaved' = [pwSaved EXCEPT ![pwAccount[p]] = pwNumber[p]]
    BY <1>4 DEF PW!SaveConfig
  <2>2. label \in PWLabels \ {"idle", "over", "set", "verify"}
    BY DEF PWLabels
  <2> HIDE DEF label
  <2>3. /\ pwAccount[p] \in pwAccounts /\ pwNumber[p] \in Nat \ {0} /\ pwNumber[p] <= pwCount
        /\ pwLock = p /\ pwLock' = PW!Nil /\ p # PW!Nil
    BY <1>1, <1>2 DEF PWShape, PWAccountKnown, PWCounted, PWNewestInHand, PWOneSaver,
       PW!Unlock, PWSane
  <2>4. pwAt' \in [PW!Procs -> PWLabels] /\ pwAt'[p] = label /\ \A q \in PW!Procs \ {p} : pwAt'[q] = pwAt[q]
    BY <1>2, <2>1, <2>2 DEF PWShape, PW!Goto
  <2>5. \A q \in PW!Procs : pwAt'[q] \notin {"set", "verify"}
    BY <1>2, <2>2, <2>3, <2>4 DEF PWOneSaver
  <2>6. /\ pwSaved' \in [pwAccounts -> Nat] /\ \A a \in pwAccounts : pwSaved'[a] <= pwVault[a]
        /\ \A a \in pwAccounts : pwSaved'[a] <= pwCount
    <3>1. CASE pwSaved' = pwSaved
      BY <1>2, <3>1 DEF PWShape, PWCounted, PW!PasswordIsTheLatest
    <3>2. CASE pwSaved' = [pwSaved EXCEPT ![pwAccount[p]] = pwNumber[p]]
      <4>1. /\ pwSaved' \in [pwAccounts -> Nat] /\ pwSaved'[pwAccount[p]] = pwNumber[p]
            /\ \A a \in pwAccounts \ {pwAccount[p]} : pwSaved'[a] = pwSaved[a]
        BY <1>2, <2>3, <3>2 DEF PWShape
      <4>2. \A a \in pwAccounts : pwVault[a] \in Nat /\ pwSaved[a] \in Nat
        BY <1>2 DEF PWShape
      <4>3. QED
        BY <1>2, <1>4, <2>3, <4>1, <4>2 DEF PWCounted, PW!PasswordIsTheLatest
    <3>3. QED
      BY <2>1, <3>1, <3>2
  <2>7. UNCHANGED <<pwVault, pwAccount, pwNumber, pwCount, pwClient>>
    BY <1>1 DEF PW!held
  <2>8. PWShape'
    BY <1>2, <2>1, <2>3, <2>4, <2>6, <2>7 DEF PWShape
  <2>9. PWCounted'
    BY <1>2, <2>6, <2>7 DEF PWCounted
  <2>10. PWAccountKnown'
    BY <1>1, <1>2, <2>1, <2>3, <2>4, <2>7 DEF PWAccountKnown
  <2>11. PWOneSaver' /\ PWNewestInHand'
    BY <2>1, <2>5 DEF PWOneSaver, PWNewestInHand
  <2>12. PW!PasswordIsTheLatest'
    BY <1>2, <1>4, <2>1, <2>3, <2>6, <2>7 DEF PW!PasswordIsTheLatest, PWShape
  <2>13. QED
    BY <1>2, <2>7, <2>8, <2>9, <2>10, <2>11, <2>12 DEF PWIInv
<1>5. QED
  BY <1>3, <1>4

\* A password of the environment is the newest of all.
LEMMA PWEnvironmentInv ==
  ASSUME PWSane, PWIInv, NEW p \in PW!Procs, PW!Environment(p)
  PROVE PWIInv'
<1>1. /\ pwAt[p] = "environment" /\ PW!Goto(p, "over")
      /\ UNCHANGED <<pwConfig, pwLock, pwAccount, pwNumber, pwSaved, pwClient>>
  BY DEF PW!Environment
<1>2. /\ PWShape /\ PWCounted /\ PWAccountKnown /\ PWOneSaver /\ PWNewestInHand /\ PW!PasswordIsTheLatest
      /\ pwClient \subseteq {"other", "ours", "torn"}
  BY DEF PWIInv
<1>3. CASE UNCHANGED <<pwVault, pwCount>>
  BY <1>1, <1>2, <1>3, PWOverInv DEF PW!held
<1>4. CASE pwCount' = pwCount + 1 /\ pwVault' = [pwVault EXCEPT ![pwAccount[p]] = pwCount + 1]
  <2>1. pwAt' \in [PW!Procs -> PWLabels] /\ pwAt'[p] = "over" /\ \A q \in PW!Procs \ {p} : pwAt'[q] = pwAt[q]
    BY <1>1, <1>2 DEF PWShape, PW!Goto, PWLabels
  <2>2. pwAccount[p] \in pwAccounts /\ pwCount \in Nat \ {0} /\ pwCount' \in Nat \ {0} /\ pwCount' = pwCount + 1
    BY <1>1, <1>2, <1>4 DEF PWShape, PWAccountKnown
  <2>3. /\ pwVault' \in [pwAccounts -> Nat] /\ pwVault'[pwAccount[p]] = pwCount'
        /\ \A a \in pwAccounts \ {pwAccount[p]} : pwVault'[a] = pwVault[a]
    BY <1>2, <1>4, <2>2 DEF PWShape
  <2>4. PWShape'
    BY <1>1, <1>2, <2>1, <2>2, <2>3 DEF PWShape
  <2>5. \A a \in pwAccounts : pwVault'[a] <= pwCount' /\ pwSaved'[a] <= pwCount' /\ pwVault'[a] >= pwSaved'[a]
                            /\ pwVault'[a] >= pwVault[a]
    BY <1>1, <1>2, <2>2, <2>3 DEF PWShape, PWCounted, PW!PasswordIsTheLatest
  <2>6. PWCounted'
    BY <1>1, <1>2, <2>2, <2>5 DEF PWShape, PWCounted
  <2>7. PWAccountKnown' /\ PWOneSaver' /\ PWNewestInHand'
    BY <1>1, <1>2, <2>1 DEF PWAccountKnown, PWOneSaver, PWNewestInHand
  <2>8. PW!PasswordIsTheLatest'
    <3>1. \A a \in pwAccounts : pwVault[a] # 0 => pwVault'[a] # 0
      BY <2>2, <2>3
    <3>2. QED
      BY <1>1, <1>2, <2>5, <3>1 DEF PW!PasswordIsTheLatest, PWShape
  <2>9. QED
    BY <1>1, <1>2, <2>4, <2>6, <2>7, <2>8 DEF PWIInv
<1>5. QED
  BY <1>3, <1>4 DEF PW!Environment

\* Every step keeps the invariant.
LEMMA PWNextInv == PWSane /\ PWIInv /\ [PW!Next]_(PW!vars) => PWIInv'
<1> SUFFICES ASSUME PWSane, PWIInv, [PW!Next]_(PW!vars) PROVE PWIInv'
  OBVIOUS
<1>1. pwClient \subseteq {"other", "ours", "torn"}
  BY DEF PWIInv
<1>2. ASSUME NEW p \in PW!Procs, PW!Busy(p) PROVE PWIInv'
  BY <1>1, <1>2, PWOverInv DEF PW!Busy
<1>3. ASSUME NEW p \in PW!Procs, PW!Configure(p) PROVE PWIInv'
  <2>1. pwClient' \subseteq {"other", "ours", "torn"}
    BY <1>1, <1>3 DEF PW!Configure
  <2>2. QED
    BY <1>3, <2>1, PWOverInv DEF PW!Configure
<1>4. ASSUME NEW p \in PW!Procs, PW!Fault(p) PROVE PWIInv'
  <2>1. pwClient' \subseteq {"other", "ours", "torn"}
    BY <1>1, <1>4 DEF PW!Fault
  <2>2. QED
    BY <1>4, <2>1, PWOverInv DEF PW!Fault
<1>5. CASE UNCHANGED PW!vars
  <2>1. UNCHANGED <<pwConfig, pwVault, pwLock, pwAt, pwAccount, pwNumber, pwCount, pwSaved, pwClient>>
    BY <1>5 DEF PW!vars
  <2>2. QED
    BY <2>1 DEF PWIInv, PWShape, PWCounted, PWAccountKnown, PWOneSaver, PWNewestInHand,
       PW!PasswordIsTheLatest
<1>6. QED
  BY <1>2, <1>3, <1>4, <1>5, PWAskInv, PWLoadInv, PWLockInv, PWSetPasswordInv,
     PWSaveConfigInv,
     PWEnvironmentInv DEF PW!Next

\* The invariant implies the types and the property.
LEMMA PWConsequences == PWIInv => PW!TypeOK /\ PW!PasswordIsTheLatest
<1> SUFFICES ASSUME PWIInv PROVE PW!TypeOK /\ PW!PasswordIsTheLatest
  OBVIOUS
<1>1. PWShape /\ PWCounted /\ PW!PasswordIsTheLatest /\ pwClient \subseteq {"other", "ours", "torn"}
  BY DEF PWIInv
<1>2. ASSUME NEW a \in pwAccounts PROVE pwVault[a] \in 0..pwCount /\ pwSaved[a] \in 0..pwCount
  <2>1. pwVault[a] \in Nat /\ pwSaved[a] \in Nat /\ pwCount \in Nat
    BY <1>1 DEF PWShape
  <2>2. pwVault[a] <= pwCount /\ pwSaved[a] <= pwCount
    BY <1>1 DEF PWCounted
  <2>3. QED
    BY <2>1, <2>2
<1>3. pwConfig.account \in pwAccounts \cup {PW!Nil} /\ pwConfig.password \in {0, 1} /\ pwLock \in PW!Procs \cup {PW!Nil}
  BY <1>1 DEF PWShape
<1>4. QED
  BY <1>1, <1>2, <1>3 DEF PW!TypeOK

-----------------------------------------------------------------------------
(* The components together *)

\* What is assumed of the constants.
LEMMA Sanity == SISane /\ SSSane /\ PWSane /\ auMaxCounter \in Nat \ {0}
  BY SignInAssumption, KeysAssumption, PasswordsAssumption, CounterAssumption
     DEF SISane, SSSane, SS!Nil, PWSane, PW!Nil, PW!Procs

\* Whichever component runs is in its invariant.
AllInv ==
  /\ part \in Parts /\ IInv
  /\ part = "signin" => SIIInv
  /\ part = "authenticator" => AUIInv
  /\ part = "state" => SSIInv
  /\ part = "passwords" => PWIInv

\* Each component starts in its invariant.
LEMMA AllInitInv == AllInit => AllInv
<1> SUFFICES ASSUME AllInit PROVE AllInv
  OBVIOUS
<1>1. /\ part \in Parts /\ Init
      /\ part = "signin" => SI!Init
      /\ part = "authenticator" => AU!Init
      /\ part = "state" => SS!Init
      /\ part = "passwords" => PW!Init
  BY DEF AllInit
<1>2. IInv
  BY <1>1, InitInv
<1>3. part = "signin" => SIIInv
  BY <1>1, SIInitInv, Sanity
<1>4. part = "authenticator" => AUIInv
  BY <1>1, AUInitInv, Sanity
<1>5. part = "state" => SSIInv
  BY <1>1, SSInitInv, Sanity
<1>6. part = "passwords" => PWIInv
  BY <1>1, PWInitInv, Sanity
<1>7. QED
  BY <1>1, <1>2, <1>3, <1>4, <1>5, <1>6 DEF AllInv

\* A step is a step of each component, or leaves it as it is.
LEMMA Steps ==
  ASSUME [AllNext]_allVars
  PROVE  /\ part' = part /\ [Next]_vars
         /\ [SI!Next]_(SI!vars) /\ [AU!Next]_(AU!vars)
         /\ [SS!Next]_(SS!vars) /\ [PW!Next]_(PW!vars)
<1>1. /\ SI!vars = siVars /\ SI!vars' = siVars' /\ AU!vars = auVars /\ AU!vars' = auVars'
      /\ SS!vars = ssVars /\ SS!vars' = ssVars' /\ PW!vars = pwVars /\ PW!vars' = pwVars'
  BY DEF siVars, SI!vars, auVars, AU!vars, ssVars, SS!vars, pwVars, PW!vars
<1>2. CASE UNCHANGED allVars
  BY <1>1, <1>2 DEF allVars
<1>3. CASE AllNext
  BY <1>1, <1>3
     DEF AllNext, TokensStep, SigninStep, AuthenticatorStep, StateStep, PasswordsStep
<1>4. QED
  BY <1>2, <1>3

\* Every step keeps the invariant of the component that runs.
LEMMA AllNextInv == AllInv /\ [AllNext]_allVars => AllInv'
<1> SUFFICES ASSUME AllInv, [AllNext]_allVars PROVE AllInv'
  OBVIOUS
<1>1. part' = part /\ part \in Parts
  BY Steps DEF AllInv
<1>2. IInv'
  BY Steps, NextInv DEF AllInv
<1>3. part = "signin" => SIIInv'
  BY Steps, Sanity, SINextInv DEF AllInv
<1>4. part = "authenticator" => AUIInv'
  BY Steps, Sanity, AUNextInv DEF AllInv
<1>5. part = "state" => SSIInv'
  BY Steps, Sanity, SSNextInv DEF AllInv
<1>6. part = "passwords" => PWIInv'
  BY Steps, Sanity, PWNextInv DEF AllInv
<1>7. QED
  BY <1>1, <1>2, <1>3, <1>4, <1>5, <1>6 DEF AllInv

\* The invariant holds of every behaviour of every component.
LEMMA AllInvariance == AllSpec => []AllInv
  BY AllInitInv, AllNextInv, PTL DEF AllSpec

\* What the invariant says of each component.
LEMMA AllFollows ==
  ASSUME AllInv
  PROVE  /\ TypeOK /\ NobodyWaitsInVain /\ OnlySavedTokensAreUsed
         /\ part = "signin" => SI!TypeOK /\ SI!NoSecondPush
         /\ part = "authenticator" => AU!TypeOK /\ AU!KeyStaysValid
         /\ part = "state" => SS!TypeOK /\ SS!NothingIsLost
         /\ part = "passwords" => PW!TypeOK /\ PW!PasswordIsTheLatest
<1>1. TypeOK /\ NobodyWaitsInVain /\ OnlySavedTokensAreUsed
  BY Consequences DEF AllInv
<1>2. part = "signin" => SI!TypeOK /\ SI!NoSecondPush
  BY SIConsequences DEF AllInv
<1>3. part = "authenticator" => AU!TypeOK /\ AU!KeyStaysValid
  BY AUConsequences DEF AllInv
<1>4. part = "state" => SS!TypeOK /\ SS!NothingIsLost
  BY SSConsequences DEF AllInv
<1>5. part = "passwords" => PW!TypeOK /\ PW!PasswordIsTheLatest
  BY PWConsequences DEF AllInv
<1>6. QED
  BY <1>1, <1>2, <1>3, <1>4, <1>5

\* Type correctness of the sign-in's clients and of the four components with secrets; in
\* particular a request goes on from at most two refusals.
THEOREM AccountsTypeCorrect == AllSpec => []AccountsTyped
<1>1. AllInv => AccountsTyped
  <2> SUFFICES ASSUME AllInv PROVE AccountsTyped
    OBVIOUS
  <2>1. part \in Parts
    BY DEF AllInv
  <2>2. QED
    BY <2>1, AllFollows DEF AccountsTyped, Parts
<1>2. QED
  BY <1>1, AllInvariance, PTL

\* client.ts, token-manager.ts, auth-runner.ts: a request that waits for a mint or for a
\* sign-in waits for one in flight on its own server.
THEOREM WaitersAreAnswered == AllSpec => []NobodyWaitsInVain
<1>1. AllInv => NobodyWaitsInVain
  BY AllFollows
<1>2. QED
  BY <1>1, AllInvariance, PTL

\* token-manager.ts, runMint: no server uses or caches a token that was never saved.
THEOREM UsedTokensAreSaved == AllSpec => []OnlySavedTokensAreUsed
<1>1. AllInv => OnlySavedTokensAreUsed
  BY AllFollows
<1>2. QED
  BY <1>1, AllInvariance, PTL

\* session-store.ts, saveIfCurrent and clearIfCurrent: what a newer login saved gives way
\* only to another login, to a later token of its own session, or to that session's end.
THEOREM LoginSurvivesMint == AllSpec => NewerLoginSurvives
<1>1. AllInv /\ [AllNext]_allVars =>
        [savedByLogin \/ (disk # 0 /\ (refreshed \/ clearedDead))]_disk
  BY Steps, SurvivesStep DEF AllInv
<1>2. QED
  BY <1>1, AllInvariance, PTL DEF AllSpec, NewerLoginSurvives

\* browser-auth.ts, enroll.mjs, renew.mjs, deploy.mjs: no automatic run opens the browser
\* while a challenge is unanswered, and no old counter is shown to Duo, unless a run was
\* killed, its save failed, or a transfer met a run under way.
THEOREM PushesAreSpared == AllSpec => []DuoIsSpared
<1>1. AllInv => DuoIsSpared
  BY AllFollows DEF DuoIsSpared
<1>2. QED
  BY <1>1, AllInvariance, PTL

\* credential-store.ts, session-store.ts, secure-config.ts: what is encrypted opens with the
\* stored key, and no session, browser state or password is lost or replaced by an older
\* one, whatever fails on the way.
THEOREM SecretsKept == AllSpec => []SecretsSurvive
<1>1. AllInv => SecretsSurvive
  BY AllFollows DEF SecretsSurvive
<1>2. QED
  BY <1>1, AllInvariance, PTL

=============================================================================
