------------------------------ MODULE Locks_proofs ------------------------------
(* The process lock and the components beside it: each keeps its inductive invariant, for
   every value of its constants, and what it promises follows from it.  The names of an
   instance's definitions and lemmas here begin with its two letters in Locks; those of
   AuthLock have none. *)
EXTENDS Locks, FiniteSetTheorems, SequenceTheorems, WellFoundedInduction, TLAPS

-----------------------------------------------------------------------------
(* The process lock: AuthLock *)

\* The places of a process that has the lock, and of one that has a claim in a lock.
Holding == {"held", "releaseRead", "release"}
Claiming == {"check", "retire", "dropRead", "drop"}

\* An error is known to whoever is about to throw it, and only the living work.
Working(p) ==
  /\ at[p] # "idle" => p \in alive /\ calls[p] # <<>>
  /\ at[p] \in {"dropRead", "drop"} => error[p] \in {"busy", "failed"}
  /\ at[p] = "undo" => error[p] \in {"exists", "busy", "failed"}

\* A living process that owner.json names somewhere holds the lock or a claim there.
Named(p) ==
  p \in alive => \A n \in DOMAIN chain : chain[n] = p =>
    \/ n = 1 /\ at[p] \in Holding
    \/ n = Len(calls[p]) + 1 /\ at[p] \in Claiming

\* Until the second kill: a process nests at most one claim, only for a lock whose owner
\* is dead, and who has checked that has the claim.
FirstKill(p) ==
  crashes <= 1 =>
    /\ Len(calls[p]) <= 2
    /\ crashes = 0 => Len(calls[p]) <= 1 /\ at[p] \notin Claiming
    /\ at[p] \in Holding => readOwner(1) = p
    /\ Len(calls[p]) = 2 => at[p] \in {"mkdir", "write", "undo", "read"}
    /\ Len(calls[p]) = 2 \/ at[p] = "check" => calls[p][1].stale \in Procs \ alive
    /\ at[p] \in {"check", "retire"} /\ readOwner(1) \in Procs \ alive => readOwner(2) = p
    /\ at[p] = "retire" => readOwner(1) \in Procs \ alive
    /\ at[p] \in {"dropRead", "drop"} => readOwner(1) \notin Procs \ alive

\* An acquisition that nobody disturbs, as long as the dead cannot exhaust the nesting.
Lone(p) == p \in alone \cap alive /\ crashes <= MaxDepth /\ MaxAttempts > 1

\* What an acquisition finds that nobody disturbs: above it dead owners at their first
\* attempt, and where it works what it left there.
Undisturbed(p) ==
  Lone(p) =>
    /\ \A q \in alive \ {p} : at[q] = "idle"
    /\ at[p] \notin {"dropRead", "drop"}
    /\ outcome[p] = "busy" => at[p] = "idle" /\ \E n \in DOMAIN chain : chain[n] = NoOwner
    /\ \A i \in 1..Len(calls[p]) : i < Len(calls[p]) \/ at[p] \in {"check", "retire"} =>
         /\ i <= Len(chain) /\ calls[p][i].stale = chain[i]
         /\ chain[i] \in Procs \ alive /\ calls[p][i].attempt = 1
    /\ at[p] = "mkdir" =>
         /\ Len(chain) >= Len(calls[p]) - 1
         /\ Len(chain) > Len(calls[p]) - 1 => calls[p][Len(calls[p])].attempt = 1
    /\ at[p] \in {"write", "undo"} =>
         Len(chain) = Len(calls[p]) /\ chain[Len(calls[p])] = NoOwner
    /\ at[p] = "undo" => error[p] = "failed"
    /\ at[p] = "read" =>
         Len(chain) >= Len(calls[p]) /\ calls[p][Len(calls[p])].attempt = 1
    /\ at[p] \in {"check", "retire"} =>
         Len(chain) = Len(calls[p]) + 1 /\ chain[Len(calls[p]) + 1] = p

Own(p) == Working(p) /\ Named(p) /\ FirstKill(p) /\ Undisturbed(p)

\* No process is named twice.
NamesDiffer == \A m, n \in DOMAIN chain : chain[m] = chain[n] /\ chain[m] # NoOwner => m = n

\* Until the second kill there is at most one dead process, and no claim of it.
FewDead ==
  crashes <= 1 =>
    /\ crashes = 0 => alive = Procs /\ Len(chain) <= 1
    /\ \A p, q \in Procs \ alive : p = q
    /\ Len(chain) <= 2 /\ readOwner(2) \notin Procs \ alive

\* Each kill left one dead process.
DeadCounted == IsFiniteSet(Procs \ alive) /\ Cardinality(Procs \ alive) = crashes

\* The inductive invariant of the lock.
IInv ==
  /\ TypeOK /\ NamesDiffer /\ FewDead /\ DeadCounted
  /\ \A p \in Procs : Own(p)

\* What a step leaves as it is for the other processes.
Others(p) ==
  \A q \in Procs \ {p} :
    at'[q] = at[q] /\ calls'[q] = calls[q] /\ error'[q] = error[q] /\ outcome'[q] = outcome[q]

\* A new name in the chain is the name of who takes the step.
NewNames(p) ==
  /\ \A n \in DOMAIN chain' :
       \/ n \in DOMAIN chain /\ chain'[n] = chain[n]
       \/ chain'[n] = NoOwner
       \/ chain'[n] = p /\ at[p] \notin Holding \cup Claiming

\* What the others rely on until the second kill is left to them.
LeavesOthers(p) ==
  crashes <= 1 => \A q \in Procs \ {p} :
    /\ at[q] \in Holding => readOwner(1)' = q
    /\ at[q] \in {"check", "retire"} /\ readOwner(1)' \in Procs \ alive => readOwner(2)' = q
    /\ at[q] = "retire" => readOwner(1)' \in Procs \ alive

\* What a lock is cut down to.
LEMMA CutFacts ==
  ASSUME NEW S, NEW s \in Seq(S), NEW n \in Nat \ {0}, n <= Len(s) + 1
  PROVE  /\ SubSeq(s, 1, n - 1) \in Seq(S) /\ Len(SubSeq(s, 1, n - 1)) = n - 1
         /\ \A i \in 1..(n - 1) : SubSeq(s, 1, n - 1)[i] = s[i]
         /\ DOMAIN SubSeq(s, 1, n - 1) = 1..(n - 1)
<1>1. /\ 1 \in 1..(Len(s) + 1) /\ n - 1 \in (1 - 1)..Len(s)
      /\ Len(s) \in Nat
  OBVIOUS
<1>2. \A i \in 1..(n - 1) : i \in 1..Len(s) /\ s[i] \in S
  BY <1>1
<1>3. SubSeq(s, 1, n - 1) = [i \in 1..(n - 1) |-> s[i]]
  OBVIOUS
<1>4. QED
  BY <1>1, <1>2, <1>3

\* A step of a living process keeps the invariant if it keeps what is said of itself,
\* names no other and leaves to the others what they rely on.
LEMMA StepInv ==
  ASSUME IInv, NEW p \in Procs, p \in alive, TypeOK', Own(p)', Others(p), NewNames(p),
         LeavesOthers(p), alive' = alive, crashes' = crashes, alone' \subseteq {p},
         crashes <= 1 => Len(chain') <= 2 /\ (crashes = 0 => Len(chain') <= 1)
  PROVE  IInv'
<1>1. TypeOK /\ NamesDiffer /\ FewDead /\ DeadCounted /\ \A q \in Procs : Own(q)
  BY DEF IInv
<1>2. \A n \in DOMAIN chain : chain[n] = p => at[p] \in Holding \cup Claiming
  BY <1>1 DEF Own, Named
<1>3. NamesDiffer'
  <2>1. SUFFICES ASSUME NEW m \in DOMAIN chain', NEW n \in DOMAIN chain',
                        chain'[m] = chain'[n], chain'[m] # NoOwner
                 PROVE  m = n
    BY DEF NamesDiffer
  <2>2. CASE chain'[m] = p /\ at[p] \notin Holding \cup Claiming
    <3>1. \A k \in DOMAIN chain' : chain'[k] = p => ~(k \in DOMAIN chain /\ chain'[k] = chain[k])
      BY <1>2, <2>2
    <3>2. Named(p)'
      BY DEF Own
    <3>3. QED
      BY <2>1, <2>2, <3>2 DEF Named, Holding, Claiming
  <2>3. CASE m \in DOMAIN chain /\ chain'[m] = chain[m]
    <3>1. CASE n \in DOMAIN chain /\ chain'[n] = chain[n]
      BY <1>1, <2>1, <2>3, <3>1 DEF NamesDiffer
    <3>2. CASE chain'[n] = p /\ at[p] \notin Holding \cup Claiming
      BY <1>2, <2>1, <2>3, <3>2
    <3>3. QED
      BY <2>1, <3>1, <3>2 DEF NewNames
  <2>4. QED
    BY <2>1, <2>2, <2>3 DEF NewNames
<1>4. \A n \in DOMAIN chain' : chain'[n] \in Procs \ {p} => n \in DOMAIN chain /\ chain[n] = chain'[n]
  BY NoOwnerIsNobody DEF NewNames
<1>5. chain \in Seq(Procs \cup {NoOwner}) /\ chain' \in Seq(Procs \cup {NoOwner})
  BY <1>1 DEF TypeOK
<1>6. \A n \in Nat \ {0} : readOwner(n)' \in Procs \ {p} => readOwner(n) = readOwner(n)'
  BY <1>4, <1>5, NoOwnerIsNobody DEF readOwner
<1>7. FewDead'
  <2>1. readOwner(2)' \in Procs \ alive => readOwner(2) = readOwner(2)'
    BY <1>6
  <2>2. QED
    BY <1>1, <2>1 DEF FewDead
<1>8. DeadCounted'
  BY <1>1 DEF DeadCounted
<1>9. ASSUME NEW q \in Procs, q # p PROVE Own(q)'
  <2>1. at'[q] = at[q] /\ calls'[q] = calls[q] /\ error'[q] = error[q]
    BY <1>9 DEF Others
  <2>2. Working(q) /\ Named(q) /\ FirstKill(q)
    BY <1>1 DEF Own
  <2>3. Working(q)'
    BY <2>1, <2>2 DEF Working
  <2>4. Named(q)'
    BY <1>4, <1>9, <2>1, <2>2 DEF Named
  <2>5. FirstKill(q)'
    <3>1. readOwner(1)' \in Procs \ alive => readOwner(1) = readOwner(1)'
      BY <1>6
    <3>2. CASE crashes <= 1
      <4>1. /\ at[q] \in Holding => readOwner(1)' = q
            /\ at[q] \in {"check", "retire"} /\ readOwner(1)' \in Procs \ alive => readOwner(2)' = q
            /\ at[q] = "retire" => readOwner(1)' \in Procs \ alive
        BY <1>9, <3>2 DEF LeavesOthers
      <4>2. QED
        BY <2>1, <2>2, <3>1, <3>2, <4>1 DEF FirstKill
    <3>3. QED
      BY <3>2 DEF FirstKill
  <2>6. Undisturbed(q)'
    BY <1>9 DEF Undisturbed, Lone
  <2>7. QED
    BY <2>3, <2>4, <2>5, <2>6 DEF Own
<1>10. QED
  BY <1>3, <1>7, <1>8, <1>9 DEF IInv

\* What is known of a process at work.
LEMMA AtWork ==
  ASSUME IInv, NEW p \in Procs, NEW label \in Labels \ {"idle"}, At(p, label)
  PROVE  /\ p \in alive /\ at[p] = label /\ label # "idle"
         /\ calls[p] \in Seq(Call) /\ Len(calls[p]) \in Nat \ {0}
         /\ calls[p][Len(calls[p])] \in Call
         /\ depth(p) = Len(calls[p]) /\ call(p) = calls[p][Len(calls[p])]
         /\ chain \in Seq(Procs \cup {NoOwner}) /\ Len(chain) \in Nat
         /\ Own(p)
<1>1. TypeOK /\ Own(p)
  BY DEF IInv
<1>2. p \in alive /\ at[p] = label /\ label # "idle"
  BY DEF At
<1>3. calls[p] \in Seq(Call) /\ calls[p] # <<>> /\ chain \in Seq(Procs \cup {NoOwner})
  BY <1>1, <1>2 DEF TypeOK, Own, Working
<1>4. Len(calls[p]) \in Nat \ {0}
  BY <1>3
<1>5. calls[p][Len(calls[p])] \in Call
  BY <1>3, <1>4
<1>6. QED
  BY <1>1, <1>2, <1>3, <1>4, <1>5 DEF depth, call

\* The end of an acquisition.
LEMMA ThrowFacts ==
  ASSUME TypeOK, NEW p \in Procs, NEW e \in {"busy", "failed"}, Throw(p, e)
  PROVE  /\ at'[p] = "idle" /\ calls'[p] = <<>> /\ outcome'[p] = e /\ Others(p)
         /\ at' \in [Procs -> Labels] /\ calls' \in [Procs -> Seq(Call)]
         /\ error' \in [Procs -> Errors]
         /\ outcome' \in [Procs -> {"none", "locked", "busy", "failed"}]
<1>1. /\ at' = [at EXCEPT ![p] = "idle"] /\ calls' = [calls EXCEPT ![p] = <<>>]
      /\ error' = [error EXCEPT ![p] = "none"] /\ outcome' = [outcome EXCEPT ![p] = e]
  BY DEF Throw, Goto
<1>2. /\ at \in [Procs -> Labels] /\ calls \in [Procs -> Seq(Call)]
      /\ error \in [Procs -> Errors]
      /\ outcome \in [Procs -> {"none", "locked", "busy", "failed"}]
  BY DEF TypeOK
<1>3. <<>> \in Seq(Call)
  OBVIOUS
<1>4. at'[p] = "idle" /\ calls'[p] = <<>> /\ outcome'[p] = e /\ Others(p)
  BY <1>1, <1>2 DEF Others
<1>5. "idle" \in Labels /\ "none" \in Errors /\ e \in {"none", "locked", "busy", "failed"}
  BY DEF Labels, Errors
<1>6. QED
  BY <1>1, <1>2, <1>3, <1>4, <1>5

\* A thrown error that is not for want of a lease by itself, or leaves a lock without an
\* owner, keeps what is said of the process.
LEMMA ThrowOwn ==
  ASSUME IInv, NEW p \in Procs, p \in alive, NEW e \in {"busy", "failed"}, Throw(p, e),
         \A n \in DOMAIN chain' : chain'[n] # p,
         alive' = alive, crashes' = crashes, alone' = alone \cap {p},
         Lone(p) /\ e = "busy" => \E n \in DOMAIN chain' : chain'[n] = NoOwner
  PROVE  Own(p)'
<1>1. TypeOK /\ Own(p)
  BY DEF IInv
<1>2. at'[p] = "idle" /\ calls'[p] = <<>> /\ outcome'[p] = e /\ Others(p)
  BY <1>1, ThrowFacts
<1>3. Working(p)' /\ Named(p)' /\ FirstKill(p)'
  BY <1>2 DEF Working, Named, FirstKill, Holding, Claiming
<1>4. Undisturbed(p)'
  <2>1. SUFFICES ASSUME Lone(p) PROVE Undisturbed(p)'
    BY DEF Undisturbed, Lone
  <2>2. \A q \in alive \ {p} : at'[q] = "idle"
    BY <1>1, <1>2, <2>1 DEF Own, Undisturbed, Others, TypeOK
  <2>3. Len(calls'[p]) = 0
    BY <1>2
  <2>4. QED
    BY <1>2, <2>1, <2>2, <2>3 DEF Undisturbed
<1>5. QED
  BY <1>3, <1>4 DEF Own

\* The steps that leave the chain as it is leave all to the others.
LEMMA SameChain ==
  ASSUME IInv, NEW p \in Procs, chain' = chain
  PROVE  /\ NewNames(p) /\ LeavesOthers(p)
         /\ crashes <= 1 => Len(chain') <= 2 /\ (crashes = 0 => Len(chain') <= 1)
<1>1. NewNames(p)
  BY DEF NewNames
<1>2. LeavesOthers(p)
  BY DEF LeavesOthers, IInv, Own, FirstKill, readOwner
<1>3. QED
  BY <1>1, <1>2 DEF IInv, FewDead

\* acquireProcessLock begins.
LEMMA AcquireInv == ASSUME IInv, NEW p \in Procs, Acquire(p) PROVE IInv'
<1>1. TypeOK /\ Own(p) /\ p \in alive /\ at[p] = "idle"
  BY DEF IInv, Acquire, At
<1>2. /\ calls' = [calls EXCEPT ![p] = <<firstAttempt>>] /\ at' = [at EXCEPT ![p] = "mkdir"]
      /\ outcome' = [outcome EXCEPT ![p] = "none"] /\ error' = error /\ chain' = chain
      /\ alive' = alive /\ crashes' = crashes
      /\ alone' = IF \A q \in alive \ {p} : at[q] = "idle" THEN {p} ELSE {}
  BY DEF Acquire, Goto
<1>3. firstAttempt \in Call
  BY LimitsAssumption DEF firstAttempt, Call
<1>4. /\ at'[p] = "mkdir" /\ calls'[p] = <<firstAttempt>> /\ outcome'[p] = "none" /\ Others(p)
      /\ Len(calls'[p]) = 1 /\ calls'[p][1] = firstAttempt
  BY <1>1, <1>2, <1>3 DEF Others, TypeOK
<1>5. TypeOK'
  <2>1. begun' \in [Procs -> 0..MaxCalls]
    BY <1>1, LimitsAssumption DEF Acquire, TypeOK
  <2>2. calls' \in [Procs -> Seq(Call)] /\ at' \in [Procs -> Labels]
    BY <1>1, <1>2, <1>3 DEF TypeOK, Labels
  <2>3. outcome' \in [Procs -> {"none", "locked", "busy", "failed"}] /\ alone' \in SUBSET Procs
    BY <1>1, <1>2 DEF TypeOK
  <2>4. QED
    BY <1>1, <1>2, <2>1, <2>2, <2>3 DEF TypeOK
<1>6. /\ NewNames(p) /\ LeavesOthers(p)
      /\ crashes <= 1 => Len(chain') <= 2 /\ (crashes = 0 => Len(chain') <= 1)
  BY <1>2, SameChain
<1>7. \A n \in DOMAIN chain : chain[n] # p
  BY <1>1 DEF Own, Named, Holding, Claiming
<1>8. Working(p)' /\ Named(p)'
  BY <1>1, <1>2, <1>4, <1>7 DEF Working, Named
<1>9. FirstKill(p)'
  BY <1>4 DEF FirstKill, Holding, Claiming
<1>10. Undisturbed(p)'
  <2>1. SUFFICES ASSUME p \in alone' PROVE Undisturbed(p)'
    BY DEF Undisturbed, Lone
  <2>2. \A q \in alive' \ {p} : at'[q] = "idle"
    BY <1>1, <1>2, <1>4, <2>1 DEF Others, TypeOK
  <2>3. Len(chain') \in Nat /\ firstAttempt.attempt = 1
    BY <1>1, <1>2 DEF TypeOK, firstAttempt
  <2>4. QED
    BY <1>4, <2>2, <2>3 DEF Undisturbed
<1>11. Own(p)' /\ alone' \subseteq {p}
  BY <1>2, <1>8, <1>9, <1>10 DEF Own
<1>12. QED
  BY <1>1, <1>2, <1>4, <1>5, <1>6, <1>11, StepInv

\* A process that goes on at another file operation, and changes nothing else of its own.
LEMMA GoFacts ==
  ASSUME TypeOK, NEW p \in Procs, NEW label \in Labels, Goto(p, label),
         UNCHANGED <<calls, outcome>>, error' \in [Procs -> Errors],
         \A q \in Procs \ {p} : error'[q] = error[q]
  PROVE  /\ at'[p] = label /\ at' \in [Procs -> Labels] /\ Others(p)
  BY DEF TypeOK, Goto, Others

\* The lock's directory is made, is there, or has lost its parent.
LEMMA MkdirInv == ASSUME IInv, NEW p \in Procs, Mkdir(p) PROVE IInv'
<1>1. TypeOK /\ Own(p) /\ FewDead
  BY DEF IInv
<1>2. /\ At(p, "mkdir") /\ alive' = alive /\ crashes' = crashes /\ begun' = begun
      /\ alone' = alone \cap {p}
  BY DEF Mkdir, Overlap, boundVars
<1>3. /\ p \in alive /\ at[p] = "mkdir"
      /\ calls[p] \in Seq(Call) /\ Len(calls[p]) \in Nat \ {0}
      /\ calls[p][Len(calls[p])] \in Call
      /\ depth(p) = Len(calls[p]) /\ call(p) = calls[p][Len(calls[p])]
      /\ chain \in Seq(Procs \cup {NoOwner}) /\ Len(chain) \in Nat
  BY <1>2, AtWork DEF Labels
<1>4. \A n \in DOMAIN chain : chain[n] # p
  BY <1>1, <1>3 DEF Own, Named, Holding, Claiming
<1>5. alone' \in SUBSET Procs /\ alone' \subseteq {p}
  BY <1>1, <1>2 DEF TypeOK
<1>6. CASE /\ Len(chain) = depth(p) - 1 /\ chain' = Append(chain, NoOwner)
           /\ Goto(p, "write") /\ UNCHANGED <<calls, error, outcome>>
  <2>1. at'[p] = "write" /\ at' \in [Procs -> Labels] /\ Others(p)
    BY <1>1, <1>6, GoFacts DEF Labels, TypeOK
  <2>2. /\ chain' \in Seq(Procs \cup {NoOwner}) /\ Len(chain') = Len(chain) + 1
        /\ chain'[Len(chain) + 1] = NoOwner
        /\ \A n \in 1..Len(chain) : chain'[n] = chain[n]
        /\ DOMAIN chain' = 1..(Len(chain) + 1) /\ DOMAIN chain = 1..Len(chain)
    BY <1>3, <1>6
  <2>3. TypeOK'
    BY <1>1, <1>2, <1>5, <1>6, <2>1, <2>2 DEF TypeOK
  <2>4. NewNames(p)
    BY <2>2 DEF NewNames
  <2>5. \A n \in 1..2 : readOwner(n)' = readOwner(n)
    BY <1>3, <2>2 DEF readOwner
  <2>6. LeavesOthers(p)
    BY <2>5 DEF LeavesOthers, IInv, Own, FirstKill
  <2>7. crashes <= 1 => Len(chain') <= 2 /\ (crashes = 0 => Len(chain') <= 1)
    BY <1>1, <1>3, <1>6, <2>2 DEF Own, FirstKill, TypeOK
  <2>8. Working(p)'
    BY <1>1, <1>2, <1>3, <1>6, <2>1 DEF Own, Working
  <2>9. Named(p)'
    BY <1>4, <2>2, NoOwnerIsNobody DEF Named
  <2>10. FirstKill(p)'
    BY <1>1, <1>2, <1>3, <1>6, <2>1, <2>5 DEF Own, FirstKill, Claiming, Holding
  <2>11. Undisturbed(p)'
    <3>1. SUFFICES ASSUME Lone(p) PROVE Undisturbed(p)'
      BY <1>2 DEF Undisturbed, Lone
    <3>2. /\ \A q \in alive \ {p} : at[q] = "idle"
          /\ outcome[p] # "busy"
          /\ \A i \in 1..Len(calls[p]) : i < Len(calls[p]) =>
               /\ i <= Len(chain) /\ calls[p][i].stale = chain[i]
               /\ chain[i] \in Procs \ alive /\ calls[p][i].attempt = 1
      BY <1>1, <1>3, <3>1 DEF Own, Undisturbed
    <3>3. \A q \in alive' \ {p} : at'[q] = "idle"
      BY <1>1, <1>2, <2>1, <3>2 DEF Others, TypeOK
    <3>4. calls'[p] = calls[p] /\ outcome'[p] # "busy"
      BY <1>6, <3>2
    <3>5. Len(chain') = Len(calls'[p]) /\ chain'[Len(calls'[p])] = NoOwner
      BY <1>3, <1>6, <2>2, <3>4
    <3>6. \A i \in 1..Len(calls'[p]) : i < Len(calls'[p]) =>
               /\ i <= Len(chain') /\ calls'[p][i].stale = chain'[i]
               /\ chain'[i] \in Procs \ alive' /\ calls'[p][i].attempt = 1
      BY <1>2, <1>3, <1>6, <2>2, <3>2, <3>4
    <3>7. QED
      BY <2>1, <3>3, <3>4, <3>5, <3>6 DEF Undisturbed
  <2>12. QED
    BY <1>2, <1>3, <1>5, <2>1, <2>3, <2>4, <2>6, <2>7, <2>8, <2>9, <2>10, <2>11,
       StepInv DEF Own
<1>7. CASE /\ Len(chain) >= depth(p) /\ Goto(p, "read")
           /\ UNCHANGED <<chain, calls, error, outcome>>
  <2>1. at'[p] = "read" /\ at' \in [Procs -> Labels] /\ Others(p)
    BY <1>1, <1>7, GoFacts DEF Labels, TypeOK
  <2>2. TypeOK'
    BY <1>1, <1>2, <1>5, <1>7, <2>1 DEF TypeOK
  <2>3. /\ NewNames(p) /\ LeavesOthers(p)
        /\ crashes <= 1 => Len(chain') <= 2 /\ (crashes = 0 => Len(chain') <= 1)
    BY <1>7, SameChain
  <2>4. Working(p)' /\ Named(p)'
    BY <1>1, <1>2, <1>3, <1>4, <1>7, <2>1 DEF Own, Working, Named
  <2>5. FirstKill(p)'
    BY <1>1, <1>2, <1>3, <1>7, <2>1 DEF Own, FirstKill, Claiming, Holding
  <2>6. Undisturbed(p)'
    <3>1. SUFFICES ASSUME Lone(p) PROVE Undisturbed(p)'
      BY <1>2 DEF Undisturbed, Lone
    <3>2. Undisturbed(p)
      BY <1>1 DEF Own
    <3>3. \A q \in alive' \ {p} : at'[q] = "idle"
      BY <1>1, <1>2, <1>3, <2>1, <3>1, <3>2 DEF Others, TypeOK, Undisturbed
    <3>4. QED
      BY <1>2, <1>3, <1>7, <2>1, <3>1, <3>2, <3>3 DEF Undisturbed
  <2>7. QED
    BY <1>2, <1>3, <1>5, <2>1, <2>2, <2>3, <2>4, <2>5, <2>6, StepInv DEF Own
<1>8. CASE Len(chain) < depth(p) - 1 /\ Throw(p, "busy") /\ UNCHANGED chain
  <2>1. ~Lone(p)
    BY <1>1, <1>3, <1>8 DEF Own, Undisturbed
  <2>2. /\ Others(p) /\ at' \in [Procs -> Labels] /\ calls' \in [Procs -> Seq(Call)]
        /\ error' \in [Procs -> Errors]
        /\ outcome' \in [Procs -> {"none", "locked", "busy", "failed"}]
    BY <1>1, <1>8, ThrowFacts
  <2>3. TypeOK'
    BY <1>1, <1>2, <1>5, <1>8, <2>2 DEF TypeOK
  <2>4. Own(p)'
    BY <1>2, <1>3, <1>4, <1>8, <2>1, ThrowOwn
  <2>5. /\ NewNames(p) /\ LeavesOthers(p)
        /\ crashes <= 1 => Len(chain') <= 2 /\ (crashes = 0 => Len(chain') <= 1)
    BY <1>8, SameChain
  <2>6. QED
    BY <1>2, <1>3, <1>5, <2>2, <2>3, <2>4, <2>5, StepInv
<1>9. QED
  BY <1>6, <1>7, <1>8 DEF Mkdir

\* While a process is undisturbed, the others stay idle.
LEMMA StayIdle ==
  ASSUME IInv, NEW p \in Procs, Lone(p), Others(p), alive' = alive
  PROVE  \A q \in alive' \ {p} : at'[q] = "idle"
<1>1. Undisturbed(p) /\ TypeOK
  BY DEF IInv, Own
<1>2. \A q \in alive \ {p} : q \in Procs \ {p} /\ at[q] = "idle"
  BY <1>1 DEF Undisturbed, TypeOK
<1>3. QED
  BY <1>2 DEF Others

\* The name goes into a directory that is there and has none: the lease is the process's.
LEMMA LeaseInv ==
  ASSUME IInv, NEW p \in Procs, At(p, "write"), Overlap(p), UNCHANGED <<alive, boundVars>>,
         depth(p) <= Len(chain), chain[depth(p)] = NoOwner,
         chain' = [chain EXCEPT ![depth(p)] = p], Leased(p)
  PROVE  IInv'
<1>1. TypeOK /\ Own(p) /\ FewDead
  BY DEF IInv
<1>2. /\ p \in alive /\ at[p] = "write"
      /\ calls[p] \in Seq(Call) /\ Len(calls[p]) \in Nat \ {0}
      /\ depth(p) = Len(calls[p])
      /\ chain \in Seq(Procs \cup {NoOwner}) /\ Len(chain) \in Nat
  BY AtWork DEF Labels
<1>0. depth(p) \in Nat \ {0} /\ Len(calls[p]) = depth(p)
  BY <1>2
<1>3. /\ alive' = alive /\ crashes' = crashes /\ begun' = begun /\ alone' = alone \cap {p}
      /\ alone' \in SUBSET Procs /\ alone' \subseteq {p}
  BY <1>1 DEF Overlap, boundVars, TypeOK
<1>4. \A n \in DOMAIN chain : chain[n] # p
  BY <1>1, <1>2 DEF Own, Named, Holding, Claiming
<1>5. /\ chain' \in Seq(Procs \cup {NoOwner}) /\ Len(chain') = Len(chain)
      /\ DOMAIN chain' = DOMAIN chain /\ DOMAIN chain = 1..Len(chain)
      /\ chain'[depth(p)] = p
      /\ \A n \in DOMAIN chain \ {depth(p)} : chain'[n] = chain[n]
  BY <1>2
<1>6. NewNames(p)
  BY <1>2, <1>5 DEF NewNames, Holding, Claiming
<1>7. crashes <= 1 => Len(chain') <= 2 /\ (crashes = 0 => Len(chain') <= 1)
  BY <1>1, <1>5 DEF FewDead
<1>8. \A n \in 1..2 : n # depth(p) => readOwner(n)' = readOwner(n)
  BY <1>2, <1>5 DEF readOwner
<1>9. readOwner(depth(p)) = NoOwner /\ \A n \in 1..2 : n = depth(p) => readOwner(n)' = p
  BY <1>2, <1>5 DEF readOwner
<1>10. LeavesOthers(p)
  <2>1. SUFFICES ASSUME crashes <= 1, NEW q \in Procs \ {p}
                 PROVE  /\ at[q] \in Holding => readOwner(1)' = q
                        /\ at[q] \in {"check", "retire"} /\ readOwner(1)' \in Procs \ alive =>
                             readOwner(2)' = q
                        /\ at[q] = "retire" => readOwner(1)' \in Procs \ alive
    BY DEF LeavesOthers
  <2>2. FirstKill(q)
    BY DEF IInv, Own
  <2>3. CASE depth(p) = 1
    BY <1>2, <1>8, <1>9, <2>1, <2>2, <2>3, NoOwnerIsNobody DEF FirstKill
  <2>4. CASE depth(p) = 2
    BY <1>2, <1>8, <1>9, <2>1, <2>2, <2>4, NoOwnerIsNobody DEF FirstKill
  <2>5. depth(p) <= 2
    BY <1>0, <1>1, <2>1 DEF Own, FirstKill
  <2>6. QED
    BY <1>0, <2>3, <2>4, <2>5
<1>11. CASE depth(p) = 1
  <2>1. /\ outcome' = [outcome EXCEPT ![p] = "locked"] /\ at' = [at EXCEPT ![p] = "held"]
        /\ calls' = calls /\ error' = error
    BY <1>11 DEF Leased, Goto
  <2>2. /\ at'[p] = "held" /\ outcome'[p] = "locked" /\ Others(p)
        /\ at' \in [Procs -> Labels]
        /\ outcome' \in [Procs -> {"none", "locked", "busy", "failed"}]
    BY <1>1, <2>1 DEF TypeOK, Others, Labels
  <2>3. TypeOK'
    BY <1>1, <1>3, <1>5, <2>1, <2>2 DEF TypeOK
  <2>4. Working(p)'
    BY <1>1, <1>2, <1>3, <2>1, <2>2 DEF Own, Working
  <2>5. Named(p)'
    BY <1>2, <1>4, <1>5, <1>11, <2>2 DEF Named, Holding
  <2>6. FirstKill(p)'
    <3>1. calls'[p] = calls[p] /\ Len(calls'[p]) = 1 /\ readOwner(1)' = p
      BY <1>0, <1>9, <1>11, <2>1
    <3>2. QED
      BY <2>2, <3>1 DEF FirstKill, Holding, Claiming
  <2>7. Undisturbed(p)'
    <3>1. SUFFICES ASSUME Lone(p) PROVE Undisturbed(p)'
      BY <1>3 DEF Undisturbed, Lone
    <3>2. \A q \in alive' \ {p} : at'[q] = "idle"
      BY <1>2, <1>3, <2>2, <3>1, StayIdle
    <3>3. Len(calls'[p]) = 1 /\ \A i \in 1..1 : ~(i < 1)
      BY <1>0, <1>11, <2>1
    <3>4. QED
      BY <2>2, <3>2, <3>3 DEF Undisturbed
  <2>8. QED
    BY <1>2, <1>3, <1>6, <1>7, <1>10, <2>2, <2>3, <2>4, <2>5, <2>6, <2>7, StepInv DEF Own
<1>12. CASE depth(p) # 1
  <2>1. /\ calls' = [calls EXCEPT ![p] = SubSeq(calls[p], 1, depth(p) - 1)]
        /\ at' = [at EXCEPT ![p] = "check"] /\ error' = error /\ outcome' = outcome
    BY <1>12 DEF Leased, Goto
  <2>2. /\ SubSeq(calls[p], 1, depth(p) - 1) \in Seq(Call)
        /\ Len(SubSeq(calls[p], 1, depth(p) - 1)) = depth(p) - 1
        /\ \A i \in 1..(depth(p) - 1) : SubSeq(calls[p], 1, depth(p) - 1)[i] = calls[p][i]
    BY <1>2, CutFacts
  <2>3. /\ at'[p] = "check" /\ Others(p) /\ at' \in [Procs -> Labels]
        /\ calls' \in [Procs -> Seq(Call)] /\ calls'[p] = SubSeq(calls[p], 1, depth(p) - 1)
    BY <1>1, <2>1, <2>2 DEF TypeOK, Others, Labels
  <2>4. /\ Len(calls'[p]) = depth(p) - 1
        /\ \A i \in 1..(depth(p) - 1) : calls'[p][i] = calls[p][i]
    BY <2>2, <2>3
  <2>5. TypeOK'
    BY <1>1, <1>3, <1>5, <2>1, <2>3 DEF TypeOK
  <2>6. Working(p)'
    <3>1. Len(calls'[p]) # 0
      BY <1>2, <1>12, <2>4
    <3>2. calls'[p] # <<>>
      BY <3>1
    <3>3. QED
      BY <1>2, <1>3, <2>3, <3>2 DEF Working
  <2>7. Named(p)'
    BY <1>2, <1>4, <1>5, <2>3, <2>4 DEF Named, Claiming
  <2>8. FirstKill(p)'
    <3>1. CASE crashes <= 1
      <4>1. depth(p) = 2 /\ crashes # 0 /\ calls[p][1].stale \in Procs \ alive
        <5>1. /\ depth(p) <= 2 /\ (crashes = 0 => depth(p) <= 1)
              /\ depth(p) = 2 => calls[p][1].stale \in Procs \ alive
          BY <1>0, <1>1, <3>1 DEF Own, FirstKill
        <5>2. depth(p) = 2
          BY <1>0, <1>12, <5>1
        <5>3. QED
          BY <5>1, <5>2
      <4>2. readOwner(2)' = p /\ Len(calls'[p]) = 1 /\ calls'[p][1] = calls[p][1]
        BY <1>9, <2>4, <4>1
      <4>3. QED
        BY <1>3, <2>3, <4>1, <4>2 DEF FirstKill, Holding, Claiming
    <3>2. QED
      BY <1>3, <3>1 DEF FirstKill
  <2>9. Undisturbed(p)'
    <3>1. SUFFICES ASSUME Lone(p) PROVE Undisturbed(p)'
      BY <1>3 DEF Undisturbed, Lone
    <3>2. \A q \in alive' \ {p} : at'[q] = "idle"
      BY <1>2, <1>3, <2>3, <3>1, StayIdle
    <3>3. /\ Len(chain) = Len(calls[p]) /\ outcome[p] # "busy"
          /\ \A i \in 1..Len(calls[p]) : i < Len(calls[p]) =>
               /\ i <= Len(chain) /\ calls[p][i].stale = chain[i]
               /\ chain[i] \in Procs \ alive /\ calls[p][i].attempt = 1
      BY <1>1, <1>2, <3>1 DEF Own, Undisturbed
    <3>4. \A i \in 1..Len(calls'[p]) :
             /\ i <= Len(chain') /\ calls'[p][i].stale = chain'[i]
             /\ chain'[i] \in Procs \ alive' /\ calls'[p][i].attempt = 1
      BY <1>2, <1>3, <1>5, <2>4, <3>3
    <3>5. /\ Len(chain') = Len(calls'[p]) + 1 /\ chain'[Len(calls'[p]) + 1] = p
      BY <1>2, <1>5, <2>4, <3>3
    <3>6. outcome'[p] # "busy"
      BY <2>1, <3>3
    <3>7. QED
      BY <2>3, <3>2, <3>4, <3>5, <3>6 DEF Undisturbed
  <2>10. QED
    BY <1>2, <1>3, <1>6, <1>7, <1>10, <2>3, <2>5, <2>6, <2>7, <2>8, <2>9, StepInv DEF Own
<1>13. QED
  BY <1>11, <1>12

\* owner.json is created, or the error leads to the clean-up.
LEMMA WriteOwnerInv == ASSUME IInv, NEW p \in Procs, WriteOwner(p) PROVE IInv'
<1>1. TypeOK /\ Own(p)
  BY DEF IInv
<1>2. At(p, "write") /\ Overlap(p) /\ UNCHANGED <<alive, boundVars>>
  BY DEF WriteOwner
<1>3. /\ p \in alive /\ at[p] = "write"
      /\ calls[p] \in Seq(Call) /\ Len(calls[p]) \in Nat \ {0}
      /\ depth(p) = Len(calls[p])
      /\ chain \in Seq(Procs \cup {NoOwner}) /\ Len(chain) \in Nat
  BY <1>2, AtWork DEF Labels
<1>4. /\ alive' = alive /\ crashes' = crashes /\ begun' = begun /\ alone' = alone \cap {p}
      /\ alone' \in SUBSET Procs /\ alone' \subseteq {p}
  BY <1>1, <1>2 DEF Overlap, boundVars, TypeOK
<1>5. CASE /\ depth(p) <= Len(chain) /\ chain[depth(p)] = NoOwner
           /\ chain' = [chain EXCEPT ![depth(p)] = p] /\ Leased(p)
  BY <1>2, <1>5, LeaseInv
<1>6. CASE /\ \/ /\ depth(p) <= Len(chain) /\ chain[depth(p)] # NoOwner
                 /\ error' = [error EXCEPT ![p] = "exists"]
              \/ /\ depth(p) > Len(chain)
                 /\ error' = [error EXCEPT ![p] = "busy"]
              \/ error' = [error EXCEPT ![p] = "failed"]
           /\ Goto(p, "undo")
           /\ UNCHANGED <<chain, calls, outcome>>
  <2>1. /\ error' \in [Procs -> Errors] /\ error'[p] \in {"exists", "busy", "failed"}
        /\ \A q \in Procs \ {p} : error'[q] = error[q]
        /\ depth(p) <= Len(chain) /\ chain[depth(p)] = NoOwner => error'[p] = "failed"
    <3>1. error \in [Procs -> Errors] /\ {"exists", "busy", "failed"} \subseteq Errors
      BY <1>1 DEF TypeOK, Errors
    <3>2. CASE error' = [error EXCEPT ![p] = "failed"]
      BY <3>1, <3>2
    <3>3. CASE /\ depth(p) <= Len(chain) /\ chain[depth(p)] # NoOwner
               /\ error' = [error EXCEPT ![p] = "exists"]
      BY <3>1, <3>3
    <3>4. CASE depth(p) > Len(chain) /\ error' = [error EXCEPT ![p] = "busy"]
      BY <1>3, <3>1, <3>4
    <3>5. QED
      BY <1>6, <3>2, <3>3, <3>4
  <2>2. at'[p] = "undo" /\ at' \in [Procs -> Labels] /\ Others(p)
    BY <1>1, <1>6, <2>1, GoFacts DEF Labels
  <2>3. TypeOK'
    BY <1>1, <1>4, <1>6, <2>1, <2>2 DEF TypeOK
  <2>4. /\ NewNames(p) /\ LeavesOthers(p)
        /\ crashes <= 1 => Len(chain') <= 2 /\ (crashes = 0 => Len(chain') <= 1)
    BY <1>6, SameChain
  <2>5. Working(p)' /\ Named(p)'
    BY <1>1, <1>3, <1>4, <1>6, <2>1, <2>2 DEF Own, Working, Named, Holding, Claiming
  <2>6. FirstKill(p)'
    BY <1>1, <1>3, <1>4, <1>6, <2>2 DEF Own, FirstKill, Claiming, Holding
  <2>7. Undisturbed(p)'
    <3>1. SUFFICES ASSUME Lone(p) PROVE Undisturbed(p)'
      BY <1>4 DEF Undisturbed, Lone
    <3>2. Undisturbed(p)
      BY <1>1 DEF Own
    <3>3. \A q \in alive' \ {p} : at'[q] = "idle"
      BY <1>3, <1>4, <2>2, <3>1, StayIdle
    <3>4. QED
      BY <1>3, <1>4, <1>6, <2>1, <2>2, <3>1, <3>2, <3>3 DEF Undisturbed
  <2>8. QED
    BY <1>3, <1>4, <2>2, <2>3, <2>4, <2>5, <2>6, <2>7, StepInv DEF Own
<1>7. QED
  BY <1>5, <1>6 DEF WriteOwner

\* What follows when all names stay where they are.
LEMMA SameNames ==
  ASSUME IInv, NEW p \in Procs, \A n \in 1..2 : readOwner(n)' = readOwner(n)
  PROVE  LeavesOthers(p)
<1>1. readOwner(1)' = readOwner(1) /\ readOwner(2)' = readOwner(2)
  OBVIOUS
<1>2. QED
  BY <1>1 DEF LeavesOthers, IInv, Own, FirstKill

\* After a failed write, the directory goes if it is empty.
LEMMA UndoInv == ASSUME IInv, NEW p \in Procs, Undo(p) PROVE IInv'
<1>1. TypeOK /\ Own(p) /\ FewDead
  BY DEF IInv
<1>2. At(p, "undo") /\ Overlap(p) /\ UNCHANGED <<alive, boundVars>>
  BY DEF Undo
<1>3. /\ p \in alive /\ at[p] = "undo"
      /\ calls[p] \in Seq(Call) /\ Len(calls[p]) \in Nat \ {0}
      /\ depth(p) = Len(calls[p])
      /\ chain \in Seq(Procs \cup {NoOwner}) /\ Len(chain) \in Nat
  BY <1>2, AtWork DEF Labels
<1>4. depth(p) \in Nat \ {0} /\ Len(calls[p]) = depth(p)
  BY <1>3
<1>5. /\ alive' = alive /\ crashes' = crashes /\ begun' = begun /\ alone' = alone \cap {p}
      /\ alone' \in SUBSET Procs /\ alone' \subseteq {p}
  BY <1>1, <1>2 DEF Overlap, boundVars, TypeOK
<1>6. \A n \in DOMAIN chain : chain[n] # p
  BY <1>1, <1>3 DEF Own, Named, Holding, Claiming
<1>7. /\ chain' \in Seq(Procs \cup {NoOwner}) /\ Len(chain') <= Len(chain) /\ NewNames(p)
      /\ \A n \in DOMAIN chain' : chain'[n] # p
      /\ \A n \in 1..2 : readOwner(n)' = readOwner(n)
  <2>1. CASE Len(chain) = depth(p) /\ readOwner(depth(p)) = NoOwner
    <3>1. chain' = SubSeq(chain, 1, depth(p) - 1)
      BY <2>1 DEF Undo, Rename
    <3>2. /\ chain' \in Seq(Procs \cup {NoOwner}) /\ Len(chain') = depth(p) - 1
          /\ \A n \in 1..(depth(p) - 1) : chain'[n] = chain[n]
          /\ DOMAIN chain' = 1..(depth(p) - 1) /\ DOMAIN chain = 1..Len(chain)
      BY <1>3, <1>4, <2>1, <3>1, CutFacts
    <3>3. NewNames(p) /\ \A n \in DOMAIN chain' : chain'[n] # p
      BY <1>4, <1>6, <2>1, <3>2 DEF NewNames
    <3>4. \A n \in 1..2 : readOwner(n)' = readOwner(n)
      BY <1>4, <2>1, <3>2 DEF readOwner
    <3>5. QED
      BY <1>4, <2>1, <3>2, <3>3, <3>4
  <2>2. CASE ~(Len(chain) = depth(p) /\ readOwner(depth(p)) = NoOwner)
    <3>1. chain' = chain
      BY <2>2 DEF Undo
    <3>2. QED
      BY <1>3, <1>6, <3>1 DEF NewNames, readOwner
  <2>3. QED
    BY <2>1, <2>2
<1>8. LeavesOthers(p)
  BY <1>7, SameNames
<1>9. crashes <= 1 => Len(chain') <= 2 /\ (crashes = 0 => Len(chain') <= 1)
  <2>1. Len(chain') \in Nat
    BY <1>7
  <2>2. QED
    BY <1>1, <1>3, <1>7, <2>1 DEF FewDead
<1>10. Lone(p) => error[p] = "failed"
  BY <1>1, <1>3 DEF Own, Undisturbed
<1>11. CASE error[p] = "exists"
  <2>1. Goto(p, "read") /\ error' = [error EXCEPT ![p] = "none"] /\ UNCHANGED <<calls, outcome>>
    BY <1>11 DEF Undo
  <2>2. error' \in [Procs -> Errors] /\ \A q \in Procs \ {p} : error'[q] = error[q]
    BY <1>1, <2>1 DEF TypeOK, Errors
  <2>3. at'[p] = "read" /\ at' \in [Procs -> Labels] /\ Others(p)
    BY <1>1, <2>1, <2>2, GoFacts DEF Labels
  <2>4. TypeOK'
    BY <1>1, <1>5, <1>7, <2>1, <2>2, <2>3 DEF TypeOK
  <2>5. Working(p)' /\ Named(p)'
    BY <1>1, <1>3, <1>5, <1>7, <2>1, <2>3 DEF Own, Working, Named
  <2>6. FirstKill(p)'
    BY <1>1, <1>3, <1>5, <1>7, <2>1, <2>3 DEF Own, FirstKill, Claiming, Holding
  <2>7. Undisturbed(p)'
    BY <1>5, <1>10, <1>11 DEF Undisturbed, Lone
  <2>8. QED
    BY <1>3, <1>5, <1>7, <1>8, <1>9, <2>3, <2>4, <2>5, <2>6, <2>7, StepInv DEF Own
<1>12. CASE error[p] # "exists"
  <2>1. Throw(p, error[p])
    BY <1>12 DEF Undo
  <2>2. error[p] \in {"busy", "failed"}
    BY <1>1, <1>3, <1>12 DEF Own, Working
  <2>3. /\ Others(p) /\ at' \in [Procs -> Labels] /\ calls' \in [Procs -> Seq(Call)]
        /\ error' \in [Procs -> Errors]
        /\ outcome' \in [Procs -> {"none", "locked", "busy", "failed"}]
    BY <1>1, <2>1, <2>2, ThrowFacts
  <2>4. TypeOK'
    BY <1>1, <1>5, <1>7, <2>3 DEF TypeOK
  <2>5. Own(p)'
    BY <1>3, <1>5, <1>7, <1>10, <2>1, <2>2, ThrowOwn
  <2>6. QED
    BY <1>3, <1>5, <1>7, <1>8, <1>9, <2>3, <2>4, <2>5, StepInv
<1>13. QED
  BY <1>11, <1>12

\* More dead processes than kills there are not.
LEMMA DeadBound ==
  ASSUME IInv, NEW d \in Nat, d <= Len(chain),
         \A i \in 1..d : chain[i] \in Procs \ alive
  PROVE  d <= crashes
<1>1. chain \in Seq(Procs \cup {NoOwner}) /\ NamesDiffer /\ DeadCounted
  BY DEF IInv, TypeOK
<1>2. Len(chain) \in Nat /\ DOMAIN chain = 1..Len(chain)
  BY <1>1
<1>3. 1..d \subseteq DOMAIN chain
  BY <1>2
<1>4. DEFINE f == [i \in 1..d |-> chain[i]]
<1>5. f \in Injection(1..d, Procs \ alive)
  <2>1. f \in [1..d -> Procs \ alive]
    OBVIOUS
  <2>2. \A i, j \in 1..d : f[i] = f[j] => i = j
    BY <1>1, <1>3, NoOwnerIsNobody DEF NamesDiffer
  <2>3. QED
    BY <2>1, <2>2 DEF Injection, IsInjective
<1>6. IsFiniteSet(1..d) /\ Cardinality(1..d) = d
  BY FS_Interval
<1>7. Cardinality(1..d) <= Cardinality(Procs \ alive)
  BY <1>1, <1>5, FS_Injection DEF DeadCounted, ExistsInjection
<1>8. QED
  BY <1>1, <1>6, <1>7 DEF DeadCounted

\* The owner is read: who is not known to be dead refuses, for another a claim is begun.
LEMMA ReadOwnerInv == ASSUME IInv, NEW p \in Procs, ReadOwner(p) PROVE IInv'
<1>1. TypeOK /\ Own(p) /\ FewDead
  BY DEF IInv
<1>2. At(p, "read") /\ Overlap(p) /\ UNCHANGED <<chain, alive, boundVars>>
  BY DEF ReadOwner
<1>3. /\ p \in alive /\ at[p] = "read"
      /\ calls[p] \in Seq(Call) /\ Len(calls[p]) \in Nat \ {0}
      /\ depth(p) = Len(calls[p])
      /\ chain \in Seq(Procs \cup {NoOwner}) /\ Len(chain) \in Nat
  BY <1>2, AtWork DEF Labels
<1>4. depth(p) \in Nat \ {0} /\ Len(calls[p]) = depth(p)
  BY <1>3
<1>5. /\ alive' = alive /\ crashes' = crashes /\ begun' = begun /\ alone' = alone \cap {p}
      /\ alone' \in SUBSET Procs /\ alone' \subseteq {p} /\ chain' = chain
  BY <1>1, <1>2 DEF Overlap, boundVars, TypeOK
<1>6. \A n \in DOMAIN chain : chain[n] # p
  BY <1>1, <1>3 DEF Own, Named, Holding, Claiming
<1>7. /\ NewNames(p) /\ LeavesOthers(p)
      /\ crashes <= 1 => Len(chain') <= 2 /\ (crashes = 0 => Len(chain') <= 1)
  BY <1>5, SameChain
<1>8. readOwner(depth(p)) \in Procs \cup {NoOwner}
  BY <1>3, <1>4 DEF readOwner
<1>9. isDead(readOwner(depth(p))) <=> readOwner(depth(p)) \in Procs \ alive
  BY <1>8, NoOwnerIsNobody DEF isDead
<1>10. CASE ~isDead(readOwner(depth(p))) \/ depth(p) > MaxDepth
  <2>1. Throw(p, "busy")
    BY <1>10 DEF ReadOwner
  <2>2. /\ Others(p) /\ at' \in [Procs -> Labels] /\ calls' \in [Procs -> Seq(Call)]
        /\ error' \in [Procs -> Errors]
        /\ outcome' \in [Procs -> {"none", "locked", "busy", "failed"}]
    BY <1>1, <2>1, ThrowFacts
  <2>3. TypeOK'
    BY <1>1, <1>5, <2>2 DEF TypeOK
  <2>4. ASSUME Lone(p) PROVE \E n \in DOMAIN chain : chain[n] = NoOwner
    <3>1. /\ depth(p) <= Len(chain)
          /\ \A i \in 1..depth(p) : i < depth(p) => chain[i] \in Procs \ alive
          /\ \A q \in alive \ {p} : at[q] = "idle"
      BY <1>1, <1>3, <1>4, <2>4 DEF Own, Undisturbed
    <3>2. depth(p) \in DOMAIN chain /\ readOwner(depth(p)) = chain[depth(p)]
      BY <1>3, <1>4, <3>1 DEF readOwner
    <3>3. chain[depth(p)] \notin alive
      <4>1. ASSUME NEW q \in alive, chain[depth(p)] = q PROVE FALSE
        <5>1. q \in Procs /\ q # p
          BY <1>1, <1>6, <3>2, <4>1 DEF TypeOK
        <5>2. at[q] = "idle" /\ Named(q)
          BY <3>1, <4>1, <5>1 DEF IInv, Own
        <5>3. QED
          BY <3>2, <4>1, <5>2 DEF Named, Holding, Claiming
      <4>2. QED
        BY <4>1
    <3>4. CASE chain[depth(p)] = NoOwner
      BY <3>2, <3>4
    <3>5. CASE chain[depth(p)] # NoOwner
      <4>1. chain[depth(p)] \in Procs \ alive
        BY <1>8, <3>2, <3>3, <3>5
      <4>2. \A i \in 1..depth(p) : chain[i] \in Procs \ alive
        <5>1. \A i \in 1..depth(p) : i < depth(p) \/ i = depth(p)
          BY <1>4
        <5>2. QED
          BY <3>1, <4>1, <5>1
      <4>3. depth(p) <= crashes
        BY <1>4, <3>1, <4>2, DeadBound
      <4>4. depth(p) > MaxDepth
        BY <1>9, <1>10, <3>2, <4>1
      <4>5. crashes <= MaxDepth /\ crashes \in Nat /\ MaxDepth \in Nat
        BY <1>1, <2>4, LimitsAssumption DEF Lone, TypeOK
      <4>6. QED
        BY <1>4, <4>3, <4>4, <4>5
    <3>6. QED
      BY <3>4, <3>5
  <2>5. Own(p)'
    BY <1>3, <1>5, <1>6, <2>1, <2>4, ThrowOwn
  <2>6. QED
    BY <1>3, <1>5, <1>7, <2>2, <2>3, <2>5, StepInv
<1>11. CASE isDead(readOwner(depth(p))) /\ ~(depth(p) > MaxDepth)
  <2> DEFINE d == depth(p)
             k == [calls[p] EXCEPT ![d] = [calls[p][d] EXCEPT !.stale = readOwner(d)]]
  <2>1. /\ calls' = [calls EXCEPT ![p] = Append(k, firstAttempt)]
        /\ Goto(p, "mkdir") /\ UNCHANGED <<error, outcome>>
    BY <1>11 DEF ReadOwner
  <2>2. readOwner(d) \in Procs \ alive
    BY <1>9, <1>11
  <2>3. firstAttempt \in Call
    BY LimitsAssumption DEF firstAttempt, Call
  <2>4. /\ k \in Seq(Call) /\ Len(k) = d /\ k[d].stale = readOwner(d)
        /\ k[d].attempt = calls[p][d].attempt
        /\ \A i \in 1..d : i < d => k[i] = calls[p][i]
    <3>1. calls[p][d] \in Call
      BY <1>2, <1>3, AtWork DEF Labels
    <3>2. [calls[p][d] EXCEPT !.stale = readOwner(d)] \in Call
      BY <1>8, <3>1 DEF Call
    <3>3. d \in 1..Len(calls[p])
      BY <1>4
    <3>4. k \in Seq(Call) /\ Len(k) = Len(calls[p])
      BY <1>3, <3>2, <3>3
    <3>5. k[d] = [calls[p][d] EXCEPT !.stale = readOwner(d)]
      BY <1>3, <3>3
    <3>6. \A i \in 1..d : i < d => k[i] = calls[p][i]
      BY <1>3, <1>4
    <3>7. QED
      BY <1>4, <3>1, <3>4, <3>5, <3>6 DEF Call
  <2> HIDE DEF d, k
  <2>5. d = depth(p) /\ d \in Nat \ {0}
    BY <1>4 DEF d
  <2>6. /\ Append(k, firstAttempt) \in Seq(Call) /\ Len(Append(k, firstAttempt)) = d + 1
        /\ Append(k, firstAttempt)[d + 1] = firstAttempt
        /\ \A i \in 1..d : Append(k, firstAttempt)[i] = k[i]
    BY <2>3, <2>4, <2>5
  <2>7. /\ at'[p] = "mkdir" /\ at' \in [Procs -> Labels] /\ Others(p)
        /\ calls' \in [Procs -> Seq(Call)] /\ calls'[p] = Append(k, firstAttempt)
    BY <1>1, <2>1, <2>6 DEF TypeOK, Goto, Others, Labels
  <2>8. /\ Len(calls'[p]) = depth(p) + 1 /\ calls'[p][depth(p) + 1] = firstAttempt
        /\ calls'[p][depth(p)].stale = readOwner(depth(p))
        /\ calls'[p][depth(p)].attempt = calls[p][depth(p)].attempt
        /\ \A i \in 1..depth(p) : i < depth(p) => calls'[p][i] = calls[p][i]
    <3>1. d \in 1..d /\ \A i \in 1..d : Append(k, firstAttempt)[i] = k[i]
      BY <2>5, <2>6
    <3>2. QED
      BY <2>4, <2>5, <2>6, <2>7, <3>1
  <2>9. TypeOK'
    BY <1>1, <1>5, <2>1, <2>7 DEF TypeOK
  <2>10. Working(p)'
    <3>1. calls'[p] # <<>>
      BY <1>4, <2>8
    <3>2. QED
      BY <1>3, <1>5, <2>7, <3>1 DEF Working
  <2>11. Named(p)'
    BY <1>5, <1>6 DEF Named
  <2>12. FirstKill(p)'
    <3>1. CASE crashes <= 1
      <4>1. crashes # 0
        BY <1>1, <2>2, <3>1 DEF FewDead
      <4>2. depth(p) = 1
        <5>1. depth(p) <= 2
          BY <1>1, <1>4, <3>1 DEF Own, FirstKill
        <5>2. depth(p) # 2
          BY <1>1, <2>2, <2>5, <3>1 DEF FewDead
        <5>3. QED
          BY <1>4, <5>1, <5>2
      <4>3. Len(calls'[p]) = 2 /\ calls'[p][1].stale \in Procs \ alive
        BY <2>2, <2>5, <2>8, <4>2
      <4>4. QED
        BY <1>5, <2>7, <4>1, <4>3 DEF FirstKill, Holding, Claiming
    <3>2. QED
      BY <1>5, <3>1 DEF FirstKill
  <2>13. Undisturbed(p)'
    <3>1. SUFFICES ASSUME Lone(p) PROVE Undisturbed(p)'
      BY <1>5 DEF Undisturbed, Lone
    <3>2. \A q \in alive' \ {p} : at'[q] = "idle"
      BY <1>5, <2>7, <3>1, StayIdle
    <3>3. /\ depth(p) <= Len(chain) /\ outcome[p] # "busy"
          /\ calls[p][depth(p)].attempt = 1
          /\ \A i \in 1..depth(p) : i < depth(p) =>
               /\ i <= Len(chain) /\ calls[p][i].stale = chain[i]
               /\ chain[i] \in Procs \ alive /\ calls[p][i].attempt = 1
      BY <1>1, <1>3, <1>4, <3>1 DEF Own, Undisturbed
    <3>4. readOwner(depth(p)) = chain[depth(p)]
      BY <3>3 DEF readOwner
    <3>5. \A i \in 1..depth(p) :
             /\ i <= Len(chain') /\ calls'[p][i].stale = chain'[i]
             /\ chain'[i] \in Procs \ alive' /\ calls'[p][i].attempt = 1
      <4>1. SUFFICES ASSUME NEW i \in 1..depth(p)
                     PROVE  /\ i <= Len(chain) /\ calls'[p][i].stale = chain[i]
                            /\ chain[i] \in Procs \ alive /\ calls'[p][i].attempt = 1
        BY <1>5
      <4>2. CASE i = depth(p)
        BY <2>2, <2>5, <2>8, <3>3, <3>4, <4>2
      <4>3. CASE i < depth(p)
        BY <2>8, <3>3, <4>3
      <4>4. QED
        BY <1>4, <4>2, <4>3
    <3>6. \A i \in 1..Len(calls'[p]) : i < Len(calls'[p]) => i \in 1..depth(p)
      BY <1>4, <2>8
    <3>7. Len(chain') >= Len(calls'[p]) - 1 /\ calls'[p][Len(calls'[p])].attempt = 1
      BY <1>3, <1>4, <1>5, <2>8, <3>3 DEF firstAttempt
    <3>8. outcome'[p] # "busy"
      BY <2>1, <3>3
    <3>9. QED
      BY <2>7, <3>2, <3>5, <3>6, <3>7, <3>8 DEF Undisturbed
  <2>14. QED
    BY <1>3, <1>5, <1>7, <2>7, <2>9, <2>10, <2>11, <2>12, <2>13, StepInv DEF Own
<1>12. QED
  BY <1>10, <1>11

\* Under the claim the owner is read again.
LEMMA CheckInv == ASSUME IInv, NEW p \in Procs, Check(p) PROVE IInv'
<1>1. TypeOK /\ Own(p) /\ FewDead
  BY DEF IInv
<1>2. At(p, "check") /\ Overlap(p) /\ UNCHANGED <<chain, alive, calls, outcome, boundVars>>
  BY DEF Check
<1>3. /\ p \in alive /\ at[p] = "check"
      /\ calls[p] \in Seq(Call) /\ Len(calls[p]) \in Nat \ {0}
      /\ depth(p) = Len(calls[p]) /\ call(p) = calls[p][Len(calls[p])]
      /\ calls[p][Len(calls[p])] \in Call
      /\ chain \in Seq(Procs \cup {NoOwner}) /\ Len(chain) \in Nat
  BY <1>2, AtWork DEF Labels
<1>4. depth(p) \in Nat \ {0} /\ Len(calls[p]) = depth(p)
  BY <1>3
<1>5. /\ alive' = alive /\ crashes' = crashes /\ begun' = begun /\ alone' = alone \cap {p}
      /\ alone' \in SUBSET Procs /\ alone' \subseteq {p}
      /\ chain' = chain /\ calls' = calls /\ outcome' = outcome
  BY <1>1, <1>2 DEF Overlap, boundVars, TypeOK
<1>6. /\ NewNames(p) /\ LeavesOthers(p)
      /\ crashes <= 1 => Len(chain') <= 2 /\ (crashes = 0 => Len(chain') <= 1)
  BY <1>5, SameChain
<1>7. call(p).stale \in Procs \cup {NoOwner}
  BY <1>3 DEF Call
<1>8. isDead(call(p).stale) <=> call(p).stale \in Procs \ alive
  BY <1>7, NoOwnerIsNobody DEF isDead
<1>9. crashes <= 1 => depth(p) = 1 /\ crashes # 0 /\ call(p).stale \in Procs \ alive
  <2>1. SUFFICES ASSUME crashes <= 1
                 PROVE  depth(p) = 1 /\ crashes # 0 /\ call(p).stale \in Procs \ alive
    OBVIOUS
  <2>2. /\ depth(p) <= 2 /\ depth(p) # 2 /\ crashes # 0
        /\ calls[p][1].stale \in Procs \ alive
    BY <1>1, <1>3, <1>4, <2>1 DEF Own, FirstKill, Claiming
  <2>3. depth(p) = 1
    BY <1>4, <2>2
  <2>4. QED
    BY <1>3, <2>2, <2>3
<1>10. readOwner(depth(p) + 1) = readOwner(depth(p) + 1)'
  BY <1>5 DEF readOwner, depth
<1>11. CASE readOwner(depth(p)) = call(p).stale /\ isDead(call(p).stale)
  <2>1. Goto(p, "retire") /\ error' = error
    BY <1>11 DEF Check
  <2>2. at'[p] = "retire" /\ at' \in [Procs -> Labels] /\ Others(p)
    BY <1>1, <1>5, <2>1, GoFacts DEF Labels, TypeOK
  <2>3. TypeOK'
    BY <1>1, <1>5, <2>1, <2>2 DEF TypeOK
  <2>4. Working(p)' /\ Named(p)'
    BY <1>1, <1>3, <1>5, <2>2 DEF Own, Working, Named, Holding, Claiming
  <2>5. FirstKill(p)'
    <3>1. CASE crashes <= 1
      <4>1. depth(p) = 1 /\ crashes # 0 /\ readOwner(1) \in Procs \ alive
        BY <1>8, <1>9, <1>11, <3>1
      <4>2. readOwner(2) = p
        BY <1>1, <1>3, <3>1, <4>1 DEF Own, FirstKill
      <4>3. readOwner(1)' = readOwner(1) /\ readOwner(2)' = readOwner(2)
        BY <1>5 DEF readOwner
      <4>4. Len(calls'[p]) = 1
        BY <1>4, <1>5, <4>1
      <4>5. QED
        BY <1>5, <2>2, <4>1, <4>2, <4>3, <4>4 DEF FirstKill, Holding, Claiming
    <3>2. QED
      BY <1>5, <3>1 DEF FirstKill
  <2>6. Undisturbed(p)'
    <3>1. SUFFICES ASSUME Lone(p) PROVE Undisturbed(p)'
      BY <1>5 DEF Undisturbed, Lone
    <3>2. \A q \in alive' \ {p} : at'[q] = "idle"
      BY <1>5, <2>2, <3>1, StayIdle
    <3>3. Undisturbed(p)
      BY <1>1 DEF Own
    <3>4. QED
      BY <1>3, <1>5, <2>2, <3>1, <3>2, <3>3 DEF Undisturbed
  <2>7. QED
    BY <1>3, <1>5, <1>6, <2>2, <2>3, <2>4, <2>5, <2>6, StepInv DEF Own
<1>12. CASE ~(readOwner(depth(p)) = call(p).stale /\ isDead(call(p).stale))
  <2>1. Goto(p, "dropRead") /\ error' = [error EXCEPT ![p] = "busy"]
    BY <1>12 DEF Check
  <2>2. /\ error' \in [Procs -> Errors] /\ error'[p] = "busy"
        /\ \A q \in Procs \ {p} : error'[q] = error[q]
    BY <1>1, <2>1 DEF TypeOK, Errors
  <2>3. at'[p] = "dropRead" /\ at' \in [Procs -> Labels] /\ Others(p)
    BY <1>1, <1>5, <2>1, <2>2, GoFacts DEF Labels
  <2>4. TypeOK'
    BY <1>1, <1>5, <2>2, <2>3 DEF TypeOK
  <2>5. Working(p)' /\ Named(p)'
    BY <1>1, <1>3, <1>5, <2>2, <2>3 DEF Own, Working, Named, Holding, Claiming
  <2>6. FirstKill(p)'
    <3>1. CASE crashes <= 1
      <4>1. depth(p) = 1 /\ crashes # 0 /\ readOwner(1) \notin Procs \ alive
        BY <1>1, <1>8, <1>9, <1>12, <3>1 DEF FewDead
      <4>2. readOwner(1)' = readOwner(1)
        BY <1>5 DEF readOwner
      <4>3. Len(calls'[p]) = 1
        BY <1>4, <1>5, <4>1
      <4>4. QED
        BY <1>5, <2>3, <4>1, <4>2, <4>3 DEF FirstKill, Holding, Claiming
    <3>2. QED
      BY <1>5, <3>1 DEF FirstKill
  <2>7. ~Lone(p)
    <3>1. SUFFICES ASSUME Lone(p) PROVE FALSE
      OBVIOUS
    <3>2. /\ depth(p) <= Len(chain) /\ call(p).stale = chain[depth(p)]
          /\ chain[depth(p)] \in Procs \ alive
      <4>1. Len(calls[p]) \in 1..Len(calls[p])
        BY <1>4
      <4>2. QED
        BY <1>1, <1>3, <3>1, <4>1 DEF Own, Undisturbed
    <3>3. readOwner(depth(p)) = chain[depth(p)]
      BY <3>2 DEF readOwner
    <3>4. QED
      BY <1>8, <1>12, <3>2, <3>3
  <2>8. Undisturbed(p)'
    BY <1>5, <2>7 DEF Undisturbed, Lone
  <2>9. QED
    BY <1>3, <1>5, <1>6, <2>3, <2>4, <2>5, <2>6, <2>8, StepInv DEF Own
<1>13. QED
  BY <1>11, <1>12

\* The stale lock is renamed away, and the next attempt starts, or there is none left.
LEMMA RetireInv == ASSUME IInv, NEW p \in Procs, Retire(p) PROVE IInv'
<1>1. TypeOK /\ Own(p) /\ FewDead
  BY DEF IInv
<1>2. At(p, "retire") /\ Overlap(p) /\ UNCHANGED <<alive, boundVars>>
  BY DEF Retire
<1>3. /\ p \in alive /\ at[p] = "retire"
      /\ calls[p] \in Seq(Call) /\ Len(calls[p]) \in Nat \ {0}
      /\ depth(p) = Len(calls[p]) /\ call(p) = calls[p][Len(calls[p])]
      /\ calls[p][Len(calls[p])] \in Call
      /\ chain \in Seq(Procs \cup {NoOwner}) /\ Len(chain) \in Nat
  BY <1>2, AtWork DEF Labels
<1>4. depth(p) \in Nat \ {0} /\ Len(calls[p]) = depth(p)
  BY <1>3
<1>5. /\ alive' = alive /\ crashes' = crashes /\ begun' = begun /\ alone' = alone \cap {p}
      /\ alone' \in SUBSET Procs /\ alone' \subseteq {p}
  BY <1>1, <1>2 DEF Overlap, boundVars, TypeOK
<1>6. crashes <= 1 => depth(p) = 1 /\ crashes # 0 /\ readOwner(1) \in Procs \ alive /\ readOwner(2) = p
  <2>1. SUFFICES ASSUME crashes <= 1
                 PROVE  /\ depth(p) = 1 /\ crashes # 0 /\ readOwner(1) \in Procs \ alive
                        /\ readOwner(2) = p
    OBVIOUS
  <2>2. /\ depth(p) <= 2 /\ depth(p) # 2 /\ crashes # 0
        /\ readOwner(1) \in Procs \ alive /\ readOwner(2) = p
    BY <1>1, <1>3, <1>4, <2>1 DEF Own, FirstKill, Claiming
  <2>3. depth(p) = 1
    BY <1>4, <2>2
  <2>4. QED
    BY <2>2, <2>3
<1>7. Lone(p) => Len(chain) = depth(p) + 1 /\ call(p).attempt = 1
  <2>1. Len(calls[p]) \in 1..Len(calls[p])
    BY <1>4
  <2>2. QED
    BY <1>1, <1>3, <2>1 DEF Own, Undisturbed
<1>8. CASE depth(p) > Len(chain)
  <2>1. /\ Goto(p, "dropRead") /\ error' = [error EXCEPT ![p] = "failed"]
        /\ UNCHANGED <<chain, calls, outcome>>
    BY <1>8 DEF Retire
  <2>2. /\ error' \in [Procs -> Errors] /\ error'[p] = "failed"
        /\ \A q \in Procs \ {p} : error'[q] = error[q]
    BY <1>1, <2>1 DEF TypeOK, Errors
  <2>3. at'[p] = "dropRead" /\ at' \in [Procs -> Labels] /\ Others(p)
    BY <1>1, <2>1, <2>2, GoFacts DEF Labels
  <2>4. TypeOK'
    BY <1>1, <1>5, <2>1, <2>2, <2>3 DEF TypeOK
  <2>5. Working(p)' /\ Named(p)'
    BY <1>1, <1>3, <1>5, <2>1, <2>2, <2>3 DEF Own, Working, Named, Holding, Claiming
  <2>6. ~(crashes <= 1)
    BY <1>3, <1>6, <1>8, NoOwnerIsNobody DEF readOwner
  <2>7. FirstKill(p)' /\ Undisturbed(p)'
    <3>1. ~Lone(p)
      BY <1>3, <1>4, <1>7, <1>8
    <3>2. QED
      BY <1>5, <2>6, <3>1 DEF FirstKill, Undisturbed, Lone
  <2>8. /\ NewNames(p) /\ LeavesOthers(p)
        /\ crashes <= 1 => Len(chain') <= 2 /\ (crashes = 0 => Len(chain') <= 1)
    BY <2>1, SameChain
  <2>9. QED
    BY <1>3, <1>5, <2>3, <2>4, <2>5, <2>7, <2>8, StepInv DEF Own
<1>9. CASE ~(depth(p) > Len(chain))
  <2>1. chain' = SubSeq(chain, 1, depth(p) - 1)
    BY <1>9 DEF Retire, Rename
  <2>2. /\ chain' \in Seq(Procs \cup {NoOwner}) /\ Len(chain') = depth(p) - 1
        /\ \A n \in 1..(depth(p) - 1) : chain'[n] = chain[n]
        /\ DOMAIN chain' = 1..(depth(p) - 1) /\ DOMAIN chain = 1..Len(chain)
    BY <1>3, <1>4, <1>9, <2>1, CutFacts
  <2>3. NewNames(p)
    BY <1>3, <1>4, <1>9, <2>2 DEF NewNames
  <2>4. \A n \in DOMAIN chain' : chain'[n] # p
    <3>1. \A n \in DOMAIN chain : chain[n] = p => n = depth(p) + 1
      BY <1>1, <1>3 DEF Own, Named, Holding, Claiming
    <3>2. QED
      BY <1>3, <1>4, <1>9, <2>2, <3>1
  <2>5. crashes <= 1 => Len(chain') <= 2 /\ (crashes = 0 => Len(chain') <= 1)
    BY <1>6, <2>2
  <2>6. LeavesOthers(p)
    <3>1. SUFFICES ASSUME crashes <= 1, NEW q \in Procs \ {p}
                   PROVE  at[q] \notin Holding \cup {"check", "retire"}
      BY DEF LeavesOthers
    <3>2. FirstKill(q) /\ Working(q)
      BY DEF IInv, Own
    <3>3. QED
      BY <1>6, <3>1, <3>2 DEF FirstKill, Working, Holding
  <2>7. CASE call(p).attempt = MaxAttempts
    <3>1. Throw(p, "busy")
      BY <1>9, <2>7 DEF Retire
    <3>2. /\ Others(p) /\ at' \in [Procs -> Labels] /\ calls' \in [Procs -> Seq(Call)]
          /\ error' \in [Procs -> Errors]
          /\ outcome' \in [Procs -> {"none", "locked", "busy", "failed"}]
      BY <1>1, <3>1, ThrowFacts
    <3>3. TypeOK'
      BY <1>1, <1>5, <2>2, <3>2 DEF TypeOK
    <3>4. ~Lone(p)
      BY <1>7, <2>7 DEF Lone
    <3>5. Own(p)'
      BY <1>3, <1>5, <2>4, <3>1, <3>4, ThrowOwn
    <3>6. QED
      BY <1>3, <1>5, <2>3, <2>5, <2>6, <3>2, <3>3, <3>5, StepInv
  <2>8. CASE call(p).attempt # MaxAttempts
    <3> DEFINE new == [attempt |-> call(p).attempt + 1, stale |-> NoOwner]
    <3>1. /\ calls' = [calls EXCEPT ![p] = [calls[p] EXCEPT ![depth(p)] = new]]
          /\ Goto(p, "mkdir") /\ UNCHANGED <<error, outcome>>
      BY <1>3, <1>9, <2>8 DEF Retire, call
    <3>2. new \in Call
      BY <1>3, <2>8, LimitsAssumption DEF Call
    <3> HIDE DEF new
    <3>3. /\ [calls[p] EXCEPT ![depth(p)] = new] \in Seq(Call)
          /\ Len([calls[p] EXCEPT ![depth(p)] = new]) = depth(p)
          /\ \A i \in 1..depth(p) : i < depth(p) =>
               [calls[p] EXCEPT ![depth(p)] = new][i] = calls[p][i]
      <4>1. depth(p) \in 1..Len(calls[p])
        BY <1>4
      <4>2. [calls[p] EXCEPT ![depth(p)] = new] \in Seq(Call)
        BY <1>3, <3>2, <4>1
      <4>3. Len([calls[p] EXCEPT ![depth(p)] = new]) = Len(calls[p])
        BY <1>3, <3>2, <4>1
      <4>4. \A i \in 1..depth(p) : i < depth(p) =>
               [calls[p] EXCEPT ![depth(p)] = new][i] = calls[p][i]
        BY <1>3, <1>4
      <4>5. QED
        BY <1>4, <4>2, <4>3, <4>4
    <3>4. /\ at'[p] = "mkdir" /\ at' \in [Procs -> Labels] /\ Others(p)
          /\ calls' \in [Procs -> Seq(Call)]
          /\ calls'[p] = [calls[p] EXCEPT ![depth(p)] = new]
      BY <1>1, <3>1, <3>3 DEF TypeOK, Goto, Others, Labels
    <3>5. /\ Len(calls'[p]) = depth(p)
          /\ \A i \in 1..depth(p) : i < depth(p) => calls'[p][i] = calls[p][i]
      BY <3>3, <3>4
    <3>6. TypeOK'
      BY <1>1, <1>5, <2>2, <3>1, <3>4 DEF TypeOK
    <3>7. Working(p)'
      <4>1. calls'[p] # <<>>
        BY <1>4, <3>5
      <4>2. QED
        BY <1>3, <1>5, <3>4, <4>1 DEF Working
    <3>8. Named(p)'
      BY <2>4 DEF Named
    <3>9. FirstKill(p)'
      <4>1. crashes <= 1 => Len(calls'[p]) = 1
        BY <1>6, <3>5
      <4>2. QED
        BY <1>5, <3>4, <4>1 DEF FirstKill, Holding, Claiming
    <3>10. Undisturbed(p)'
      <4>1. SUFFICES ASSUME Lone(p) PROVE Undisturbed(p)'
        BY <1>5 DEF Undisturbed, Lone
      <4>2. \A q \in alive' \ {p} : at'[q] = "idle"
        BY <1>5, <3>4, <4>1, StayIdle
      <4>3. /\ outcome[p] # "busy"
            /\ \A i \in 1..depth(p) : i < depth(p) =>
                 /\ i <= Len(chain) /\ calls[p][i].stale = chain[i]
                 /\ chain[i] \in Procs \ alive /\ calls[p][i].attempt = 1
        BY <1>1, <1>3, <1>4, <4>1 DEF Own, Undisturbed
      <4>4. \A i \in 1..depth(p) : i < depth(p) =>
                 /\ i <= Len(chain') /\ calls'[p][i].stale = chain'[i]
                 /\ chain'[i] \in Procs \ alive' /\ calls'[p][i].attempt = 1
        <5>1. SUFFICES ASSUME NEW i \in 1..depth(p), i < depth(p)
                       PROVE  /\ i <= Len(chain') /\ calls'[p][i].stale = chain'[i]
                              /\ chain'[i] \in Procs \ alive' /\ calls'[p][i].attempt = 1
          OBVIOUS
        <5>2. i \in 1..(depth(p) - 1)
          BY <1>4, <5>1
        <5>3. chain'[i] = chain[i] /\ calls'[p][i] = calls[p][i]
          BY <2>2, <3>5, <5>1, <5>2
        <5>4. QED
          BY <1>4, <1>5, <2>2, <4>3, <5>1, <5>2, <5>3
      <4>5. Len(chain') >= Len(calls'[p]) - 1 /\ ~(Len(chain') > Len(calls'[p]) - 1)
        BY <1>4, <2>2, <3>5
      <4>6. outcome'[p] # "busy"
        BY <3>1, <4>3
      <4>7. QED
        BY <3>4, <3>5, <4>2, <4>4, <4>5, <4>6 DEF Undisturbed
    <3>11. QED
      BY <1>3, <1>5, <2>3, <2>5, <2>6, <3>4, <3>6, <3>7, <3>8, <3>9, <3>10, StepInv
         DEF Own
  <2>9. QED
    BY <2>7, <2>8
<1>10. QED
  BY <1>8, <1>9

\* The claim is let go: first its owner is read.
LEMMA DropReadInv == ASSUME IInv, NEW p \in Procs, DropRead(p) PROVE IInv'
<1>1. TypeOK /\ Own(p)
  BY DEF IInv
<1>2. At(p, "dropRead") /\ Overlap(p) /\ UNCHANGED <<chain, alive, boundVars>>
  BY DEF DropRead
<1>3. /\ p \in alive /\ at[p] = "dropRead"
      /\ calls[p] \in Seq(Call) /\ Len(calls[p]) \in Nat \ {0}
      /\ depth(p) = Len(calls[p])
      /\ chain \in Seq(Procs \cup {NoOwner}) /\ Len(chain) \in Nat
  BY <1>2, AtWork DEF Labels
<1>4. /\ alive' = alive /\ crashes' = crashes /\ begun' = begun /\ alone' = alone \cap {p}
      /\ alone' \in SUBSET Procs /\ alone' \subseteq {p} /\ chain' = chain
  BY <1>1, <1>2 DEF Overlap, boundVars, TypeOK
<1>5. /\ NewNames(p) /\ LeavesOthers(p)
      /\ crashes <= 1 => Len(chain') <= 2 /\ (crashes = 0 => Len(chain') <= 1)
  BY <1>4, SameChain
<1>6. ~Lone(p)
  BY <1>1, <1>3 DEF Own, Undisturbed
<1>7. \A n \in DOMAIN chain : chain[n] = p => n = depth(p) + 1
  BY <1>1, <1>3 DEF Own, Named, Holding, Claiming
<1>8. CASE readOwner(depth(p) + 1) = p
  <2>1. Goto(p, "drop") /\ UNCHANGED <<calls, error, outcome>>
    BY <1>8 DEF DropRead
  <2>2. at'[p] = "drop" /\ at' \in [Procs -> Labels] /\ Others(p)
    BY <1>1, <2>1, GoFacts DEF Labels, TypeOK
  <2>3. TypeOK'
    BY <1>1, <1>4, <2>1, <2>2 DEF TypeOK
  <2>4. Working(p)' /\ Named(p)'
    BY <1>1, <1>3, <1>4, <2>1, <2>2 DEF Own, Working, Named, Holding, Claiming
  <2>5. FirstKill(p)'
    BY <1>1, <1>3, <1>4, <2>1, <2>2 DEF Own, FirstKill, Holding, Claiming, readOwner
  <2>6. Undisturbed(p)'
    BY <1>4, <1>6 DEF Undisturbed, Lone
  <2>7. QED
    BY <1>3, <1>4, <1>5, <2>2, <2>3, <2>4, <2>5, <2>6, StepInv DEF Own
<1>9. CASE readOwner(depth(p) + 1) # p
  <2>1. Throw(p, error[p]) /\ error[p] \in {"busy", "failed"}
    BY <1>1, <1>3, <1>9 DEF DropRead, Own, Working
  <2>2. /\ Others(p) /\ at' \in [Procs -> Labels] /\ calls' \in [Procs -> Seq(Call)]
        /\ error' \in [Procs -> Errors]
        /\ outcome' \in [Procs -> {"none", "locked", "busy", "failed"}]
    BY <1>1, <2>1, ThrowFacts
  <2>3. TypeOK'
    BY <1>1, <1>4, <2>2 DEF TypeOK
  <2>4. \A n \in DOMAIN chain : chain[n] # p
    <3>1. \A n \in DOMAIN chain : n = depth(p) + 1 => readOwner(depth(p) + 1) = chain[n]
      BY <1>3 DEF readOwner
    <3>2. QED
      BY <1>7, <1>9, <3>1
  <2>5. Own(p)'
    BY <1>3, <1>4, <1>6, <2>1, <2>4, ThrowOwn
  <2>6. QED
    BY <1>3, <1>4, <1>5, <2>2, <2>3, <2>5, StepInv
<1>10. QED
  BY <1>8, <1>9

\* Then it is renamed away, whatever is at its path by now.
LEMMA DropInv == ASSUME IInv, NEW p \in Procs, Drop(p) PROVE IInv'
<1>1. TypeOK /\ Own(p) /\ FewDead
  BY DEF IInv
<1>2. At(p, "drop") /\ Overlap(p) /\ UNCHANGED <<alive, boundVars>>
  BY DEF Drop
<1>3. /\ p \in alive /\ at[p] = "drop"
      /\ calls[p] \in Seq(Call) /\ Len(calls[p]) \in Nat \ {0}
      /\ depth(p) = Len(calls[p])
      /\ chain \in Seq(Procs \cup {NoOwner}) /\ Len(chain) \in Nat
  BY <1>2, AtWork DEF Labels
<1>4. depth(p) \in Nat \ {0} /\ depth(p) + 1 \in Nat \ {0} /\ Len(calls[p]) = depth(p)
  BY <1>3
<1>5. /\ alive' = alive /\ crashes' = crashes /\ begun' = begun /\ alone' = alone \cap {p}
      /\ alone' \in SUBSET Procs /\ alone' \subseteq {p}
  BY <1>1, <1>2 DEF Overlap, boundVars, TypeOK
<1>6. ~Lone(p)
  BY <1>1, <1>3 DEF Own, Undisturbed
<1>7. \A n \in DOMAIN chain : chain[n] = p => n = depth(p) + 1
  BY <1>1, <1>3 DEF Own, Named, Holding, Claiming
<1>8. error[p] \in {"busy", "failed"}
  BY <1>1, <1>3 DEF Own, Working
<1>9. CASE depth(p) + 1 <= Len(chain)
  <2>1. chain' = SubSeq(chain, 1, (depth(p) + 1) - 1) /\ Throw(p, error[p])
    <3>1. Rename(depth(p) + 1) /\ Throw(p, error[p])
      BY <1>9 DEF Drop
    <3>2. QED
      BY <3>1 DEF Rename
  <2>2. /\ chain' \in Seq(Procs \cup {NoOwner}) /\ Len(chain') = depth(p)
        /\ \A n \in 1..depth(p) : chain'[n] = chain[n]
        /\ DOMAIN chain' = 1..depth(p) /\ DOMAIN chain = 1..Len(chain)
    <3>1. DOMAIN chain = 1..Len(chain) /\ depth(p) + 1 <= Len(chain) + 1
      BY <1>3, <1>4, <1>9
    <3>2. (depth(p) + 1) - 1 = depth(p)
      BY <1>4
    <3>3. QED
      BY <1>3, <1>4, <2>1, <3>1, <3>2, CutFacts
  <2>3. NewNames(p) /\ \A n \in DOMAIN chain' : chain'[n] # p
    BY <1>3, <1>4, <1>7, <1>9, <2>2 DEF NewNames
  <2>4. crashes <= 1 => Len(chain') <= 2 /\ (crashes = 0 => Len(chain') <= 1)
    BY <1>1, <1>3, <1>4, <1>9, <2>2 DEF FewDead
  <2>5. LeavesOthers(p)
    <3>1. SUFFICES ASSUME crashes <= 1, NEW q \in Procs \ {p}
                   PROVE  /\ at[q] \in Holding => readOwner(1)' = q
                          /\ readOwner(1)' \notin Procs \ alive /\ at[q] # "retire"
      BY DEF LeavesOthers
    <3>2. readOwner(1) \notin Procs \ alive
      BY <1>1, <1>3, <3>1 DEF Own, FirstKill
    <3>3. readOwner(1)' = readOwner(1)
      BY <1>3, <1>4, <1>9, <2>2 DEF readOwner
    <3>4. FirstKill(q)
      BY DEF IInv, Own
    <3>5. QED
      BY <3>1, <3>2, <3>3, <3>4 DEF FirstKill
  <2>6. /\ Others(p) /\ at' \in [Procs -> Labels] /\ calls' \in [Procs -> Seq(Call)]
        /\ error' \in [Procs -> Errors]
        /\ outcome' \in [Procs -> {"none", "locked", "busy", "failed"}]
    BY <1>1, <1>8, <2>1, ThrowFacts
  <2>7. TypeOK'
    BY <1>1, <1>5, <2>2, <2>6 DEF TypeOK
  <2>8. Own(p)'
    BY <1>3, <1>5, <1>6, <1>8, <2>1, <2>3, ThrowOwn
  <2>9. QED
    BY <1>3, <1>5, <2>3, <2>4, <2>5, <2>6, <2>7, <2>8, StepInv
<1>10. CASE ~(depth(p) + 1 <= Len(chain))
  <2>1. chain' = chain /\ Throw(p, "failed")
    BY <1>10 DEF Drop
  <2>2. \A n \in DOMAIN chain : chain[n] # p
    BY <1>3, <1>4, <1>7, <1>10
  <2>3. /\ NewNames(p) /\ LeavesOthers(p)
        /\ crashes <= 1 => Len(chain') <= 2 /\ (crashes = 0 => Len(chain') <= 1)
    BY <2>1, SameChain
  <2>4. /\ Others(p) /\ at' \in [Procs -> Labels] /\ calls' \in [Procs -> Seq(Call)]
        /\ error' \in [Procs -> Errors]
        /\ outcome' \in [Procs -> {"none", "locked", "busy", "failed"}]
    BY <1>1, <2>1, ThrowFacts
  <2>5. TypeOK'
    BY <1>1, <1>5, <2>1, <2>4 DEF TypeOK
  <2>6. Own(p)'
    BY <1>3, <1>5, <1>6, <2>1, <2>2, ThrowOwn
  <2>7. QED
    BY <1>3, <1>5, <2>3, <2>4, <2>5, <2>6, StepInv
<1>11. QED
  BY <1>9, <1>10

\* The holder starts to release the lock, and reads whether it is still its own.
LEMMA StartReleaseInv == ASSUME IInv, NEW p \in Procs, StartRelease(p) PROVE IInv'
<1>1. TypeOK /\ Own(p)
  BY DEF IInv
<1>2. /\ At(p, "held") /\ Goto(p, "releaseRead") /\ Overlap(p)
      /\ UNCHANGED <<chain, alive, calls, error, outcome, boundVars>>
  BY DEF StartRelease
<1>3. p \in alive /\ at[p] = "held"
  BY <1>2 DEF At
<1>4. /\ alive' = alive /\ crashes' = crashes /\ begun' = begun /\ alone' = alone \cap {p}
      /\ alone' \in SUBSET Procs /\ alone' \subseteq {p} /\ chain' = chain
      /\ calls' = calls /\ error' = error /\ outcome' = outcome
  BY <1>1, <1>2 DEF Overlap, boundVars, TypeOK
<1>5. /\ NewNames(p) /\ LeavesOthers(p)
      /\ crashes <= 1 => Len(chain') <= 2 /\ (crashes = 0 => Len(chain') <= 1)
  BY <1>4, SameChain
<1>6. at'[p] = "releaseRead" /\ at' \in [Procs -> Labels] /\ Others(p)
  BY <1>1, <1>2, <1>4, GoFacts DEF Labels, TypeOK
<1>7. TypeOK'
  BY <1>1, <1>4, <1>6 DEF TypeOK
<1>8. Working(p)' /\ Named(p)'
  BY <1>1, <1>3, <1>4, <1>6 DEF Own, Working, Named, Holding, Claiming
<1>9. FirstKill(p)'
  BY <1>1, <1>3, <1>4, <1>6 DEF Own, FirstKill, Holding, Claiming, readOwner
<1>10. Undisturbed(p)'
  <2>1. SUFFICES ASSUME Lone(p) PROVE Undisturbed(p)'
    BY <1>4 DEF Undisturbed, Lone
  <2>2. \A q \in alive' \ {p} : at'[q] = "idle"
    BY <1>4, <1>6, <2>1, StayIdle
  <2>3. Undisturbed(p)
    BY <1>1 DEF Own
  <2>4. QED
    BY <1>3, <1>4, <1>6, <2>1, <2>2, <2>3 DEF Undisturbed
<1>11. QED
  BY <1>3, <1>4, <1>5, <1>6, <1>7, <1>8, <1>9, <1>10, StepInv DEF Own

\* A holder that is done, with or without having found its name.
LEMMA LeaveOwn ==
  ASSUME IInv, NEW p \in Procs, p \in alive, at[p] \in Holding,
         calls' = [calls EXCEPT ![p] = <<>>], Goto(p, "idle"), UNCHANGED <<error, outcome>>,
         \A n \in DOMAIN chain' : chain'[n] # p,
         alive' = alive, crashes' = crashes, alone' = alone \cap {p}
  PROVE  /\ Own(p)' /\ Others(p)
         /\ at' \in [Procs -> Labels] /\ calls' \in [Procs -> Seq(Call)]
<1>1. TypeOK /\ Own(p)
  BY DEF IInv
<1>2. <<>> \in Seq(Call) /\ "idle" \in Labels
  BY DEF Labels
<1>3. /\ at'[p] = "idle" /\ calls'[p] = <<>> /\ Others(p)
      /\ at' \in [Procs -> Labels] /\ calls' \in [Procs -> Seq(Call)]
  BY <1>1, <1>2 DEF Goto, Others, TypeOK
<1>4. Working(p)' /\ Named(p)' /\ FirstKill(p)'
  BY <1>3 DEF Working, Named, FirstKill, Holding, Claiming
<1>5. Undisturbed(p)'
  <2>1. SUFFICES ASSUME Lone(p) PROVE Undisturbed(p)'
    BY DEF Undisturbed, Lone
  <2>2. \A q \in alive' \ {p} : at'[q] = "idle"
    BY <1>3, <2>1, StayIdle
  <2>3. outcome'[p] # "busy"
    BY <1>1, <2>1 DEF Own, Undisturbed, Holding
  <2>4. Len(calls'[p]) = 0
    BY <1>3
  <2>5. QED
    BY <1>3, <2>2, <2>3, <2>4 DEF Undisturbed
<1>6. QED
  BY <1>3, <1>4, <1>5 DEF Own

\* The holder reads whether the lock is still its own.
LEMMA ReleaseReadInv == ASSUME IInv, NEW p \in Procs, ReleaseRead(p) PROVE IInv'
<1>1. TypeOK /\ Own(p)
  BY DEF IInv
<1>2. /\ At(p, "releaseRead") /\ Overlap(p)
      /\ UNCHANGED <<chain, alive, error, outcome, boundVars>>
  BY DEF ReleaseRead
<1>3. p \in alive /\ at[p] = "releaseRead" /\ chain \in Seq(Procs \cup {NoOwner})
  BY <1>1, <1>2 DEF At, TypeOK
<1>4. /\ alive' = alive /\ crashes' = crashes /\ begun' = begun /\ alone' = alone \cap {p}
      /\ alone' \in SUBSET Procs /\ alone' \subseteq {p} /\ chain' = chain
      /\ error' = error /\ outcome' = outcome
  BY <1>1, <1>2 DEF Overlap, boundVars, TypeOK
<1>5. /\ NewNames(p) /\ LeavesOthers(p)
      /\ crashes <= 1 => Len(chain') <= 2 /\ (crashes = 0 => Len(chain') <= 1)
  BY <1>4, SameChain
<1>6. CASE readOwner(1) = p
  <2>1. Goto(p, "release") /\ calls' = calls
    BY <1>6 DEF ReleaseRead
  <2>2. at'[p] = "release" /\ at' \in [Procs -> Labels] /\ Others(p)
    BY <1>1, <1>4, <2>1, GoFacts DEF Labels, TypeOK
  <2>3. TypeOK'
    BY <1>1, <1>4, <2>1, <2>2 DEF TypeOK
  <2>4. Working(p)' /\ Named(p)'
    BY <1>1, <1>3, <1>4, <2>1, <2>2 DEF Own, Working, Named, Holding, Claiming
  <2>5. FirstKill(p)'
    BY <1>1, <1>3, <1>4, <2>1, <2>2 DEF Own, FirstKill, Holding, Claiming, readOwner
  <2>6. Undisturbed(p)'
    <3>1. SUFFICES ASSUME Lone(p) PROVE Undisturbed(p)'
      BY <1>4 DEF Undisturbed, Lone
    <3>2. \A q \in alive' \ {p} : at'[q] = "idle"
      BY <1>4, <2>2, <3>1, StayIdle
    <3>3. Undisturbed(p)
      BY <1>1 DEF Own
    <3>4. QED
      BY <1>3, <1>4, <2>1, <2>2, <3>1, <3>2, <3>3 DEF Undisturbed
  <2>7. QED
    BY <1>3, <1>4, <1>5, <2>2, <2>3, <2>4, <2>5, <2>6, StepInv DEF Own
<1>7. CASE readOwner(1) # p
  <2>1. Goto(p, "idle") /\ calls' = [calls EXCEPT ![p] = <<>>]
    BY <1>7 DEF ReleaseRead
  <2>2. \A n \in DOMAIN chain' : chain'[n] # p
    <3>1. \A n \in DOMAIN chain : chain[n] = p => n = 1
      BY <1>1, <1>3 DEF Own, Named, Holding, Claiming
    <3>2. \A n \in DOMAIN chain : n = 1 => readOwner(1) = chain[n]
      BY <1>3 DEF readOwner
    <3>3. QED
      BY <1>4, <1>7, <3>1, <3>2
  <2>3. /\ Own(p)' /\ Others(p)
        /\ at' \in [Procs -> Labels] /\ calls' \in [Procs -> Seq(Call)]
    BY <1>3, <1>4, <2>1, <2>2, LeaveOwn DEF Holding
  <2>4. TypeOK'
    BY <1>1, <1>4, <2>3 DEF TypeOK
  <2>5. QED
    BY <1>3, <1>4, <1>5, <2>3, <2>4, StepInv
<1>8. QED
  BY <1>6, <1>7

\* The lock is renamed away.
LEMMA ReleaseInv == ASSUME IInv, NEW p \in Procs, Release(p) PROVE IInv'
<1>1. TypeOK /\ Own(p)
  BY DEF IInv
<1>2. /\ At(p, "release") /\ Overlap(p) /\ Goto(p, "idle")
      /\ calls' = [calls EXCEPT ![p] = <<>>] /\ chain' = SubSeq(chain, 1, 1 - 1)
      /\ UNCHANGED <<alive, error, outcome, boundVars>>
  BY DEF Release, Rename
<1>3. p \in alive /\ at[p] = "release" /\ chain \in Seq(Procs \cup {NoOwner})
  BY <1>1, <1>2 DEF At, TypeOK
<1>4. /\ alive' = alive /\ crashes' = crashes /\ begun' = begun /\ alone' = alone \cap {p}
      /\ alone' \in SUBSET Procs /\ alone' \subseteq {p}
      /\ error' = error /\ outcome' = outcome
  BY <1>1, <1>2 DEF Overlap, boundVars, TypeOK
<1>5. chain' \in Seq(Procs \cup {NoOwner}) /\ Len(chain') = 0 /\ DOMAIN chain' = {}
  <2>1. 1 <= Len(chain) + 1
    BY <1>3
  <2>2. chain' \in Seq(Procs \cup {NoOwner}) /\ Len(chain') = 1 - 1 /\ DOMAIN chain' = 1..(1 - 1)
    BY <1>2, <1>3, <2>1, CutFacts
  <2>3. QED
    BY <2>2
<1>6. NewNames(p)
  BY <1>5 DEF NewNames
<1>7. LeavesOthers(p)
  <2>1. SUFFICES ASSUME crashes <= 1, NEW q \in Procs \ {p}
                 PROVE  /\ at[q] \notin Holding \cup {"retire"}
                        /\ readOwner(1)' \notin Procs \ alive
    BY DEF LeavesOthers
  <2>2. readOwner(1) = p
    BY <1>1, <1>3, <2>1 DEF Own, FirstKill, Holding
  <2>3. FirstKill(q)
    BY DEF IInv, Own
  <2>4. at[q] \notin Holding \cup {"retire"}
    BY <1>3, <2>1, <2>2, <2>3 DEF FirstKill
  <2>5. readOwner(1)' = NoOwner
    BY <1>5 DEF readOwner
  <2>6. QED
    BY <2>4, <2>5, NoOwnerIsNobody
<1>8. /\ Own(p)' /\ Others(p)
      /\ at' \in [Procs -> Labels] /\ calls' \in [Procs -> Seq(Call)]
  BY <1>2, <1>3, <1>4, <1>5, LeaveOwn DEF Holding
<1>9. TypeOK'
  BY <1>1, <1>4, <1>5, <1>8 DEF TypeOK
<1>10. crashes <= 1 => Len(chain') <= 2 /\ (crashes = 0 => Len(chain') <= 1)
  BY <1>5
<1>11. QED
  BY <1>3, <1>4, <1>6, <1>7, <1>8, <1>9, <1>10, StepInv

\* A kill.
LEMMA CrashInv == ASSUME IInv, NEW p \in Procs, Crash(p) PROVE IInv'
<1>1. TypeOK /\ NamesDiffer /\ FewDead /\ DeadCounted /\ \A q \in Procs : Own(q)
  BY DEF IInv
<1>2. /\ p \in alive /\ crashes < MaxCrashes /\ crashes' = crashes + 1 /\ alive' = alive \ {p}
      /\ calls' = [calls EXCEPT ![p] = <<>>] /\ error' = [error EXCEPT ![p] = "none"]
      /\ outcome' = [outcome EXCEPT ![p] = "none"] /\ at' = [at EXCEPT ![p] = "idle"]
      /\ alone' = alone \cap {p} /\ chain' = chain /\ begun' = begun
  BY DEF Crash, Goto, Overlap
<1>3. /\ at'[p] = "idle" /\ calls'[p] = <<>> /\ Len(calls'[p]) = 0 /\ Others(p)
  BY <1>1, <1>2 DEF Others, TypeOK
<1>4. TypeOK'
  <2>1. <<>> \in Seq(Call) /\ "idle" \in Labels /\ "none" \in Errors
    BY DEF Labels, Errors
  <2>2. crashes' \in 0..MaxCrashes
    BY <1>1, <1>2, LimitsAssumption DEF TypeOK
  <2>3. /\ at' \in [Procs -> Labels] /\ calls' \in [Procs -> Seq(Call)]
        /\ error' \in [Procs -> Errors]
        /\ outcome' \in [Procs -> {"none", "locked", "busy", "failed"}]
    BY <1>1, <1>2, <2>1 DEF TypeOK
  <2>4. alive' \in SUBSET Procs /\ alone' \in SUBSET Procs
    BY <1>1, <1>2 DEF TypeOK
  <2>5. QED
    BY <1>1, <1>2, <2>2, <2>3, <2>4 DEF TypeOK
<1>5. NamesDiffer'
  BY <1>1, <1>2 DEF NamesDiffer
<1>6. DeadCounted'
  <2>1. Procs \ alive' = (Procs \ alive) \cup {p} /\ p \notin Procs \ alive
    BY <1>2
  <2>2. QED
    BY <1>1, <1>2, <2>1, FS_AddElement DEF DeadCounted
<1>7. crashes \in Nat
  BY <1>1 DEF TypeOK
<1>8. crashes' <= 1 => crashes = 0 /\ alive = Procs /\ crashes' = 1
  BY <1>1, <1>2, <1>7 DEF FewDead
<1>9. FewDead'
  <2>1. SUFFICES ASSUME crashes' <= 1 PROVE FewDead'
    BY DEF FewDead
  <2>2. Len(chain) <= 1 /\ chain \in Seq(Procs \cup {NoOwner})
    BY <1>1, <1>7, <1>8, <2>1 DEF FewDead, TypeOK
  <2>3. readOwner(2)' = NoOwner /\ Len(chain') <= 2
    BY <1>2, <2>2 DEF readOwner
  <2>4. QED
    BY <1>2, <1>8, <2>1, <2>3, NoOwnerIsNobody DEF FewDead
<1>10. ASSUME NEW q \in Procs PROVE Own(q)'
  <2>1. Working(q) /\ Named(q) /\ FirstKill(q)
    BY <1>1 DEF Own
  <2>2. q # p => at'[q] = at[q] /\ calls'[q] = calls[q] /\ error'[q] = error[q]
    BY <1>3 DEF Others
  <2>3. Working(q)'
    <3>1. CASE q = p
      BY <1>3, <3>1 DEF Working
    <3>2. CASE q # p
      BY <1>2, <2>1, <2>2, <3>2 DEF Working
    <3>3. QED
      BY <3>1, <3>2
  <2>4. Named(q)'
    <3>1. CASE q = p
      BY <1>2, <3>1 DEF Named
    <3>2. CASE q # p
      BY <1>2, <2>1, <2>2, <3>2 DEF Named
    <3>3. QED
      BY <3>1, <3>2
  <2>5. FirstKill(q)'
    <3>1. SUFFICES ASSUME crashes' <= 1 PROVE FirstKill(q)'
      BY DEF FirstKill
    <3>2. readOwner(1)' = readOwner(1)
      BY <1>2 DEF readOwner
    <3>3. CASE q = p
      BY <1>3, <3>3 DEF FirstKill, Holding, Claiming
    <3>4. CASE q # p
      <4>1. /\ calls[q] \in Seq(Call) /\ Len(calls[q]) \in Nat /\ Len(calls[q]) <= 1
            /\ at[q] \notin Claiming /\ (at[q] \in Holding => readOwner(1) = q)
        BY <1>1, <1>7, <1>8, <2>1, <3>1 DEF FirstKill, TypeOK
      <4>2. at'[q] = at[q] /\ calls'[q] = calls[q] /\ crashes' = 1
        BY <1>8, <2>2, <3>1, <3>4
      <4>3. Len(calls'[q]) <= 2 /\ Len(calls'[q]) # 2
        BY <4>1, <4>2
      <4>4. /\ at'[q] \notin {"check", "retire", "dropRead", "drop"}
            /\ at'[q] \in Holding => readOwner(1)' = q
        BY <3>2, <4>1, <4>2 DEF Claiming
      <4>5. QED
        BY <4>2, <4>3, <4>4 DEF FirstKill
    <3>5. QED
      BY <3>3, <3>4
  <2>6. Undisturbed(q)'
    BY <1>2 DEF Undisturbed, Lone
  <2>7. QED
    BY <2>3, <2>4, <2>5, <2>6 DEF Own
<1>11. QED
  BY <1>4, <1>5, <1>6, <1>9, <1>10 DEF IInv

\* At first there is no lock and nobody at work.
LEMMA InitInv == Init => IInv
<1> SUFFICES ASSUME Init PROVE IInv
  OBVIOUS
<1>1. /\ chain = <<>> /\ alive = Procs /\ alone = {} /\ crashes = 0
      /\ calls = [p \in Procs |-> <<>>] /\ at = [p \in Procs |-> "idle"]
      /\ error = [p \in Procs |-> "none"] /\ outcome = [p \in Procs |-> "none"]
      /\ begun = [p \in Procs |-> 0]
  BY DEF Init
<1>2. TypeOK
  BY <1>1, LimitsAssumption DEF TypeOK, Labels, Errors
<1>3. NamesDiffer
  BY <1>1 DEF NamesDiffer
<1>4. Procs \ alive = {}
  BY <1>1
<1>5. DeadCounted
  BY <1>1, <1>4, FS_EmptySet DEF DeadCounted
<1>6. FewDead
  BY <1>1, <1>4 DEF FewDead
<1>7. ASSUME NEW p \in Procs PROVE Own(p)
  <2>1. at[p] = "idle" /\ calls[p] = <<>> /\ Len(calls[p]) = 0
    BY <1>1
  <2>2. QED
    BY <1>1, <2>1 DEF Own, Working, Named, FirstKill, Undisturbed, Lone, Holding, Claiming
<1>8. QED
  BY <1>2, <1>3, <1>5, <1>6, <1>7 DEF IInv

\* Every step keeps the invariant.
LEMMA NextInv == IInv /\ [Next]_vars => IInv'
<1> SUFFICES ASSUME IInv, [Next]_vars PROVE IInv'
  OBVIOUS
<1>1. ASSUME NEW p \in Procs, Acquire(p) \/ AcquireStep(p) \/ ReleaseStep(p) \/ Crash(p)
      PROVE  IInv'
  BY <1>1, AcquireInv, MkdirInv, WriteOwnerInv, UndoInv, ReadOwnerInv, CheckInv,
     RetireInv,
     DropReadInv, DropInv, StartReleaseInv, ReleaseReadInv, ReleaseInv, CrashInv
     DEF AcquireStep, ReleaseStep
<1>2. CASE UNCHANGED vars
  BY <1>2 DEF vars, IInv, TypeOK, NamesDiffer, FewDead, DeadCounted, Own, Working, Named,
     FirstKill, Undisturbed, Lone, readOwner
<1>3. QED
  BY <1>1, <1>2 DEF Next

\* What the invariant says of the holders and of undisturbed acquisitions.
LEMMA Consequences ==
  ASSUME IInv
  PROVE  /\ TypeOK
         /\ crashes <= 1 => HolderIsNamed /\ MutualExclusion
         /\ MaxAttempts > 1 /\ crashes <= MaxDepth => LoneAcquisitionSucceeds
<1>1. TypeOK /\ \A p \in Procs : Own(p)
  BY DEF IInv
<1>2. crashes <= 1 => HolderIsNamed
  BY <1>1 DEF HolderIsNamed, holders, TypeOK, Own, FirstKill, Holding
<1>3. crashes <= 1 => MutualExclusion
  BY <1>2 DEF MutualExclusion, HolderIsNamed
<1>4. MaxAttempts > 1 /\ crashes <= MaxDepth => LoneAcquisitionSucceeds
  BY <1>1 DEF LoneAcquisitionSucceeds, TypeOK, Own, Undisturbed, Lone
<1>5. QED
  BY <1>1, <1>2, <1>3, <1>4

-----------------------------------------------------------------------------
(* The client of the Brightspace interface: ApiClient *)

\* What is assumed of the constants.
ACSane == acCapacity \in Nat /\ acMaxAttempts \in Nat \ {0}

\* Types, those of the histories and of the limiter's queue included.
ACShape ==
  /\ AC!TypeOK
  /\ acLogins \in [acCalls -> Nat] /\ acBurst \in Nat /\ acWaiting \in Seq(acCalls)

\* The queue holds each call that waits once, and no other.
ACQueued ==
  /\ \A k \in DOMAIN acWaiting : acAt[acWaiting[k]] = "queue"
  /\ \A j, k \in DOMAIN acWaiting : acWaiting[j] = acWaiting[k] => j = k

\* Where a call may still ask for a login, it has asked for none for its present page.
ACMayAsk(c) ==
  \/ acAt[c] \in {"start", "cache", "token", "login", "refresh"}
  \/ acAt[c] \in {"queue", "sent", "asleep"} /\ acSending[c] # "last"

ACLoginInv(c) ==
  /\ IsFiniteSet(acSeen[c])
  /\ acLogins[c] <= Cardinality(acSeen[c]) + 1
  /\ ACMayAsk(c) => acLogins[c] <= Cardinality(acSeen[c])

\* A call sleeps only before an attempt it still has.
ACTriesInv(c) == acAt[c] = "asleep" => acTries[c] < acMaxAttempts

\* What the rate has not paid back is missing in the bucket.
ACRateInv == acBurst + acBucket <= acCapacity

\* The inductive invariant of the client.
ACIInv ==
  /\ ACShape /\ ACQueued /\ ACRateInv
  /\ \A c \in acCalls : ACLoginInv(c) /\ ACTriesInv(c)

\* What is left as it is of the other calls.
ACOthers(c) ==
  \A d \in acCalls \ {c} :
    /\ acAt'[d] = acAt[d] /\ acSending'[d] = acSending[d] /\ acTries'[d] = acTries[d]
    /\ acPage'[d] = acPage[d] /\ acSeen'[d] = acSeen[d] /\ acLogins'[d] = acLogins[d]

\* The size of a set is the same in the instance.
LEMMA ACCard == \A S : AC!Cardinality(S) = Cardinality(S)
  BY DEF AC!Cardinality, Cardinality

\* A step of one call that leaves the limiter's queue, or joins it, keeps the invariant
\* if it keeps what is said of the call.
LEMMA ACCallStep ==
  ASSUME ACSane, ACIInv, NEW c \in acCalls, ACShape', ACOthers(c), acBucket' = acBucket, acBurst' = acBurst,
         acAt[c] # "queue",
         \/ acWaiting' = acWaiting
         \/ acWaiting' = Append(acWaiting, c) /\ acAt'[c] = "queue",
         ACLoginInv(c)', ACTriesInv(c)'
  PROVE  ACIInv'
<1>1. /\ ACShape /\ ACQueued /\ ACRateInv
      /\ \A d \in acCalls : ACLoginInv(d) /\ ACTriesInv(d)
  BY DEF ACIInv
<1>2. acWaiting \in Seq(acCalls) /\ Len(acWaiting) \in Nat /\ DOMAIN acWaiting = 1..Len(acWaiting)
  BY <1>1 DEF ACShape
<1>3. \A k \in DOMAIN acWaiting : acWaiting[k] \in acCalls \ {c} /\ acAt'[acWaiting[k]] = "queue"
  BY <1>1, <1>2 DEF ACQueued, ACOthers
<1>4. ACQueued'
  <2>1. CASE acWaiting' = acWaiting
    BY <1>1, <1>3, <2>1 DEF ACQueued
  <2>2. CASE acWaiting' = Append(acWaiting, c) /\ acAt'[c] = "queue"
    <3>1. /\ DOMAIN acWaiting' = 1..(Len(acWaiting) + 1) /\ acWaiting'[Len(acWaiting) + 1] = c
          /\ \A k \in 1..Len(acWaiting) : acWaiting'[k] = acWaiting[k]
      BY <1>2, <2>2
    <3>2. QED
      BY <1>1, <1>2, <1>3, <2>2, <3>1 DEF ACQueued
  <2>3. QED
    BY <2>1, <2>2
<1>5. ASSUME NEW d \in acCalls PROVE ACLoginInv(d)' /\ ACTriesInv(d)'
  <2>1. CASE d # c
    BY <1>1, <2>1 DEF ACOthers, ACLoginInv, ACMayAsk, ACTriesInv
  <2>2. QED
    BY <2>1
<1>6. ACRateInv'
  BY <1>1 DEF ACRateInv
<1>7. QED
  BY <1>4, <1>5, <1>6 DEF ACIInv

\* A call goes on elsewhere and changes nothing else.
LEMMA ACGoInv ==
  ASSUME ACSane, ACIInv, NEW c \in acCalls, NEW label \in AC!Labels \ {"queue"}, AC!Go(c, label),
         acAt[c] # "queue",
         label \in {"start", "cache", "token", "login", "refresh", "sent"} => ACMayAsk(c),
         label = "asleep" => acTries[c] < acMaxAttempts /\ acAt[c] = "sent",
         acCached' \subseteq AC!Paths,
         UNCHANGED <<AC!auth, AC!list, AC!limiter, acWaiting, acLogins>>
  PROVE  ACIInv'
<1>1. ACShape /\ ACLoginInv(c) /\ ACTriesInv(c)
  BY DEF ACIInv
<1>2. /\ acAt' = [acAt EXCEPT ![c] = label] /\ acSending' = acSending /\ acTries' = acTries
      /\ acPage' = acPage /\ acSeen' = acSeen /\ acBucket' = acBucket /\ acBurst' = acBurst
      /\ acWaiting' = acWaiting /\ acLogins' = acLogins
  BY DEF AC!Go, AC!auth, AC!list, AC!limiter
<1>3. acAt'[c] = label /\ ACOthers(c)
  BY <1>1, <1>2 DEF ACOthers, ACShape, AC!TypeOK
<1>4. ACShape'
  BY <1>1, <1>2 DEF ACShape, AC!TypeOK, AC!Paths
<1>5. ACMayAsk(c)' => ACMayAsk(c)
  BY <1>2, <1>3 DEF ACMayAsk
<1>6. ACLoginInv(c)' /\ ACTriesInv(c)'
  BY <1>1, <1>2, <1>3, <1>5 DEF ACLoginInv, ACTriesInv
<1>7. QED
  BY <1>2, <1>3, <1>4, <1>6, ACCallStep

\* A send joins the queue; for its page the call has asked for a login before the last one
\* only.
LEMMA ACSendInv ==
  ASSUME ACSane, ACIInv, NEW c \in acCalls, NEW which \in {"first", "fresh", "last"}, AC!Send(c, which),
         acAt[c] \in {"token", "refresh", "login"},
         \/ which # "last" /\ acLogins' = acLogins
         \/ which = "last" /\ acLogins' = [acLogins EXCEPT ![c] = @ + 1],
         UNCHANGED <<AC!list, AC!limiter, acCached>>
  PROVE  ACIInv'
<1>1. ACShape /\ ACLoginInv(c)
  BY DEF ACIInv
<1>2. /\ acAt' = [acAt EXCEPT ![c] = "queue"] /\ acSending' = [acSending EXCEPT ![c] = which]
      /\ acTries' = [acTries EXCEPT ![c] = 1] /\ acWaiting' = Append(acWaiting, c)
      /\ acPage' = acPage /\ acSeen' = acSeen /\ acBucket' = acBucket /\ acBurst' = acBurst
      /\ acCached' = acCached
  BY DEF AC!Send, AC!Enqueue, AC!Go, AC!list, AC!limiter
<1>3. /\ acAt'[c] = "queue" /\ acSending'[c] = which /\ acTries'[c] = 1 /\ ACOthers(c)
      /\ acLogins'[c] = IF which = "last" THEN acLogins[c] + 1 ELSE acLogins[c]
  BY <1>1, <1>2 DEF ACOthers, ACShape, AC!TypeOK
<1>4. ACShape'
  <2>1. acAt' \in [acCalls -> AC!Labels] /\ acSending' \in [acCalls -> {"first", "fresh", "last"}]
    BY <1>1, <1>2 DEF ACShape, AC!TypeOK, AC!Labels
  <2>2. acTries' \in [acCalls -> 0..acMaxAttempts]
    BY <1>1, <1>2 DEF ACShape, AC!TypeOK, ACSane
  <2>3. acWaiting' \in Seq(acCalls) /\ acLogins' \in [acCalls -> Nat]
    BY <1>1, <1>2 DEF ACShape
  <2>4. QED
    BY <1>1, <1>2, <2>1, <2>2, <2>3 DEF ACShape, AC!TypeOK
<1>5. acLogins[c] <= Cardinality(acSeen[c]) /\ IsFiniteSet(acSeen[c]) /\ acLogins[c] \in Nat
  BY <1>1 DEF ACLoginInv, ACMayAsk, ACShape
<1>6. Cardinality(acSeen[c]) \in Nat /\ acSeen'[c] = acSeen[c]
  BY <1>2, <1>5, FS_CardinalityType
<1>7. ACLoginInv(c)' /\ ACTriesInv(c)'
  BY <1>3, <1>5, <1>6 DEF ACLoginInv, ACTriesInv, ACMayAsk
<1>8. QED
  BY <1>2, <1>3, <1>4, <1>7, ACCallStep

\* What leads a call to the limiter.
LEMMA ACAskInv ==
  ASSUME ACSane, ACIInv, NEW c \in acCalls, AC!Look(c) \/ AC!GetToken(c) \/ AC!Refresh(c) PROVE ACIInv'
<1>1. ACShape
  BY DEF ACIInv
<1>2. acCached \subseteq AC!Paths /\ {"next", "token", "login", "failed"} \subseteq AC!Labels \ {"queue"}
  BY <1>1 DEF ACShape, AC!TypeOK, AC!Labels
<1>3. CASE AC!Look(c)
  <2>1. /\ acAt[c] # "queue" /\ ACMayAsk(c) /\ acCached' = acCached
        /\ UNCHANGED <<AC!auth, AC!list, AC!limiter, acWaiting, acLogins>>
        /\ AC!Go(c, "next") \/ AC!Go(c, "token")
    BY <1>3 DEF AC!Look, ACMayAsk
  <2>2. QED
    BY <1>2, <2>1, ACGoInv
<1>4. CASE AC!GetToken(c)
  <2>1. acAt[c] = "token" /\ UNCHANGED <<AC!list, AC!limiter, acCached, acLogins>>
    BY <1>4 DEF AC!GetToken
  <2>2. CASE AC!Send(c, "first")
    BY <2>1, <2>2, ACSendInv
  <2>3. CASE (AC!Go(c, "login") \/ AC!Go(c, "failed")) /\ UNCHANGED <<acWaiting, AC!auth>>
    BY <1>2, <2>1, <2>3, ACGoInv DEF ACMayAsk
  <2>4. QED
    BY <1>4, <2>2, <2>3 DEF AC!GetToken
<1>5. CASE AC!Refresh(c)
  <2>1. acAt[c] = "refresh" /\ UNCHANGED <<AC!list, AC!limiter, acCached, acLogins>>
    BY <1>5 DEF AC!Refresh
  <2>2. CASE AC!Send(c, "fresh")
    BY <2>1, <2>2, ACSendInv
  <2>3. CASE (AC!Go(c, "login") \/ AC!Go(c, "failed")) /\ UNCHANGED <<acWaiting, AC!auth>>
    BY <1>2, <2>1, <2>3, ACGoInv DEF ACMayAsk
  <2>4. QED
    BY <1>5, <2>2, <2>3 DEF AC!Refresh
<1>6. QED
  BY <1>3, <1>4, <1>5

\* The one login of a page.
LEMMA ACLoginStepInv ==
  ASSUME ACSane, ACIInv, NEW c \in acCalls, AC!Login(c)
  PROVE ACIInv'
<1>1. ACShape /\ ACLoginInv(c)
  BY DEF ACIInv
<1>2. /\ acAt[c] = "login" /\ acLogins' = [acLogins EXCEPT ![c] = @ + 1]
      /\ UNCHANGED <<AC!list, AC!limiter, acCached>>
  BY DEF AC!Login
<1>3. CASE AC!Send(c, "last")
  BY <1>2, <1>3, ACSendInv
<1>4. CASE AC!Go(c, "failed") /\ UNCHANGED <<acWaiting, AC!auth>>
  <2>1. /\ acAt' = [acAt EXCEPT ![c] = "failed"] /\ acSending' = acSending /\ acTries' = acTries
        /\ acPage' = acPage /\ acSeen' = acSeen /\ acBucket' = acBucket /\ acBurst' = acBurst
        /\ acWaiting' = acWaiting /\ acCached' = acCached
    BY <1>2, <1>4 DEF AC!Go, AC!auth, AC!list, AC!limiter
  <2>2. acAt'[c] = "failed" /\ ACOthers(c) /\ acLogins'[c] = acLogins[c] + 1
    BY <1>1, <1>2, <2>1 DEF ACOthers, ACShape, AC!TypeOK
  <2>3. ACShape'
    BY <1>1, <1>2, <2>1 DEF ACShape, AC!TypeOK, AC!Labels
  <2>4. acLogins[c] <= Cardinality(acSeen[c]) /\ IsFiniteSet(acSeen[c]) /\ acLogins[c] \in Nat
    BY <1>1, <1>2 DEF ACLoginInv, ACMayAsk, ACShape
  <2>5. Cardinality(acSeen[c]) \in Nat /\ acSeen'[c] = acSeen[c]
    BY <2>1, <2>4, FS_CardinalityType
  <2>6. ACLoginInv(c)' /\ ACTriesInv(c)'
    BY <2>2, <2>4, <2>5 DEF ACLoginInv, ACTriesInv, ACMayAsk
  <2>7. QED
    BY <1>2, <2>1, <2>2, <2>3, <2>6, ACCallStep
<1>5. QED
  BY <1>3, <1>4 DEF AC!Login

\* The answer of a request, or its failure.
LEMMA ACAnswerInv ==
  ASSUME ACSane, ACIInv, NEW c \in acCalls, AC!Answer(c) \/ AC!Download(c) \/ AC!Failed(c) PROVE ACIInv'
<1>1. ACShape
  BY DEF ACIInv
<1>2. /\ acAt[c] = "sent" /\ acCached' \subseteq AC!Paths
      /\ UNCHANGED <<AC!auth, AC!list, AC!limiter, acWaiting, acLogins>>
  BY <1>1 DEF AC!Answer, AC!Download, AC!Failed, ACShape, AC!TypeOK, AC!Paths
<1>3. {"next", "read", "failed", "asleep", "refresh", "login"} \subseteq AC!Labels \ {"queue"}
  BY DEF AC!Labels
<1>4. acSending[c] \in {"first", "fresh", "last"}
  BY <1>1 DEF ACShape, AC!TypeOK
<1>5. CASE AC!Go(c, "next") \/ AC!Go(c, "read") \/ AC!Go(c, "failed")
  BY <1>2, <1>3, <1>5, ACGoInv
<1>6. CASE AC!Rejected(c)
  <2>1. CASE acSending[c] = "first"
    BY <1>2, <1>3, <1>6, <2>1, ACGoInv DEF AC!Rejected, ACMayAsk
  <2>2. CASE acSending[c] = "fresh"
    BY <1>2, <1>3, <1>6, <2>2, ACGoInv DEF AC!Rejected, ACMayAsk
  <2>3. CASE acSending[c] = "last"
    BY <1>2, <1>3, <1>6, <2>3, ACGoInv DEF AC!Rejected
  <2>4. QED
    BY <1>4, <2>1, <2>2, <2>3
<1>7. CASE AC!Failed(c)
  <2>1. CASE acTries[c] < acMaxAttempts
    BY <1>2, <1>3, <1>7, <2>1, ACGoInv DEF AC!Failed
  <2>2. CASE ~(acTries[c] < acMaxAttempts)
    BY <1>2, <1>3, <1>7, <2>2, ACGoInv DEF AC!Failed
  <2>3. QED
    BY <2>1, <2>2
<1>8. QED
  BY <1>5, <1>6, <1>7 DEF AC!Answer, AC!Download

\* A further attempt queues like the first.
LEMMA ACWakeInv == ASSUME ACSane, ACIInv, NEW c \in acCalls, AC!Wake(c) PROVE ACIInv'
<1>1. ACShape /\ ACLoginInv(c) /\ ACTriesInv(c)
  BY DEF ACIInv
<1>2. /\ acAt[c] = "asleep" /\ acAt' = [acAt EXCEPT ![c] = "queue"] /\ acSending' = acSending
      /\ acTries' = [acTries EXCEPT ![c] = @ + 1] /\ acWaiting' = Append(acWaiting, c)
      /\ acPage' = acPage /\ acSeen' = acSeen /\ acBucket' = acBucket /\ acBurst' = acBurst
      /\ acCached' = acCached /\ acLogins' = acLogins
  BY DEF AC!Wake, AC!Enqueue, AC!Go, AC!list, AC!limiter
<1>3. acAt'[c] = "queue" /\ ACOthers(c)
  BY <1>1, <1>2 DEF ACOthers, ACShape, AC!TypeOK
<1>4. ACShape'
  <2>1. acTries' \in [acCalls -> 0..acMaxAttempts]
    BY <1>1, <1>2 DEF ACShape, AC!TypeOK, ACSane, ACTriesInv
  <2>2. acWaiting' \in Seq(acCalls) /\ acAt' \in [acCalls -> AC!Labels]
    BY <1>1, <1>2 DEF ACShape, AC!TypeOK, AC!Labels
  <2>3. QED
    BY <1>1, <1>2, <2>1, <2>2 DEF ACShape, AC!TypeOK
<1>5. ACLoginInv(c)' /\ ACTriesInv(c)'
  BY <1>1, <1>2, <1>3 DEF ACLoginInv, ACTriesInv, ACMayAsk
<1>6. QED
  BY <1>2, <1>3, <1>4, <1>5, ACCallStep

\* The next page, which allows one more login.
LEMMA ACPageInv == ASSUME ACSane, ACIInv, NEW c \in acCalls, AC!Page(c) PROVE ACIInv'
<1>1. ACShape /\ ACLoginInv(c)
  BY DEF ACIInv
<1>2. /\ acAt[c] = "next" /\ UNCHANGED <<AC!auth, AC!limiter, acWaiting, acCached, acLogins>>
  BY DEF AC!Page
<1>3. CASE AC!Go(c, "read") /\ UNCHANGED AC!list
  BY <1>1, <1>2, <1>3, ACGoInv DEF AC!Labels, ACShape, AC!TypeOK
<1>4. ASSUME NEW b \in acBookmarks, b \notin acSeen[c], AC!Go(c, "cache"),
             acSeen' = [acSeen EXCEPT ![c] = @ \cup {b}], acPage' = [acPage EXCEPT ![c] = b]
      PROVE  ACIInv'
  <2>1. /\ acAt' = [acAt EXCEPT ![c] = "cache"] /\ acSending' = acSending /\ acTries' = acTries
        /\ acBucket' = acBucket /\ acBurst' = acBurst
        /\ acWaiting' = acWaiting /\ acCached' = acCached /\ acLogins' = acLogins
    BY <1>2, <1>4 DEF AC!Go, AC!auth, AC!limiter
  <2>2. acAt'[c] = "cache" /\ ACOthers(c) /\ acSeen'[c] = acSeen[c] \cup {b}
    BY <1>1, <1>4, <2>1 DEF ACOthers, ACShape, AC!TypeOK
  <2>3. ACShape'
    BY <1>1, <1>4, <2>1 DEF ACShape, AC!TypeOK, AC!Labels, AC!Paths
  <2>4. /\ IsFiniteSet(acSeen[c] \cup {b}) /\ Cardinality(acSeen[c]) \in Nat
        /\ Cardinality(acSeen[c] \cup {b}) = Cardinality(acSeen[c]) + 1
    BY <1>1, <1>4, FS_AddElement, FS_CardinalityType DEF ACLoginInv
  <2>5. acLogins[c] <= Cardinality(acSeen[c]) + 1 /\ acLogins[c] \in Nat
    BY <1>1 DEF ACLoginInv, ACShape
  <2>6. ACLoginInv(c)' /\ ACTriesInv(c)'
    BY <2>1, <2>2, <2>4, <2>5 DEF ACLoginInv, ACTriesInv
  <2>7. QED
    BY <1>2, <2>1, <2>2, <2>3, <2>6, ACCallStep
<1>5. QED
  BY <1>3, <1>4 DEF AC!Page

\* The limiter serves the head of its queue.
LEMMA ACServeInv == ASSUME ACSane, ACIInv, AC!Serve PROVE ACIInv'
<1>1. /\ ACShape /\ ACQueued /\ ACRateInv
      /\ \A d \in acCalls : ACLoginInv(d) /\ ACTriesInv(d)
  BY DEF ACIInv
<1>2. /\ acWaiting # <<>> /\ acBucket > 0 /\ acBucket' = acBucket - 1 /\ acBurst' = acBurst + 1
      /\ acWaiting' = Tail(acWaiting) /\ acAt' = [acAt EXCEPT ![Head(acWaiting)] = "sent"]
      /\ acSending' = acSending /\ acTries' = acTries /\ acPage' = acPage /\ acSeen' = acSeen
      /\ acCached' = acCached /\ acLogins' = acLogins
  BY DEF AC!Serve, AC!Go, AC!auth, AC!list
<1>3. /\ acWaiting \in Seq(acCalls) /\ Len(acWaiting) \in Nat \ {0}
      /\ Head(acWaiting) = acWaiting[1]
      /\ acWaiting[1] \in acCalls /\ DOMAIN acWaiting = 1..Len(acWaiting)
      /\ 1 \in DOMAIN acWaiting
  BY <1>1, <1>2 DEF ACShape
<1>4. PICK c \in acCalls : c = acWaiting[1]
  BY <1>3
<1>5. /\ acWaiting' \in Seq(acCalls) /\ DOMAIN acWaiting' = 1..(Len(acWaiting) - 1)
      /\ \A k \in DOMAIN acWaiting' : acWaiting'[k] = acWaiting[k + 1] /\ k + 1 \in DOMAIN acWaiting
  BY <1>2, <1>3
<1>6. acAt[c] = "queue" /\ acAt'[c] = "sent" /\ \A d \in acCalls \ {c} : acAt'[d] = acAt[d]
  BY <1>1, <1>2, <1>3, <1>4 DEF ACQueued, ACShape, AC!TypeOK
<1>7. ACShape'
  <2>1. acBucket' \in 0..acCapacity /\ acBurst' \in Nat
    BY <1>1, <1>2 DEF ACShape, AC!TypeOK, ACSane
  <2>2. acAt' \in [acCalls -> AC!Labels]
    BY <1>1, <1>2 DEF ACShape, AC!TypeOK, AC!Labels
  <2>3. QED
    BY <1>1, <1>2, <1>5, <2>1, <2>2 DEF ACShape, AC!TypeOK
<1>8. ACQueued'
  <2>1. \A k \in DOMAIN acWaiting' : acWaiting'[k] \in acCalls \ {c}
    <3>1. SUFFICES ASSUME NEW k \in DOMAIN acWaiting' PROVE acWaiting[k + 1] \in acCalls \ {c}
      BY <1>5
    <3>2. k \in Nat \ {0} /\ k + 1 \in DOMAIN acWaiting /\ k + 1 # 1
      BY <1>3, <1>5
    <3>3. QED
      BY <1>1, <1>3, <1>4, <3>2 DEF ACQueued
  <2>2. \A k \in DOMAIN acWaiting' : acAt'[acWaiting'[k]] = "queue"
    BY <1>1, <1>5, <1>6, <2>1 DEF ACQueued
  <2>3. \A j, k \in DOMAIN acWaiting' : acWaiting'[j] = acWaiting'[k] => j = k
    <3>1. SUFFICES ASSUME NEW j \in DOMAIN acWaiting', NEW k \in DOMAIN acWaiting',
                          acWaiting'[j] = acWaiting'[k]
                   PROVE  j = k
      OBVIOUS
    <3>2. j + 1 = k + 1
      BY <1>1, <1>5, <3>1 DEF ACQueued
    <3>3. j \in Nat /\ k \in Nat
      BY <1>3, <1>5
    <3>4. QED
      BY <3>2, <3>3
  <2>4. QED
    BY <2>2, <2>3 DEF ACQueued
<1>9. ACRateInv'
  BY <1>1, <1>2 DEF ACRateInv, ACShape, AC!TypeOK, ACSane
<1>10. ASSUME NEW d \in acCalls PROVE ACLoginInv(d)' /\ ACTriesInv(d)'
  BY <1>1, <1>2, <1>6 DEF ACLoginInv, ACTriesInv, ACMayAsk
<1>11. QED
  BY <1>7, <1>8, <1>9, <1>10 DEF ACIInv

\* A token comes back, or a page is forgotten.
LEMMA ACRefillInv ==
  ASSUME ACSane, ACIInv, AC!Refill \/ \E p \in AC!Paths : AC!Forget(p) PROVE ACIInv'
<1>1. /\ ACShape /\ ACQueued /\ ACRateInv
      /\ \A d \in acCalls : ACLoginInv(d) /\ ACTriesInv(d)
  BY DEF ACIInv
<1>2. /\ acAt' = acAt /\ acSending' = acSending /\ acTries' = acTries /\ acPage' = acPage
      /\ acSeen' = acSeen
      /\ acWaiting' = acWaiting /\ acLogins' = acLogins /\ acCached' \subseteq AC!Paths
  BY <1>1 DEF AC!Refill, AC!Forget, AC!auth, AC!list, ACShape, AC!TypeOK, AC!Paths
<1>3. acBucket' \in 0..acCapacity /\ acBurst' \in Nat /\ acBurst' + acBucket' <= acCapacity
  <2>1. acBucket \in 0..acCapacity /\ acBurst \in Nat /\ acBurst + acBucket <= acCapacity /\ acCapacity \in Nat
    BY <1>1 DEF ACShape, AC!TypeOK, ACRateInv, ACSane
  <2>2. CASE AC!Refill
    <3>1. CASE acBucket < acCapacity /\ acBurst > 0
      BY <2>1, <2>2, <3>1 DEF AC!Refill
    <3>2. CASE acBucket < acCapacity /\ ~(acBurst > 0)
      BY <2>1, <2>2, <3>2 DEF AC!Refill
    <3>3. CASE ~(acBucket < acCapacity)
      BY <2>1, <2>2, <3>3 DEF AC!Refill
    <3>4. QED
      BY <3>1, <3>2, <3>3
  <2>3. CASE \E p \in AC!Paths : AC!Forget(p)
    BY <2>1, <2>3 DEF AC!Forget, AC!limiter
  <2>4. QED
    BY <2>2, <2>3
<1>4. ACShape' /\ ACQueued' /\ ACRateInv'
  BY <1>1, <1>2, <1>3 DEF ACShape, AC!TypeOK, ACQueued, ACRateInv
<1>5. QED
  BY <1>1, <1>2, <1>4 DEF ACIInv, ACLoginInv, ACTriesInv, ACMayAsk

\* At first nobody asks, and the bucket is full.
LEMMA ACInitInv == ACSane /\ AC!Init => ACIInv
<1> SUFFICES ASSUME ACSane, AC!Init PROVE ACIInv
  OBVIOUS
<1>1. /\ acAt = [c \in acCalls |-> "start"] /\ acSending = [c \in acCalls |-> "first"]
      /\ acTries = [c \in acCalls |-> 0] /\ acPage = [c \in acCalls |-> acFirstPage]
      /\ acSeen = [c \in acCalls |-> {}] /\ acBucket = acCapacity /\ acWaiting = <<>>
      /\ acCached = {}
      /\ acLogins = [c \in acCalls |-> 0] /\ acBurst = 0
  BY DEF AC!Init
<1>2. ACShape
  BY <1>1 DEF ACShape, AC!TypeOK, AC!Labels, AC!Paths, ACSane
<1>3. ACQueued /\ ACRateInv
  BY <1>1 DEF ACQueued, ACRateInv, ACSane
<1>4. \A c \in acCalls : ACLoginInv(c) /\ ACTriesInv(c)
  <2>1. IsFiniteSet({}) /\ Cardinality({}) = 0
    BY FS_EmptySet
  <2>2. QED
    BY <1>1, <2>1 DEF ACLoginInv, ACTriesInv
<1>5. QED
  BY <1>2, <1>3, <1>4 DEF ACIInv

\* Every step keeps the invariant.
LEMMA ACNextInv == ACSane /\ ACIInv /\ [AC!Next]_(AC!vars) => ACIInv'
<1> SUFFICES ASSUME ACSane, ACIInv, [AC!Next]_(AC!vars) PROVE ACIInv'
  OBVIOUS
<1>1. ASSUME NEW c \in acCalls, AC!Step(c) PROVE ACIInv'
  BY <1>1, ACAskInv, ACLoginStepInv, ACAnswerInv, ACWakeInv, ACPageInv DEF AC!Step
<1>2. CASE UNCHANGED AC!vars
  BY <1>2 DEF AC!vars, ACIInv, ACShape, AC!TypeOK, ACQueued, ACRateInv, ACLoginInv,
     ACTriesInv, ACMayAsk
<1>3. QED
  BY <1>1, <1>2, ACServeInv, ACRefillInv DEF AC!Next

\* What the invariant says of logins and of the rate.
LEMMA ACConsequences ==
  ASSUME ACSane, ACIInv
  PROVE AC!TypeOK /\ AC!OneLoginPerPage /\ AC!RatePromised
<1>1. AC!TypeOK /\ AC!OneLoginPerPage
  BY ACCard DEF ACIInv, ACShape, ACLoginInv, AC!OneLoginPerPage
<1>2. AC!RatePromised
  BY DEF ACIInv, ACShape, AC!TypeOK, ACRateInv, AC!RatePromised, ACSane
<1>3. QED
  BY <1>1, <1>2

-----------------------------------------------------------------------------
(* The administrator's commands: Host *)

\* What is assumed of the constants: rivals are pairs of different users, and Nil is
\* neither a command nor a user.
HOSane ==
  /\ \A pair \in hoRivals : \E u, v \in hoUsers : u # v /\ pair = {u, v}
  /\ HO!Nil \notin hoCommands /\ HO!Nil \notin hoUsers

\* The places of a command.
HOPlaces == {"idle", "init", "render", "start", "stop", "add", "made", "provisioned",
           "listed", "starting", "stopping", "over"}

HOShape ==
  /\ HO!TypeOK
  /\ hoAt \in [hoCommands -> HOPlaces] /\ hoAdds \in [hoCommands -> hoUsers \cup {HO!Nil}]
  /\ hoKnows \in [hoCommands -> SUBSET hoUsers]

\* A command that works, or whose docker works, has the lock file.
HOLockInv(c) ==
  /\ hoAt[c] \notin {"idle", "over"} /\ c \notin hoKilled => hoLock = c
  /\ hoChild[c] # HO!Nil => hoLock = c /\ hoAt[c] \in {"starting", "stopping"}
  /\ hoChild[c] = "up" => hoAt[c] = "starting"

\* A command that adds a user knows what is listed, and that the user fits.
HOAddInv(c) ==
  /\ hoAt[c] \in {"add", "made", "provisioned", "listed"} => hoAdds[c] \in hoUsers
  /\ hoAt[c] \in {"made", "provisioned"} /\ c \notin hoKilled =>
       /\ hoManifest.mode # HO!Nil /\ hoKnows[c] = hoManifest.users
       /\ hoAdds[c] \notin hoManifest.users
       /\ \A other \in hoManifest.users : {hoAdds[c], other} \notin hoRivals
  /\ hoAt[c] = "provisioned" /\ c \notin hoKilled => hoHome[hoAdds[c]] = "ready"
  /\ hoAt[c] = "listed" /\ c \notin hoKilled => hoAdds[c] \in hoManifest.users

\* Docker starts what the files say.
HOStartInv(c) ==
  hoAt[c] = "starting" /\ hoChild[c] # HO!Nil =>
    hoKnows[c] = hoManifest.users /\ hoCompose = hoManifest.users

\* The users that are listed, and those that are answered for and run.
HOListInv ==
  /\ hoManifest.mode = HO!Nil => hoManifest.users = {}
  /\ \A u \in hoManifest.users : hoHome[u] = "ready"
  /\ \A pair \in hoRivals : ~(pair \subseteq hoManifest.users)
  /\ hoAdded \subseteq hoManifest.users /\ hoRunning \subseteq hoManifest.users

\* The inductive invariant of the host.
HOIInv ==
  /\ HOShape /\ HOListInv
  /\ \A c \in hoCommands : HOLockInv(c) /\ HOAddInv(c) /\ HOStartInv(c)

\* What is left as it is of the other commands.
HOOthers(c) ==
  \A d \in hoCommands \ {c} :
    hoAt'[d] = hoAt[d] /\ hoAdds'[d] = hoAdds[d] /\ hoKnows'[d] = hoKnows[d] /\ hoChild'[d] = hoChild[d]

\* While a command has the lock, the others are not at work, nor is their docker.
LEMMA HOOthersRest ==
  ASSUME HOIInv, NEW c \in hoCommands, hoLock = c, NEW d \in hoCommands, d # c
  PROVE  hoChild[d] = HO!Nil /\ (d \in hoKilled \/ hoAt[d] \in {"idle", "over"})
  BY DEF HOIInv, HOLockInv

\* What the holder of the lock does keeps the invariant if it keeps what is said of the
\* holder and of the files.
LEMMA HOHolderStep ==
  ASSUME HOSane, HOIInv, NEW c \in hoCommands, hoLock = c, hoLock' \in {c, HO!Nil}, hoKilled' = hoKilled,
         HOOthers(c), HOShape', HOListInv', HOLockInv(c)', HOAddInv(c)', HOStartInv(c)'
  PROVE  HOIInv'
<1>1. ASSUME NEW d \in hoCommands, d # c PROVE HOLockInv(d)' /\ HOAddInv(d)' /\ HOStartInv(d)'
  <2>1. hoChild[d] = HO!Nil /\ (d \in hoKilled \/ hoAt[d] \in {"idle", "over"})
    BY <1>1, HOOthersRest
  <2>2. HOAddInv(d)
    BY DEF HOIInv
  <2>3. hoAt'[d] = hoAt[d] /\ hoAdds'[d] = hoAdds[d] /\ hoChild'[d] = HO!Nil
    BY <1>1, <2>1 DEF HOOthers
  <2>4. HOLockInv(d)' /\ HOStartInv(d)'
    BY <2>1, <2>3 DEF HOLockInv, HOStartInv, HO!Nil
  <2>5. HOAddInv(d)'
    BY <2>1, <2>2, <2>3 DEF HOAddInv
  <2>6. QED
    BY <2>4, <2>5
<1>2. QED
  BY <1>1 DEF HOIInv

\* The end of a command.
LEMMA HOFinishInv ==
  ASSUME HOSane, HOIInv, NEW c \in hoCommands, hoLock = c, c \notin hoKilled, HO!Finish(c), hoKilled' = hoKilled,
         hoChild' \in [hoCommands -> {HO!Nil, "up", "stop", "inspect"}], hoChild'[c] = HO!Nil,
         \A d \in hoCommands \ {c} : hoChild'[d] = hoChild[d],
         hoManifest' \in [mode : {HO!Nil, "single", "multi"}, users : SUBSET hoUsers],
         hoCompose' \in (SUBSET hoUsers) \cup {HO!NoFile}, hoHome' = hoHome, hoRunning' = hoRunning,
         hoAdded' \subseteq hoUsers, HOListInv'
  PROVE  HOIInv'
<1>1. HOShape
  BY DEF HOIInv
<1>2. /\ hoAt' = [hoAt EXCEPT ![c] = "over"] /\ hoLock' = HO!Nil
      /\ hoAdds' = [hoAdds EXCEPT ![c] = HO!Nil] /\ hoKnows' = [hoKnows EXCEPT ![c] = {}]
  BY DEF HO!Finish
<1>3. hoAt'[c] = "over" /\ HOOthers(c)
  BY <1>1, <1>2 DEF HOOthers, HOShape
<1>4. HOShape'
  BY <1>1, <1>2 DEF HOShape, HO!TypeOK, HOPlaces
<1>5. HOLockInv(c)' /\ HOAddInv(c)' /\ HOStartInv(c)'
  BY <1>2, <1>3 DEF HOLockInv, HOAddInv, HOStartInv, HO!Nil
<1>6. QED
  BY <1>2, <1>3, <1>4, <1>5, HOHolderStep

\* A command begins, or finds the lock taken.
LEMMA HOBeginInv == ASSUME HOSane, HOIInv, NEW c \in hoCommands, HO!Begin(c) PROVE HOIInv'
<1>1. HOShape /\ HOListInv /\ \A d \in hoCommands : HOLockInv(d) /\ HOAddInv(d) /\ HOStartInv(d)
  BY DEF HOIInv
<1>2. /\ hoAt[c] = "idle" /\ c \notin hoKilled
      /\ hoManifest' = hoManifest /\ hoCompose' = hoCompose /\ hoHome' = hoHome
      /\ hoRunning' = hoRunning
      /\ hoChild' = hoChild /\ hoKnows' = hoKnows /\ hoStopping' = hoStopping
      /\ hoKilled' = hoKilled
      /\ hoAdded' = hoAdded
  BY DEF HO!Begin, HO!files, HO!docker, HO!life
<1>3. hoChild[c] = HO!Nil
  BY <1>1, <1>2 DEF HOLockInv
<1>4. CASE hoLock # HO!Nil
  <2>1. hoAt' = [hoAt EXCEPT ![c] = "over"] /\ hoLock' = hoLock /\ hoAdds' = hoAdds
    BY <1>4 DEF HO!Begin
  <2>2. hoAt'[c] = "over" /\ \A d \in hoCommands \ {c} : hoAt'[d] = hoAt[d]
    BY <1>1, <2>1 DEF HOShape
  <2>3. HOShape' /\ HOListInv'
    BY <1>1, <1>2, <2>1 DEF HOShape, HO!TypeOK, HOListInv, HOPlaces
  <2>4. ASSUME NEW d \in hoCommands PROVE HOLockInv(d)' /\ HOAddInv(d)' /\ HOStartInv(d)'
    <3>1. CASE d = c
      <4>1. hoAt'[d] = "over" /\ hoChild'[d] = HO!Nil
        BY <1>2, <1>3, <2>2, <3>1
      <4>2. QED
        BY <4>1 DEF HOLockInv, HOAddInv, HOStartInv, HO!Nil
    <3>2. CASE d # c
      BY <1>1, <1>2, <2>1, <2>2, <3>2 DEF HOLockInv, HOAddInv, HOStartInv
    <3>3. QED
      BY <3>1, <3>2
  <2>5. QED
    BY <2>3, <2>4 DEF HOIInv
<1>5. CASE hoLock = HO!Nil
  <2>1. PICK command \in {"init", "render", "start", "stop", "add"}, u \in hoUsers \cup {HO!Nil} :
          /\ hoLock' = c /\ hoAt' = [hoAt EXCEPT ![c] = command]
          /\ \/ command = "add" /\ u \in hoUsers /\ hoAdds' = [hoAdds EXCEPT ![c] = u]
             \/ command # "add" /\ hoAdds' = hoAdds
    <3>1. /\ hoLock' = c
          /\ \/ \E command \in {"init", "render", "start", "stop"} :
                  hoAt' = [hoAt EXCEPT ![c] = command] /\ hoAdds' = hoAdds
             \/ \E u \in hoUsers :
                  hoAt' = [hoAt EXCEPT ![c] = "add"] /\ hoAdds' = [hoAdds EXCEPT ![c] = u]
      BY <1>5 DEF HO!Begin
    <3>2. CASE \E command \in {"init", "render", "start", "stop"} :
                 hoAt' = [hoAt EXCEPT ![c] = command] /\ hoAdds' = hoAdds
      BY <3>1, <3>2
    <3>3. CASE \E u \in hoUsers :
                 hoAt' = [hoAt EXCEPT ![c] = "add"] /\ hoAdds' = [hoAdds EXCEPT ![c] = u]
      <4>1. PICK u \in hoUsers : hoAt' = [hoAt EXCEPT ![c] = "add"] /\ hoAdds' = [hoAdds EXCEPT ![c] = u]
        BY <3>3
      <4>2. WITNESS "add" \in {"init", "render", "start", "stop", "add"}, u \in hoUsers \cup {HO!Nil}
      <4>3. QED
        BY <3>1, <4>1
    <3>4. QED
      BY <3>1, <3>2, <3>3
  <2>2. /\ hoAt'[c] = command /\ \A d \in hoCommands \ {c} : hoAt'[d] = hoAt[d] /\ hoAdds'[d] = hoAdds[d]
        /\ command = "add" => hoAdds'[c] \in hoUsers
    BY <1>1, <2>1 DEF HOShape
  <2>3. HOShape' /\ HOListInv'
    <3>1. hoAt' \in [hoCommands -> HOPlaces] /\ hoAdds' \in [hoCommands -> hoUsers \cup {HO!Nil}]
      BY <1>1, <2>1 DEF HOShape, HOPlaces
    <3>2. QED
      BY <1>1, <1>2, <2>1, <3>1 DEF HOShape, HO!TypeOK, HOListInv
  <2>4. ASSUME NEW d \in hoCommands PROVE HOLockInv(d)' /\ HOAddInv(d)' /\ HOStartInv(d)'
    <3>1. CASE d = c
      <4>1. hoAt'[d] = command /\ hoChild'[d] = HO!Nil /\ hoLock' = c
        BY <1>2, <1>3, <2>1, <2>2, <3>1
      <4>2. QED
        BY <2>2, <3>1, <4>1 DEF HOLockInv, HOAddInv, HOStartInv, HO!Nil
    <3>2. CASE d # c
      BY <1>1, <1>2, <1>5, <2>2, <3>2 DEF HOLockInv, HOAddInv, HOStartInv, HOSane
    <3>3. QED
      BY <3>1, <3>2
  <2>5. QED
    BY <2>3, <2>4 DEF HOIInv
<1>6. QED
  BY <1>4, <1>5

\* A host is made, once.
LEMMA HOInitializeInv ==
  ASSUME HOSane, HOIInv, NEW c \in hoCommands, HO!Initialize(c)
  PROVE HOIInv'
<1>1. HOShape /\ HOListInv /\ HOLockInv(c)
  BY DEF HOIInv
<1>2. /\ hoAt[c] = "init" /\ c \notin hoKilled /\ hoManifest.mode = HO!Nil /\ HO!Finish(c)
      /\ hoCompose' = hoCompose /\ hoHome' = hoHome /\ hoRunning' = hoRunning
      /\ hoChild' = hoChild
      /\ hoKilled' = hoKilled /\ hoAdded' = hoAdded
  BY DEF HO!Initialize, HO!docker, HO!life
<1>3. PICK mode \in {"single", "multi"} : hoManifest' = [mode |-> mode, users |-> {}]
  BY DEF HO!Initialize
<1>4. hoLock = c /\ hoChild[c] = HO!Nil
  BY <1>1, <1>2 DEF HOLockInv
<1>5. hoManifest' \in [mode : {HO!Nil, "single", "multi"}, users : SUBSET hoUsers]
  BY <1>3
<1>6. HOListInv'
  <2>1. hoManifest.users = {} /\ hoManifest'.users = {} /\ hoManifest'.mode # HO!Nil
    BY <1>1, <1>2, <1>3 DEF HOListInv, HO!Nil
  <2>2. \A pair \in hoRivals : ~(pair \subseteq {})
    BY DEF HOSane
  <2>3. QED
    BY <1>1, <1>2, <2>1, <2>2 DEF HOListInv
<1>7. QED
  BY <1>1, <1>2, <1>4, <1>5, <1>6, HOFinishInv DEF HOShape, HO!TypeOK

\* A directory is made for the user, who is not listed and rivals nobody who is.
LEMMA HOMakeHomeInv ==
  ASSUME HOSane, HOIInv, NEW c \in hoCommands, HO!MakeHome(c)
  PROVE HOIInv'
<1>1. HOShape /\ HOListInv /\ HOLockInv(c) /\ HOAddInv(c)
  BY DEF HOIInv
<1>2. /\ hoAt[c] = "add" /\ c \notin hoKilled /\ HO!isValid(hoManifest)
      /\ hoAdds[c] \notin hoManifest.users
      /\ \A other \in hoManifest.users : {hoAdds[c], other} \notin hoRivals
      /\ hoHome' = [hoHome EXCEPT ![hoAdds[c]] = "partial"]
      /\ hoKnows' = [hoKnows EXCEPT ![c] = hoManifest.users]
      /\ hoAt' = [hoAt EXCEPT ![c] = "made"]
      /\ hoLock' = hoLock /\ hoManifest' = hoManifest /\ hoCompose' = hoCompose
      /\ hoRunning' = hoRunning
      /\ hoChild' = hoChild /\ hoAdds' = hoAdds /\ hoKilled' = hoKilled /\ hoAdded' = hoAdded
  BY DEF HO!MakeHome, HO!docker, HO!life
<1>3. hoLock = c /\ hoChild[c] = HO!Nil /\ hoAdds[c] \in hoUsers /\ hoManifest.users \subseteq hoUsers
  BY <1>1, <1>2 DEF HOLockInv, HOAddInv, HOShape, HO!TypeOK
<1>4. /\ hoAt'[c] = "made" /\ hoKnows'[c] = hoManifest.users /\ HOOthers(c)
      /\ \A u \in hoManifest.users : hoHome'[u] = hoHome[u]
  BY <1>1, <1>2, <1>3 DEF HOOthers, HOShape, HO!TypeOK
<1>5. HOShape'
  <2>1. /\ hoAt' \in [hoCommands -> HOPlaces] /\ hoKnows' \in [hoCommands -> SUBSET hoUsers]
        /\ hoHome' \in [hoUsers -> {"none", "partial", "ready"}]
    BY <1>1, <1>2, <1>3 DEF HOShape, HO!TypeOK, HOPlaces
  <2>2. QED
    BY <1>1, <1>2, <2>1 DEF HOShape, HO!TypeOK
<1>6. HOListInv'
  BY <1>1, <1>2, <1>4 DEF HOListInv
<1>7. HOLockInv(c)' /\ HOAddInv(c)' /\ HOStartInv(c)'
  <2>1. hoChild'[c] = HO!Nil /\ hoLock' = c /\ hoAdds'[c] = hoAdds[c] /\ hoManifest.mode # HO!Nil
    BY <1>2, <1>3 DEF HO!isValid
  <2>2. QED
    BY <1>2, <1>3, <1>4, <2>1 DEF HOLockInv, HOAddInv, HOStartInv, HO!Nil
<1>8. QED
  BY <1>2, <1>3, <1>4, <1>5, <1>6, <1>7, HOHolderStep

\* The home is completed.
LEMMA HOProvisionInv ==
  ASSUME HOSane, HOIInv, NEW c \in hoCommands, HO!Provision(c)
  PROVE HOIInv'
<1>1. HOShape /\ HOListInv /\ HOLockInv(c) /\ HOAddInv(c)
  BY DEF HOIInv
<1>2. /\ hoAt[c] = "made" /\ c \notin hoKilled
      /\ hoHome' = [hoHome EXCEPT ![hoAdds[c]] = "ready"]
      /\ hoAt' = [hoAt EXCEPT ![c] = "provisioned"]
      /\ hoLock' = hoLock /\ hoManifest' = hoManifest /\ hoCompose' = hoCompose
      /\ hoRunning' = hoRunning
      /\ hoChild' = hoChild /\ hoAdds' = hoAdds /\ hoKnows' = hoKnows /\ hoKilled' = hoKilled
      /\ hoAdded' = hoAdded
  BY DEF HO!Provision, HO!docker, HO!life
<1>3. hoLock = c /\ hoChild[c] = HO!Nil /\ hoAdds[c] \in hoUsers /\ hoManifest.users \subseteq hoUsers
  BY <1>1, <1>2 DEF HOLockInv, HOAddInv, HOShape, HO!TypeOK
<1>4. /\ hoAt'[c] = "provisioned" /\ HOOthers(c) /\ hoHome'[hoAdds[c]] = "ready"
      /\ \A u \in hoManifest.users : hoHome'[u] = "ready"
  BY <1>1, <1>2, <1>3 DEF HOOthers, HOShape, HO!TypeOK, HOListInv
<1>5. HOShape'
  <2>1. /\ hoAt' \in [hoCommands -> HOPlaces]
        /\ hoHome' \in [hoUsers -> {"none", "partial", "ready"}]
    BY <1>1, <1>2, <1>3 DEF HOShape, HO!TypeOK, HOPlaces
  <2>2. QED
    BY <1>1, <1>2, <2>1 DEF HOShape, HO!TypeOK
<1>6. HOListInv'
  BY <1>1, <1>2, <1>4 DEF HOListInv
<1>7. HOLockInv(c)' /\ HOAddInv(c)' /\ HOStartInv(c)'
  BY <1>1, <1>2, <1>3, <1>4 DEF HOLockInv, HOAddInv, HOStartInv
<1>8. QED
  BY <1>2, <1>3, <1>4, <1>5, <1>6, <1>7, HOHolderStep

\* The user is listed.
LEMMA HOListStepInv ==
  ASSUME HOSane, HOIInv, NEW c \in hoCommands, HO!List(c)
  PROVE HOIInv'
<1>1. HOShape /\ HOListInv /\ HOLockInv(c) /\ HOAddInv(c)
  BY DEF HOIInv
<1>2. /\ hoAt[c] = "provisioned" /\ c \notin hoKilled
      /\ hoManifest' = [hoManifest EXCEPT !.users = hoKnows[c] \cup {hoAdds[c]}]
      /\ hoAt' = [hoAt EXCEPT ![c] = "listed"]
      /\ hoLock' = hoLock /\ hoCompose' = hoCompose /\ hoHome' = hoHome
      /\ hoRunning' = hoRunning
      /\ hoChild' = hoChild /\ hoAdds' = hoAdds /\ hoKnows' = hoKnows /\ hoKilled' = hoKilled
      /\ hoAdded' = hoAdded
  BY DEF HO!List, HO!docker, HO!life
<1>3. /\ hoLock = c /\ hoChild[c] = HO!Nil /\ hoAdds[c] \in hoUsers
      /\ hoManifest.users \subseteq hoUsers
      /\ hoKnows[c] = hoManifest.users /\ hoManifest.mode # HO!Nil
      /\ hoHome[hoAdds[c]] = "ready"
      /\ \A other \in hoManifest.users : {hoAdds[c], other} \notin hoRivals
  BY <1>1, <1>2 DEF HOLockInv, HOAddInv, HOShape, HO!TypeOK
<1>4. hoManifest'.mode = hoManifest.mode /\ hoManifest'.users = hoManifest.users \cup {hoAdds[c]}
  BY <1>1, <1>2, <1>3 DEF HOShape, HO!TypeOK
<1>5. hoAt'[c] = "listed" /\ HOOthers(c)
  BY <1>1, <1>2 DEF HOOthers, HOShape
<1>6. HOShape'
  <2>1. /\ hoAt' \in [hoCommands -> HOPlaces]
        /\ hoManifest' \in [mode : {HO!Nil, "single", "multi"}, users : SUBSET hoUsers]
    BY <1>1, <1>2, <1>3 DEF HOShape, HO!TypeOK, HOPlaces
  <2>2. QED
    BY <1>1, <1>2, <2>1 DEF HOShape, HO!TypeOK
<1>7. \A pair \in hoRivals : ~(pair \subseteq hoManifest.users \cup {hoAdds[c]})
  <2>1. SUFFICES ASSUME NEW pair \in hoRivals, pair \subseteq hoManifest.users \cup {hoAdds[c]}
                 PROVE  FALSE
    OBVIOUS
  <2>2. PICK u, v \in hoUsers : u # v /\ pair = {u, v}
    BY DEF HOSane
  <2>3. ~(pair \subseteq hoManifest.users)
    BY <1>1 DEF HOListInv
  <2>4. \/ u = hoAdds[c] /\ v \in hoManifest.users
        \/ v = hoAdds[c] /\ u \in hoManifest.users
    BY <2>1, <2>2, <2>3
  <2>5. pair = {hoAdds[c], u} \/ pair = {hoAdds[c], v}
    BY <2>2, <2>4
  <2>6. QED
    BY <1>3, <2>2, <2>4
<1>8. HOListInv'
  BY <1>1, <1>2, <1>3, <1>4, <1>7 DEF HOListInv
<1>9. HOLockInv(c)' /\ HOAddInv(c)' /\ HOStartInv(c)'
  <2>1. hoChild'[c] = HO!Nil /\ hoLock' = c /\ hoAdds'[c] \in hoManifest'.users /\ hoAdds'[c] \in hoUsers
    BY <1>2, <1>3, <1>4
  <2>2. QED
    BY <1>5, <2>1 DEF HOLockInv, HOAddInv, HOStartInv, HO!Nil
<1>10. QED
  BY <1>2, <1>3, <1>5, <1>6, <1>8, <1>9, HOHolderStep

\* compose.json is rendered, which ends the command and answers an add.
LEMMA HORenderInv ==
  ASSUME HOSane, HOIInv, NEW c \in hoCommands, HO!Render(c)
  PROVE HOIInv'
<1>1. HOShape /\ HOListInv /\ HOLockInv(c) /\ HOAddInv(c)
  BY DEF HOIInv
<1>2. /\ hoAt[c] \in {"render", "listed"} /\ c \notin hoKilled
      /\ hoCompose' = hoManifest.users /\ HO!Finish(c)
      /\ hoAdded' = IF hoAt[c] = "listed" THEN hoAdded \cup {hoAdds[c]} ELSE hoAdded
      /\ hoManifest' = hoManifest /\ hoHome' = hoHome /\ hoRunning' = hoRunning
      /\ hoChild' = hoChild
      /\ hoKilled' = hoKilled
  BY DEF HO!Render, HO!rendered, HO!docker, HO!life
<1>3. hoLock = c /\ hoChild[c] = HO!Nil
  BY <1>1, <1>2 DEF HOLockInv
<1>4. HOListInv' /\ hoAdded' \subseteq hoUsers
  BY <1>1, <1>2 DEF HOListInv, HOAddInv, HOShape, HO!TypeOK
<1>5. QED
  BY <1>1, <1>2, <1>3, <1>4, HOFinishInv DEF HOShape, HO!TypeOK

\* A command fails.
LEMMA HOFailInv == ASSUME HOSane, HOIInv, NEW c \in hoCommands, HO!Fail(c) PROVE HOIInv'
<1>1. HOShape /\ HOListInv /\ HOLockInv(c)
  BY DEF HOIInv
<1>2. /\ hoAt[c] \notin {"idle", "over"} /\ c \notin hoKilled /\ hoChild[c] = HO!Nil
      /\ HO!Finish(c)
      /\ hoManifest' = hoManifest /\ hoCompose' = hoCompose /\ hoHome' = hoHome
      /\ hoRunning' = hoRunning
      /\ hoChild' = hoChild /\ hoKilled' = hoKilled /\ hoAdded' = hoAdded
  BY DEF HO!Fail, HO!files, HO!docker, HO!life
<1>3. hoLock = c
  BY <1>1, <1>2 DEF HOLockInv
<1>4. HOListInv'
  BY <1>1, <1>2 DEF HOListInv
<1>5. QED
  BY <1>1, <1>2, <1>3, <1>4, HOFinishInv DEF HOShape, HO!TypeOK

\* Docker is told to start or to stop.
LEMMA HOSpawnInv ==
  ASSUME HOSane, HOIInv, NEW c \in hoCommands, HO!Start(c) \/ HO!Stop(c)
  PROVE HOIInv'
<1>1. HOShape /\ HOListInv /\ HOLockInv(c)
  BY DEF HOIInv
<1>2. /\ hoAt[c] \in {"start", "stop"} /\ c \notin hoKilled
      /\ hoLock' = hoLock /\ hoManifest' = hoManifest /\ hoCompose' = hoCompose
      /\ hoHome' = hoHome
      /\ hoRunning' = hoRunning /\ hoAdds' = hoAdds /\ hoKilled' = hoKilled
      /\ hoAdded' = hoAdded
  BY DEF HO!Start, HO!Stop, HO!Spawn, HO!files, HO!life
<1>3. hoLock = c
  BY <1>1, <1>2 DEF HOLockInv
<1>4. \/ /\ hoChild' = [hoChild EXCEPT ![c] = "up"] /\ hoAt' = [hoAt EXCEPT ![c] = "starting"]
         /\ hoKnows' = [hoKnows EXCEPT ![c] = hoManifest.users] /\ hoCompose = hoManifest.users
      \/ /\ hoChild' = [hoChild EXCEPT ![c] = "stop"] /\ hoAt' = [hoAt EXCEPT ![c] = "stopping"]
         /\ hoKnows' = hoKnows
  BY DEF HO!Start, HO!Stop, HO!Spawn, HO!audited, HO!rendered
<1>5. /\ HOOthers(c)
      /\ \/ hoChild'[c] = "up" /\ hoAt'[c] = "starting" /\ hoKnows'[c] = hoManifest.users
            /\ hoCompose = hoManifest.users
         \/ hoChild'[c] = "stop" /\ hoAt'[c] = "stopping"
  BY <1>1, <1>2, <1>4 DEF HOOthers, HOShape, HO!TypeOK
<1>6. HOShape'
  <2>1. /\ hoAt' \in [hoCommands -> HOPlaces] /\ hoKnows' \in [hoCommands -> SUBSET hoUsers]
        /\ hoChild' \in [hoCommands -> {HO!Nil, "up", "stop", "inspect"}]
    BY <1>1, <1>4 DEF HOShape, HO!TypeOK, HOPlaces
  <2>2. QED
    BY <1>1, <1>2, <2>1 DEF HOShape, HO!TypeOK
<1>7. HOListInv'
  BY <1>1, <1>2 DEF HOListInv
<1>8. HOLockInv(c)' /\ HOAddInv(c)' /\ HOStartInv(c)'
  BY <1>2, <1>3, <1>5 DEF HOLockInv, HOAddInv, HOStartInv
<1>9. QED
  BY <1>2, <1>3, <1>5, <1>6, <1>7, <1>8, HOHolderStep

\* What docker or the operator does to containers.
LEMMA HOContainerInv ==
  ASSUME HOSane, HOIInv, (\E c \in hoCommands : HO!Container(c)) \/ (\E u \in hoUsers : HO!StopOne(u))
  PROVE  HOIInv'
<1>1. HOShape /\ HOListInv /\ \A c \in hoCommands : HOLockInv(c) /\ HOAddInv(c) /\ HOStartInv(c)
  BY DEF HOIInv
<1>2. /\ hoLock' = hoLock /\ hoManifest' = hoManifest /\ hoCompose' = hoCompose
      /\ hoHome' = hoHome /\ hoAt' = hoAt
      /\ hoAdds' = hoAdds /\ hoKnows' = hoKnows /\ hoChild' = hoChild /\ hoKilled' = hoKilled
      /\ hoAdded' = hoAdded
  BY DEF HO!Container, HO!StopOne, HO!files, HO!life
<1>3. hoRunning' \subseteq hoManifest.users
  <2>1. ASSUME NEW c \in hoCommands, HO!Container(c) PROVE hoRunning' \subseteq hoManifest.users
    <3>1. CASE hoChild[c] = "up"
      <4>1. hoCompose = hoManifest.users
        BY <1>1, <3>1 DEF HOLockInv, HOStartInv, HO!Nil
      <4>2. QED
        BY <1>1, <2>1, <3>1, <4>1 DEF HO!Container, HOListInv
    <3>2. CASE hoChild[c] # "up"
      BY <1>1, <2>1, <3>2 DEF HO!Container, HOListInv
    <3>3. QED
      BY <3>1, <3>2
  <2>2. ASSUME NEW u \in hoUsers, HO!StopOne(u) PROVE hoRunning' \subseteq hoManifest.users
    BY <1>1, <2>2 DEF HO!StopOne, HOListInv
  <2>3. QED
    BY <2>1, <2>2
<1>4. HOShape' /\ HOListInv'
  BY <1>1, <1>2, <1>3 DEF HOShape, HO!TypeOK, HOListInv
<1>5. QED
  BY <1>1, <1>2, <1>4 DEF HOIInv, HOLockInv, HOAddInv, HOStartInv

\* The docker command exits.
LEMMA HOExitInv == ASSUME HOSane, HOIInv, NEW c \in hoCommands, HO!Exit(c) PROVE HOIInv'
<1>1. HOShape /\ HOListInv /\ HOLockInv(c) /\ HOAddInv(c) /\ HOStartInv(c)
  BY DEF HOIInv
<1>2. /\ hoChild[c] # HO!Nil /\ hoManifest' = hoManifest /\ hoCompose' = hoCompose
      /\ hoHome' = hoHome
      /\ hoRunning' = hoRunning /\ hoKilled' = hoKilled /\ hoAdded' = hoAdded
  BY DEF HO!Exit, HO!Spawn, HO!files, HO!life
<1>3. hoLock = c /\ HOListInv'
  BY <1>1, <1>2 DEF HOLockInv, HOListInv
<1>4. CASE hoChild[c] = "up" /\ HO!Spawn(c, "inspect") /\ UNCHANGED <<hoLock, hoAt, hoAdds, hoKnows>>
  <2>1. hoChild' = [hoChild EXCEPT ![c] = "inspect"]
    BY <1>4 DEF HO!Spawn
  <2>2. hoChild'[c] = "inspect" /\ HOOthers(c)
    BY <1>1, <1>4, <2>1 DEF HOOthers, HOShape, HO!TypeOK
  <2>3. HOShape'
    BY <1>1, <1>2, <1>4, <2>1 DEF HOShape, HO!TypeOK
  <2>4. HOLockInv(c)' /\ HOAddInv(c)' /\ HOStartInv(c)'
    BY <1>1, <1>2, <1>3, <1>4, <2>2 DEF HOLockInv, HOAddInv, HOStartInv
  <2>5. QED
    BY <1>2, <1>3, <1>4, <2>2, <2>3, <2>4, HOHolderStep
<1>5. CASE /\ hoChild' = [hoChild EXCEPT ![c] = HO!Nil]
           /\ IF c \in hoKilled THEN UNCHANGED <<hoLock, hoAt, hoAdds, hoKnows>> ELSE HO!Finish(c)
  <2>1. /\ hoChild'[c] = HO!Nil /\ \A d \in hoCommands \ {c} : hoChild'[d] = hoChild[d]
        /\ hoChild' \in [hoCommands -> {HO!Nil, "up", "stop", "inspect"}]
    BY <1>1, <1>5 DEF HOShape, HO!TypeOK
  <2>2. CASE c \in hoKilled
    <3>1. UNCHANGED <<hoLock, hoAt, hoAdds, hoKnows>>
      BY <1>5, <2>2
    <3>2. HOOthers(c) /\ HOShape'
      BY <1>1, <1>2, <2>1, <3>1 DEF HOOthers, HOShape, HO!TypeOK
    <3>3. HOLockInv(c)' /\ HOAddInv(c)' /\ HOStartInv(c)'
      BY <1>1, <1>2, <2>1, <2>2, <3>1 DEF HOLockInv, HOAddInv, HOStartInv, HO!Nil
    <3>4. QED
      BY <1>2, <1>3, <3>1, <3>2, <3>3, HOHolderStep
  <2>3. CASE c \notin hoKilled
    BY <1>1, <1>2, <1>3, <1>5, <2>1, <2>3, HOFinishInv DEF HOShape, HO!TypeOK
  <2>4. QED
    BY <2>2, <2>3
<1>6. QED
  BY <1>4, <1>5 DEF HO!Exit

\* Signals and kills, and the removal of a lock nobody uses any more.
LEMMA HOKillInv ==
  ASSUME HOSane, HOIInv, HO!ClearLock \/ \E c \in hoCommands : HO!Signal(c) \/ HO!Kill(c)
  PROVE  HOIInv'
<1>1. HOShape /\ HOListInv /\ \A c \in hoCommands : HOLockInv(c) /\ HOAddInv(c) /\ HOStartInv(c)
  BY DEF HOIInv
<1>2. /\ hoManifest' = hoManifest /\ hoCompose' = hoCompose /\ hoHome' = hoHome
      /\ hoRunning' = hoRunning
      /\ hoAt' = hoAt /\ hoAdds' = hoAdds /\ hoKnows' = hoKnows /\ hoChild' = hoChild
      /\ hoAdded' = hoAdded
      /\ hoKilled \subseteq hoKilled' /\ hoLock' \in {hoLock, HO!Nil}
  BY DEF HO!ClearLock, HO!Signal, HO!Kill, HO!files, HO!docker, HO!life
<1>3. HOShape' /\ HOListInv'
  BY <1>1, <1>2 DEF HOShape, HO!TypeOK, HOListInv
<1>4. ASSUME NEW c \in hoCommands PROVE HOLockInv(c)'
  <2>1. CASE hoLock' = hoLock
    BY <1>1, <1>2, <2>1 DEF HOLockInv
  <2>2. CASE HO!ClearLock
    BY <1>1, <1>2, <2>2 DEF HO!ClearLock, HOLockInv, HO!life
  <2>3. QED
    BY <2>1, <2>2 DEF HO!Signal, HO!Kill
<1>5. \A c \in hoCommands : HOAddInv(c)' /\ HOStartInv(c)'
  BY <1>1, <1>2 DEF HOAddInv, HOStartInv
<1>6. QED
  BY <1>3, <1>4, <1>5 DEF HOIInv

\* At first there is no host, or one with a user.
LEMMA HOInitInv == HOSane /\ HO!Init => HOIInv
<1> SUFFICES ASSUME HOSane, HO!Init PROVE HOIInv
  OBVIOUS
<1>1. /\ hoLock = HO!Nil /\ hoRunning = {} /\ hoAt = [c \in hoCommands |-> "idle"]
      /\ hoAdds = [c \in hoCommands |-> HO!Nil] /\ hoKnows = [c \in hoCommands |-> {}]
      /\ hoChild = [c \in hoCommands |-> HO!Nil] /\ hoStopping = {} /\ hoKilled = {}
      /\ hoAdded = {}
      /\ hoHome = [u \in hoUsers |-> IF u \in hoManifest.users THEN "ready" ELSE "none"]
  BY DEF HO!Init
<1>2. /\ hoManifest \in [mode : {HO!Nil, "single", "multi"}, users : SUBSET hoUsers]
      /\ hoCompose \in (SUBSET hoUsers) \cup {HO!NoFile}
      /\ hoManifest.mode = HO!Nil => hoManifest.users = {}
      /\ \A pair \in hoRivals : ~(pair \subseteq hoManifest.users)
  <2>1. CASE hoManifest = [mode |-> HO!Nil, users |-> {}] /\ hoCompose = HO!NoFile
    <3>1. hoManifest.mode = HO!Nil /\ hoManifest.users = {}
      BY <2>1
    <3>2. \A pair \in hoRivals : ~(pair \subseteq {})
      BY DEF HOSane
    <3>3. hoManifest \in [mode : {HO!Nil, "single", "multi"}, users : SUBSET hoUsers]
      BY <2>1
    <3>4. hoCompose \in (SUBSET hoUsers) \cup {HO!NoFile}
      BY <2>1
    <3>5. QED
      BY <3>1, <3>2, <3>3, <3>4
  <2>2. CASE \E u \in hoUsers, mode \in {"single", "multi"} :
               hoManifest = [mode |-> mode, users |-> {u}] /\ hoCompose = {u}
    <3>1. PICK u \in hoUsers, mode \in {"single", "multi"} :
            hoManifest = [mode |-> mode, users |-> {u}] /\ hoCompose = {u}
      BY <2>2
    <3>2. hoManifest.mode = mode /\ hoManifest.users = {u}
      BY <3>1
    <3>3. \A pair \in hoRivals : ~(pair \subseteq {u})
      BY DEF HOSane
    <3>4. QED
      BY <3>1, <3>2, <3>3 DEF HO!Nil
  <2>3. QED
    BY <2>1, <2>2 DEF HO!Init
<1>3. HOShape
  BY <1>1, <1>2 DEF HOShape, HO!TypeOK, HOPlaces
<1>4. HOListInv
  <2>1. hoManifest.users \subseteq hoUsers
    BY <1>2
  <2>2. QED
    BY <1>1, <1>2, <2>1 DEF HOListInv
<1>5. \A c \in hoCommands : HOLockInv(c) /\ HOAddInv(c) /\ HOStartInv(c)
  BY <1>1 DEF HOLockInv, HOAddInv, HOStartInv, HO!Nil
<1>6. QED
  BY <1>3, <1>4, <1>5 DEF HOIInv

\* Every step keeps the invariant.
LEMMA HONextInv == HOSane /\ HOIInv /\ [HO!Next]_(HO!vars) => HOIInv'
<1> SUFFICES ASSUME HOSane, HOIInv, [HO!Next]_(HO!vars) PROVE HOIInv'
  OBVIOUS
<1>1. ASSUME NEW c \in hoCommands,
             \/ HO!Begin(c) \/ HO!Initialize(c) \/ HO!MakeHome(c) \/ HO!Provision(c) \/ HO!List(c)
             \/ HO!Render(c) \/ HO!Fail(c) \/ HO!Start(c) \/ HO!Stop(c) \/ HO!Container(c) \/ HO!Exit(c)
             \/ HO!Signal(c) \/ HO!Kill(c)
      PROVE  HOIInv'
  BY <1>1, HOBeginInv, HOInitializeInv, HOMakeHomeInv, HOProvisionInv, HOListStepInv,
     HORenderInv,
     HOFailInv, HOSpawnInv, HOContainerInv, HOExitInv, HOKillInv
<1>2. CASE UNCHANGED HO!vars
  BY <1>2 DEF HO!vars, HOIInv, HOShape, HO!TypeOK, HOListInv, HOLockInv, HOAddInv,
     HOStartInv
<1>3. QED
  BY <1>1, <1>2, HOContainerInv, HOKillInv DEF HO!Next

\* What the invariant says of the host.
LEMMA HOConsequences == ASSUME HOIInv PROVE HO!TypeOK /\ HO!HostIsWhole
  BY DEF HOIInv, HOShape, HOListInv, HOLockInv, HOStartInv, HO!HostIsWhole, HO!rendered

-----------------------------------------------------------------------------
(* Files saved under one name: Downloads *)

\* What is assumed of the constants: the owner and Nil are no calls, and there is a
\* first candidate.
DLSane == dlOwner \notin dlCalls /\ DL!Nil \notin dlCalls /\ dlMaxCopies \in Nat

\* Two calls that save at one time have met.
DLOverlapInv ==
  \A c, d \in dlCalls : c # d /\ dlAt[c] \in DL!Saving /\ dlAt[d] \in DL!Saving => c \in dlMet

\* What call c finds under the name it has come to.  It has chosen a free one, so a
\* file that is there by now was written meanwhile, by a call it has met; what it has
\* opened is its own, unless another call it has met opened it too, or it was removed.
DLCallInv(c) ==
  /\ dlAnswer[c] # DL!Nil => dlAt[c] = "over"
  /\ dlAt[c] = "write" => dlDir[dlCopy[c]] = DL!NoFile \/ dlDir[dlCopy[c]].by \in dlMet
  /\ dlAt[c] = "writing" => dlDir[dlCopy[c]] = DL!NoFile \/ dlDir[dlCopy[c]].by \in dlMet \cup {c}
  /\ dlAt[c] = "writing" /\ c \notin dlMet \cup dlRemoved => dlDir[dlCopy[c]] = DL!File(c, FALSE)
  /\ dlAnswer[c] = "saved" /\ c \notin dlMet \cup dlRemoved => dlDir[dlCopy[c]] = DL!File(c, TRUE)

\* The inductive invariant of downloads.
DLIInv == DL!TypeOK /\ DLOverlapInv /\ \A c \in dlCalls : DLCallInv(c)

\* What is left as it is of the other calls.
DLOthers(c) ==
  \A d \in dlCalls \ {c} :
    dlAt'[d] = dlAt[d] /\ dlCopy'[d] = dlCopy[d] /\ dlAnswer'[d] = dlAnswer[d]

\* What an answer changes.
LEMMA DLReplyFrame ==
  ASSUME DL!TypeOK, NEW c \in dlCalls, NEW what \in {"saved", "without", "error"}, DL!Reply(c, what)
  PROVE  /\ dlAt'[c] = "over" /\ dlAnswer'[c] = what
         /\ \A d \in dlCalls \ {c} : dlAt'[d] = dlAt[d] /\ dlAnswer'[d] = dlAnswer[d]
         /\ dlAt' \in [dlCalls -> {"idle", "find", "fetch", "check", "over"} \cup DL!Saving]
         /\ dlKind' \in [dlCalls -> DL!Kinds \cup {DL!Nil}]
         /\ dlAnswer' \in [dlCalls -> {DL!Nil, "saved", "without", "error"}]
  BY DEF DL!TypeOK, DL!Reply

\* What going on changes.
LEMMA DLGoFrame ==
  ASSUME DL!TypeOK, NEW c \in dlCalls,
         NEW place \in {"fetch", "check"} \cup DL!Saving, DL!Go(c, place)
  PROVE  /\ dlAt'[c] = place /\ dlAnswer' = dlAnswer /\ dlKind' = dlKind
         /\ \A d \in dlCalls \ {c} : dlAt'[d] = dlAt[d]
         /\ dlAt' \in [dlCalls -> {"idle", "find", "fetch", "check", "over"} \cup DL!Saving]
  BY DEF DL!TypeOK, DL!Go

\* A step of a call that touches no file keeps the invariant.
LEMMA DLNoFileTouched ==
  ASSUME DLSane, DLIInv, NEW c \in dlCalls, DL!TypeOK', DLOthers(c),
         dlDir' = dlDir, dlCopy' = dlCopy, dlMet' = dlMet, dlRemoved' = dlRemoved,
         dlAt[c] # "over", dlAt'[c] \in {"find", "fetch", "check", "over"},
         dlAnswer'[c] = dlAnswer[c] \/ (dlAt'[c] = "over" /\ dlAnswer'[c] \in {"without", "error"})
  PROVE  DLIInv'
<1>1. DLOverlapInv /\ \A d \in dlCalls : DLCallInv(d)
  BY DEF DLIInv
<1>2. DLOverlapInv'
  BY <1>1 DEF DLOverlapInv, DLOthers, DL!Saving
<1>3. ASSUME NEW d \in dlCalls PROVE DLCallInv(d)'
  <2>1. CASE d = c
    BY <1>1, <2>1 DEF DLCallInv, DL!Nil
  <2>2. CASE d # c
    BY <1>1, <2>2 DEF DLCallInv, DLOthers
  <2>3. QED
    BY <2>1, <2>2
<1>4. QED
  BY <1>2, <1>3 DEF DLIInv

\* A call begins, fetches, is refused or answered before it saves.
LEMMA DLFetchInv ==
  ASSUME DLSane, DLIInv, NEW c \in dlCalls,
         \/ DL!Begin(c) \/ DL!FindSubmission(c) \/ DL!Overview(c)
         \/ DL!CourseFile(c) \/ DL!ContentFile(c) \/ DL!SubmissionFile(c) \/ DL!Attachment(c)
  PROVE  DLIInv'
<1>1. DL!TypeOK
  BY DEF DLIInv
<1>2. /\ dlAt[c] \in {"idle", "find", "fetch"}
      /\ dlDir' = dlDir /\ dlCopy' = dlCopy /\ dlCrashes' = dlCrashes /\ dlMet' = dlMet
      /\ dlRemoved' = dlRemoved
  BY DEF DL!Begin, DL!FindSubmission, DL!Overview, DL!CourseFile, DL!ContentFile,
     DL!SubmissionFile, DL!Attachment,
         DL!history
<1>3. \/ \E k \in DL!Kinds, place \in {"fetch", "find"} :
           /\ dlKind' = [dlKind EXCEPT ![c] = k] /\ dlAt' = [dlAt EXCEPT ![c] = place]
           /\ dlAnswer' = dlAnswer
      \/ DL!Go(c, "fetch") \/ DL!Go(c, "check") \/ DL!Reply(c, "without") \/ DL!Reply(c, "error")
  BY DEF DL!Begin, DL!FindSubmission, DL!Overview, DL!CourseFile, DL!ContentFile,
     DL!SubmissionFile, DL!Attachment
<1>4. CASE \E k \in DL!Kinds, place \in {"fetch", "find"} :
             /\ dlKind' = [dlKind EXCEPT ![c] = k] /\ dlAt' = [dlAt EXCEPT ![c] = place]
             /\ dlAnswer' = dlAnswer
  <2>1. PICK k \in DL!Kinds, place \in {"fetch", "find"} :
          dlKind' = [dlKind EXCEPT ![c] = k] /\ dlAt' = [dlAt EXCEPT ![c] = place] /\ dlAnswer' = dlAnswer
    BY <1>4
  <2>2. dlAt'[c] = place /\ DLOthers(c) /\ DL!TypeOK'
    BY <1>1, <1>2, <2>1 DEF DLOthers, DL!TypeOK
  <2>3. QED
    BY <1>2, <2>1, <2>2, DLNoFileTouched
<1>5. CASE DL!Go(c, "fetch") \/ DL!Go(c, "check")
  <2>1. /\ dlAt'[c] \in {"fetch", "check"} /\ DLOthers(c) /\ dlAnswer' = dlAnswer /\ DL!TypeOK'
    BY <1>1, <1>2, <1>5, DLGoFrame DEF DLOthers, DL!TypeOK
  <2>2. QED
    BY <1>2, <2>1, DLNoFileTouched
<1>6. CASE DL!Reply(c, "without") \/ DL!Reply(c, "error")
  <2>1. /\ dlAt'[c] = "over" /\ dlAnswer'[c] \in {"without", "error"} /\ DLOthers(c)
        /\ DL!TypeOK'
    BY <1>1, <1>2, <1>6, DLReplyFrame DEF DLOthers, DL!TypeOK
  <2>2. QED
    BY <1>2, <2>1, DLNoFileTouched
<1>7. QED
  BY <1>3, <1>4, <1>5, <1>6

\* A call whose download fails touches no file.
LEMMA DLThrowInv ==
  ASSUME DLSane, DLIInv, NEW c \in dlCalls, DL!Throw(c), dlAt[c] # "over",
         dlDir' = dlDir, dlCopy' = dlCopy, dlCrashes' = dlCrashes, dlMet' = dlMet, dlRemoved' = dlRemoved
  PROVE  DLIInv'
<1>1. DL!TypeOK
  BY DEF DLIInv
<1>2. DL!Reply(c, "without") \/ DL!Reply(c, "error")
  BY DEF DL!Throw
<1>3. dlAt'[c] = "over" /\ dlAnswer'[c] \in {"without", "error"} /\ DLOthers(c) /\ DL!TypeOK'
  BY <1>1, <1>2, DLReplyFrame DEF DLOthers, DL!TypeOK
<1>4. QED
  BY <1>3, DLNoFileTouched

\* A call comes to choose a name, and has met who saves.
LEMMA DLValidateInv ==
  ASSUME DLSane, DLIInv, NEW c \in dlCalls, DL!Validate(c)
  PROVE DLIInv'
<1>1. DL!TypeOK /\ DLOverlapInv /\ \A d \in dlCalls : DLCallInv(d)
  BY DEF DLIInv
<1>2. /\ dlAt[c] = "check" /\ dlDir' = dlDir /\ dlCopy' = dlCopy /\ dlCrashes' = dlCrashes
      /\ dlRemoved' = dlRemoved
  BY DEF DL!Validate
<1>3. CASE DL!Throw(c) /\ dlMet' = dlMet
  BY <1>2, <1>3, DLThrowInv
<1>4. CASE /\ DL!Go(c, "resolve")
           /\ LET others == {d \in dlCalls \ {c} : dlAt[d] \in DL!Saving} IN
              dlMet' = IF others = {} THEN dlMet ELSE dlMet \cup others \cup {c}
  <2>1. /\ dlAt'[c] = "resolve" /\ dlAnswer' = dlAnswer /\ DLOthers(c) /\ DL!TypeOK'
    BY <1>1, <1>2, <1>4, DLGoFrame DEF DLOthers, DL!TypeOK, DL!Saving
  <2>2. /\ dlMet \subseteq dlMet'
        /\ \A d \in dlCalls \ {c} : dlAt[d] \in DL!Saving => d \in dlMet' /\ c \in dlMet'
    BY <1>4
  <2>3. DLOverlapInv'
    BY <1>1, <2>1, <2>2 DEF DLOverlapInv, DLOthers
  <2>4. ASSUME NEW d \in dlCalls PROVE DLCallInv(d)'
    <3>1. CASE d = c
      BY <1>1, <1>2, <2>1, <3>1 DEF DLCallInv, DL!Nil
    <3>2. CASE d # c
      BY <1>1, <1>2, <2>1, <2>2, <3>2 DEF DLCallInv, DLOthers
    <3>3. QED
      BY <3>1, <3>2
  <2>5. QED
    BY <2>1, <2>3, <2>4 DEF DLIInv
<1>5. QED
  BY <1>3, <1>4 DEF DL!Validate

\* A call takes the first name that is free, or gives up.
LEMMA DLResolveInv ==
  ASSUME DLSane, DLIInv, NEW c \in dlCalls, DL!Resolve(c)
  PROVE DLIInv'
<1>1. DL!TypeOK /\ DLOverlapInv /\ \A d \in dlCalls : DLCallInv(d)
  BY DEF DLIInv
<1>2. /\ dlAt[c] = "resolve" /\ dlDir' = dlDir /\ dlCrashes' = dlCrashes /\ dlMet' = dlMet
      /\ dlRemoved' = dlRemoved /\ dlAnswer[c] = DL!Nil
  BY <1>1 DEF DL!Resolve, DL!history, DLCallInv
<1>3. CASE dlDir[dlCopy[c]] = DL!NoFile /\ DL!Go(c, "write") /\ dlCopy' = dlCopy
  <2>1. /\ dlAt'[c] = "write" /\ dlAnswer' = dlAnswer /\ DLOthers(c) /\ DL!TypeOK'
    BY <1>1, <1>2, <1>3, DLGoFrame DEF DLOthers, DL!TypeOK, DL!Saving
  <2>2. DLOverlapInv'
    BY <1>1, <1>2, <2>1 DEF DLOverlapInv, DLOthers, DL!Saving
  <2>3. ASSUME NEW d \in dlCalls PROVE DLCallInv(d)'
    <3>1. CASE d = c
      BY <1>2, <1>3, <2>1, <3>1 DEF DLCallInv, DL!Nil, DL!NoFile, DL!File
    <3>2. CASE d # c
      BY <1>1, <1>2, <1>3, <2>1, <3>2 DEF DLCallInv, DLOthers
    <3>3. QED
      BY <3>1, <3>2
  <2>4. QED
    BY <2>1, <2>2, <2>3 DEF DLIInv
<1>4. CASE dlCopy[c] < dlMaxCopies /\ dlCopy' = [dlCopy EXCEPT ![c] = @ + 1]
           /\ UNCHANGED <<dlAt, dlKind, dlAnswer>>
  <2>1. dlCopy' \in [dlCalls -> DL!Candidates]
    BY <1>1, <1>4 DEF DL!TypeOK, DL!Candidates, DLSane
  <2>2. DL!TypeOK' /\ DLOthers(c)
    BY <1>1, <1>2, <1>4, <2>1 DEF DL!TypeOK, DLOthers
  <2>3. DLOverlapInv'
    BY <1>1, <1>2, <1>4 DEF DLOverlapInv
  <2>4. ASSUME NEW d \in dlCalls PROVE DLCallInv(d)'
    <3>1. CASE d = c
      BY <1>2, <1>4, <3>1 DEF DLCallInv, DL!Nil
    <3>2. CASE d # c
      BY <1>1, <1>2, <2>2, <3>2 DEF DLCallInv, DLOthers
    <3>3. QED
      BY <3>1, <3>2
  <2>5. QED
    BY <2>2, <2>3, <2>4 DEF DLIInv
<1>5. CASE DL!Throw(c) /\ dlCopy' = dlCopy
  BY <1>2, <1>5, DLThrowInv
<1>6. QED
  BY <1>3, <1>4, <1>5 DEF DL!Resolve

\* A step of call c, which saves, that leaves a file of its own under its name and the
\* other names alone, keeps what is said of the other calls.
LEMMA DLOwnFile ==
  ASSUME DLSane, DLIInv, NEW c \in dlCalls, dlAt[c] \in {"write", "writing"}, DL!TypeOK', DLOthers(c),
         NEW whole \in BOOLEAN, dlDir' = [dlDir EXCEPT ![dlCopy[c]] = DL!File(c, whole)],
         dlCopy' = dlCopy, dlMet' = dlMet, dlRemoved' = dlRemoved,
         dlAt'[c] \in {"writing", "over"}
  PROVE  DLOverlapInv' /\ \A d \in dlCalls \ {c} : DLCallInv(d)'
<1>1. DL!TypeOK /\ DLOverlapInv /\ \A d \in dlCalls : DLCallInv(d)
  BY DEF DLIInv
<1>2. DLOverlapInv'
  BY <1>1 DEF DLOverlapInv, DLOthers, DL!Saving
<1>3. ASSUME NEW d \in dlCalls, d # c PROVE DLCallInv(d)'
  <2>1. DLCallInv(d) /\ DLCallInv(c)
    BY <1>1
  <2>2. dlAt'[d] = dlAt[d] /\ dlAnswer'[d] = dlAnswer[d] /\ dlCopy'[d] = dlCopy[d]
    BY <1>3 DEF DLOthers
  <2>3. dlCopy[c] \in DL!Candidates /\ dlCopy[d] \in DL!Candidates
    BY <1>1 DEF DL!TypeOK
  <2>4. CASE dlCopy[d] # dlCopy[c]
    <3>1. dlDir'[dlCopy[d]] = dlDir[dlCopy[d]]
      BY <1>1, <2>3, <2>4 DEF DL!TypeOK
    <3>2. QED
      BY <2>1, <2>2, <3>1 DEF DLCallInv, DL!NoFile, DL!File, DL!Nil
  <2>5. CASE dlCopy[d] = dlCopy[c]
    <3>1. dlDir'[dlCopy[d]] = DL!File(c, whole) /\ dlDir'[dlCopy[d]].by = c
      BY <1>1, <2>3, <2>5 DEF DL!TypeOK, DL!File
    <3>2. dlAt[d] \in DL!Saving => c \in dlMet /\ d \in dlMet
      BY <1>1, <1>3 DEF DLOverlapInv, DL!Saving
    <3>3. ~(dlAnswer[d] = "saved" /\ d \notin dlMet \cup dlRemoved)
      <4>1. SUFFICES ASSUME dlAnswer[d] = "saved", d \notin dlMet \cup dlRemoved PROVE FALSE
        OBVIOUS
      <4>2. dlDir[dlCopy[c]] = DL!File(d, TRUE) /\ dlDir[dlCopy[c]].by = d
        BY <2>1, <2>5, <4>1 DEF DLCallInv, DL!File
      <4>3. dlDir[dlCopy[c]] # DL!NoFile
        BY <4>2 DEF DL!NoFile, DL!File, DLSane
      <4>4. QED
        BY <1>3, <2>1, <4>1, <4>2, <4>3 DEF DLCallInv
    <3>4. dlAnswer[d] # DL!Nil => dlAt[d] = "over"
      BY <2>1 DEF DLCallInv
    <3>5. QED
      BY <2>2, <3>1, <3>2, <3>3, <3>4 DEF DLCallInv, DL!Saving, DL!NoFile, DL!File, DL!Nil
  <2>6. QED
    BY <2>4, <2>5
<1>4. QED
  BY <1>2, <1>3

\* A call opens the name it has chosen.
LEMMA DLOpenInv == ASSUME DLSane, DLIInv, NEW c \in dlCalls, DL!Open(c) PROVE DLIInv'
<1>1. DL!TypeOK /\ DLCallInv(c)
  BY DEF DLIInv
<1>2. /\ dlAt[c] = "write" /\ dlCopy' = dlCopy /\ dlCrashes' = dlCrashes /\ dlMet' = dlMet
      /\ dlRemoved' = dlRemoved /\ dlAnswer[c] = DL!Nil
  BY <1>1 DEF DL!Open, DL!history, DLCallInv
<1>3. CASE dlDir' = [dlDir EXCEPT ![dlCopy[c]] = DL!File(c, FALSE)] /\ DL!Go(c, "writing")
  <2>1. dlAt'[c] = "writing" /\ dlAnswer' = dlAnswer /\ DLOthers(c) /\ dlKind' = dlKind
        /\ dlAt' \in [dlCalls -> {"idle", "find", "fetch", "check", "over"} \cup DL!Saving]
    BY <1>1, <1>2, <1>3, DLGoFrame DEF DLOthers, DL!Saving
  <2>2. dlCopy[c] \in DL!Candidates /\ dlDir'[dlCopy[c]] = DL!File(c, FALSE)
    BY <1>1, <1>3 DEF DL!TypeOK
  <2>3. DL!TypeOK'
    BY <1>1, <1>2, <1>3, <2>1, <2>2 DEF DL!TypeOK, DL!File
  <2>4. DLOverlapInv' /\ \A d \in dlCalls \ {c} : DLCallInv(d)'
    BY <1>2, <1>3, <2>1, <2>3, DLOwnFile
  <2>5. DLCallInv(c)'
    BY <1>2, <2>1, <2>2 DEF DLCallInv, DL!Nil, DL!File
  <2>6. QED
    BY <2>3, <2>4, <2>5 DEF DLIInv
<1>4. CASE DL!Throw(c) /\ dlDir' = dlDir
  BY <1>2, <1>4, DLThrowInv
<1>5. QED
  BY <1>3, <1>4 DEF DL!Open

\* A call writes what it has downloaded and answers.
LEMMA DLWriteInv == ASSUME DLSane, DLIInv, NEW c \in dlCalls, DL!Write(c) PROVE DLIInv'
<1>1. DL!TypeOK /\ DLOverlapInv /\ \A d \in dlCalls : DLCallInv(d)
  BY DEF DLIInv
<1>2. /\ dlAt[c] = "writing" /\ dlCopy' = dlCopy /\ dlCrashes' = dlCrashes /\ dlMet' = dlMet
      /\ dlRemoved' = dlRemoved
  BY DEF DL!Write, DL!history
<1>3. CASE DL!Throw(c) /\ dlDir' = dlDir
  BY <1>2, <1>3, DLThrowInv
<1>4. CASE DL!Reply(c, "saved") /\ dlDir' = IF dlDir[dlCopy[c]] = DL!NoFile THEN dlDir
             ELSE [dlDir EXCEPT ![dlCopy[c]] = DL!File(c, dlDir[dlCopy[c]] = DL!File(c, FALSE))]
  <2>1. /\ dlAt'[c] = "over" /\ dlAnswer'[c] = "saved" /\ DLOthers(c)
        /\ dlAt' \in [dlCalls -> {"idle", "find", "fetch", "check", "over"} \cup DL!Saving]
        /\ dlKind' \in [dlCalls -> DL!Kinds \cup {DL!Nil}]
        /\ dlAnswer' \in [dlCalls -> {DL!Nil, "saved", "without", "error"}]
    BY <1>1, <1>2, <1>4, DLReplyFrame DEF DLOthers
  <2>2. dlCopy[c] \in DL!Candidates
    BY <1>1 DEF DL!TypeOK
  <2>3. CASE dlDir[dlCopy[c]] = DL!NoFile
    <3>1. dlDir' = dlDir
      BY <1>4, <2>3
    <3>2. DL!TypeOK' /\ DLOverlapInv'
      BY <1>1, <1>2, <2>1, <3>1 DEF DL!TypeOK, DLOverlapInv, DLOthers, DL!Saving
    <3>3. c \in dlMet \cup dlRemoved
      <4>1. DL!NoFile # DL!File(c, FALSE)
        BY DEF DL!NoFile, DL!File, DLSane
      <4>2. QED
        BY <1>1, <1>2, <2>3, <4>1, Zenon DEF DLCallInv
    <3>4. ASSUME NEW d \in dlCalls PROVE DLCallInv(d)'
      <4>1. CASE d = c
        BY <1>2, <2>1, <3>3, <4>1 DEF DLCallInv
      <4>2. CASE d # c
        BY <1>1, <1>2, <2>1, <3>1, <4>2 DEF DLCallInv, DLOthers
      <4>3. QED
        BY <4>1, <4>2
    <3>5. QED
      BY <3>2, <3>4 DEF DLIInv
  <2>4. CASE dlDir[dlCopy[c]] # DL!NoFile
    <3>1. PICK whole \in BOOLEAN :
            /\ dlDir' = [dlDir EXCEPT ![dlCopy[c]] = DL!File(c, whole)]
            /\ dlDir[dlCopy[c]] = DL!File(c, FALSE) => whole = TRUE
      <4>1. (dlDir[dlCopy[c]] = DL!File(c, FALSE)) \in BOOLEAN
        OBVIOUS
      <4>2. CASE dlDir[dlCopy[c]] = DL!File(c, FALSE)
        <5>1. (dlDir[dlCopy[c]] = DL!File(c, FALSE)) = TRUE
          BY <4>2
        <5>2. dlDir' = [dlDir EXCEPT ![dlCopy[c]] = DL!File(c, TRUE)]
          BY <1>4, <2>4, <5>1
        <5>3. QED
          BY <5>2
      <4>3. CASE dlDir[dlCopy[c]] # DL!File(c, FALSE)
        <5>1. (dlDir[dlCopy[c]] = DL!File(c, FALSE)) = FALSE
          BY <4>3
        <5>2. dlDir' = [dlDir EXCEPT ![dlCopy[c]] = DL!File(c, FALSE)]
          BY <1>4, <2>4, <5>1
        <5>3. QED
          BY <4>3, <5>2
      <4>4. QED
        BY <4>2, <4>3
    <3>2. DL!TypeOK'
      <4>1. DL!File(c, whole) \in [by : dlCalls \cup {dlOwner, DL!Nil}, whole : BOOLEAN]
        BY DEF DL!File
      <4>2. QED
        BY <1>1, <1>2, <2>1, <3>1, <4>1 DEF DL!TypeOK
    <3>3. DLOverlapInv' /\ \A d \in dlCalls \ {c} : DLCallInv(d)'
      BY <1>2, <2>1, <3>1, <3>2, DLOwnFile
    <3>4. c \notin dlMet \cup dlRemoved => dlDir'[dlCopy[c]] = DL!File(c, TRUE)
      BY <1>1, <1>2, <2>2, <3>1 DEF DLCallInv, DL!TypeOK
    <3>5. DLCallInv(c)'
      BY <1>2, <2>1, <3>4 DEF DLCallInv
    <3>6. QED
      BY <3>2, <3>3, <3>5 DEF DLIInv
  <2>5. QED
    BY <2>3, <2>4
<1>5. QED
  BY <1>3, <1>4 DEF DL!Write

\* A file is removed, whose writers are noted.
LEMMA DLRemoveInv ==
  ASSUME DLSane, DLIInv, NEW i \in DL!Candidates, DL!Remove(i)
  PROVE DLIInv'
<1>1. DL!TypeOK /\ DLOverlapInv /\ \A d \in dlCalls : DLCallInv(d)
  BY DEF DLIInv
<1>2. /\ dlDir' = [dlDir EXCEPT ![i] = DL!NoFile]
      /\ dlRemoved' = dlRemoved \cup {dlDir[i].by}
                      \cup {c \in dlCalls : dlCopy[c] = i /\ dlAt[c] = "writing"}
      /\ dlAt' = dlAt /\ dlKind' = dlKind /\ dlCopy' = dlCopy /\ dlAnswer' = dlAnswer
      /\ dlCrashes' = dlCrashes /\ dlMet' = dlMet
  BY DEF DL!Remove
<1>3. DL!TypeOK' /\ DLOverlapInv'
  <2>1. DL!NoFile \in [by : dlCalls \cup {dlOwner, DL!Nil}, whole : BOOLEAN]
    BY DEF DL!NoFile, DL!File
  <2>2. QED
    BY <1>1, <1>2, <2>1 DEF DL!TypeOK, DLOverlapInv
<1>4. ASSUME NEW d \in dlCalls PROVE DLCallInv(d)'
  <2>1. DLCallInv(d) /\ dlCopy[d] \in DL!Candidates
    BY <1>1 DEF DL!TypeOK
  <2>2. CASE dlCopy[d] # i
    <3>1. dlDir'[dlCopy[d]] = dlDir[dlCopy[d]] /\ dlRemoved \subseteq dlRemoved'
      BY <1>1, <1>2, <2>1, <2>2 DEF DL!TypeOK
    <3>2. QED
      BY <1>2, <2>1, <3>1 DEF DLCallInv, DL!NoFile, DL!File, DL!Nil
  <2>3. CASE dlCopy[d] = i
    <3>1. dlDir'[dlCopy[d]] = DL!NoFile /\ dlRemoved \subseteq dlRemoved' /\ dlDir[i].by \in dlRemoved'
      BY <1>1, <1>2, <2>1, <2>3 DEF DL!TypeOK
    <3>2. dlAt[d] = "writing" => d \in dlRemoved'
      BY <1>2, <2>3
    <3>3. dlAnswer[d] = "saved" => d \in dlMet \cup dlRemoved'
      BY <2>1, <2>3, <3>1 DEF DLCallInv, DL!File
    <3>4. QED
      BY <1>2, <2>1, <3>1, <3>2, <3>3 DEF DLCallInv
  <2>4. QED
    BY <2>2, <2>3
<1>5. QED
  BY <1>3, <1>4 DEF DLIInv

\* The worker ends; its calls end without an answer, and files stay as they are.
LEMMA DLCrashInv == ASSUME DLSane, DLIInv, DL!Crash PROVE DLIInv'
<1>1. DL!TypeOK /\ DLOverlapInv /\ \A d \in dlCalls : DLCallInv(d)
  BY DEF DLIInv
<1>2. /\ dlAt' = [c \in dlCalls |-> IF dlAt[c] = "idle" THEN "idle" ELSE "over"]
      /\ dlKind' = [c \in dlCalls |-> DL!Nil] /\ dlDir' = dlDir /\ dlCopy' = dlCopy
      /\ dlAnswer' = dlAnswer
      /\ dlMet' = dlMet /\ dlRemoved' = dlRemoved
  BY DEF DL!Crash, DL!history
<1>3. DL!TypeOK' /\ DLOverlapInv'
  BY <1>1, <1>2 DEF DL!TypeOK, DLOverlapInv, DL!Saving
<1>4. ASSUME NEW d \in dlCalls PROVE DLCallInv(d)'
  <2>1. DLCallInv(d) /\ dlAt'[d] = IF dlAt[d] = "idle" THEN "idle" ELSE "over"
    BY <1>1, <1>2
  <2>2. QED
    BY <1>2, <2>1 DEF DLCallInv
<1>5. QED
  BY <1>3, <1>4 DEF DLIInv

\* At first nobody saves.
LEMMA DLInitInv == DLSane /\ DL!Init => DLIInv
<1> SUFFICES ASSUME DLSane, DL!Init PROVE DLIInv
  OBVIOUS
<1>1. /\ dlAt = [c \in dlCalls |-> "idle"] /\ dlKind = [c \in dlCalls |-> DL!Nil]
      /\ dlCopy = [c \in dlCalls |-> 0] /\ dlAnswer = [c \in dlCalls |-> DL!Nil]
  BY DEF DL!Init
<1>2. dlDir \in [DL!Candidates -> [by : dlCalls \cup {dlOwner, DL!Nil}, whole : BOOLEAN]]
  <2>1. PICK own \in SUBSET DL!Candidates :
          dlDir = [i \in DL!Candidates |-> IF i \in own THEN DL!File(dlOwner, TRUE) ELSE DL!NoFile]
    BY DEF DL!Init
  <2>2. /\ DL!File(dlOwner, TRUE) \in [by : dlCalls \cup {dlOwner, DL!Nil}, whole : BOOLEAN]
        /\ DL!NoFile \in [by : dlCalls \cup {dlOwner, DL!Nil}, whole : BOOLEAN]
    BY DEF DL!NoFile, DL!File
  <2>3. QED
    BY <2>1, <2>2
<1>3. DL!TypeOK
  BY <1>1, <1>2 DEF DL!TypeOK, DL!Candidates, DLSane
<1>4. DLOverlapInv /\ \A c \in dlCalls : DLCallInv(c)
  BY <1>1 DEF DLOverlapInv, DLCallInv, DL!Saving, DL!Nil
<1>5. QED
  BY <1>3, <1>4 DEF DLIInv

\* Every step keeps the invariant.
LEMMA DLNextInv == DLSane /\ DLIInv /\ [DL!Next]_(DL!vars) => DLIInv'
<1> SUFFICES ASSUME DLSane, DLIInv, [DL!Next]_(DL!vars) PROVE DLIInv'
  OBVIOUS
<1>1. ASSUME NEW c \in dlCalls,
             \/ DL!Begin(c) \/ DL!FindSubmission(c) \/ DL!Overview(c)
             \/ DL!CourseFile(c) \/ DL!ContentFile(c) \/ DL!SubmissionFile(c) \/ DL!Attachment(c)
             \/ DL!Validate(c) \/ DL!Resolve(c) \/ DL!Open(c) \/ DL!Write(c)
      PROVE  DLIInv'
  BY <1>1, DLFetchInv, DLValidateInv, DLResolveInv, DLOpenInv, DLWriteInv
<1>2. CASE UNCHANGED DL!vars
  BY <1>2 DEF DL!vars, DLIInv, DL!TypeOK, DLOverlapInv, DLCallInv
<1>3. QED
  BY <1>1, <1>2, DLRemoveInv, DLCrashInv DEF DL!Next

\* What the invariant says of the files.
LEMMA DLConsequences == ASSUME DLIInv PROVE DL!TypeOK /\ DL!SavedStays
  BY DEF DLIInv, DLCallInv, DL!SavedStays

-----------------------------------------------------------------------------
(* Transcripts of lectures: Transcripts *)

\* What is assumed of the constants: Nil is no id, and the memory has room for an entry.
TRSane == TR!Nil \notin trIds /\ trMaxPending \in Nat \ {0}

\* What is kept in memory of a job.
TREntries == [id : trIds, status : {"running", "failed"}, late : BOOLEAN]

\* Types, the list of entries, and the id each call that looks for one asks for.
TRShape ==
  /\ TR!TypeOK /\ trPending \in Seq(TREntries)
  /\ \A c \in trCalls : trAt[c] \in {"read", "missed"} => trAsks[c] \in trIds

\* A job that works runs alone; the memory has its entry or room for one, a draft
\* that is to be stored is whole, and "running" is told of it alone.
TRJobInv(i) ==
  /\ trJob[i] # TR!Nil => trRunning = i
  /\ trJob[i] \notin {TR!Nil, "clean"} /\ Len(trPending) >= trMaxPending =>
       \E e \in TR!Range(trPending) : e.id = i
  /\ \A e \in TR!prior(i) : e.status = "running" => trJob[i] \notin {TR!Nil, "clean"}
  /\ trJob[i] = "store" => trDraft[i] = "whole"
  /\ trFile[i] # "part"

\* The inductive invariant of transcripts.
TRIInv ==
  /\ TRShape
  /\ trRunning # TR!Nil => trJob[trRunning] # TR!Nil \/ trStuck
  /\ \A i \in trIds : TRJobInv(i)

-----------------------------------------------------------------------------
(* The entries that are kept *)

\* Every set of naturals that is not empty has a least element.
LEMMA TRLeast ==
  ASSUME NEW T \in SUBSET Nat, T # {}
  PROVE  \E x \in T : \A y \in T : x <= y
<1> DEFINE R == OpToRel(<, Nat)
<1>1. IsWellFoundedOn(R, Nat)
  BY NatLessThanWellFounded
<1>2. \A x, y \in Nat : y < x => <<y, x>> \in R
  BY DEF OpToRel
<1> HIDE DEF R
<1>3. PICK x \in T : \A y \in T : ~ (<<y, x>> \in R)
  BY <1>1, WFMin
<1>4. ASSUME NEW y \in T PROVE x <= y
  <2>1. ~(y < x)
    BY <1>2, <1>3
  <2>2. QED
    BY <2>1
<1>5. QED
  BY <1>4

\* Numbering a set of places by counting those up to each: every number from 1 to the
\* size of the set is taken, by one place.
LEMMA TRRanks ==
  ASSUME NEW len \in Nat, NEW I \in SUBSET (1..len)
  PROVE  /\ Cardinality(I) \in Nat /\ Cardinality(I) <= len
         /\ I # 1..len => Cardinality(I) < len
         /\ \A m \in 1..Cardinality(I) : \E k \in I : Cardinality({j \in I : j <= k}) = m
         /\ \A k \in I : Cardinality({j \in I : j <= k}) \in 1..Cardinality(I)
         /\ \A k, l \in I :
              Cardinality({j \in I : j <= k}) = Cardinality({j \in I : j <= l}) => k = l
<1> DEFINE upTo(k) == {j \in I : j <= k}
           rank(k) == Cardinality(upTo(k))
<1>1. IsFiniteSet(1..len) /\ Cardinality(1..len) = len
  BY FS_Interval
<1>2. IsFiniteSet(I) /\ Cardinality(I) \in Nat /\ Cardinality(I) <= len
      /\ (I # 1..len => Cardinality(I) < len)
  <2>1. IsFiniteSet(I) /\ Cardinality(I) <= Cardinality(1..len)
        /\ (Cardinality(1..len) = Cardinality(I) => 1..len = I)
    BY <1>1, FS_Subset
  <2>2. Cardinality(I) \in Nat
    BY <2>1, FS_CardinalityType
  <2>3. QED
    BY <1>1, <2>1, <2>2
<1>3. /\ \A k : upTo(k) \in SUBSET I
      /\ \A k : \A j \in I : j \in upTo(k) <=> j <= k
      /\ \A k : rank(k) = Cardinality(upTo(k))
      /\ \A k : rank(k) = Cardinality({j \in I : j <= k})
  OBVIOUS
<1> HIDE DEF upTo, rank
<1>4. ASSUME NEW k
      PROVE  IsFiniteSet(upTo(k)) /\ rank(k) \in Nat /\ rank(k) <= Cardinality(I)
  <2>1. upTo(k) \in SUBSET I /\ rank(k) = Cardinality(upTo(k))
    BY <1>3
  <2>2. IsFiniteSet(upTo(k)) /\ Cardinality(upTo(k)) <= Cardinality(I)
    BY <1>2, <2>1, FS_Subset
  <2>3. Cardinality(upTo(k)) \in Nat
    BY <2>2, FS_CardinalityType
  <2>4. QED
    BY <2>1, <2>2, <2>3
<1>5. ASSUME NEW k \in I, NEW l \in Nat, l < k PROVE rank(l) < rank(k)
  <2>1. k \in upTo(k) /\ k \notin upTo(l) /\ upTo(l) \subseteq upTo(k)
    <3>1. k \in Nat /\ k <= k /\ ~(k <= l)
      BY <1>5
    <3>2. \A j \in I : j <= l => j <= k
      BY <1>5, <3>1
    <3>3. QED
      BY <1>3, <3>1, <3>2
  <2>2. IsFiniteSet(upTo(k)) /\ rank(k) \in Nat /\ rank(l) \in Nat
    BY <1>4
  <2>3. upTo(l) \in SUBSET upTo(k) /\ upTo(k) # upTo(l)
    BY <2>1
  <2>4. Cardinality(upTo(l)) <= Cardinality(upTo(k))
        /\ Cardinality(upTo(k)) # Cardinality(upTo(l))
    BY <2>2, <2>3, FS_Subset
  <2>5. QED
    BY <1>3, <2>2, <2>4
<1>6. rank(0) = 0 /\ rank(len) = Cardinality(I)
  <2>1. upTo(0) = {} /\ upTo(len) = I
    <3>1. \A j \in I : ~(j <= 0) /\ j <= len
      OBVIOUS
    <3>2. QED
      BY <1>3, <3>1
  <2>2. QED
    BY <1>3, <2>1, FS_EmptySet
<1>7. ASSUME NEW k \in Nat \ {0}
      PROVE  rank(k) <= rank(k - 1) + 1 /\ (k \notin I => rank(k) = rank(k - 1))
  <2>1. rank(k - 1) \in Nat /\ IsFiniteSet(upTo(k - 1))
    BY <1>4
  <2>2. \A j \in I : j <= k <=> j <= k - 1 \/ j = k
    OBVIOUS
  <2>3. CASE k \in I
    <3>1. k \notin upTo(k - 1)
      BY <1>3, <2>3
    <3>2. upTo(k) = upTo(k - 1) \cup {k}
      BY <1>3, <2>2, <2>3
    <3>3. Cardinality(upTo(k - 1) \cup {k}) = Cardinality(upTo(k - 1)) + 1
      BY <2>1, <3>1, FS_AddElement
    <3>4. rank(k) = rank(k - 1) + 1
      BY <1>3, <3>2, <3>3
    <3>5. QED
      BY <2>1, <2>3, <3>4
  <2>4. CASE k \notin I
    <3>1. upTo(k) = upTo(k - 1)
      BY <1>3, <2>2, <2>4
    <3>2. QED
      BY <1>3, <2>1, <3>1
  <2>5. QED
    BY <2>3, <2>4
<1>8. ASSUME NEW m \in 1..Cardinality(I) PROVE \E k \in I : rank(k) = m
  <2> DEFINE T == {k \in 0..len : rank(k) >= m}
  <2>1. T \in SUBSET Nat /\ len \in T
    BY <1>2, <1>6
  <2>2. PICK k \in T : \A l \in T : k <= l
    BY <2>1, TRLeast
  <2>3. k \in 0..len /\ rank(k) >= m
    BY <2>2
  <2>4. k \in Nat \ {0} /\ k - 1 \in 0..len
    BY <1>2, <1>6, <2>3
  <2>5. ~(rank(k - 1) >= m)
    BY <2>2, <2>4
  <2>6. rank(k) \in Nat /\ rank(k - 1) \in Nat /\ m \in Nat
    BY <1>2, <1>4
  <2>7. rank(k) <= rank(k - 1) + 1 /\ (k \notin I => rank(k) = rank(k - 1))
    BY <1>7, <2>4
  <2>8. k \in I /\ rank(k) = m
    BY <2>3, <2>5, <2>6, <2>7
  <2>9. QED
    BY <2>8
<1>9. ASSUME NEW k \in I PROVE rank(k) \in 1..Cardinality(I)
  <2>1. k \in Nat \ {0} /\ rank(k) \in Nat /\ rank(k) <= Cardinality(I)
    BY <1>4
  <2>2. rank(0) < rank(k)
    BY <1>5, <2>1
  <2>3. QED
    BY <1>2, <1>6, <2>1, <2>2
<1>10. ASSUME NEW k \in I, NEW l \in I, rank(k) = rank(l) PROVE k = l
  <2>1. k \in Nat /\ l \in Nat /\ rank(k) \in Nat
    BY <1>4
  <2>2. ~(k < l) /\ ~(l < k)
    BY <1>5, <1>10, <2>1
  <2>3. QED
    BY <2>1, <2>2
<1>11. /\ \A m \in 1..Cardinality(I) : \E k \in I : Cardinality({j \in I : j <= k}) = m
       /\ \A k \in I : Cardinality({j \in I : j <= k}) \in 1..Cardinality(I)
       /\ \A k, l \in I :
            Cardinality({j \in I : j <= k}) = Cardinality({j \in I : j <= l}) => k = l
  BY <1>8, <1>9, <1>10 DEF rank, upTo
<1>12. QED
  BY <1>2, <1>11

\* What is kept of a list is the elements that are to be kept, and is shorter when any
\* is not.
LEMMA TRKept ==
  ASSUME NEW X, NEW s \in Seq(X), NEW S
  PROVE  /\ TR!keeping(s, S) \in Seq(X) /\ Len(TR!keeping(s, S)) <= Len(s)
         /\ TR!Range(TR!keeping(s, S)) = {e \in TR!Range(s) : e \in S}
         /\ (\E e \in TR!Range(s) : e \notin S) => Len(TR!keeping(s, S)) < Len(s)
<1> DEFINE len == Len(s)
           I == {k \in 1..len : s[k] \in S}
           size == Cardinality(I)
           rank(k) == Cardinality({j \in I : j <= k})
           place(m) == CHOOSE k \in I : rank(k) = m
           kept == [m \in 1..size |-> s[place(m)]]
<1>1. len \in Nat /\ DOMAIN s = 1..len /\ s \in [1..len -> X]
  BY LenProperties
<1>2. TR!keeping(s, S) = kept
  BY <1>1 DEF TR!keeping, TR!Cardinality, Cardinality
<1> HIDE DEF len
<1>3. I \in SUBSET (1..len)
  OBVIOUS
<1>4. \A k \in 1..len : k \in I <=> s[k] \in S
  OBVIOUS
<1> HIDE DEF I
<1>5. /\ size \in Nat /\ size <= len /\ (I # 1..len => size < len)
      /\ \A m \in 1..size : \E k \in I : rank(k) = m
      /\ \A k \in I : rank(k) \in 1..size
      /\ \A k, l \in I : rank(k) = rank(l) => k = l
  BY <1>1, <1>3, TRRanks
<1> HIDE DEF size, rank
<1>6. \A m \in 1..size : place(m) \in I /\ rank(place(m)) = m
  BY <1>5
<1>7. \A k \in I : place(rank(k)) = k
  BY <1>5, <1>6
<1> HIDE DEF place
<1>8. kept \in [1..size -> X]
  BY <1>1, <1>3, <1>6
<1>9. kept \in Seq(X) /\ Len(kept) = size
  BY <1>5, <1>8, LenProperties, SeqDef
<1>10. TR!Range(kept) = {e \in TR!Range(s) : e \in S}
  <2>1. TR!Range(kept) = {kept[m] : m \in 1..size}
    BY DEF TR!Range
  <2>2. TR!Range(s) = {s[k] : k \in 1..len}
    BY <1>1 DEF TR!Range
  <2>3. ASSUME NEW m \in 1..size PROVE kept[m] \in TR!Range(s) /\ kept[m] \in S
    BY <1>3, <1>4, <1>6, <2>2
  <2>4. ASSUME NEW e \in TR!Range(s), e \in S PROVE e \in TR!Range(kept)
    <3>1. PICK k \in 1..len : e = s[k]
      BY <2>2
    <3>2. k \in I /\ rank(k) \in 1..size /\ kept[rank(k)] = e
      BY <1>4, <1>5, <1>7, <2>4, <3>1
    <3>3. QED
      BY <2>1, <3>2
  <2>5. QED
    BY <2>1, <2>3, <2>4
<1>11. (\E e \in TR!Range(s) : e \notin S) => I # 1..len
  BY <1>1, <1>4 DEF TR!Range
<1>12. QED
  BY <1>2, <1>5, <1>9, <1>10, <1>11 DEF len

\* What a list has after its first element has gone.
LEMMA TRLater ==
  ASSUME NEW X, NEW s \in Seq(X), s # <<>>
  PROVE  Tail(s) \in Seq(X) /\ Len(Tail(s)) = Len(s) - 1 /\ TR!Range(Tail(s)) \subseteq TR!Range(s)
<1>1. /\ Tail(s) \in Seq(X) /\ Len(Tail(s)) = Len(s) - 1 /\ Len(s) \in Nat
      /\ \A k \in 1..Len(Tail(s)) : Tail(s)[k] = s[k + 1]
  BY HeadTailProperties, LenProperties
<1>2. DOMAIN Tail(s) = 1..Len(Tail(s)) /\ DOMAIN s = 1..Len(s)
  BY <1>1, LenProperties
<1>3. QED
  BY <1>1, <1>2 DEF TR!Range

\* What a list has after an element is appended.
LEMMA TRLonger ==
  ASSUME NEW X, NEW s \in Seq(X), NEW e \in X
  PROVE  /\ Append(s, e) \in Seq(X) /\ Len(Append(s, e)) = Len(s) + 1
         /\ TR!Range(Append(s, e)) = TR!Range(s) \cup {e}
<1>1. /\ Append(s, e) \in Seq(X) /\ Len(Append(s, e)) = Len(s) + 1 /\ Len(s) \in Nat
      /\ \A k \in 1..Len(s) : Append(s, e)[k] = s[k]
      /\ Append(s, e)[Len(s) + 1] = e
  BY AppendProperties, LenProperties
<1>2. DOMAIN Append(s, e) = 1..(Len(s) + 1) /\ DOMAIN s = 1..Len(s)
  BY <1>1, LenProperties
<1>3. QED
  BY <1>1, <1>2 DEF TR!Range

\* What the memory has after an entry is set.
LEMMA TRSet ==
  ASSUME NEW s \in Seq(TREntries), NEW entry \in TREntries
  PROVE  /\ TR!with(s, entry) \in Seq(TREntries)
         /\ \A e \in TR!Range(TR!with(s, entry)) :
              e = entry \/ (e \in TR!Range(s) /\ e.id # entry.id)
         /\ Len(TR!with(s, entry)) = Len(s) \/ Len(TR!with(s, entry)) = Len(s) + 1
         /\ (\E e \in TR!Range(s) : e.id = entry.id) => Len(TR!with(s, entry)) = Len(s)
<1>1. Len(s) \in Nat /\ DOMAIN s = 1..Len(s) /\ s \in [1..Len(s) -> TREntries]
  BY LenProperties
<1>2. CASE \E e \in TR!Range(s) : e.id = entry.id
  <2> DEFINE new == [k \in DOMAIN s |-> IF s[k].id = entry.id THEN entry ELSE s[k]]
  <2>1. TR!with(s, entry) = new
    BY <1>2 DEF TR!with
  <2>2. new \in [1..Len(s) -> TREntries]
    BY <1>1
  <2>3. new \in Seq(TREntries) /\ Len(new) = Len(s)
    BY <1>1, <2>2, LenProperties, SeqDef
  <2>4. \A e \in TR!Range(new) : e = entry \/ (e \in TR!Range(s) /\ e.id # entry.id)
    BY DEF TR!Range
  <2>5. QED
    BY <2>1, <2>3, <2>4
<1>3. CASE ~ \E e \in TR!Range(s) : e.id = entry.id
  <2>1. TR!with(s, entry) = Append(s, entry)
    BY <1>3 DEF TR!with
  <2>2. QED
    BY <1>3, <2>1, TRLonger
<1>4. QED
  BY <1>2, <1>3

-----------------------------------------------------------------------------
(* The steps *)

\* An answer changes what is known of its call alone.
LEMMA TRReplyFrame ==
  ASSUME TRShape, NEW c \in trCalls, NEW what \in {"complete", "failed", "busy", "running"},
         TR!Reply(c, what)
  PROVE  /\ trAt' \in [trCalls -> {"idle", "read", "missed", "complete", "failed", "busy",
                              "running"}]
         /\ trAsks' \in [trCalls -> trIds \cup {TR!Nil}]
         /\ \A d \in trCalls : trAt'[d] \in {"read", "missed"} => trAsks'[d] \in trIds
  BY DEF TRShape, TR!TypeOK, TR!Reply

\* The type of an entry.
LEMMA TREntryTyped ==
  ASSUME NEW i \in trIds, NEW status \in {"running", "failed"}
  PROVE  /\ TR!Entry(i, status) \in TREntries /\ TR!Entry(i, status).id = i
         /\ TR!Entry(i, status).status = status /\ TR!Entry(i, status).late = FALSE
  BY DEF TR!Entry, TREntries

\* The type of the memory's entries, from that of the memory.
LEMMA TRPendingTyped ==
  ASSUME NEW s \in Seq(TREntries)
  PROVE  /\ \A e \in TR!Range(s) : e \in TREntries /\ e.id \in trIds
                                   /\ e.status \in {"running", "failed"}
         /\ Len(s) \in Nat
<1>1. Len(s) \in Nat /\ DOMAIN s = 1..Len(s) /\ s \in [1..Len(s) -> TREntries]
  BY LenProperties
<1>2. \A e \in TR!Range(s) : e \in TREntries
  BY <1>1 DEF TR!Range
<1>3. QED
  BY <1>1, <1>2 DEF TREntries

\* A step that changes only what calls know keeps the invariant.
LEMMA TRCallsOnly ==
  ASSUME TRIInv, trFile' = trFile, trDraft' = trDraft, trRunning' = trRunning, trJob' = trJob, trTmp' = trTmp,
         trStuck' = trStuck, trPending' = trPending,
         trAt' \in [trCalls -> {"idle", "read", "missed", "complete", "failed", "busy",
                            "running"}],
         trAsks' \in [trCalls -> trIds \cup {TR!Nil}],
         \A d \in trCalls : trAt'[d] \in {"read", "missed"} => trAsks'[d] \in trIds
  PROVE  TRIInv'
<1>1. TRShape /\ (trRunning # TR!Nil => trJob[trRunning] # TR!Nil \/ trStuck) /\ \A i \in trIds : TRJobInv(i)
  BY DEF TRIInv
<1>2. TRShape'
  BY <1>1 DEF TRShape, TR!TypeOK
<1>3. ASSUME NEW i \in trIds PROVE TRJobInv(i)'
  <2>1. TRJobInv(i)
    BY <1>1
  <2>2. TR!prior(i)' = TR!prior(i)
    BY DEF TR!prior
  <2>3. QED
    BY <2>1, <2>2 DEF TRJobInv
<1>4. QED
  BY <1>1, <1>2, <1>3 DEF TRIInv

\* A call asks, and reads what is stored.
LEMMA TRAskInv ==
  ASSUME TRSane, TRIInv, NEW c \in trCalls, TR!Ask(c) \/ TR!Stored(c)
  PROVE TRIInv'
<1>1. TRShape
  BY DEF TRIInv
<1>2. /\ trFile' = trFile /\ trDraft' = trDraft /\ trRunning' = trRunning /\ trJob' = trJob
      /\ trTmp' = trTmp
      /\ trStuck' = trStuck /\ trPending' = trPending
  BY DEF TR!Ask, TR!Stored, TR!disk
<1>3. CASE TR!Ask(c)
  <2>1. PICK i \in trIds : trAsks' = [trAsks EXCEPT ![c] = i]
    BY <1>3 DEF TR!Ask
  <2>2. trAt' = [trAt EXCEPT ![c] = "read"]
    BY <1>3 DEF TR!Ask
  <2>3. QED
    BY <1>1, <1>2, <2>1, <2>2, TRCallsOnly DEF TRShape, TR!TypeOK
<1>4. CASE TR!Reply(c, "complete") \/ TR!Reply(c, "failed")
  BY <1>1, <1>2, <1>4, TRReplyFrame, TRCallsOnly
<1>5. CASE trAt[c] = "read" /\ trAt' = [trAt EXCEPT ![c] = "missed"] /\ trAsks' = trAsks
  BY <1>1, <1>2, <1>5, TRCallsOnly DEF TRShape, TR!TypeOK
<1>6. QED
  BY <1>3, <1>4, <1>5 DEF TR!Stored

\* A call that found nothing stored is told of a job, or starts one.
LEMMA TRMissedInv == ASSUME TRSane, TRIInv, NEW c \in trCalls, TR!Missed(c) PROVE TRIInv'
<1> DEFINE id == trAsks[c]
           kept == TR!keeping(trPending, {e \in TR!Range(trPending) : e.id # id /\ ~e.late})
           room == IF Len(kept) >= trMaxPending THEN Tail(kept) ELSE kept
<1>1. TRShape /\ (trRunning # TR!Nil => trJob[trRunning] # TR!Nil \/ trStuck) /\ \A i \in trIds : TRJobInv(i)
  BY DEF TRIInv
<1>2. /\ trAt[c] = "missed" /\ trFile' = trFile /\ trDraft' = trDraft /\ trTmp' = trTmp
      /\ trStuck' = trStuck
  BY DEF TR!Missed, TR!disk
<1>3. id \in trIds /\ trPending \in Seq(TREntries) /\ Len(trPending) <= trMaxPending
  BY <1>1, <1>2 DEF TRShape, TR!TypeOK
<1>4. \/ \E e \in TR!prior(id) : TR!Reply(c, e.status) /\ UNCHANGED <<trRunning, trPending, trJob>>
      \/ /\ trRunning # TR!Nil /\ trPending' = TR!without(trPending, id)
         /\ TR!Reply(c, "busy") /\ trRunning' = trRunning /\ trJob' = trJob
         /\ TR!prior(id) = {}
      \/ /\ trRunning = TR!Nil /\ trRunning' = id
         /\ trPending' = Append(room, TR!Entry(id, "running"))
         /\ trJob' = [trJob EXCEPT ![id] = "fetch"] /\ TR!Reply(c, "running")
  BY DEF TR!Missed
<1>5. CASE \E e \in TR!prior(id) : TR!Reply(c, e.status) /\ UNCHANGED <<trRunning, trPending, trJob>>
  <2>1. PICK e \in TR!prior(id) : TR!Reply(c, e.status) /\ UNCHANGED <<trRunning, trPending, trJob>>
    BY <1>5
  <2>2. e.status \in {"running", "failed"}
    BY <1>3, TRPendingTyped DEF TR!prior
  <2>3. QED
    BY <1>1, <1>2, <2>1, <2>2, TRReplyFrame, TRCallsOnly
<1>6. CASE /\ trRunning # TR!Nil /\ trPending' = TR!without(trPending, id)
           /\ TR!Reply(c, "busy") /\ trRunning' = trRunning /\ trJob' = trJob
           /\ TR!prior(id) = {}
  <2>1. /\ trPending' \in Seq(TREntries) /\ Len(trPending') <= Len(trPending)
        /\ TR!Range(trPending') = {e \in TR!Range(trPending) : e.id # id}
        /\ (\E e \in TR!Range(trPending) : e.id = id) => Len(trPending') < Len(trPending)
    BY <1>3, <1>6, TRKept DEF TR!without
  <2>2. Len(trPending) \in Nat /\ Len(trPending') \in Nat
        /\ \A e \in TR!Range(trPending') : e.id \in trIds /\ e.status \in {"running", "failed"}
    BY <1>3, <2>1, TRPendingTyped
  <2>3. TRShape'
    BY <1>1, <1>2, <1>3, <1>6, <2>1, <2>2, TRReplyFrame DEF TRShape, TR!TypeOK, TRSane
  <2>4. ASSUME NEW i \in trIds PROVE TRJobInv(i)'
    <3>1. TRJobInv(i)
      BY <1>1
    <3>2. TR!prior(i)' \subseteq TR!prior(i)
      BY <2>1 DEF TR!prior
    <3>3. (\E e \in TR!Range(trPending) : e.id = i) =>
            (\E e \in TR!Range(trPending') : e.id = i) \/ Len(trPending') < Len(trPending)
      BY <2>1
    <3>4. Len(trPending') >= trMaxPending =>
            Len(trPending) >= trMaxPending /\ ~(Len(trPending') < Len(trPending))
      BY <1>3, <2>1, <2>2 DEF TRSane
    <3>5. trJob[i] \notin {TR!Nil, "clean"} /\ Len(trPending') >= trMaxPending =>
            \E e \in TR!Range(trPending') : e.id = i
      BY <3>1, <3>3, <3>4 DEF TRJobInv
    <3>6. QED
      BY <1>2, <1>6, <3>1, <3>2, <3>5 DEF TRJobInv, TR!Nil
  <2>5. QED
    BY <1>1, <1>2, <1>6, <2>3, <2>4 DEF TRIInv, TR!Nil
<1>7. CASE /\ trRunning = TR!Nil /\ trRunning' = id
           /\ trPending' = Append(room, TR!Entry(id, "running"))
           /\ trJob' = [trJob EXCEPT ![id] = "fetch"] /\ TR!Reply(c, "running")
  <2>1. \A i \in trIds : trJob[i] = TR!Nil
    BY <1>1, <1>7 DEF TRJobInv, TRSane
  <2>2. trJob'[id] = "fetch" /\ \A i \in trIds \ {id} : trJob'[i] = TR!Nil
    BY <1>1, <1>3, <1>7, <2>1 DEF TRShape, TR!TypeOK
  <2>3. /\ kept \in Seq(TREntries) /\ Len(kept) <= Len(trPending)
        /\ TR!Range(kept) = {e \in TR!Range(trPending) : e.id # id /\ ~e.late}
    BY <1>3, TRKept
  <2> HIDE DEF kept
  <2>4. Len(kept) \in Nat /\ Len(trPending) \in Nat
    BY <1>3, <2>3, LenProperties
  <2>5. room \in Seq(TREntries) /\ Len(room) < trMaxPending /\ Len(room) \in Nat
        /\ TR!Range(room) \subseteq TR!Range(kept)
    <3>1. CASE Len(kept) >= trMaxPending
      <4>1. kept # <<>>
        BY <2>4, <3>1, EmptySeq DEF TRSane
      <4>2. room = Tail(kept)
        BY <3>1
      <4>3. Tail(kept) \in Seq(TREntries) /\ Len(Tail(kept)) = Len(kept) - 1
            /\ TR!Range(Tail(kept)) \subseteq TR!Range(kept)
        BY <2>3, <4>1, TRLater
      <4>4. Len(Tail(kept)) \in Nat
        BY <4>3, LenProperties
      <4>5. Len(kept) = trMaxPending
        BY <1>3, <2>3, <2>4, <3>1 DEF TRSane
      <4>6. QED
        BY <2>4, <4>2, <4>3, <4>4, <4>5 DEF TRSane
    <3>2. CASE ~(Len(kept) >= trMaxPending)
      BY <2>3, <2>4, <3>2 DEF TRSane
    <3>3. QED
      BY <3>1, <3>2
  <2> HIDE DEF room
  <2>6. TR!Entry(id, "running") \in TREntries /\ TR!Entry(id, "running").id = id
    BY <1>3, TREntryTyped
  <2>7. /\ trPending' \in Seq(TREntries) /\ Len(trPending') = Len(room) + 1
        /\ TR!Range(trPending') = TR!Range(room) \cup {TR!Entry(id, "running")}
    BY <1>7, <2>5, <2>6, TRLonger
  <2>8. Len(trPending') <= trMaxPending
        /\ \A e \in TR!Range(trPending') : e.id \in trIds /\ e.status \in {"running", "failed"}
    BY <2>5, <2>7, TRPendingTyped DEF TRSane
  <2>9. trJob' \in [trIds -> {TR!Nil, "fetch", "work", "write", "writing", "store", "stored", "clean"}]
    BY <1>1, <1>7 DEF TRShape, TR!TypeOK
  <2>10. TRShape'
    BY <1>1, <1>2, <1>3, <1>7, <2>7, <2>8, <2>9, TRReplyFrame DEF TRShape, TR!TypeOK
  <2>11. ASSUME NEW i \in trIds PROVE TRJobInv(i)'
    <3>1. TRJobInv(i)
      BY <1>1
    <3>2. CASE i = id
      BY <1>2, <1>7, <2>2, <2>6, <2>7, <3>1, <3>2 DEF TRJobInv, TR!Nil
    <3>3. CASE i # id
      <4>1. TR!prior(i)' \subseteq TR!prior(i)
        BY <2>3, <2>5, <2>6, <2>7, <3>3 DEF TR!prior
      <4>2. trJob'[i] = TR!Nil
        BY <2>2, <3>3
      <4>3. QED
        BY <1>2, <2>1, <3>1, <4>1, <4>2 DEF TRJobInv, TR!Nil
    <3>4. QED
      BY <3>2, <3>3
  <2>12. QED
    BY <1>7, <2>2, <2>10, <2>11 DEF TRIInv, TR!Nil
<1>8. QED
  BY <1>4, <1>5, <1>6, <1>7

\* A step of the job of id, which runs alone, keeps the invariant if it keeps what is
\* said of that job, and adds no entry of another.
LEMMA TRJobStep ==
  ASSUME TRSane, TRIInv, NEW id \in trIds, trJob[id] # TR!Nil, TRShape', TRJobInv(id)',
         trRunning' \in {id, TR!Nil}, trRunning' = id => trJob'[id] # TR!Nil \/ trStuck',
         \A i \in trIds \ {id} : trJob'[i] = trJob[i] /\ trFile'[i] = trFile[i] /\ trDraft'[i] = trDraft[i],
         \A e \in TR!Range(trPending') : e.id # id => e \in TR!Range(trPending)
  PROVE  TRIInv'
<1>1. \A i \in trIds : TRJobInv(i)
  BY DEF TRIInv
<1>2. trRunning = id
  BY <1>1 DEF TRJobInv
<1>3. ASSUME NEW i \in trIds, i # id PROVE TRJobInv(i)'
  <2>1. TRJobInv(i) /\ trJob[i] = TR!Nil /\ trJob'[i] = TR!Nil
    BY <1>1, <1>2, <1>3 DEF TRJobInv
  <2>2. TR!prior(i)' \subseteq TR!prior(i)
    BY <1>3 DEF TR!prior
  <2>3. QED
    BY <1>3, <2>1, <2>2 DEF TRJobInv, TR!Nil
<1>4. trRunning' # TR!Nil => trJob'[trRunning'] # TR!Nil \/ trStuck'
  OBVIOUS
<1>5. QED
  BY <1>3, <1>4 DEF TRIInv, TR!Nil

\* A job fails: the memory says so, and the job is over or has a directory to remove.
LEMMA TRFailInv ==
  ASSUME TRSane, TRIInv, NEW id \in trIds, trJob[id] \notin {TR!Nil, "clean"}, TR!Fail(id),
         trTmp' = trTmp, trAt' = trAt, trAsks' = trAsks, trStuck' = trStuck, trFile' = trFile, trDraft' = trDraft
  PROVE  TRIInv'
<1>1. TRShape /\ TRJobInv(id)
  BY DEF TRIInv
<1>2. trRunning = id
  BY <1>1 DEF TRJobInv
<1>3. trPending' = TR!with(trPending, TR!Entry(id, "failed"))
  BY DEF TR!Fail
<1>4. \/ trJob' = [trJob EXCEPT ![id] = "clean"] /\ trRunning' = trRunning
      \/ trJob' = [trJob EXCEPT ![id] = TR!Nil] /\ trRunning' = TR!Nil
  BY DEF TR!Fail
<1>5. /\ trJob' \in [trIds -> {TR!Nil, "fetch", "work", "write", "writing", "store", "stored", "clean"}]
      /\ trJob'[id] \in {TR!Nil, "clean"} /\ \A i \in trIds \ {id} : trJob'[i] = trJob[i]
      /\ trJob'[id] # TR!Nil <=> trRunning' = id
      /\ trRunning' \in {id, TR!Nil}
  BY <1>1, <1>2, <1>4 DEF TRShape, TR!TypeOK, TR!Nil, TRSane
<1>6. TR!Entry(id, "failed") \in TREntries /\ TR!Entry(id, "failed").id = id
      /\ TR!Entry(id, "failed").status = "failed"
  BY TREntryTyped
<1>7. trPending \in Seq(TREntries) /\ Len(trPending) <= trMaxPending /\ Len(trPending) \in Nat
  BY <1>1, LenProperties DEF TRShape, TR!TypeOK
<1>8. /\ trPending' \in Seq(TREntries)
      /\ \A e \in TR!Range(trPending') :
           e = TR!Entry(id, "failed") \/ (e \in TR!Range(trPending) /\ e.id # id)
      /\ Len(trPending') = Len(trPending) \/ Len(trPending') = Len(trPending) + 1
      /\ (\E e \in TR!Range(trPending) : e.id = id) => Len(trPending') = Len(trPending)
  BY <1>3, <1>6, <1>7, TRSet
<1>9. Len(trPending') <= trMaxPending
  <2>1. Len(trPending) >= trMaxPending => \E e \in TR!Range(trPending) : e.id = id
    BY <1>1 DEF TRJobInv
  <2>2. QED
    BY <1>7, <1>8, <2>1 DEF TRSane
<1>10. \A e \in TR!Range(trPending') : e.id \in trIds /\ e.status \in {"running", "failed"}
  BY <1>8, TRPendingTyped
<1>11. TRShape'
  BY <1>1, <1>5, <1>8, <1>9, <1>10 DEF TRShape, TR!TypeOK
<1>12. TRJobInv(id)'
  <2>1. \A e \in TR!prior(id)' : e.status = "failed"
    BY <1>6, <1>8 DEF TR!prior
  <2>2. QED
    BY <1>1, <1>2, <1>5, <2>1 DEF TRJobInv, TR!Nil
<1>13. QED
  BY <1>5, <1>6, <1>8, <1>11, <1>12, TRJobStep

\* A job goes on, from one place to the next.
LEMMA TRGoesOn ==
  ASSUME TRSane, TRIInv, NEW id \in trIds,
         NEW from \in {"fetch", "work", "write", "writing", "store"},
         NEW to \in {"work", "write", "writing", "store", "stored"}, TR!Step(id, from, to),
         trPending' = trPending, trRunning' = trRunning, trAt' = trAt, trAsks' = trAsks, trStuck' = trStuck,
         trTmp' \subseteq trIds,
         trFile' \in [trIds -> {TR!Nil, "part", "whole"}], trDraft' \in [trIds -> {TR!Nil, "part", "whole"}],
         \A i \in trIds \ {id} : trFile'[i] = trFile[i] /\ trDraft'[i] = trDraft[i],
         trFile'[id] # "part", to = "store" => trDraft'[id] = "whole"
  PROVE  TRIInv'
<1>1. TRShape /\ TRJobInv(id)
  BY DEF TRIInv
<1>2. trJob[id] = from /\ trJob' = [trJob EXCEPT ![id] = to]
  BY DEF TR!Step
<1>3. /\ trJob' \in [trIds -> {TR!Nil, "fetch", "work", "write", "writing", "store", "stored", "clean"}]
      /\ trJob'[id] = to /\ \A i \in trIds \ {id} : trJob'[i] = trJob[i]
  BY <1>1, <1>2 DEF TRShape, TR!TypeOK
<1>4. trRunning = id
  BY <1>1, <1>2 DEF TRJobInv, TR!Nil
<1>5. TRShape'
  BY <1>1, <1>3 DEF TRShape, TR!TypeOK
<1>6. TRJobInv(id)'
  <2>1. TR!prior(id)' = TR!prior(id)
    BY DEF TR!prior
  <2>2. QED
    BY <1>1, <1>2, <1>3, <1>4, <2>1 DEF TRJobInv, TR!Nil
<1>7. trJob[id] # TR!Nil /\ trJob'[id] # TR!Nil
  BY <1>2, <1>3 DEF TR!Nil
<1>8. QED
  BY <1>3, <1>4, <1>5, <1>6, <1>7, TRJobStep

\* A job fetches, works, writes its draft and stores it, or fails.
LEMMA TRWorkInv ==
  ASSUME TRSane, TRIInv, NEW id \in trIds, TR!Fetch(id) \/ TR!Work(id) \/ TR!WriteDraft(id) \/ TR!Store(id)
  PROVE  TRIInv'
<1>1. TRShape /\ TRJobInv(id)
  BY DEF TRIInv
<1>2. trAt' = trAt /\ trAsks' = trAsks /\ trStuck' = trStuck /\ trJob[id] \notin {TR!Nil, "clean"}
  BY DEF TR!Fetch, TR!Work, TR!WriteDraft, TR!Store, TR!Nil
<1>3. CASE TR!Fail(id) /\ trTmp' = trTmp /\ trFile' = trFile /\ trDraft' = trDraft
  BY <1>2, <1>3, TRFailInv
<1>4. CASE /\ TR!Step(id, "fetch", "work") /\ trTmp' = trTmp \cup {id} /\ trPending' = trPending
           /\ trRunning' = trRunning /\ trFile' = trFile /\ trDraft' = trDraft
  BY <1>1, <1>2, <1>4, TRGoesOn DEF TRShape, TR!TypeOK, TRJobInv
<1>5. CASE /\ TR!Step(id, "work", "write") /\ trTmp' = trTmp /\ trPending' = trPending
           /\ trRunning' = trRunning /\ trFile' = trFile /\ trDraft' = trDraft
  BY <1>1, <1>2, <1>5, TRGoesOn DEF TRShape, TR!TypeOK, TRJobInv
<1>6. CASE /\ TR!Step(id, "write", "writing") /\ trTmp' = trTmp /\ trPending' = trPending
           /\ trRunning' = trRunning /\ trFile' = trFile
           /\ trDraft' = [trDraft EXCEPT ![id] = "part"]
  BY <1>1, <1>2, <1>6, TRGoesOn DEF TRShape, TR!TypeOK, TRJobInv
<1>7. CASE /\ TR!Step(id, "writing", "store") /\ trTmp' = trTmp /\ trPending' = trPending
           /\ trRunning' = trRunning /\ trFile' = trFile
           /\ trDraft' = [trDraft EXCEPT ![id] = "whole"]
  BY <1>1, <1>2, <1>7, TRGoesOn DEF TRShape, TR!TypeOK, TRJobInv
<1>8. CASE /\ TR!Step(id, "store", "stored") /\ trTmp' = trTmp /\ trPending' = trPending
           /\ trRunning' = trRunning /\ trFile' = [trFile EXCEPT ![id] = trDraft[id]]
           /\ trDraft' = [trDraft EXCEPT ![id] = TR!Nil]
  <2>1. trDraft[id] = "whole"
    BY <1>1, <1>8 DEF TRJobInv, TR!Step
  <2>2. /\ trFile' \in [trIds -> {TR!Nil, "part", "whole"}]
        /\ trDraft' \in [trIds -> {TR!Nil, "part", "whole"}]
        /\ \A i \in trIds \ {id} : trFile'[i] = trFile[i] /\ trDraft'[i] = trDraft[i]
        /\ trFile'[id] = "whole" /\ trTmp' \subseteq trIds
    BY <1>1, <1>8, <2>1 DEF TRShape, TR!TypeOK
  <2>3. QED
    BY <1>2, <1>8, <2>2, TRGoesOn
<1>9. QED
  BY <1>3, <1>4, <1>5, <1>6, <1>7, <1>8 DEF TR!Fetch, TR!Work, TR!WriteDraft, TR!Store,
     TR!disk

\* A stored job is forgotten, and its directory removed.
LEMMA TREndInv ==
  ASSUME TRSane, TRIInv, NEW id \in trIds, TR!Finish(id) \/ TR!Clean(id) PROVE TRIInv'
<1>1. TRShape /\ TRJobInv(id)
  BY DEF TRIInv
<1>2. trFile' = trFile /\ trDraft' = trDraft /\ trAt' = trAt /\ trAsks' = trAsks
      /\ trJob[id] \in {"stored", "clean"} /\ trRunning = id
  BY <1>1 DEF TR!Finish, TR!Clean, TR!Step, TR!disk, TRJobInv, TR!Nil
<1>3. CASE TR!Finish(id)
  <2>1. trJob' = [trJob EXCEPT ![id] = "clean"] /\ trPending' = TR!without(trPending, id)
        /\ trRunning' = trRunning /\ trTmp' = trTmp /\ trStuck' = trStuck
    BY <1>3 DEF TR!Finish, TR!Step
  <2>2. /\ trJob' \in [trIds -> {TR!Nil, "fetch", "work", "write", "writing", "store", "stored", "clean"}]
        /\ trJob'[id] = "clean" /\ \A i \in trIds \ {id} : trJob'[i] = trJob[i]
    BY <1>1, <2>1 DEF TRShape, TR!TypeOK
  <2>3. trPending \in Seq(TREntries) /\ Len(trPending) \in Nat /\ Len(trPending) <= trMaxPending
    BY <1>1, LenProperties DEF TRShape, TR!TypeOK
  <2>4. /\ trPending' \in Seq(TREntries) /\ Len(trPending') <= Len(trPending)
        /\ TR!Range(trPending') = {e \in TR!Range(trPending) : e.id # id}
    BY <2>1, <2>3, TRKept DEF TR!without
  <2>5. Len(trPending') <= trMaxPending
        /\ \A e \in TR!Range(trPending') : e.id \in trIds /\ e.status \in {"running", "failed"}
    BY <2>3, <2>4, TRPendingTyped DEF TRSane
  <2>6. TRShape'
    BY <1>1, <1>2, <2>1, <2>2, <2>4, <2>5 DEF TRShape, TR!TypeOK
  <2>7. TR!prior(id)' = {}
    BY <2>4 DEF TR!prior
  <2>8. TRJobInv(id)'
    BY <1>1, <1>2, <2>1, <2>2, <2>7 DEF TRJobInv, TR!Nil
  <2>9. trJob[id] # TR!Nil /\ trJob'[id] # TR!Nil
    BY <1>2, <2>2 DEF TR!Nil
  <2>10. QED
    BY <1>2, <2>1, <2>2, <2>4, <2>6, <2>8, <2>9, TRJobStep
<1>4. CASE TR!Clean(id)
  <2>1. /\ trJob[id] = "clean" /\ trJob' = [trJob EXCEPT ![id] = TR!Nil]
        /\ trPending' = trPending
        /\ \/ trRunning' = TR!Nil /\ trTmp' = trTmp \ {id} /\ trStuck' = trStuck
           \/ trStuck' = TRUE /\ trRunning' = trRunning /\ trTmp' = trTmp
    BY <1>4 DEF TR!Clean, TR!Step
  <2>2. /\ trJob' \in [trIds -> {TR!Nil, "fetch", "work", "write", "writing", "store", "stored", "clean"}]
        /\ trJob'[id] = TR!Nil /\ \A i \in trIds \ {id} : trJob'[i] = trJob[i]
        /\ trRunning' \in {id, TR!Nil} /\ trTmp' \subseteq trIds
    BY <1>1, <1>2, <2>1 DEF TRShape, TR!TypeOK
  <2>3. trRunning' = id => trStuck'
    BY <1>2, <2>1 DEF TRSane
  <2>4. TRShape'
    BY <1>1, <1>2, <2>1, <2>2 DEF TRShape, TR!TypeOK
  <2>5. TRJobInv(id)'
    <3>1. TR!prior(id)' = TR!prior(id)
      BY <2>1 DEF TR!prior
    <3>2. QED
      BY <1>1, <1>2, <2>1, <2>2, <3>1 DEF TRJobInv, TR!Nil
  <2>6. trJob[id] # TR!Nil
    BY <2>1 DEF TR!Nil
  <2>7. QED
    BY <1>2, <2>1, <2>2, <2>3, <2>4, <2>5, <2>6, TRJobStep
<1>5. QED
  BY <1>3, <1>4

\* What is said of a job expires.
LEMMA TRExpireInv ==
  ASSUME TRSane, TRIInv, NEW k \in DOMAIN trPending, TR!Expire(k)
  PROVE TRIInv'
<1>1. TRShape /\ (trRunning # TR!Nil => trJob[trRunning] # TR!Nil \/ trStuck) /\ \A i \in trIds : TRJobInv(i)
  BY DEF TRIInv
<1>2. /\ trPending' = [trPending EXCEPT ![k].late = TRUE]
      /\ trFile' = trFile /\ trDraft' = trDraft /\ trRunning' = trRunning /\ trJob' = trJob
      /\ trTmp' = trTmp
      /\ trAt' = trAt /\ trAsks' = trAsks /\ trStuck' = trStuck
  BY DEF TR!Expire, TR!disk
<1>3. trPending \in Seq(TREntries) /\ Len(trPending) \in Nat /\ DOMAIN trPending = 1..Len(trPending)
  BY <1>1, LenProperties DEF TRShape
<1> DEFINE old == trPending[k]
           new == [old EXCEPT !.late = TRUE]
<1>4. old \in TREntries /\ trPending' = [trPending EXCEPT ![k] = new]
  BY <1>2, <1>3, ElementOfSeq
<1>5. /\ new \in TREntries /\ new.id = old.id /\ new.late = TRUE
  BY <1>4 DEF TREntries
<1>6. /\ trPending' \in Seq(TREntries) /\ Len(trPending') = Len(trPending)
      /\ \A j \in 1..Len(trPending) : trPending'[j] = IF j = k THEN new ELSE trPending[j]
  BY <1>3, <1>4, <1>5, ExceptSeq
<1>7. DOMAIN trPending' = 1..Len(trPending)
  BY <1>6, LenProperties
<1>8. /\ \A e \in TR!Range(trPending') : e \in TR!Range(trPending) \/ (e.late = TRUE /\ e = new)
      /\ \A e \in TR!Range(trPending) : \E f \in TR!Range(trPending') : f.id = e.id
  BY <1>3, <1>5, <1>6, <1>7 DEF TR!Range
<1>9. TRShape'
  <2>1. \A e \in TR!Range(trPending') : e.id \in trIds /\ e.status \in {"running", "failed"}
    BY <1>6, TRPendingTyped
  <2>2. QED
    BY <1>1, <1>2, <1>6, <2>1 DEF TRShape, TR!TypeOK
<1>10. ASSUME NEW i \in trIds PROVE TRJobInv(i)'
  <2>1. TRJobInv(i)
    BY <1>1
  <2>2. TR!prior(i)' \subseteq TR!prior(i)
    BY <1>8 DEF TR!prior
  <2>3. (\E e \in TR!Range(trPending) : e.id = i) => \E e \in TR!Range(trPending') : e.id = i
    BY <1>8
  <2>4. QED
    BY <1>2, <1>6, <2>1, <2>2, <2>3 DEF TRJobInv, TR!Nil
<1>11. QED
  BY <1>1, <1>2, <1>9, <1>10 DEF TRIInv, TR!Nil

\* Another worker starts, with an empty memory.
LEMMA TRRestartInv == ASSUME TRSane, TRIInv, TR!Restart PROVE TRIInv'
<1>1. TRShape /\ \A i \in trIds : TRJobInv(i)
  BY DEF TRIInv
<1>2. /\ trRunning' = TR!Nil /\ trPending' = <<>> /\ trStuck' = FALSE
      /\ trJob' = [i \in trIds |-> TR!Nil] /\ trTmp' = {}
      /\ trAt' = [c \in trCalls |-> "idle"] /\ trAsks' = [c \in trCalls |-> TR!Nil]
      /\ trFile' = trFile /\ trDraft' = trDraft
  BY DEF TR!Restart, TR!disk
<1>3. /\ trPending' \in Seq(TREntries) /\ Len(trPending') = 0 /\ TR!Range(trPending') = {}
  BY <1>2, EmptySeq DEF TR!Range
<1>4. TRShape'
  BY <1>1, <1>2, <1>3 DEF TRShape, TR!TypeOK, TRSane
<1>5. ASSUME NEW i \in trIds PROVE TRJobInv(i)'
  <2>1. trFile'[i] # "part" /\ trJob'[i] = TR!Nil /\ TR!prior(i)' = {}
    BY <1>1, <1>2, <1>3 DEF TRJobInv, TR!prior
  <2>2. QED
    BY <2>1 DEF TRJobInv, TR!Nil
<1>6. QED
  BY <1>2, <1>4, <1>5 DEF TRIInv, TR!Nil

\* At first nothing is stored, and no job runs.
LEMMA TRInitInv == TRSane /\ TR!Init => TRIInv
<1> SUFFICES ASSUME TRSane, TR!Init PROVE TRIInv
  OBVIOUS
<1>1. /\ trFile = [i \in trIds |-> TR!Nil] /\ trDraft = [i \in trIds |-> TR!Nil]
      /\ trRunning = TR!Nil /\ trPending = <<>> /\ trJob = [i \in trIds |-> TR!Nil]
      /\ trTmp = {}
      /\ trAt = [c \in trCalls |-> "idle"] /\ trAsks = [c \in trCalls |-> TR!Nil]
      /\ trStuck = FALSE
  BY DEF TR!Init
<1>2. /\ trPending \in Seq(TREntries) /\ Len(trPending) = 0 /\ TR!Range(trPending) = {}
  BY <1>1, EmptySeq DEF TR!Range
<1>3. TRShape
  BY <1>1, <1>2 DEF TRShape, TR!TypeOK, TRSane
<1>4. \A i \in trIds : TRJobInv(i)
  BY <1>1, <1>2 DEF TRJobInv, TR!prior, TR!Nil
<1>5. QED
  BY <1>1, <1>3, <1>4 DEF TRIInv

\* Every step keeps the invariant.
LEMMA TRNextInv == TRSane /\ TRIInv /\ [TR!Next]_(TR!vars) => TRIInv'
<1> SUFFICES ASSUME TRSane, TRIInv, [TR!Next]_(TR!vars) PROVE TRIInv'
  OBVIOUS
<1>1. CASE UNCHANGED TR!vars
  BY <1>1 DEF TR!vars, TRIInv, TRShape, TR!TypeOK, TRJobInv, TR!prior, TR!Range, TR!Nil
<1>2. QED
  BY <1>1, TRAskInv, TRMissedInv, TRWorkInv, TREndInv, TRExpireInv, TRRestartInv
     DEF TR!Next

\* What the invariant says of the transcripts.
LEMMA TRConsequences == ASSUME TRIInv PROVE TR!TypeOK /\ TR!JobsAreTold
<1>1. \A i \in trIds : \A e \in TR!prior(i) : e.status = "running" => trJob[i] # TR!Nil
  BY DEF TRIInv, TRJobInv
<1>2. QED
  BY <1>1 DEF TRIInv, TRShape, TRJobInv, TR!JobsAreTold

-----------------------------------------------------------------------------
(* The components together *)

\* What is assumed of the constants.
LEMMA Sanity == ACSane /\ HOSane /\ DLSane /\ TRSane
  BY ApiAssumption, HostAssumption, DownloadsAssumption, TranscriptsAssumption
  DEF ACSane, HOSane, HO!Nil, DLSane, DL!Nil, TRSane, TR!Nil

\* The process lock, and whichever of the others runs, is in its invariant.
AllInv ==
  /\ part \in Parts /\ IInv
  /\ part = "api" => ACIInv
  /\ part = "host" => HOIInv
  /\ part = "download" => DLIInv
  /\ part = "media" => TRIInv

\* Each component starts in its invariant.
LEMMA AllInitInv == AllInit => AllInv
<1> SUFFICES ASSUME AllInit PROVE AllInv
  OBVIOUS
<1>1. /\ part \in Parts /\ Init
      /\ part = "api" => AC!Init
      /\ part = "host" => HO!Init
      /\ part = "download" => DL!Init
      /\ part = "media" => TR!Init
  BY DEF AllInit
<1>2. IInv
  BY <1>1, InitInv
<1>3. part = "api" => ACIInv
  BY <1>1, ACInitInv, Sanity
<1>4. part = "host" => HOIInv
  BY <1>1, HOInitInv, Sanity
<1>5. part = "download" => DLIInv
  BY <1>1, DLInitInv, Sanity
<1>6. part = "media" => TRIInv
  BY <1>1, TRInitInv, Sanity
<1>7. QED
  BY <1>1, <1>2, <1>3, <1>4, <1>5, <1>6 DEF AllInv

\* A step is a step of each component, or leaves it as it is.
LEMMA Steps ==
  ASSUME [AllNext]_allVars
  PROVE  /\ part' = part /\ [Next]_vars
         /\ [AC!Next]_(AC!vars) /\ [HO!Next]_(HO!vars)
         /\ [DL!Next]_(DL!vars) /\ [TR!Next]_(TR!vars)
<1>1. /\ AC!vars = acVars /\ AC!vars' = acVars' /\ HO!vars = hoVars /\ HO!vars' = hoVars'
      /\ DL!vars = dlVars /\ DL!vars' = dlVars' /\ TR!vars = trVars /\ TR!vars' = trVars'
  BY DEF acVars, AC!vars, hoVars, HO!vars, dlVars, DL!vars, trVars, TR!vars
<1>2. CASE UNCHANGED allVars
  BY <1>1, <1>2 DEF allVars
<1>3. CASE AllNext
  BY <1>1, <1>3 DEF AllNext, LockStep, ApiStep, HostStep, DownloadStep, MediaStep
<1>4. QED
  BY <1>2, <1>3

\* Every step keeps the invariants.
LEMMA AllNextInv == AllInv /\ [AllNext]_allVars => AllInv'
<1> SUFFICES ASSUME AllInv, [AllNext]_allVars PROVE AllInv'
  OBVIOUS
<1>1. part' = part /\ part \in Parts
  BY Steps DEF AllInv
<1>2. IInv'
  BY Steps, NextInv DEF AllInv
<1>3. part = "api" => ACIInv'
  BY Steps, Sanity, ACNextInv DEF AllInv
<1>4. part = "host" => HOIInv'
  BY Steps, Sanity, HONextInv DEF AllInv
<1>5. part = "download" => DLIInv'
  BY Steps, Sanity, DLNextInv DEF AllInv
<1>6. part = "media" => TRIInv'
  BY Steps, Sanity, TRNextInv DEF AllInv
<1>7. QED
  BY <1>1, <1>2, <1>3, <1>4, <1>5, <1>6 DEF AllInv

\* The invariants hold of every behaviour.
LEMMA AllInvariance == AllSpec => []AllInv
  BY AllInitInv, AllNextInv, PTL DEF AllSpec

\* Type correctness of every component; in particular no list of the media reader
\* outgrows its limit, and no acquisition of the lock takes more attempts than it may.
THEOREM LockTypeCorrect == AllSpec => []LockTyped
<1>1. AllInv => LockTyped
  <2> SUFFICES ASSUME AllInv PROVE LockTyped
    OBVIOUS
  <2>1. part \in Parts
    BY DEF AllInv
  <2>2. TypeOK
    BY Consequences DEF AllInv
  <2>3. part = "api" => AC!TypeOK
    BY ACConsequences, Sanity DEF AllInv
  <2>4. part = "host" => HO!TypeOK
    BY HOConsequences DEF AllInv
  <2>5. part = "download" => DL!TypeOK
    BY DLConsequences DEF AllInv
  <2>6. part = "media" => TR!TypeOK
    BY TRConsequences DEF AllInv
  <2>7. QED
    BY <2>1, <2>2, <2>3, <2>4, <2>5, <2>6 DEF LockTyped, Parts
<1>2. QED
  BY <1>1, AllInvariance, PTL

\* auth-lock.ts: until a second process is killed, nobody retires, removes or replaces the
\* lock of a live holder, however many processes contend, recover it and interleave.
THEOREM HolderNamed == AllSpec => [](crashes <= 1 => HolderIsNamed)
<1>1. AllInv => (crashes <= 1 => HolderIsNamed)
  BY Consequences DEF AllInv
<1>2. QED
  BY <1>1, AllInvariance, PTL

\* auth-lock.ts: with more than one attempt, an acquisition nobody disturbs is refused by
\* no dead owner, while no more processes have died than the locks may nest.
THEOREM LoneSucceeds ==
  AllSpec => [](MaxAttempts > 1 /\ crashes <= MaxDepth => LoneAcquisitionSucceeds)
<1>1. AllInv => (MaxAttempts > 1 /\ crashes <= MaxDepth => LoneAcquisitionSucceeds)
  BY Consequences DEF AllInv
<1>2. QED
  BY <1>1, AllInvariance, PTL

\* client.ts, rate-limiter.ts: one browser login for each page of a read, and no burst
\* beyond the bucket, whoever retries.
THEOREM LoginsAndRate == AllSpec => []LoginsAndRateHold
<1>1. AllInv => LoginsAndRateHold
  BY ACConsequences, Sanity DEF AllInv, LoginsAndRateHold
<1>2. QED
  BY <1>1, AllInvariance, PTL

\* host.mjs, hosting.mjs, download-helpers.ts, media-reader.ts: what is on disk, what runs
\* and what was answered agree, whatever is interrupted, killed, removed or retried.
THEOREM FilesWhole == AllSpec => []FilesAreWhole
<1>1. AllInv => FilesAreWhole
  BY HOConsequences, DLConsequences, TRConsequences DEF AllInv, FilesAreWhole
<1>2. QED
  BY <1>1, AllInvariance, PTL

=============================================================================
