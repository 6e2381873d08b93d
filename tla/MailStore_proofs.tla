--------------------------- MODULE MailStore_proofs ---------------------------
(* The mail store keeps what it promises, for any deliveries, messages, sizes and
   limits: an inductive invariant, one lemma for each action, and the refinement of
   the mailbox.  What the store keeps of a list is the longest part of it that fits,
   newest first; that needs facts about lists that are proved here by induction,
   taking the least number for which a fact would fail. *)
EXTENDS MailStore, SequenceTheorems, WellFoundedInduction, TLAPS

\* Labels of the task that runs; the others wait for their turn or for the network.
Working == {"load", "log", "eml", "body", "index", "cache", "unlink"}

\* Types.
Shape ==
  /\ index \in Seq(Messages)
  /\ eml \in SUBSET Messages /\ body \in SUBSET Messages /\ logged \in SUBSET Messages
  /\ policy \in BOOLEAN /\ told \in BOOLEAN
  /\ queue \in Seq(Procs)
  /\ cache \in [at: {"none", "loading", "list"}, list: Seq(Messages)]
  /\ load \in [at: {"none", "reading", "absent", "failed", "list"}, list: Seq(Messages)]
  /\ job \in [Procs -> Job]
  /\ acked \in SUBSET Messages /\ pushedOut \in SUBSET Messages

\* The counters that bound what happens are numbers.
Counters == offers \in Nat /\ forms \in Nat /\ faults \in Nat /\ crashes \in Nat

\* One task at a time is past the point where it waits.
TurnInv == \A p \in Procs : job[p].at \in Working => queue # <<>> /\ Head(queue) = p

\* The owner's form and the deliveries keep to their own steps.
RoleInv ==
  /\ job[Owner].at \in {"idle", "setPolicy"}
  /\ \A p \in Deliveries : /\ job[p].at # "setPolicy"
                           /\ job[p].at # "idle" => job[p].msg \in Messages

\* The task that runs has the index as it is on disk, and has written the files of its
\* message before it names the message there.
TaskInv ==
  \A p \in Deliveries :
    /\ job[p].at \in {"log", "eml", "body", "index"} =>
         job[p].list = index /\ job[p].msg \notin ToSet(index)
    /\ job[p].at \in {"body", "index"} => job[p].msg \in eml
    /\ job[p].at = "index" => job[p].msg \in body
    /\ job[p].at = "cache" => job[p].list = index
    /\ job[p].at \in {"cache", "unlink"} =>
         job[p].msg \in ToSet(index) /\ job[p].gone \cap ToSet(index) = {}

\* A list is the index on disk, or a task is about to replace it.
Current(list) == list = index \/ \E p \in Deliveries : job[p].at = "cache"

\* What is in memory, or on its way there, is the index on disk but for one step.
CacheInv ==
  /\ cache.at = "list" => Current(cache.list)
  /\ cache.at = "loading" => load.at # "none"
  /\ cache.at = "loading" /\ load.at \in {"absent", "list"} => Current(load.list)
  /\ cache.at = "none" => load.at = "none"
  /\ \A p \in Procs : job[p].at = "load" => cache.at = "loading"

\* Who was told of a strict policy has it on disk, and so has every later delivery.
PolicyInv ==
  /\ told => policy
  /\ \A p \in Deliveries :
       /\ job[p].told => job[p].strict
       /\ job[p].at \notin {"idle", "verify", "reject"} /\ job[p].strict =>
            job[p].msg \in Trusted

\* Types, turns and roles: what every later part rests on.
Control == Shape /\ TurnInv /\ RoleInv

\* The inductive invariant of the mail store.
IInv == Control /\ TaskInv /\ CacheInv /\ PolicyInv /\ ListedIsReadable /\ AckedIsKept

-----------------------------------------------------------------------------
(* Facts about numbers and lists *)

\* Every set of naturals that is not empty has a least element.
LEMMA LeastNatural ==
  ASSUME NEW T \in SUBSET Nat, T # {}
  PROVE  \E x \in T : \A y \in T : x <= y
<1> DEFINE R == OpToRel(<, Nat)
<1>1. IsWellFoundedOn(R, Nat)
  BY NatLessThanWellFounded
<1>2. \A x, y \in Nat : y < x => <<y, x>> \in R
  BY DEF OpToRel
<1> HIDE DEF R
<1>3. PICK x \in T : \A y \in T : ~ (<<y, x>> \in R)
  BY <1>1, WFMin
<1>4. ASSUME NEW y \in T PROVE x <= y
  <2>1. ~(y < x)
    BY <1>2, <1>3
  <2>2. QED
    BY <2>1
<1>5. QED
  BY <1>4

\* The maximum of a bounded set of naturals is its largest element.
LEMMA MaxOfBounded ==
  ASSUME NEW S \in SUBSET Nat, S # {}, NEW n \in Nat, \A x \in S : x <= n
  PROVE  Max(S) \in S /\ \A x \in S : x <= Max(S)
<1> DEFINE Bounds == {u \in Nat : \A x \in S : x <= u}
<1>1. PICK m \in Bounds : \A u \in Bounds : m <= u
  BY LeastNatural
<1>2. m \in S
  <2>1. SUFFICES ASSUME m \notin S PROVE FALSE
    OBVIOUS
  <2>2. \A x \in S : x < m
    BY <2>1
  <2>3. m - 1 \in Nat /\ \A x \in S : x <= m - 1
    <3>1. PICK x \in S : x < m
      BY <2>2
    <3>2. QED
      BY <2>2, <3>1
  <2>4. QED
    BY <1>1, <2>3
<1>3. \E x \in S : \A y \in S : x >= y
  BY <1>2
<1>4. QED
  BY <1>3 DEF Max

\* The list that is kept starts with the new message, is a prefix, and is as long as fits.
LEMMA KeptPrefix ==
  ASSUME NEW s \in Seq(Messages), s # <<>>
  PROVE  \E n \in 1..Len(s) :
           /\ kept(s) = SubSeq(s, 1, n)
           /\ n = 1 \/ fits(SubSeq(s, 1, n))
           /\ \A k \in (n + 1)..Len(s) : ~fits(SubSeq(s, 1, k))
<1> DEFINE S == {1} \cup {n \in 1..Len(s) : fits(SubSeq(s, 1, n))}
<1>1. Len(s) \in Nat /\ Len(s) >= 1
  OBVIOUS
<1>2. S \in SUBSET Nat /\ S # {} /\ (\A x \in S : x <= Len(s))
  BY <1>1
<1>3. Max(S) \in S /\ \A x \in S : x <= Max(S)
  <2> HIDE DEF S
  <2>1. QED
    BY <1>1, <1>2, MaxOfBounded
<1>4. kept(s) = SubSeq(s, 1, Max(S))
  BY DEF kept
<1> DEFINE n == Max(S)
<1> HIDE DEF n
<1>5. n \in S /\ (\A x \in S : x <= n) /\ kept(s) = SubSeq(s, 1, n)
  BY <1>3, <1>4 DEF n
<1>6. n \in 1..Len(s) /\ (n = 1 \/ fits(SubSeq(s, 1, n)))
  BY <1>1, <1>5
<1>7. ASSUME NEW k \in (n + 1)..Len(s), fits(SubSeq(s, 1, k)) PROVE FALSE
  <2>1. k \in S
    BY <1>1, <1>6, <1>7
  <2>2. QED
    BY <1>5, <1>6, <2>1
<1>8. QED
  BY <1>5, <1>6, <1>7

\* What is in a list, its tail, its front.
LEMMA ConsSet ==
  ASSUME NEW m \in Messages, NEW s \in Seq(Messages)
  PROVE  /\ Cons(m, s) \in Seq(Messages) /\ Cons(m, s) # <<>>
         /\ ToSet(Cons(m, s)) = {m} \cup ToSet(s)
         /\ Cons(m, s)[1] = m
<1>1. Cons(m, s) = <<m>> \o s
  BY DEF Cons
<1>2. /\ Cons(m, s) \in Seq(Messages) /\ Len(Cons(m, s)) = Len(s) + 1
      /\ \A i \in 1..Len(s) + 1 : Cons(m, s)[i] = IF i = 1 THEN m ELSE s[i - 1]
  BY <1>1
<1>3. ToSet(Cons(m, s)) = {m} \cup ToSet(s)
  <2>1. \A i \in 1..Len(s) : Cons(m, s)[i + 1] = s[i] /\ i + 1 \in 1..Len(s) + 1
    BY <1>2
  <2>2. Cons(m, s)[1] = m /\ 1 \in 1..Len(s) + 1
    BY <1>2
  <2>3. \A i \in 1..Len(s) + 1 : i = 1 \/ (i - 1 \in 1..Len(s) /\ Cons(m, s)[i] = s[i - 1])
    BY <1>2
  <2>4. DOMAIN Cons(m, s) = 1..Len(s) + 1 /\ DOMAIN s = 1..Len(s)
    BY <1>2
  <2>5. ASSUME NEW x \in ToSet(Cons(m, s)) PROVE x \in {m} \cup ToSet(s)
    <3>1. PICK i \in 1..Len(s) + 1 : x = Cons(m, s)[i]
      BY <2>4, <2>5 DEF ToSet
    <3>2. QED
      BY <2>2, <2>3, <2>4, <3>1 DEF ToSet
  <2>6. ASSUME NEW x \in ToSet(s) PROVE x \in ToSet(Cons(m, s))
    <3>1. PICK i \in 1..Len(s) : x = s[i]
      BY <2>4, <2>6 DEF ToSet
    <3>2. QED
      BY <2>1, <2>4, <3>1 DEF ToSet
  <2>7. m \in ToSet(Cons(m, s))
    BY <2>2, <2>4 DEF ToSet
  <2>8. QED
    BY <2>5, <2>6, <2>7
<1>4. QED
  BY <1>2, <1>3

\* What is kept of a list, with the new message first, is the message and messages of the list.
LEMMA KeptSet ==
  ASSUME NEW m \in Messages, NEW s \in Seq(Messages)
  PROVE  LET all == Cons(m, s) IN
         /\ kept(all) \in Seq(Messages)
         /\ ToSet(kept(all)) \subseteq {m} \cup ToSet(s)
         /\ m \in ToSet(kept(all))
<1> DEFINE all == Cons(m, s)
<1>1. all \in Seq(Messages) /\ all # <<>> /\ ToSet(all) = {m} \cup ToSet(s) /\ all[1] = m
  BY ConsSet
<1> HIDE DEF all
<1>2. PICK n \in 1..Len(all) : kept(all) = SubSeq(all, 1, n)
  BY <1>1, KeptPrefix
<1>3. /\ kept(all) \in Seq(Messages) /\ Len(kept(all)) = n /\ n >= 1
      /\ \A i \in 1..n : kept(all)[i] = all[i]
  BY <1>1, <1>2
<1>4. ToSet(kept(all)) \subseteq ToSet(all)
  BY <1>1, <1>2, <1>3 DEF ToSet
<1>5. m \in ToSet(kept(all))
  BY <1>1, <1>3 DEF ToSet
<1>6. QED
  BY <1>1, <1>3, <1>4, <1>5 DEF all

-----------------------------------------------------------------------------
(* The inductive invariant *)

\* No task.
LEMMA IdleJob == Idle \in Job /\ Idle.at = "idle" /\ ~Idle.told
  BY DEF Idle, Job, Labels, Writes

\* An empty store satisfies the invariant.
LEMMA InitInv == Init => IInv
<1> SUFFICES ASSUME Init PROVE IInv
  OBVIOUS
<1>1. \A p \in Procs : job[p] = Idle
  BY DEF Init
<1>2. Shape
  <2>1. job \in [Procs -> Job]
    BY IdleJob DEF Init
  <2>2. index \in Seq(Messages) /\ queue \in Seq(Procs)
    BY DEF Init
  <2>3. /\ cache \in [at: {"none", "loading", "list"}, list: Seq(Messages)]
        /\ load \in [at: {"none", "reading", "absent", "failed", "list"}, list: Seq(Messages)]
    BY DEF Init, Nothing
  <2>4. QED
    BY <2>1, <2>2, <2>3 DEF Init, Shape
<1>3. TurnInv /\ RoleInv /\ TaskInv
  BY <1>1, IdleJob DEF TurnInv, Working, RoleInv, TaskInv, Procs
<1>4. CacheInv
  BY <1>1, IdleJob DEF Init, CacheInv, Nothing
<1>5. PolicyInv
  BY <1>1, IdleJob DEF Init, PolicyInv, Procs
<1>6. ListedIsReadable /\ AckedIsKept
  BY DEF Init, ListedIsReadable, AckedIsKept, ToSet
<1>7. QED
  BY <1>2, <1>3, <1>4, <1>5, <1>6 DEF IInv, Control

\* A request goes from one label to another.
LEMMA Goes ==
  ASSUME Shape, NEW p \in Procs, NEW label \in Labels, Goto(p, label)
  PROVE  /\ job' \in [Procs -> Job]
         /\ \A q \in Procs : q # p => job'[q] = job[q]
         /\ job'[p].at = label /\ job'[p].msg = job[p].msg /\ job'[p].strict = job[p].strict
         /\ job'[p].told = job[p].told /\ job'[p].list = job[p].list /\ job'[p].gone = job[p].gone
  BY DEF Shape, Job, Goto

\* The task at the head of the queue ends, and the next one has not begun.
LEMMA Ends ==
  ASSUME Control, NEW p \in Procs, queue # <<>>, Head(queue) = p, End(p)
  PROVE  /\ job' \in [Procs -> Job] /\ queue' \in Seq(Procs) /\ job'[p] = Idle
         /\ \A q \in Procs : q # p => job'[q] = job[q]
         /\ TurnInv' /\ RoleInv'
<1>1. /\ job' \in [Procs -> Job] /\ job'[p] = Idle
      /\ \A q \in Procs : q # p => job'[q] = job[q]
  BY IdleJob DEF End, Control, Shape
<1>2. queue' \in Seq(Procs)
  BY DEF End, Control, Shape
<1>3. \A q \in Procs : job'[q].at \notin Working
  BY <1>1, IdleJob DEF Control, TurnInv, Working
<1>4. RoleInv'
  BY <1>1, IdleJob DEF Control, RoleInv, Procs
<1>5. QED
  BY <1>1, <1>2, <1>3, <1>4 DEF TurnInv

\* Nobody but the head of the queue is at work.
LEMMA Alone ==
  ASSUME Control, NEW p \in Procs, queue # <<>>, Head(queue) = p
  PROVE  \A q \in Procs : q # p => job[q].at \notin Working
  BY DEF Control, TurnInv

\* What only reads and waits disturbs nothing of the files.
LEMMA EndKeeps ==
  ASSUME IInv, NEW p \in Procs, queue # <<>>, Head(queue) = p, End(p),
         UNCHANGED <<index, eml, body, logged, policy, told>>
  PROVE  TaskInv' /\ PolicyInv' /\ ListedIsReadable'
<1>1. job'[p] = Idle /\ \A q \in Procs : q # p => job'[q] = job[q]
  BY Ends DEF IInv
<1>2. TaskInv'
  BY <1>1, IdleJob DEF IInv, TaskInv, Procs
<1>3. PolicyInv'
  BY <1>1, IdleJob DEF IInv, PolicyInv, Procs
<1>4. QED
  BY <1>2, <1>3 DEF IInv, ListedIsReadable

\* A task that has not yet written the index may end: what is cached stays current.
LEMMA EndCache ==
  ASSUME IInv, NEW p \in Procs, queue # <<>>, Head(queue) = p, End(p),
         job[p].at # "cache", UNCHANGED <<index, cache, load>>
  PROVE  CacheInv'
<1>1. job'[p] = Idle /\ \A q \in Procs : q # p => job'[q] = job[q]
  BY Ends DEF IInv
<1>2. \A q \in Procs : job'[q].at \in {"cache", "load"} => job[q].at = job'[q].at
  BY <1>1, IdleJob
<1>3. \A q \in Deliveries : q \in Procs
  BY DEF Procs
<1>4. \A q \in Deliveries : job[q].at = "cache" => job'[q].at = "cache"
  BY <1>1, <1>3
<1>5. QED
  BY <1>2, <1>4 DEF IInv, CacheInv, Current

\* A task that fails on disk keeps the invariant.
LEMMA FailInv == ASSUME IInv, NEW p \in Procs, Fail(p) PROVE IInv'
<1>1. /\ queue # <<>> /\ Head(queue) = p /\ job[p].at \in Writes /\ End(p)
      /\ UNCHANGED <<index, eml, body, logged, policy, cache, load, acked, pushedOut, told>>
  BY DEF Fail, Running, diskVars, pastVars
<1>2. Control'
  BY <1>1, Ends DEF IInv, Control, Shape
<1>3. TaskInv' /\ PolicyInv' /\ ListedIsReadable'
  BY <1>1, EndKeeps
<1>4. CacheInv'
  BY <1>1, EndCache DEF Writes
<1>5. QED
  BY <1>1, <1>2, <1>3, <1>4 DEF IInv, AckedIsKept

\* A delivery refused by the policy keeps the invariant.
LEMMA RejectInv == ASSUME IInv, NEW p \in Procs, Reject(p) PROVE IInv'
<1>1. /\ queue # <<>> /\ Head(queue) = p /\ job[p].at = "reject" /\ End(p)
      /\ UNCHANGED <<index, eml, body, logged, policy, cache, load, acked, pushedOut, told>>
  BY DEF Reject, Running, diskVars, pastVars
<1>2. Control'
  BY <1>1, Ends DEF IInv, Control, Shape
<1>3. TaskInv' /\ PolicyInv' /\ ListedIsReadable'
  BY <1>1, EndKeeps
<1>4. CacheInv'
  BY <1>1, EndCache
<1>5. QED
  BY <1>1, <1>2, <1>3, <1>4 DEF IInv, AckedIsKept

\* Memory only: the index is read, or begins to be.
LEMMA SearchInv == ASSUME IInv, Search PROVE IInv'
<1>1. /\ cache.at = "none" /\ cache' = [cache EXCEPT !.at = "loading"]
      /\ load' = [load EXCEPT !.at = "reading"]
      /\ UNCHANGED <<index, eml, body, logged, policy, queue, job, acked, pushedOut, told>>
  BY DEF Search, StartLoad, diskVars, pastVars
<1>2. Control' /\ cache'.at = "loading" /\ load'.at = "reading"
  BY <1>1 DEF IInv, Control, Shape, TurnInv, RoleInv
<1>3. CacheInv'
  BY <1>1, <1>2 DEF IInv, CacheInv, Current
<1>4. QED
  BY <1>1, <1>2, <1>3 DEF IInv, TaskInv, PolicyInv, ListedIsReadable, AckedIsKept

\* Reading the index file, if it is there, keeps the invariant.
LEMMA ReadIndexInv == ASSUME IInv, ReadIndex PROVE IInv'
<1>1. /\ load.at = "reading"
      /\ \/ index = <<>> /\ load' = [Nothing EXCEPT !.at = "absent"]
         \/ load' = Holds(index)
         \/ load' = [Nothing EXCEPT !.at = "failed"]
      /\ UNCHANGED <<index, eml, body, logged, policy, queue, cache, job, acked, pushedOut, told>>
  BY DEF ReadIndex, diskVars, pastVars
<1>2. /\ load' \in [at: {"none", "reading", "absent", "failed", "list"}, list: Seq(Messages)]
      /\ load'.at # "none" /\ (load'.at \in {"absent", "list"} => load'.list = index)
  <2>1. index \in Seq(Messages) /\ <<>> \in Seq(Messages)
    BY DEF IInv, Control, Shape
  <2>2. Holds(index).at = "list" /\ Holds(index).list = index
    BY DEF Holds
  <2>3. CASE load' = Holds(index)
    BY <2>1, <2>3 DEF Holds
  <2>4. CASE index = <<>> /\ load' = [Nothing EXCEPT !.at = "absent"]
    BY <2>1, <2>4 DEF Nothing
  <2>5. CASE load' = [Nothing EXCEPT !.at = "failed"]
    BY <2>1, <2>5 DEF Nothing
  <2>6. QED
    BY <1>1, <2>3, <2>4, <2>5
<1>3. Control'
  BY <1>1, <1>2 DEF IInv, Control, Shape, TurnInv, RoleInv
<1>4. CacheInv'
  BY <1>1, <1>2 DEF IInv, CacheInv, Current
<1>5. QED
  BY <1>1, <1>3, <1>4 DEF IInv, TaskInv, PolicyInv, ListedIsReadable, AckedIsKept

\* A task that has the index on disk as its list begins, or finds its message there.
LEMMA BeginInv ==
  ASSUME IInv, NEW p \in Procs, queue # <<>>, Head(queue) = p,
         job[p].at \in {"list", "load"}, Begin(p, index),
         UNCHANGED <<index, eml, body, logged, policy, pushedOut, told>>,
         cache' \in [at: {"none", "loading", "list"}, list: Seq(Messages)],
         load' \in [at: {"none", "reading", "absent", "failed", "list"}, list: Seq(Messages)],
         cache'.at = "list" => cache'.list = index,
         cache'.at = "loading" => load'.at # "none",
         cache'.at = "loading" /\ load'.at \in {"absent", "list"} => Current(load'.list),
         cache'.at = "none" => load'.at = "none"
  PROVE  IInv'
<1>0. /\ p \in Deliveries /\ job[p].msg \in Messages
      /\ (job[p].strict => job[p].msg \in Trusted)
  BY DEF IInv, Control, RoleInv, PolicyInv, Procs
<1>1. \A q \in Procs : q # p => job[q].at \notin Working
  BY Alone DEF IInv
<1>2. \A list : ~ \E q \in Deliveries : job[q].at = "cache"
  BY <1>1 DEF Working, Procs
<1>3. CASE job[p].msg \in ToSet(index)
  <2>1. End(p) /\ acked' = acked \cup {job[p].msg}
    BY <1>3 DEF Begin
  <2>2. Control'
    BY <1>0, <2>1, Ends DEF IInv, Control, Shape
  <2>3. TaskInv' /\ PolicyInv' /\ ListedIsReadable'
    BY <2>1, EndKeeps
  <2>4. CacheInv'
    <3>1. job'[p] = Idle /\ \A q \in Procs : q # p => job'[q] = job[q]
      BY <2>1, Ends DEF IInv
    <3>2. \A q \in Procs : job'[q].at # "load"
      BY <1>1, <3>1, IdleJob DEF Working
    <3>3. QED
      BY <1>2, <3>2 DEF CacheInv, Current
  <2>5. AckedIsKept'
    BY <1>3, <2>1 DEF IInv, AckedIsKept
  <2>6. QED
    BY <2>2, <2>3, <2>4, <2>5 DEF IInv
<1>4. CASE job[p].msg \notin ToSet(index)
  <2>1. job' = [job EXCEPT ![p].at = "log", ![p].list = index] /\ UNCHANGED <<queue, acked>>
    BY <1>4 DEF Begin
  <2>2. /\ job' \in [Procs -> Job] /\ \A q \in Procs : q # p => job'[q] = job[q]
        /\ job'[p].at = "log" /\ job'[p].list = index /\ job'[p].msg = job[p].msg
        /\ job'[p].strict = job[p].strict /\ job'[p].told = job[p].told
    <3> DEFINE r == [job[p] EXCEPT !.at = "log", !.list = index]
    <3>1. job \in [Procs -> Job] /\ job[p] \in Job /\ index \in Seq(Messages)
      BY DEF IInv, Control, Shape
    <3>2. /\ r \in Job /\ r.at = "log" /\ r.list = index /\ r.msg = job[p].msg
          /\ r.strict = job[p].strict /\ r.told = job[p].told
      BY <3>1 DEF Job, Labels, Writes
    <3>3. job' = [job EXCEPT ![p] = r]
      BY <2>1, <3>1
    <3> HIDE DEF r
    <3>4. QED
      BY <3>1, <3>2, <3>3
  <2>3. Shape'
    BY <2>1, <2>2 DEF IInv, Control, Shape
  <2>4. TurnInv' /\ RoleInv'
    BY <1>0, <2>1, <2>2, OwnerAssumption DEF IInv, Control, TurnInv, RoleInv, Procs
  <2>5. TaskInv'
    BY <1>4, <2>2 DEF IInv, TaskInv, Procs
  <2>6. PolicyInv'
    BY <1>0, <2>2 DEF IInv, PolicyInv, Procs
  <2>7. CacheInv'
    BY <1>1, <1>2, <2>2 DEF CacheInv, Current, Working
  <2>8. QED
    BY <2>1, <2>3, <2>4, <2>5, <2>6, <2>7 DEF IInv, Control, ListedIsReadable, AckedIsKept
<1>5. QED
  BY <1>3, <1>4

\* The loaded list becomes the cached one.
LEMMA SettleLoadInv == ASSUME IInv, SettleLoad PROVE IInv'
<1>0. Shape /\ CacheInv
  BY DEF IInv, Control
<1>1. /\ load.at \in {"absent", "failed", "list"} /\ load' = Nothing
      /\ cache' = IF load.at # "list" THEN Nothing
                  ELSE IF cache.at = "loading" THEN load ELSE cache
      /\ UNCHANGED <<index, eml, body, logged, policy, pushedOut, told>>
  BY DEF SettleLoad, diskVars
<1>2. /\ load' \in [at: {"none", "reading", "absent", "failed", "list"}, list: Seq(Messages)]
      /\ load'.at = "none"
  BY <1>1 DEF Nothing
<1>3. /\ cache' \in [at: {"none", "loading", "list"}, list: Seq(Messages)] /\ cache'.at # "loading"
      /\ cache'.at = "list" => Current(cache'.list)
  <2>1. CASE load.at # "list"
    BY <1>1, <2>1 DEF Nothing
  <2>2. CASE load.at = "list" /\ cache.at = "loading"
    BY <1>0, <1>1, <2>2 DEF Shape, CacheInv
  <2>3. CASE load.at = "list" /\ cache.at # "loading"
    BY <1>0, <1>1, <2>3 DEF Shape, CacheInv
  <2>4. QED
    BY <2>1, <2>2, <2>3
<1>4. CASE (\A p \in Procs : job[p].at # "load") /\ UNCHANGED <<queue, job, acked>>
  <2>1. Control'
    BY <1>1, <1>2, <1>3, <1>4 DEF IInv, Control, Shape, TurnInv, RoleInv
  <2>2. CacheInv'
    BY <1>1, <1>2, <1>3, <1>4 DEF CacheInv, Current
  <2>3. QED
    BY <1>1, <1>4, <2>1, <2>2 DEF IInv, TaskInv, PolicyInv, ListedIsReadable, AckedIsKept
<1>5. ASSUME NEW p \in Procs, job[p].at = "load",
             IF load.at = "failed" THEN End(p) /\ UNCHANGED acked ELSE Begin(p, load.list)
      PROVE  IInv'
  <2>1. queue # <<>> /\ Head(queue) = p /\ cache.at = "loading"
    BY <1>0, <1>5 DEF IInv, Control, TurnInv, Working, CacheInv
  <2>2. ~ \E q \in Deliveries : job[q].at = "cache"
    BY <1>5, <2>1, Alone DEF IInv, Working, Procs
  <2>3. CASE load.at = "failed"
    <3>1. End(p) /\ cache'.at = "none" /\ acked' = acked
      BY <1>1, <1>5, <2>3 DEF Nothing
    <3>2. Control'
      BY <1>1, <1>2, <1>3, <2>1, <3>1, Ends DEF IInv, Control, Shape
    <3>3. TaskInv' /\ PolicyInv' /\ ListedIsReadable'
      BY <1>1, <2>1, <3>1, EndKeeps
    <3>4. CacheInv'
      <4>1. \A q \in Procs : job'[q].at # "load"
        BY <2>1, <3>1, Ends, Alone, IdleJob DEF IInv, Working
      <4>2. QED
        BY <1>2, <3>1, <4>1 DEF CacheInv
    <3>5. QED
      BY <1>1, <3>1, <3>2, <3>3, <3>4 DEF IInv, AckedIsKept
  <2>4. CASE load.at # "failed"
    <3>1. Begin(p, load.list) /\ load.list = index
      BY <1>0, <1>1, <1>5, <2>1, <2>2, <2>4 DEF CacheInv, Current
    <3>2. Begin(p, index) /\ (cache'.at = "list" => cache'.list = index)
      BY <1>3, <2>2, <3>1 DEF Current
    <3>3. QED
      BY <1>1, <1>2, <1>3, <1>5, <2>1, <3>2, BeginInv
  <2>5. QED
    BY <2>3, <2>4
<1>6. QED
  BY <1>4, <1>5 DEF SettleLoad

\* A delivery begins, outside of the queue.
LEMMA OfferInv ==
  ASSUME IInv, NEW p \in Deliveries, NEW m \in Messages, Offer(p, m) PROVE IInv'
<1> DEFINE r == [Idle EXCEPT !.at = "verify", !.msg = m, !.strict = policy, !.told = told]
<1>0. Shape /\ p \in Procs /\ job[p].at = "idle"
  BY DEF IInv, Control, Offer, Procs
<1>1. /\ job' = [job EXCEPT ![p] = r]
      /\ UNCHANGED <<index, eml, body, logged, policy, queue, cache, load, acked, pushedOut, told>>
  BY DEF Offer, diskVars, pastVars
<1>2. /\ r \in Job /\ r.at = "verify" /\ r.msg = m /\ r.told = told /\ r.strict = policy
  <2>1. policy \in BOOLEAN /\ told \in BOOLEAN /\ "verify" \in Labels
    BY <1>0 DEF Labels, Shape
  <2>2. QED
    BY <2>1, IdleJob DEF Job
<1> HIDE DEF r
<1>3. /\ job' \in [Procs -> Job] /\ job'[p] = r
      /\ \A q \in Procs : q # p => job'[q] = job[q]
  BY <1>0, <1>1, <1>2 DEF Shape
<1>4. Control'
  BY <1>0, <1>1, <1>2, <1>3, OwnerAssumption DEF IInv, Control, Shape, TurnInv, RoleInv, Working, Procs
<1>5. TaskInv'
  BY <1>1, <1>2, <1>3 DEF IInv, TaskInv, Procs
<1>6. CacheInv'
  BY <1>0, <1>1, <1>2, <1>3 DEF IInv, CacheInv, Current, Procs
<1>7. PolicyInv'
  BY <1>1, <1>2, <1>3 DEF IInv, PolicyInv, Procs
<1>8. QED
  BY <1>1, <1>4, <1>5, <1>6, <1>7 DEF IInv, ListedIsReadable, AckedIsKept

\* The verified message joins the queue, or the request is given up.
LEMMA VerifyInv == ASSUME IInv, NEW p \in Deliveries, Verify(p) PROVE IInv'
<1>0. Shape /\ p \in Procs /\ job[p].at = "verify" /\ job[p].msg \in Messages
  BY DEF IInv, Control, Verify, RoleInv, Procs
<1>1. UNCHANGED <<index, eml, body, logged, policy, cache, load, acked, pushedOut, told>>
  BY DEF Verify, diskVars, pastVars
<1>2. ASSUME job' \in [Procs -> Job], \A q \in Procs : q # p => job'[q] = job[q],
             queue' \in Seq(Procs), queue # <<>> => queue' # <<>> /\ Head(queue') = Head(queue),
             job'[p].at \in {"idle", "list", "reject"},
             job'[p].at # "idle" => job'[p].msg \in Messages,
             job'[p].told => job'[p].strict,
             job'[p].at = "list" /\ job'[p].strict => job'[p].msg \in Trusted
      PROVE  IInv'
  <2>1. Control'
    BY <1>0, <1>1, <1>2, OwnerAssumption DEF IInv, Control, Shape, TurnInv, RoleInv, Working, Procs
  <2>2. TaskInv'
    BY <1>1, <1>2 DEF IInv, TaskInv, Procs
  <2>3. CacheInv'
    BY <1>0, <1>1, <1>2 DEF IInv, CacheInv, Current, Procs
  <2>4. PolicyInv'
    BY <1>1, <1>2 DEF IInv, PolicyInv, Procs
  <2>5. QED
    BY <1>1, <2>1, <2>2, <2>3, <2>4 DEF IInv, ListedIsReadable, AckedIsKept
<1>3. CASE job' = [job EXCEPT ![p] = Idle] /\ UNCHANGED queue
  <2>1. job' \in [Procs -> Job] /\ job'[p] = Idle /\ \A q \in Procs : q # p => job'[q] = job[q]
    BY <1>0, <1>3, IdleJob DEF Shape
  <2>2. queue' \in Seq(Procs)
    BY <1>0, <1>3 DEF Shape
  <2>3. QED
    BY <1>2, <1>3, <2>1, <2>2, IdleJob
<1>4. ASSUME NEW task \in {"list", "reject"}, Exclusive(p, task),
             task = "list" => acceptable(p)
      PROVE  IInv'
  <2>1. queue' = Append(queue, p) /\ queue \in Seq(Procs) /\ Goto(p, task)
    BY <1>0, <1>4 DEF Exclusive, Shape
  <2>2. /\ job' \in [Procs -> Job] /\ \A q \in Procs : q # p => job'[q] = job[q]
        /\ job'[p].at = task /\ job'[p].msg = job[p].msg /\ job'[p].strict = job[p].strict
        /\ job'[p].told = job[p].told
    BY <1>0, <2>1, Goes DEF Labels, Writes
  <2>3. queue' \in Seq(Procs) /\ (queue # <<>> => queue' # <<>> /\ Head(queue') = Head(queue))
    BY <1>0, <2>1
  <2>4. job[p].told => job[p].strict
    BY DEF IInv, PolicyInv
  <2>5. QED
    BY <1>0, <1>2, <1>4, <2>2, <2>3, <2>4 DEF acceptable
<1>5. QED
  BY <1>3, <1>4 DEF Verify

\* The new list of a task is its message and what is kept of the index.
LEMMA ListInv == ASSUME IInv, NEW p \in Deliveries, List(p) PROVE IInv'
<1>0. Shape /\ p \in Procs /\ queue # <<>> /\ Head(queue) = p /\ job[p].at = "list"
  BY DEF IInv, Control, List, Running, Procs
<1>1. UNCHANGED <<index, eml, body, logged, policy, pushedOut, told>>
  BY DEF List, diskVars
<1>2. ~ \E q \in Deliveries : job[q].at = "cache"
  BY <1>0, Alone DEF IInv, Working, Procs
<1>3. CASE cache.at = "list"
  <2>1. Begin(p, cache.list) /\ UNCHANGED <<cache, load>>
    BY <1>3 DEF List
  <2>2. cache.list = index
    BY <1>2, <1>3 DEF IInv, CacheInv, Current
  <2>3. QED
    BY <1>0, <1>1, <1>3, <2>1, <2>2, BeginInv DEF Shape
<1>4. CASE cache.at # "list"
  <2>1. Goto(p, "load") /\ UNCHANGED <<queue, acked>>
    BY <1>4 DEF List
  <2>2. /\ cache' \in [at: {"none", "loading", "list"}, list: Seq(Messages)] /\ cache'.at = "loading"
        /\ load' \in [at: {"none", "reading", "absent", "failed", "list"}, list: Seq(Messages)]
        /\ load'.at # "none"
        /\ load'.at \in {"absent", "list"} => UNCHANGED <<cache, load>>
    <3>1. CASE cache.at = "none"
      BY <1>0, <1>4, <3>1 DEF List, StartLoad, Shape
    <3>2. CASE cache.at = "loading"
      BY <1>0, <1>4, <3>2 DEF List, IInv, CacheInv, Shape
    <3>3. QED
      BY <1>0, <1>4, <3>1, <3>2 DEF Shape
  <2>3. /\ job' \in [Procs -> Job] /\ \A q \in Procs : q # p => job'[q] = job[q]
        /\ job'[p].at = "load" /\ job'[p].msg = job[p].msg /\ job'[p].strict = job[p].strict
        /\ job'[p].told = job[p].told
    BY <1>0, <2>1, Goes DEF Labels
  <2>4. Control'
    BY <1>0, <1>1, <2>1, <2>2, <2>3, OwnerAssumption
       DEF IInv, Control, Shape, TurnInv, RoleInv, Procs
  <2>5. TaskInv'
    BY <1>1, <2>3 DEF IInv, TaskInv, Procs
  <2>6. CacheInv'
    <3>1. load'.at \in {"absent", "list"} => load'.list = index
      BY <1>2, <2>2 DEF IInv, CacheInv, Current
    <3>2. QED
      BY <1>1, <2>2, <3>1 DEF CacheInv, Current
  <2>7. PolicyInv'
    BY <1>0, <1>1, <2>3 DEF IInv, PolicyInv, Procs
  <2>8. QED
    BY <1>1, <2>1, <2>4, <2>5, <2>6, <2>7 DEF IInv, ListedIsReadable, AckedIsKept
<1>5. QED
  BY <1>3, <1>4

\* The running task goes on to its next write; only the files of its own message grow.
LEMMA WriteFrame ==
  ASSUME IInv, NEW p \in Deliveries, queue # <<>>, Head(queue) = p,
         NEW from \in {"log", "eml", "body"}, NEW to \in {"eml", "body", "index"},
         job[p].at = from, Goto(p, to),
         UNCHANGED <<index, policy, queue, cache, load, acked, pushedOut, told>>,
         logged' \in SUBSET Messages,
         eml \subseteq eml', eml' \in SUBSET Messages,
         body \subseteq body', body' \in SUBSET Messages,
         to \in {"body", "index"} => job[p].msg \in eml',
         to = "index" => job[p].msg \in body'
  PROVE  IInv'
<1>0. Shape /\ p \in Procs
  BY DEF IInv, Control, Procs
<1>1. /\ job' \in [Procs -> Job] /\ \A q \in Procs : q # p => job'[q] = job[q]
      /\ job'[p].at = to /\ job'[p].msg = job[p].msg /\ job'[p].strict = job[p].strict
      /\ job'[p].told = job[p].told /\ job'[p].list = job[p].list
  BY <1>0, Goes DEF Labels, Writes
<1>2. Control'
  BY <1>0, <1>1, OwnerAssumption DEF IInv, Control, Shape, TurnInv, RoleInv, Procs
<1>3. TaskInv'
  BY <1>1 DEF IInv, TaskInv, Procs
<1>4. CacheInv'
  BY <1>0, <1>1 DEF IInv, CacheInv, Current, Procs
<1>5. PolicyInv'
  BY <1>1 DEF IInv, PolicyInv, Procs
<1>6. ListedIsReadable' /\ AckedIsKept'
  BY DEF IInv, ListedIsReadable, AckedIsKept
<1>7. QED
  BY <1>2, <1>3, <1>4, <1>5, <1>6 DEF IInv

\* Writing the log or a file of the message keeps the invariant.
LEMMA WriteInv ==
  ASSUME IInv, NEW p \in Deliveries, LogDelivery(p) \/ WriteEml(p) \/ WriteBody(p)
  PROVE  IInv'
<1>0. Shape /\ TaskInv /\ (job[p].at # "idle" => job[p].msg \in Messages)
  BY DEF IInv, Control, RoleInv
<1>1. CASE LogDelivery(p)
  <2>1. /\ queue # <<>> /\ Head(queue) = p /\ job[p].at = "log" /\ Goto(p, "eml")
        /\ logged' = logged \cup {job[p].msg}
        /\ UNCHANGED <<index, eml, body, policy, queue, cache, load, acked, pushedOut, told>>
    BY <1>1 DEF LogDelivery, Running, pastVars
  <2>2. logged' \in SUBSET Messages /\ eml' \in SUBSET Messages /\ body' \in SUBSET Messages
    BY <1>0, <2>1 DEF Shape
  <2>3. QED
    BY <2>1, <2>2, WriteFrame
<1>2. CASE WriteEml(p)
  <2>1. /\ queue # <<>> /\ Head(queue) = p /\ job[p].at = "eml" /\ Goto(p, "body")
        /\ eml' = eml \cup {job[p].msg}
        /\ UNCHANGED <<index, body, logged, policy, queue, cache, load, acked, pushedOut, told>>
    BY <1>2 DEF WriteEml, Running, pastVars
  <2>2. logged' \in SUBSET Messages /\ eml' \in SUBSET Messages /\ body' \in SUBSET Messages
    BY <1>0, <2>1 DEF Shape
  <2>3. QED
    BY <2>1, <2>2, WriteFrame
<1>3. CASE WriteBody(p)
  <2>1. /\ queue # <<>> /\ Head(queue) = p /\ job[p].at = "body" /\ Goto(p, "index")
        /\ body' = body \cup {job[p].msg}
        /\ UNCHANGED <<index, eml, logged, policy, queue, cache, load, acked, pushedOut, told>>
    BY <1>3 DEF WriteBody, Running, pastVars
  <2>2. /\ logged' \in SUBSET Messages /\ eml' \in SUBSET Messages /\ body' \in SUBSET Messages
        /\ job[p].msg \in eml'
    BY <1>0, <2>1 DEF Shape, TaskInv
  <2>3. QED
    BY <2>1, <2>2, WriteFrame
<1>4. QED
  BY <1>1, <1>2, <1>3

\* The new index: the message in front, and what the limits push out.
LEMMA WriteIndexInv == ASSUME IInv, NEW p \in Deliveries, WriteIndex(p) PROVE IInv'
<1> DEFINE m == job[p].msg
           next == kept(Cons(m, job[p].list))
           evicted == ToSet(Cons(m, job[p].list)) \ ToSet(next)
<1>0. /\ Shape /\ p \in Procs /\ m \in Messages /\ queue # <<>> /\ Head(queue) = p
      /\ job[p].at = "index" /\ job[p].list = index /\ m \in eml /\ m \in body
  BY DEF IInv, Control, RoleInv, TaskInv, WriteIndex, Running, Procs
<1>1. /\ index' = next /\ pushedOut' = (pushedOut \cup evicted) \ {m}
      /\ job' = [job EXCEPT ![p].at = "cache", ![p].list = next, ![p].gone = evicted]
      /\ UNCHANGED <<eml, body, logged, policy, queue, cache, load, acked, told>>
  BY DEF WriteIndex
<1>2. /\ next \in Seq(Messages) /\ ToSet(next) \subseteq {m} \cup ToSet(index) /\ m \in ToSet(next)
      /\ evicted = ({m} \cup ToSet(index)) \ ToSet(next) /\ evicted \in SUBSET Messages
  <2>1. job[p].list \in Seq(Messages) /\ ToSet(index) \subseteq Messages
    BY <1>0 DEF Shape, ToSet
  <2>2. ToSet(Cons(m, job[p].list)) = {m} \cup ToSet(index)
    BY <1>0, <2>1, ConsSet
  <2>3. /\ next \in Seq(Messages) /\ ToSet(next) \subseteq {m} \cup ToSet(index)
        /\ m \in ToSet(next)
    BY <1>0, <2>1, KeptSet
  <2> HIDE DEF next, m
  <2>4. QED
    BY <1>0, <2>1, <2>2, <2>3
<1> HIDE DEF next, evicted
<1>3. /\ job' \in [Procs -> Job] /\ \A q \in Procs : q # p => job'[q] = job[q]
      /\ job'[p].at = "cache" /\ job'[p].list = next /\ job'[p].gone = evicted
      /\ job'[p].msg = m /\ job'[p].strict = job[p].strict /\ job'[p].told = job[p].told
  <2> DEFINE r == [job[p] EXCEPT !.at = "cache", !.list = next, !.gone = evicted]
  <2>1. job \in [Procs -> Job] /\ job[p] \in Job
    BY <1>0 DEF Shape
  <2>2. /\ r \in Job /\ r.at = "cache" /\ r.list = next /\ r.gone = evicted /\ r.msg = m
        /\ r.strict = job[p].strict /\ r.told = job[p].told
    BY <1>2, <2>1 DEF Job, Labels
  <2>3. job' = [job EXCEPT ![p] = r]
    BY <1>1, <2>1
  <2> HIDE DEF r, m
  <2>4. QED
    BY <1>0, <2>1, <2>2, <2>3
<1>4. \A q \in Procs : q # p => job[q].at \notin Working
  BY <1>0, Alone DEF IInv
<1> HIDE DEF m
<1>5. Control'
  BY <1>0, <1>1, <1>2, <1>3, OwnerAssumption DEF IInv, Control, Shape, TurnInv, RoleInv, Procs
<1>6. TaskInv'
  BY <1>1, <1>2, <1>3, <1>4 DEF TaskInv, Working, Procs
<1>7. CacheInv'
  BY <1>1, <1>3, <1>4 DEF IInv, CacheInv, Current, Working, Procs
<1>8. PolicyInv'
  BY <1>0, <1>1, <1>3 DEF IInv, PolicyInv, Procs, m
<1>9. ListedIsReadable' /\ AckedIsKept'
  BY <1>0, <1>1, <1>2 DEF IInv, ListedIsReadable, AckedIsKept
<1>10. QED
  BY <1>5, <1>6, <1>7, <1>8, <1>9 DEF IInv

\* Replacing the cached list by the list on disk keeps the invariant.
LEMMA SetCacheInv == ASSUME IInv, NEW p \in Deliveries, SetCache(p) PROVE IInv'
<1>0. /\ Shape /\ p \in Procs /\ queue # <<>> /\ Head(queue) = p
      /\ job[p].at = "cache" /\ job[p].list = index
  BY DEF IInv, Control, TaskInv, SetCache, Running, Procs
<1>1. /\ cache' = Holds(index) /\ Goto(p, "unlink")
      /\ UNCHANGED <<index, eml, body, logged, policy, queue, load, acked, pushedOut, told>>
  BY <1>0 DEF SetCache, diskVars, pastVars
<1>2. /\ job' \in [Procs -> Job] /\ \A q \in Procs : q # p => job'[q] = job[q]
      /\ job'[p].at = "unlink" /\ job'[p].msg = job[p].msg /\ job'[p].strict = job[p].strict
      /\ job'[p].told = job[p].told /\ job'[p].gone = job[p].gone
  BY <1>0, <1>1, Goes DEF Labels
<1>3. /\ cache' \in [at: {"none", "loading", "list"}, list: Seq(Messages)]
      /\ cache'.at = "list" /\ cache'.list = index
  BY <1>0, <1>1 DEF Holds, Shape
<1>4. \A q \in Procs : q # p => job[q].at \notin Working
  BY <1>0, Alone DEF IInv
<1>5. Control'
  BY <1>0, <1>1, <1>2, <1>3, OwnerAssumption DEF IInv, Control, Shape, TurnInv, RoleInv, Procs
<1>6. TaskInv'
  BY <1>0, <1>1, <1>2 DEF IInv, TaskInv, Procs
<1>7. CacheInv'
  BY <1>1, <1>2, <1>3, <1>4 DEF CacheInv, Current, Working
<1>8. PolicyInv'
  BY <1>0, <1>1, <1>2 DEF IInv, PolicyInv, Procs
<1>9. QED
  BY <1>1, <1>5, <1>6, <1>7, <1>8 DEF IInv, ListedIsReadable, AckedIsKept

\* What was pushed out is deleted; what is listed stays.
LEMMA UnlinkInv ==
  ASSUME IInv, NEW p \in Deliveries, NEW m \in Messages, Unlink(p, m) PROVE IInv'
<1>0. /\ Shape /\ p \in Procs /\ queue # <<>> /\ Head(queue) = p
      /\ job[p].at = "unlink" /\ m \in job[p].gone /\ m \notin ToSet(index)
  BY DEF IInv, Control, TaskInv, Unlink, Running, Procs
<1>1. /\ eml' \in {eml, eml \ {m}} /\ body' \in {body, body \ {m}}
      /\ job' = [job EXCEPT ![p].gone = job[p].gone \ {m}]
      /\ UNCHANGED <<index, logged, policy, queue, cache, load, acked, pushedOut, told>>
  BY DEF Unlink, pastVars
<1>2. /\ job' \in [Procs -> Job] /\ \A q \in Procs : q # p => job'[q] = job[q]
      /\ job'[p].at = "unlink" /\ job'[p].msg = job[p].msg /\ job'[p].strict = job[p].strict
      /\ job'[p].told = job[p].told /\ job'[p].gone \subseteq job[p].gone
  <2> DEFINE r == [job[p] EXCEPT !.gone = job[p].gone \ {m}]
  <2>1. job \in [Procs -> Job] /\ job[p] \in Job
    BY <1>0 DEF Shape
  <2>2. /\ r \in Job /\ r.at = "unlink" /\ r.msg = job[p].msg /\ r.strict = job[p].strict
        /\ r.told = job[p].told /\ r.gone \subseteq job[p].gone
    BY <1>0, <2>1 DEF Job
  <2>3. job' = [job EXCEPT ![p] = r]
    BY <1>1, <2>1
  <2> HIDE DEF r
  <2>4. QED
    BY <1>0, <2>1, <2>2, <2>3
<1>3. \A q \in Procs : q # p => job[q].at \notin Working
  BY <1>0, Alone DEF IInv
<1>4. Control'
  BY <1>0, <1>1, <1>2, OwnerAssumption DEF IInv, Control, Shape, TurnInv, RoleInv, Procs
<1>5. TaskInv'
  BY <1>0, <1>1, <1>2, <1>3 DEF IInv, TaskInv, Working, Procs
<1>6. CacheInv'
  BY <1>0, <1>1, <1>2 DEF IInv, CacheInv, Current, Procs
<1>7. PolicyInv'
  BY <1>0, <1>1, <1>2 DEF IInv, PolicyInv, Procs
<1>8. ListedIsReadable'
  BY <1>0, <1>1 DEF IInv, ListedIsReadable
<1>9. QED
  BY <1>1, <1>4, <1>5, <1>6, <1>7, <1>8 DEF IInv, AckedIsKept

\* Telling the sender that mail is stored: it is listed.
LEMMA StoredInv == ASSUME IInv, NEW p \in Deliveries, Stored(p) PROVE IInv'
<1>1. /\ p \in Procs /\ queue # <<>> /\ Head(queue) = p /\ job[p].at = "unlink" /\ End(p)
      /\ acked' = acked \cup {job[p].msg}
      /\ UNCHANGED <<index, eml, body, logged, policy, cache, load, pushedOut, told>>
  BY DEF Stored, Running, diskVars, Procs
<1>2. job[p].msg \in Messages /\ job[p].msg \in ToSet(index)
  BY <1>1 DEF IInv, Control, RoleInv, TaskInv
<1>3. Control'
  BY <1>1, <1>2, Ends DEF IInv, Control, Shape
<1>4. TaskInv' /\ PolicyInv' /\ ListedIsReadable'
  BY <1>1, EndKeeps
<1>5. CacheInv'
  BY <1>1, EndCache
<1>6. QED
  BY <1>1, <1>2, <1>3, <1>4, <1>5 DEF IInv, AckedIsKept

\* The owner's form.
LEMMA PostPolicyInv == ASSUME IInv, NEW strict \in BOOLEAN, PostPolicy(strict) PROVE IInv'
<1> DEFINE r == [Idle EXCEPT !.at = "setPolicy", !.strict = strict]
<1>0. Shape /\ Owner \in Procs /\ job[Owner].at = "idle"
  BY DEF IInv, Control, PostPolicy, Procs
<1>1. /\ queue' = Append(queue, Owner) /\ job' = [job EXCEPT ![Owner] = r] /\ told' = FALSE
      /\ UNCHANGED <<index, eml, body, logged, policy, cache, load, acked, pushedOut>>
  BY DEF PostPolicy, diskVars
<1>2. r \in Job /\ r.at = "setPolicy"
  <2>1. "setPolicy" \in Labels
    BY DEF Labels, Writes
  <2>2. QED
    BY <2>1, IdleJob DEF Job
<1> HIDE DEF r
<1>3. /\ job' \in [Procs -> Job] /\ job'[Owner] = r
      /\ \A q \in Procs : q # Owner => job'[q] = job[q]
  BY <1>0, <1>1, <1>2 DEF Shape
<1>4. queue' \in Seq(Procs) /\ (queue # <<>> => queue' # <<>> /\ Head(queue') = Head(queue))
  BY <1>0, <1>1 DEF Shape
<1>5. Control'
  BY <1>1, <1>2, <1>3, <1>4, OwnerAssumption
     DEF IInv, Control, Shape, TurnInv, RoleInv, Working, Procs
<1>6. \A q \in Deliveries : job'[q] = job[q]
  BY <1>3, OwnerAssumption DEF Procs
<1>7. TaskInv' /\ PolicyInv'
  BY <1>1, <1>6 DEF IInv, TaskInv, PolicyInv
<1>8. CacheInv'
  BY <1>1, <1>2, <1>3, <1>6 DEF IInv, CacheInv, Current
<1>9. QED
  BY <1>1, <1>5, <1>7, <1>8 DEF IInv, ListedIsReadable, AckedIsKept

\* Writing the policy keeps the invariant.
LEMMA WritePolicyInv == ASSUME IInv, WritePolicy PROVE IInv'
<1>1. /\ Owner \in Procs /\ queue # <<>> /\ Head(queue) = Owner /\ job[Owner].at = "setPolicy"
      /\ End(Owner) /\ policy' = job[Owner].strict /\ told' = job[Owner].strict
      /\ UNCHANGED <<index, eml, body, logged, cache, load, acked, pushedOut>>
  BY DEF WritePolicy, Running, Procs
<1>2. policy' \in BOOLEAN /\ told' \in BOOLEAN
  BY <1>1 DEF IInv, Control, Shape, Job
<1>3. Control'
  BY <1>1, <1>2, Ends DEF IInv, Control, Shape
<1>4. \A q \in Deliveries : job'[q] = job[q]
  BY <1>1, Ends, OwnerAssumption DEF IInv, Procs
<1>5. TaskInv' /\ PolicyInv'
  BY <1>1, <1>4 DEF IInv, TaskInv, PolicyInv
<1>6. CacheInv'
  BY <1>1, EndCache
<1>7. QED
  BY <1>1, <1>3, <1>5, <1>6 DEF IInv, ListedIsReadable, AckedIsKept

\* A kill takes what was in memory only.
LEMMA CrashInv == ASSUME IInv, Crash PROVE IInv'
<1>1. /\ job' = [p \in Procs |-> Idle] /\ queue' = <<>> /\ cache' = Nothing /\ load' = Nothing
      /\ UNCHANGED <<index, eml, body, logged, policy, acked, pushedOut, told>>
  BY DEF Crash, diskVars, pastVars
<1>2. job' \in [Procs -> Job] /\ \A p \in Procs : job'[p] = Idle
  BY <1>1, IdleJob
<1>3. /\ cache' \in [at: {"none", "loading", "list"}, list: Seq(Messages)] /\ cache'.at = "none"
      /\ load' \in [at: {"none", "reading", "absent", "failed", "list"}, list: Seq(Messages)]
      /\ load'.at = "none" /\ queue' \in Seq(Procs)
  BY <1>1 DEF Nothing
<1>4. Shape'
  BY <1>1, <1>2, <1>3 DEF IInv, Control, Shape
<1>5. TurnInv' /\ RoleInv' /\ TaskInv'
  BY <1>2, IdleJob DEF TurnInv, Working, RoleInv, TaskInv, Procs
<1>6. CacheInv'
  BY <1>2, <1>3, IdleJob DEF CacheInv
<1>7. PolicyInv'
  BY <1>1, <1>2, IdleJob DEF IInv, PolicyInv, Procs
<1>8. QED
  BY <1>1, <1>4, <1>5, <1>6, <1>7 DEF IInv, Control, ListedIsReadable, AckedIsKept

\* Every step keeps the invariant.
LEMMA NextInv == IInv /\ [Next]_vars => IInv'
<1> SUFFICES ASSUME IInv, [Next]_vars PROVE IInv'
  OBVIOUS
<1>1. CASE UNCHANGED vars
  BY <1>1 DEF vars, IInv, Control, Shape, TurnInv, RoleInv, TaskInv, CacheInv, Current, PolicyInv,
              ListedIsReadable, AckedIsKept
<1>2. ASSUME NEW p \in Deliveries, Verify(p) \/ Reject(p) \/ StoreStep(p) PROVE IInv'
  <2>1. p \in Procs
    BY DEF Procs
  <2>2. QED
    BY <1>2, <2>1, VerifyInv, RejectInv, ListInv, WriteInv, WriteIndexInv, SetCacheInv,
       StoredInv, UnlinkInv DEF StoreStep
<1>3. QED
  BY <1>1, <1>2, OfferInv, FailInv, PostPolicyInv, WritePolicyInv, SearchInv, ReadIndexInv,
     SettleLoadInv, CrashInv DEF Next

\* Counting starts at zero.
LEMMA InitCounters == Init => Counters
  BY DEF Init, Counters

\* Counters only count up.
LEMMA NextCounters == Counters /\ [Next]_vars => Counters'
<1> SUFFICES ASSUME Counters, [Next]_vars PROVE Counters'
  OBVIOUS
<1>1. /\ offers' \in {offers, offers + 1} /\ forms' \in {forms, forms + 1}
      /\ faults' \in {faults, faults + 1} /\ crashes' \in {crashes, crashes + 1}
  BY DEF Next, Offer, Verify, Reject, StoreStep, List, LogDelivery, WriteEml, WriteBody,
         WriteIndex, SetCache, Stored, Unlink, Fail, PostPolicy, WritePolicy, Search, ReadIndex,
         SettleLoad, Crash, posted, vars
<1>2. QED
  BY <1>1 DEF Counters

\* The properties follow from the invariant.
LEMMA Follows ==
  ASSUME IInv, Counters
  PROVE  TypeOK /\ AckedIsKept /\ ListedIsReadable /\ CacheIsCurrent /\ StrictKeepsOut
<1>1. TypeOK
  BY DEF TypeOK, IInv, Control, Shape, Counters
<1>2. CacheIsCurrent
  BY DEF IInv, CacheInv, Current, CacheIsCurrent
<1>3. StrictKeepsOut
  BY DEF IInv, PolicyInv, StrictKeepsOut
<1>4. QED
  BY <1>1, <1>2, <1>3 DEF IInv

-----------------------------------------------------------------------------
(* The refinement *)

\* Each step stores one message as the mailbox promises, or leaves the index alone.
LEMMA StepRefines == IInv /\ [Next]_vars => [Promised!Next]_index
<1> SUFFICES ASSUME IInv, [Next]_vars PROVE [Promised!Next]_index
  OBVIOUS
<1>1. ASSUME NEW p \in Deliveries, WriteIndex(p) PROVE Promised!Next
  <2> DEFINE m == job[p].msg
             all == Cons(m, index)
  <2>1. /\ m \in Messages /\ m \notin ToSet(index) /\ index \in Seq(Messages)
        /\ job[p].list = index
    BY <1>1 DEF WriteIndex, Running, IInv, Control, Shape, RoleInv, TaskInv
  <2>2. index' = kept(all)
    BY <1>1, <2>1 DEF WriteIndex
  <2>3. all \in Seq(Messages) /\ all # <<>>
    BY <2>1, ConsSet
  <2>4. \A s : fits(s) <=> Promised!Within(s)
    <3>1. \A s : bytes(s) = Promised!Bytes(s)
      BY Zenon DEF bytes, Promised!Bytes, FoldSeq, Promised!FoldSeq, FoldFunction,
         Promised!FoldFunction, FoldFunctionOnSet, Promised!FoldFunctionOnSet,
         MapThenFoldSet, Promised!MapThenFoldSet
    <3>2. QED
      BY <3>1 DEF fits, Promised!Within
  <2> HIDE DEF all
  <2>5. PICK n \in 1..Len(all) :
          /\ kept(all) = SubSeq(all, 1, n)
          /\ n = 1 \/ fits(SubSeq(all, 1, n))
          /\ \A k \in (n + 1)..Len(all) : ~fits(SubSeq(all, 1, k))
    BY <2>3, KeptPrefix
  <2>6. Promised!Newest(all, n)
    BY <2>4, <2>5 DEF Promised!Newest
  <2>7. Promised!Store(m)
    <3>1. Promised!Cons(m, index) = all /\ Promised!ToSet(index) = ToSet(index)
      BY DEF Promised!Cons, Promised!ToSet, Cons, ToSet, all
    <3>2. index' = SubSeq(all, 1, n)
      BY <2>2, <2>5 DEF all
    <3>3. QED
      BY <2>1, <2>6, <3>1, <3>2 DEF Promised!Store
  <2>8. QED
    BY <2>1, <2>7 DEF Promised!Next
<1>2. index' = index \/ \E p \in Deliveries : WriteIndex(p)
  BY DEF Next, Offer, Verify, Reject, StoreStep, List, LogDelivery, WriteEml, WriteBody, SetCache,
         Stored, Unlink, Fail, PostPolicy, WritePolicy, Search, ReadIndex, SettleLoad, Crash,
         diskVars, vars
<1>3. QED
  BY <1>1, <1>2

\* The invariant holds of every behaviour.
LEMMA Invariance == Spec => []IInv
  BY InitInv, NextInv, PTL DEF Spec

\* mail-store.mjs: stored mail is kept until newer mail pushes it out; what is listed
\* can be read, the cached list is the one on disk, and a strict policy keeps out mail
\* that is not verified.
THEOREM StoreSound ==
  Spec => [](AckedIsKept /\ ListedIsReadable /\ CacheIsCurrent /\ StrictKeepsOut)
<1>1. Spec => []Counters
  BY InitCounters, NextCounters, PTL DEF Spec
<1>2. IInv /\ Counters => AckedIsKept /\ ListedIsReadable /\ CacheIsCurrent /\ StrictKeepsOut
  BY Follows
<1>3. QED
  BY <1>1, <1>2, Invariance, PTL

\* mail-store.mjs implements the mailbox: a step of the code changes the list on disk
\* as one delivery does, or not at all.
THEOREM StoreKeepsMailbox == Spec => ImplementsMailbox
<1>1. Init => Promised!Init
  BY DEF Init, Promised!Init
<1>2. QED
  BY <1>1, StepRefines, Invariance, PTL DEF Spec, ImplementsMailbox, Promised!Spec
=============================================================================
