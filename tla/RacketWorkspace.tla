--------------------------- MODULE RacketWorkspace ---------------------------
(*********************************************************************************)
(* The Racket workspaces (src/src/racket-workspace.mjs): calls of agents, whose  *)
(* writes need an approval, and of the owner's page (src/web/racket.js), whose   *)
(* saves and runs share one lock file; and the runner container                  *)
(* (src/racket-runner/server.py), which outlives a run that was given up.        *)
(* Every text an author writes gets a number of its own; 0 is no text.           *)
(*********************************************************************************)
EXTENDS Naturals, FiniteSets

CONSTANTS
  Workspaces,
  Agents,        \* tool calls, one approval each
  Page,          \* the owner's page
  MaxWorkspaces, \* files in the directory (the code: 50)
  MaxTexts, MaxRevision, MaxRuns, MaxCrashes  \* bounds

VARIABLES
  disk,      \* the saved workspaces
  locked,    \* .write.lock exists
  job,       \* what each call is doing
  consumed,  \* approvals used
  posted,    \* runs sent to the runner and not yet looked at
  running,   \* the run that holds the runner's lock, if any
  lost,      \* runs given up by the gateway (history)
  page,      \* the owner's page
  texts, runs, crashes

vars == <<disk, locked, job, consumed, posted, running, lost, page,
          texts, runs, crashes>>

-----------------------------------------------------------------------------

Callers == Agents \cup {Page}

\* base: the text its author had before; output: the text of lastRun.
NoDoc == [revision |-> 0, text |-> 0, base |-> 0, output |-> 0]

\* w and new: the arguments; before: what it read; run: the run it posted.
NoJob == [at |-> "free", kind |-> "save", w |-> {}, new |-> NoDoc,
          before |-> NoDoc, run |-> 0]

\* shown: the document of current, of workspace w ({} for null); text: what is
\* in the editor; seen: the saved text it last showed (history); poll: the answer
\* to a poll, still to be looked at.
Blank == [w |-> {}, shown |-> NoDoc, text |-> 0, seen |-> 0, dirty |-> FALSE,
          busy |-> FALSE, poll |-> {}]

Init ==
  /\ disk = [w \in Workspaces |-> NoDoc]
  /\ locked = FALSE /\ consumed = {} /\ posted = {} /\ running = {} /\ lost = {}
  /\ job = [c \in Callers |-> NoJob]
  /\ page = Blank
  /\ texts = 0 /\ runs = 0 /\ crashes = 0

saved(w) == disk[w].revision > 0

\* The document a save with expectedRevision makes.
successor(doc, text) ==
  [revision |-> doc.revision + 1, text |-> text, base |-> doc.text, output |-> 0]

-----------------------------------------------------------------------------
(* The agent reads a workspace, asks for an approval, and calls again with it *)

Propose(c) ==
  /\ job[c].at = "free"
  /\ \E w \in Workspaces :
       \/ /\ texts < MaxTexts
          /\ texts' = texts + 1
          /\ job' = [job EXCEPT ![c] = [NoJob EXCEPT !.at = "ready", !.w = {w},
                                        !.new = successor(disk[w], texts + 1)]]
       \/ /\ saved(w) /\ UNCHANGED texts
          /\ job' = [job EXCEPT ![c] = [NoJob EXCEPT !.at = "ready", !.kind = "run", !.w = {w},
                                        !.new = disk[w]]]
  /\ UNCHANGED <<disk, locked, consumed, posted, running, lost, page, runs, crashes>>

-----------------------------------------------------------------------------
(* The owner's page *)

\* show(value): the editor now holds the saved document.
show(p, w, doc) ==
  [p EXCEPT !.w = {w}, !.shown = doc, !.text = doc.text, !.seen = doc.text,
            !.dirty = FALSE, !.busy = FALSE, !.poll = {}]

PageOnly == UNCHANGED <<disk, locked, consumed, posted, running, lost, runs, crashes>>

Type ==
  /\ ~page.busy /\ texts < MaxTexts
  /\ texts' = texts + 1
  /\ page' = [page EXCEPT !.text = texts + 1, !.dirty = TRUE]
  /\ PageOnly /\ UNCHANGED job

\* Open, or New; the owner confirms that unsaved text may go.
Open ==
  /\ ~page.busy
  /\ \/ \E w \in Workspaces : saved(w) /\ page' = show(page, w, disk[w])
     \/ page' = [Blank EXCEPT !.dirty = TRUE]
  /\ PageOnly /\ UNCHANGED <<job, texts>>

PageCall(kind, w, doc) ==
  /\ page' = [page EXCEPT !.busy = TRUE]
  /\ job' = [job EXCEPT ![Page] = [NoJob EXCEPT !.at = "ready", !.kind = kind,
                                   !.w = {w}, !.new = doc]]
  /\ PageOnly /\ UNCHANGED texts

PageSave ==
  /\ ~page.busy /\ page.text # 0 /\ page.shown.revision < MaxRevision
  /\ \E w \in IF page.w = {} THEN Workspaces ELSE page.w :
       PageCall("save", w, [successor(page.shown, page.text) EXCEPT !.base = page.seen])

PageRun ==
  /\ ~page.busy /\ ~page.dirty
  /\ \E w \in page.w : PageCall("run", w, page.shown)

\* The timer reads the workspace shown, and looks at the answer later.
PollRead ==
  /\ page.w # {} /\ ~page.busy
  /\ \E w \in page.w : page' = [page EXCEPT !.poll = {disk[w]} \ {page.shown}]
  /\ PageOnly /\ UNCHANGED <<job, texts>>

\* Mutant: unsaved text stays, with the revision of the answer.
PollShowRevision ==
  /\ \E doc \in page.poll :
       page' = IF page.busy \/ page.dirty
               THEN [page EXCEPT !.poll = {}, !.shown = doc]
               ELSE show(page, CHOOSE w \in page.w : TRUE, doc)
  /\ PageOnly /\ UNCHANGED <<job, texts>>

PollShow ==
  /\ \E doc \in page.poll :
       page' = IF page.busy \/ page.dirty
               THEN [page EXCEPT !.poll = {}]
               ELSE show(page, CHOOSE w \in page.w : TRUE, doc)
  /\ PageOnly /\ UNCHANGED <<job, texts>>

-----------------------------------------------------------------------------
(* RacketWorkspace.call *)

Move(c, label) == job' = [job EXCEPT ![c].at = label]

CallOnly == UNCHANGED <<page, texts, crashes>>

\* What the answer does to the caller: an agent may call again with the same
\* approval, the page shows the document or a message.
back(c, j) == IF c = Page THEN NoJob ELSE [j EXCEPT !.at = "ready", !.before = NoDoc, !.run = 0]

AnswerTo(c, ok) ==
  /\ job' = [job EXCEPT ![c] = back(c, job[c])]
  /\ page' = IF c # Page THEN page
             ELSE IF ok THEN show(page, CHOOSE w \in job[c].w : TRUE, job[c].before)
             ELSE [page EXCEPT !.busy = FALSE]

\* locked: the exclusive create of the lock file.
Lock(c) ==
  /\ job[c].at = "ready"
  /\ IF locked
     THEN AnswerTo(c, FALSE) /\ UNCHANGED locked
     ELSE locked' = TRUE /\ Move(c, "read") /\ UNCHANGED page
  /\ UNCHANGED <<disk, consumed, posted, running, lost, texts, runs, crashes>>

expectedRevision(j) == IF j.kind = "save" THEN j.new.revision - 1 ELSE j.new.revision

\* The file or the key may be unreadable.
Read(c) ==
  /\ job[c].at = "read"
  /\ \/ \E w \in job[c].w :
          job' = [job EXCEPT ![c].before = disk[w],
            ![c].at =
              IF \/ disk[w].revision # expectedRevision(job[c])
                 \/ job[c].kind = "run" /\ ~saved(w)
                 \/ job[c].kind = "save" /\ ~saved(w)
                    /\ Cardinality({v \in Workspaces : saved(v)}) >= MaxWorkspaces
              THEN "fail"
              ELSE IF job[c].kind = "run" THEN "health" ELSE "authorize"]
     \/ Move(c, "fail")
  /\ CallOnly /\ UNCHANGED <<disk, locked, consumed, posted, running, lost, runs>>

\* Mutant: any answer of the runner will do.
HealthAnswered(c) ==
  /\ job[c].at = "health"
  /\ Move(c, "authorize") \/ Move(c, "fail")
  /\ CallOnly /\ UNCHANGED <<disk, locked, consumed, posted, running, lost, runs>>

\* The runner must answer, and its lock be free, before the approval is used.
Health(c) ==
  /\ job[c].at = "health"
  /\ \/ running = {} /\ Move(c, "authorize")
     \/ Move(c, "fail")
  /\ CallOnly /\ UNCHANGED <<disk, locked, consumed, posted, running, lost, runs>>

Authorize(c) ==
  /\ job[c].at = "authorize"
  /\ IF c \in consumed THEN Move(c, "fail") /\ UNCHANGED consumed
     ELSE /\ consumed' = consumed \cup ({c} \ {Page})
          /\ Move(c, IF job[c].kind = "save" THEN "write" ELSE "post")
  /\ CallOnly /\ UNCHANGED <<disk, locked, posted, running, lost, runs>>

\* write: <id>.json.pending, renamed.
Write(c) ==
  /\ job[c].at = "write"
  /\ \E w \in job[c].w :
       \/ /\ disk' = [disk EXCEPT ![w] = IF job[c].kind = "save" THEN job[c].new
                                         ELSE job[c].before]
          /\ job' = [job EXCEPT ![c].at = "ok", ![c].before = disk'[w]]
       \/ Move(c, "fail") /\ UNCHANGED disk
  /\ CallOnly /\ UNCHANGED <<locked, consumed, posted, running, lost, runs>>

Post(c) ==
  /\ job[c].at = "post" /\ runs < MaxRuns
  /\ runs' = runs + 1
  /\ posted' = posted \cup {[n |-> runs + 1, text |-> job[c].before.text]}
  /\ job' = [job EXCEPT ![c].at = "wait", ![c].run = runs + 1]
  /\ CallOnly /\ UNCHANGED <<disk, locked, consumed, running, lost>>

\* 15 seconds without an answer.
GiveUp(c) ==
  /\ job[c].at = "wait"
  /\ Move(c, "fail")
  /\ lost' = lost \cup {job[c].run}
  /\ CallOnly /\ UNCHANGED <<disk, locked, consumed, posted, running, runs>>

\* The finally of locked: if the unlink fails, so does the call.
Unlock(c) ==
  /\ job[c].at \in {"ok", "fail"}
  /\ \/ locked' = FALSE /\ AnswerTo(c, job[c].at = "ok")
     \/ UNCHANGED locked /\ AnswerTo(c, FALSE)
  /\ UNCHANGED <<disk, consumed, posted, running, lost, texts, runs, crashes>>

-----------------------------------------------------------------------------
(* The runner *)

waiting(c, r) == job[c].at = "wait" /\ job[c].run = r.n

\* do_POST: another run holds the lock, or this one takes it.
Take ==
  /\ \E r \in posted :
       /\ posted' = posted \ {r}
       /\ IF running = {}
          THEN running' = {r} /\ UNCHANGED job
          ELSE /\ job' = [c \in Callers |-> IF waiting(c, r)
                                            THEN [job[c] EXCEPT !.at = "fail"] ELSE job[c]]
               /\ UNCHANGED running
  /\ CallOnly /\ UNCHANGED <<disk, locked, consumed, lost, runs>>

\* The answer is sent before the lock is released.
Respond ==
  /\ \E r \in running, c \in Callers :
       /\ waiting(c, r)
       /\ job' = [job EXCEPT ![c].at = "write", ![c].before.output = r.text]
  /\ CallOnly /\ UNCHANGED <<disk, locked, consumed, posted, running, lost, runs>>

Release ==
  /\ running # {} /\ \A r \in running, c \in Callers : ~waiting(c, r)
  /\ running' = {}
  /\ CallOnly /\ UNCHANGED <<disk, locked, job, consumed, posted, lost, runs>>

-----------------------------------------------------------------------------

\* The gateway is killed: the lock file stays.
Crash ==
  /\ crashes < MaxCrashes
  /\ crashes' = crashes + 1
  /\ job' = [c \in Callers |-> IF job[c].at = "free" THEN job[c] ELSE back(c, job[c])]
  /\ lost' = lost \cup {job[c].run : c \in {c \in Callers : job[c].at = "wait"}}
  /\ page' = [page EXCEPT !.busy = FALSE]
  /\ UNCHANGED <<disk, locked, consumed, posted, running, texts, runs>>

\* An administrator removes a lock file that was left, having verified that no operation is running.
ClearLock ==
  /\ locked /\ \A c \in Callers : job[c].at \in {"free", "ready"}
  /\ locked' = FALSE
  /\ CallOnly /\ UNCHANGED <<disk, job, consumed, posted, running, lost, runs>>

Next ==
  \/ \E c \in Agents : Propose(c)
  \/ Type \/ Open \/ PageSave \/ PageRun \/ PollRead \/ PollShow
  \/ \E c \in Callers : \/ Lock(c) \/ Read(c) \/ Health(c) \/ Authorize(c) \/ Write(c)
                        \/ Post(c) \/ GiveUp(c) \/ Unlock(c)
  \/ Take \/ Respond \/ Release
  \/ Crash \/ ClearLock

Spec == Init /\ [][Next]_vars

-----------------------------------------------------------------------------
(* Properties *)

TypeOK ==
  /\ \A w \in Workspaces : disk[w].text \in 0..MaxTexts /\ disk[w].output \in 0..MaxTexts
  /\ locked \in BOOLEAN
  /\ \A c \in Callers : job[c].at \in {"free", "ready", "read", "health", "authorize",
                                       "write", "post", "wait", "ok", "fail"}
  /\ consumed \subseteq Agents /\ lost \subseteq 1..MaxRuns
  /\ Cardinality(running) <= 1
  /\ page.text \in 0..MaxTexts /\ page.dirty \in BOOLEAN /\ page.busy \in BOOLEAN

\* Nobody's save replaces a text its author has not seen: not the page's after a
\* poll, not an agent's after its approval took a while, not a run's result.
NothingUnseenIsReplaced ==
  \A w \in Workspaces : disk'[w].text # disk[w].text => disk'[w].base = disk[w].text

\* The output shown with a text is the output of that text.
OutputIsOfItsText == \A w \in Workspaces : disk[w].output \in {0, disk[w].text}

\* A run whose approval is used finds the runner free, unless an earlier run was
\* given up: busy is detected before the approval is consumed.
RunnerIsFree ==
  \A c \in Callers, r \in posted, b \in running : waiting(c, r) => b.n \in lost

=============================================================================
