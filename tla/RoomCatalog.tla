----------------------------- MODULE RoomCatalog ------------------------------
(******************************************************************************)
(* The reads of the study rooms (class RoomCatalog in src/src/libcal.mjs):    *)
(* the room list of all libraries, kept for five minutes and read once for    *)
(* all calls that wait for it, the grid of each library, and two algorithms   *)
(* on a grid that must agree: availableWindows tells an agent where it may    *)
(* book, assertAvailable checks what it then asks for.  Times are quarter     *)
(* hours, as the library's slots are: slot i lasts from i to i + 1.           *)
(******************************************************************************)
EXTENDS Naturals, Sequences, Functions

CONSTANTS
  Libraries,   \* each has a page of the room list
  Readers,     \* calls for availability, of one room or of several with it
  Bookers,     \* calls that prepare a booking of the room
  Slots,       \* a number; the day ends with the last slot
  MaxChanges   \* bookings and cancellations by others

VARIABLES
  now, changes,
  grid,             \* what each slot of the room is
  cached, pending,  \* the room list; the pages its read still waits for
  at, length,       \* where each call is, and the length a reader asks for
  wanted,           \* the bookings that have passed bookingWindow
  seen,             \* the grid the call has read
  told              \* what it was answered, and when its times were checked

vars == <<now, changes, grid, cached, pending, at, length, wanted, seen, told>>

-----------------------------------------------------------------------------

Calls == Readers \cup Bookers

EndOfDay == Slots + 1

\* A slot in the grid is free or has a class name; or the grid does not have it.
Grids == [1..Slots -> {"free", "taken", "absent"}]

\* A booking of the day: its first slot and its length.
Bookings == {b \in [start : 1..Slots, length : 1..Slots] : b.start + b.length <= EndOfDay}

Init ==
  /\ now = 0 /\ changes = 0 /\ grid \in Grids
  /\ cached = FALSE /\ pending = {}
  /\ at = [c \in Calls |-> "idle"] /\ length = [c \in Calls |-> 1]
  /\ wanted = [c \in Calls |-> {}] /\ seen = [c \in Calls |-> <<>>]
  /\ told = [c \in Calls |-> <<>>]

-----------------------------------------------------------------------------
(* The two algorithms *)

\* The loops go over the slots of the room, sorted by their start, and pass by what the
\* grid does not have.
isListed(g, i) == g[i] # "absent"

\* As Widen, but over slots the grid does not have.
WidenOverGaps(g, present, acc, i) ==
  IF g[i] = "taken" \/ i <= present THEN [acc EXCEPT !.open = FALSE]
  ELSE IF acc.open
  THEN [acc EXCEPT !.windows[Len(acc.windows)].end = i + 1]
  ELSE [windows |-> Append(acc.windows, [start |-> i, end |-> i + 1]), open |-> TRUE]

\* A slot extends the open window, opens one, or closes it.
Widen(g, present, acc, i) ==
  LET n == Len(acc.windows) IN
  IF g[i] = "taken" \/ i <= present THEN [acc EXCEPT !.open = FALSE]
  ELSE IF acc.open /\ acc.windows[n].end = i
  THEN [acc EXCEPT !.windows[n].end = i + 1]
  ELSE [windows |-> Append(acc.windows, [start |-> i, end |-> i + 1]), open |-> TRUE]

\* The windows after the slots to i.
widened(g, present) ==
  LET after[i \in 0..Slots] ==
        IF i = 0 THEN [windows |-> <<>>, open |-> FALSE]
        ELSE IF isListed(g, i) THEN Widen(g, present, after[i - 1], i) ELSE after[i - 1]
  IN after

availableWindows(g, minutes, present) ==
  {w \in Range(widened(g, present)[Slots].windows) : w.end - w.start >= minutes}

\* The cursor starts at the booking's first slot, and must come to its end.
Walk(g, b, acc, i) ==
  IF acc.over \/ i < acc.cursor THEN acc
  ELSE IF i # acc.cursor \/ g[i] = "taken" THEN [acc EXCEPT !.over = TRUE]
  ELSE [cursor |-> i + 1, over |-> i + 1 = b.start + b.length]

\* The cursor after the slots to i.
walked(g, b) ==
  LET after[i \in 0..Slots] ==
        IF i = 0 THEN [cursor |-> b.start, over |-> FALSE]
        ELSE IF isListed(g, i) THEN Walk(g, b, after[i - 1], i) ELSE after[i - 1]
  IN after

assertAvailable(g, b) == walked(g, b)[Slots].cursor = b.start + b.length

\* What may still be booked by the clock.
bookingWindow(b, present) == b.start > present

-----------------------------------------------------------------------------
(* The room list *)

\* The calls that wait for the list go on, or fail with it.
settled(c, place) == IF at[c] = "list" THEN place ELSE at[c]

\* The inputs are checked, for an availability read only; then the list, from memory
\* or by the read in progress.
Ask(c) ==
  /\ at[c] = "idle"
  /\ \/ /\ \/ c \in Bookers /\ UNCHANGED length
           \/ c \in Readers /\ \E n \in 1..Slots : length' = [length EXCEPT ![c] = n]
        /\ at' = [at EXCEPT ![c] = IF cached THEN "found" ELSE "list"]
        /\ pending' = IF cached \/ pending # {} THEN pending ELSE Libraries
     \/ at' = [at EXCEPT ![c] = "failed"] /\ UNCHANGED <<length, pending>>
  /\ UNCHANGED <<now, changes, grid, cached, wanted, seen, told>>

\* The pages are read together.
Page(l) ==
  /\ l \in pending /\ pending # {l} /\ pending' = pending \ {l}
  /\ UNCHANGED <<now, changes, grid, cached, at, length, wanted, seen, told>>

\* The first page to fail fails the read, and the next call starts another.
PageFails(l) ==
  /\ l \in pending /\ pending' = {}
  /\ at' = [c \in Calls |-> settled(c, "failed")]
  /\ UNCHANGED <<now, changes, grid, cached, length, wanted, seen, told>>

\* With the last page all are parsed, or one of them has changed.
Parse(l) ==
  /\ pending = {l} /\ pending' = {}
  /\ \/ cached' = TRUE /\ at' = [c \in Calls |-> settled(c, "found")]
     \/ at' = [c \in Calls |-> settled(c, "failed")] /\ UNCHANGED cached
  /\ UNCHANGED <<now, changes, grid, length, wanted, seen, told>>

\* Five minutes.
Expire ==
  /\ cached /\ cached' = FALSE
  /\ UNCHANGED <<now, changes, grid, pending, at, length, wanted, seen, told>>

-----------------------------------------------------------------------------
(* The grids *)

\* The room is not in the list, or too small; a booking's times are checked here.
Find(c) ==
  /\ at[c] = "found"
  /\ \/ /\ at' = [at EXCEPT ![c] = "grid"]
        /\ wanted' = [wanted EXCEPT ![c] =
             IF c \in Bookers THEN {b \in Bookings : bookingWindow(b, now)} ELSE {}]
     \/ at' = [at EXCEPT ![c] = "failed"] /\ UNCHANGED wanted
  /\ UNCHANGED <<now, changes, grid, cached, pending, length, seen, told>>

\* A grid that cannot be read, or that validateGrid does not know, fails the call.
GridFails(c) ==
  /\ at[c] = "grid" /\ at' = [at EXCEPT ![c] = "failed"]
  /\ UNCHANGED <<now, changes, grid, cached, pending, length, wanted, seen, told>>

\* availability: the grids of the libraries asked for are read together, and the time
\* is taken when all are there.
Availability(c) ==
  /\ at[c] = "grid" /\ c \in Readers /\ at' = [at EXCEPT ![c] = "over"]
  /\ seen' = [seen EXCEPT ![c] = grid]
  /\ told' = [told EXCEPT ![c] =
       [when |-> now, windows |-> availableWindows(grid, length[c], now)]]
  /\ UNCHANGED <<now, changes, grid, cached, pending, length, wanted>>

\* prepare, for every booking that may be asked for.
Prepare(c) ==
  /\ at[c] = "grid" /\ c \in Bookers /\ at' = [at EXCEPT ![c] = "over"]
  /\ seen' = [seen EXCEPT ![c] = grid]
  /\ told' = [told EXCEPT ![c] = {b \in wanted[c] : assertAvailable(grid, b)}]
  /\ UNCHANGED <<now, changes, grid, cached, pending, length, wanted>>

-----------------------------------------------------------------------------

Tick ==
  /\ now < Slots /\ now' = now + 1
  /\ UNCHANGED <<changes, grid, cached, pending, at, length, wanted, seen, told>>

\* Others book and cancel.
Change(i) ==
  /\ changes < MaxChanges /\ changes' = changes + 1
  /\ \/ grid[i] = "free" /\ grid' = [grid EXCEPT ![i] = "taken"]
     \/ grid[i] = "taken" /\ grid' = [grid EXCEPT ![i] = "free"]
  /\ UNCHANGED <<now, cached, pending, at, length, wanted, seen, told>>

Next ==
  \/ \E c \in Calls : Ask(c) \/ Find(c) \/ GridFails(c) \/ Availability(c) \/ Prepare(c)
  \/ \E l \in Libraries : Page(l) \/ PageFails(l) \/ Parse(l)
  \/ Expire \/ Tick
  \/ \E i \in 1..Slots : Change(i)

Spec == Init /\ [][Next]_vars

-----------------------------------------------------------------------------
(* Properties *)

TypeOK ==
  /\ now \in 0..Slots /\ cached \in BOOLEAN
  /\ pending \subseteq Libraries
  /\ at \in [Calls -> {"idle", "list", "found", "grid", "over", "failed"}]
  /\ seen \in [Calls -> Grids \cup {<<>>}]

\* The bookings some windows offer, of the length asked for or longer.
offered(windows, minutes) ==
  {b \in Bookings : /\ b.length >= minutes
                    /\ \E w \in windows :
                         w.start <= b.start /\ b.start + b.length <= w.end}

\* libcal.mjs: what an agent is offered can be booked and nothing else, as long as
\* its start has not passed and the grid is the one it was offered from.
OfferedCanBeBooked ==
  \A c \in Readers, d \in Bookers :
    at[c] = "over" /\ at[d] = "over" /\ seen[c] = seen[d] =>
      offered(told[c].windows, length[c]) \cap wanted[d]
        = {b \in told[d] : b.length >= length[c] /\ bookingWindow(b, told[c].when)}

\* libcal.mjs: no call waits for a read of the room list that has ended, however the
\* pages fail.
ListIsAwaited == \A c \in Calls : at[c] = "list" => pending # {}

=============================================================================
