------------------------------ MODULE Breakdown ------------------------------
(***************************************************************************)
(* Breaking a backlog item down into children.  The dialog gathers slots,   *)
(* one per child, and which task or test goes into which; then the browser  *)
(* itself carries the breakdown out, one request after the other, and stops *)
(* at the first that fails.  Nothing is rolled back.  Meanwhile others add  *)
(* and delete tasks and tests, and the dialog may be closed, opened and     *)
(* executed again.                                                          *)
(***************************************************************************)
EXTENDS Naturals, FiniteSets, FiniteSetsExt

CONSTANTS
    Tasks, Tests, \* the item's rows
    LateTasks,    \* tasks that are added later, if at all
    MaxSlots,     \* bound: slots in the dialog
    MaxAttempts,  \* bound: clicks on Execute
    MaxEdits,     \* bound: changes made in the dialog
    MaxFaults     \* bound: requests that fail on the way

ASSUME BreakdownAssumption ==
    /\ Tasks \cap Tests = {} /\ LateTasks \cap (Tasks \cup Tests) = {}
    /\ {MaxSlots, MaxAttempts, MaxEdits, MaxFaults} \subseteq Nat
    /\ MaxSlots >= 2

AllTasks == Tasks \cup LateTasks
Things   == AllTasks \cup Tests
Slots    == 1..MaxSlots
NoSlot   == 0

\* A child is named by the attempt and the slot it was created for.
Children == (1..MaxAttempts) \X Slots
Original == <<0, 0>>
Absent   == <<0, 1>>
Gone     == <<0, 2>>

VARIABLES
    dialog,    \* is it open, its slots, do all have a title, where rows were dropped
    listed,    \* the item's rows as the page last read them
    attempts,  \* the executions so far, in order
    at,        \* where each row is at the server
    born,      \* the children that exist
    sprinted,  \* members of the item's sprint; empty if the item is in none
    broken,    \* is the item marked decomposed?
    edits,     \* changes made in the dialog so far
    faults     \* requests that failed so far

breakVars == <<dialog, listed, attempts, at, born, sprinted, broken, edits, faults>>

Idle == [state |-> "none", slots |-> {}, dropped |-> [x \in Things |-> NoSlot],
         rows |-> {}, made |-> {}, moved |-> {}, joined |-> {}, attached |-> FALSE]

Attempts ==
    [state : {"none", "running", "done", "failed"}, slots : SUBSET Slots,
     dropped : [Things -> Slots \cup {NoSlot}], rows : SUBSET Things,
     made : SUBSET Slots, moved : SUBSET Things, joined : SUBSET Slots, attached : BOOLEAN]

BreakdownTypeOK ==
    /\ dialog \in [open : BOOLEAN, slots : SUBSET Slots, titled : BOOLEAN,
                   dropped : [Things -> Slots \cup {NoSlot}]]
    /\ listed \subseteq Things
    /\ attempts \in [1..MaxAttempts -> Attempts]
    /\ at \in [Things -> Children \cup {Original, Absent, Gone}]
    /\ born \subseteq Children
    /\ sprinted \subseteq Children \cup {Original}
    /\ broken \in BOOLEAN
    /\ edits \in 0..MaxEdits
    /\ faults \in 0..MaxFaults

NewDialog == [open |-> TRUE, slots |-> {1, 2}, titled |-> FALSE, dropped |-> Idle.dropped]
NoDialog  == [NewDialog EXCEPT !.open = FALSE]

BreakdownInit ==
    /\ dialog = NoDialog
    /\ listed = Tasks \cup Tests
    /\ attempts = [n \in 1..MaxAttempts |-> Idle]
    /\ at = [x \in Things |-> IF x \in LateTasks THEN Absent ELSE Original]
    /\ born = {}
    /\ sprinted \in {{}, {Original}}
    /\ broken = FALSE
    /\ edits = 0
    /\ faults = 0

Server == <<at, born, sprinted, broken>>
Bounds == <<edits, faults>>

OpenBreakdown ==
    /\ ~dialog.open
    /\ dialog' = NewDialog
    /\ UNCHANGED <<listed, attempts, Server, Bounds>>

\* Escape, Cancel and a click outside work while an attempt is running, too:
\* it goes on without its dialog.
Detach == [n \in 1..MaxAttempts |-> [attempts[n] EXCEPT !.attached = FALSE]]

CloseBreakdown ==
    /\ dialog.open
    /\ dialog' = NoDialog
    /\ attempts' = Detach
    /\ UNCHANGED <<listed, Server, Bounds>>

\* The user changes something in the dialog; so may he while it is busy.
Edit(d) ==
    /\ dialog.open
    /\ edits < MaxEdits
    /\ edits' = edits + 1
    /\ dialog' = d
    /\ UNCHANGED <<listed, attempts, Server, faults>>

addSlot ==
    \E s \in Slots \ dialog.slots :
        /\ \A t \in Slots \ dialog.slots : s <= t
        /\ Edit([dialog EXCEPT !.slots = @ \cup {s}, !.titled = FALSE])

\* A slot is removed only if two remain; what was dropped there is not
\* assigned any more.
removeSlot(s) ==
    /\ s \in dialog.slots
    /\ Cardinality(dialog.slots) > 2
    /\ Edit([dialog EXCEPT !.slots = @ \ {s},
                !.dropped = [x \in Things |-> IF @[x] = s THEN NoSlot ELSE @[x]]])

\* The last title that was missing.
updateSlotTitle == ~dialog.titled /\ Edit([dialog EXCEPT !.titled = TRUE])

\* Only rows the page lists can be dragged, into a slot or back.
handleDrop(x, s) ==
    /\ x \in listed
    /\ s \in dialog.slots \cup {NoSlot}
    /\ s # dialog.dropped[x]
    /\ Edit([dialog EXCEPT !.dropped[x] = s])

busy == \E n \in 1..MaxAttempts : attempts[n].attached /\ attempts[n].state = "running"

canExecute == dialog.titled /\ Cardinality(dialog.slots) >= 2

execute ==
    /\ dialog.open
    /\ canExecute /\ ~busy
    /\ \E n \in 1..MaxAttempts :
          /\ attempts[n].state = "none"
          /\ \A k \in 1..(n - 1) : attempts[k].state # "none"
          /\ attempts' = [attempts EXCEPT ![n] = [Idle EXCEPT !.state = "running",
                             !.slots = dialog.slots, !.dropped = dialog.dropped,
                             !.rows = listed, !.attached = TRUE]]
    /\ UNCHANGED <<dialog, listed, Server, Bounds>>

-----------------------------------------------------------------------------
(* The requests of an attempt, in order: create the children, move the rows *)
(* dropped somewhere, tasks first, then those the page listed and nobody    *)
(* dropped, then join the sprint, then decompose.                           *)

Dropped(a, X) == {x \in X : a.dropped[x] # NoSlot} \ a.moved
Rest(a, X)    == {x \in a.rows \cap X : a.dropped[x] = NoSlot} \ a.moved

\* The rows the attempt may move next: one of the first group with any left.
ToMove(a) ==
    LET groups == <<Dropped(a, AllTasks), Dropped(a, Tests), Rest(a, AllTasks), Rest(a, Tests)>>
        left   == {i \in 1..4 : groups[i] # {}}
    IN  IF left = {} THEN {} ELSE groups[Min(left)]

SlotOf(a, x) == IF a.dropped[x] = NoSlot THEN Max(a.slots) ELSE a.dropped[x]

\* One request of attempt n is carried out, and a says how far it got.
Advance(n, a) == attempts' = [attempts EXCEPT ![n] = a]

CreateChild(n) ==
    LET a == attempts[n]
        s == Min(a.slots \ a.made)
    IN  /\ a.slots # a.made
        /\ born' = born \cup {<<n, s>>}
        /\ Advance(n, [a EXCEPT !.made = @ \cup {s}])
        /\ UNCHANGED <<dialog, at, sprinted, broken>>

\* Mutant: a row that is not under the item any more is passed over.
MoveRowOrSkip(n) ==
    LET a == attempts[n]
    IN  /\ a.slots = a.made
        /\ \E x \in ToMove(a) :
              /\ at' = IF at[x] = Original THEN [at EXCEPT ![x] = <<n, SlotOf(a, x)>>] ELSE at
              /\ Advance(n, [a EXCEPT !.moved = @ \cup {x}])
        /\ UNCHANGED <<dialog, born, sprinted, broken>>

\* The server moves a row only from the item it is said to be under.
MoveRow(n) ==
    LET a == attempts[n]
    IN  /\ a.slots = a.made
        /\ \E x \in ToMove(a) :
              /\ at[x] = Original
              /\ at' = [at EXCEPT ![x] = <<n, SlotOf(a, x)>>]
              /\ Advance(n, [a EXCEPT !.moved = @ \cup {x}])
        /\ UNCHANGED <<dialog, born, sprinted, broken>>

JoinSprint(n) ==
    LET a == attempts[n]
    IN  /\ a.slots = a.made /\ ToMove(a) = {}
        /\ sprinted # {} /\ a.joined # a.slots
        /\ LET s == Min(a.slots \ a.joined)
           IN  /\ sprinted' = sprinted \cup {<<n, s>>}
               /\ Advance(n, [a EXCEPT !.joined = @ \cup {s}])
        /\ UNCHANGED <<dialog, at, born, broken>>

\* The last request; on success whatever dialog is open for the item closes.
Decompose(n) ==
    LET a == attempts[n]
    IN  /\ a.slots = a.made /\ ToMove(a) = {}
        /\ sprinted # {} => a.joined = a.slots
        /\ broken' = TRUE
        /\ dialog' = NoDialog
        /\ attempts' = [Detach EXCEPT ![n] = [a EXCEPT !.state = "done", !.attached = FALSE]]
        /\ UNCHANGED <<at, born, sprinted>>

Request(n) ==
    /\ attempts[n].state = "running"
    /\ CreateChild(n) \/ MoveRow(n) \/ JoinSprint(n) \/ Decompose(n)
    /\ UNCHANGED <<listed, Bounds>>

\* The dialog keeps its slots; the attempt forgets the children it made.
Stop(n) == attempts' = [attempts EXCEPT ![n] = [Idle EXCEPT !.state = "failed"]]

\* The next row is not under the item any more: 404, and the attempt stops.
RequestRefused(n) ==
    LET a == attempts[n]
    IN  /\ a.state = "running" /\ a.slots = a.made
        /\ \E x \in ToMove(a) : at[x] # Original
        /\ Stop(n)
        /\ UNCHANGED <<dialog, listed, Server, Bounds>>

\* A request fails on its way there, or its answer on the way back, after the
\* server did what it asked.
RequestFails(n) ==
    LET a     == attempts[n]
        moves == ToMove(a)
    IN  /\ a.state = "running"
        /\ faults < MaxFaults
        /\ faults' = faults + 1
        /\ Stop(n)
        /\ \/ UNCHANGED Server
           \/ /\ a.slots # a.made
              /\ born' = born \cup {<<n, Min(a.slots \ a.made)>>}
              /\ UNCHANGED <<at, sprinted, broken>>
           \/ /\ a.slots = a.made
              /\ \E x \in moves :
                    at[x] = Original /\ at' = [at EXCEPT ![x] = <<n, SlotOf(a, x)>>]
              /\ UNCHANGED <<born, sprinted, broken>>
           \/ /\ a.slots = a.made /\ moves = {}
              /\ sprinted # {} /\ a.joined # a.slots
              /\ sprinted' = sprinted \cup {<<n, Min(a.slots \ a.joined)>>}
              /\ UNCHANGED <<at, born, broken>>
           \/ /\ a.slots = a.made /\ moves = {}
              /\ sprinted # {} => a.joined = a.slots
              /\ broken' = TRUE
              /\ UNCHANGED <<at, born, sprinted>>
        /\ UNCHANGED <<dialog, listed, edits>>

\* The page reads the item's rows again.
Relist ==
    /\ listed' = {x \in Things : at[x] = Original}
    /\ listed' # listed
    /\ UNCHANGED <<dialog, attempts, Server, Bounds>>

OthersAdd(x) ==
    /\ at[x] = Absent
    /\ at' = [at EXCEPT ![x] = Original]
    /\ UNCHANGED <<dialog, listed, attempts, born, sprinted, broken, Bounds>>

OthersDelete(x) ==
    /\ at[x] \notin {Absent, Gone}
    /\ at' = [at EXCEPT ![x] = Gone]
    /\ UNCHANGED <<dialog, listed, attempts, born, sprinted, broken, Bounds>>

BreakdownNext ==
    \/ OpenBreakdown \/ CloseBreakdown \/ addSlot \/ updateSlotTitle \/ execute \/ Relist
    \/ \E s \in Slots : removeSlot(s)
    \/ \E x \in Things, s \in Slots \cup {NoSlot} : handleDrop(x, s)
    \/ \E n \in 1..MaxAttempts : Request(n) \/ RequestRefused(n) \/ RequestFails(n)
    \/ \E x \in Things : OthersAdd(x) \/ OthersDelete(x)

BreakdownSpec == BreakdownInit /\ [][BreakdownNext]_breakVars

-----------------------------------------------------------------------------
\* An attempt that got to the end left every row where its user put it: what
\* was dropped on a slot is in the child this very attempt created for it,
\* what was not is in its last child, and the children are in the sprint.  An
\* attempt that meets a row an earlier one moved does not get to the end.
CompletedBreakdownIsWhole ==
    \A n \in 1..MaxAttempts :
        LET a == attempts[n]
        IN  a.state = "done" =>
              /\ \A s \in a.slots : <<n, s>> \in born
              /\ \A x \in a.rows \cup {y \in Things : a.dropped[y] # NoSlot} :
                    at[x] \in {<<n, SlotOf(a, x)>>, Gone}
              /\ sprinted # {} => \A s \in a.slots : <<n, s>> \in sprinted
=============================================================================
