----------------------------- MODULE SprintBoard -----------------------------
(***************************************************************************)
(* The sprint board: backlog items, sprints, and the sprint_items rows that *)
(* commit items to sprints.  Three handlers use more than one statement,    *)
(* each statement its own transaction under READ COMMITTED, so requests     *)
(* interleave between the statements:                                       *)
(*                                                                          *)
(*   AddItem      insert the row, then promote the item's status            *)
(*   UpdateItem   write the status, then evict the item from its sprints    *)
(*   Close        read the unclosed items, carry them over in a             *)
(*                transaction, then mark the sprint completed               *)
(*                                                                          *)
(* Every other handler is one statement and is one atomic action.  A        *)
(* request answered with 4xx changes nothing and is not an action.          *)
(***************************************************************************)
EXTENDS Naturals, FiniteSets

CONSTANTS
    Projects,       \* project ids
    Items,          \* backlog item ids, each used once (UUID)
    Sprints,        \* sprint ids, each used once (UUID)
    ItemProject,    \* backlog_items.project_id: no statement ever changes it
    SprintProject,  \* sprints.project_id: no statement ever changes it
    Statuses,       \* the item statuses callers use
    SprintStatuses, \* the sprint statuses callers use
    CarryTargets,   \* the carry_to_sprint_id values callers send
    NoTarget,       \* the empty carry_to_sprint_id
    Faults,         \* may a request stop between two of its statements?
    Workers         \* requests in flight at the same time

AcceptedStatuses ==
    {"planned", "request", "on_hold", "open", "in_progress", "in_review",
     "done", "closed", "cancelled", "rejected", "decomposed"}

AcceptedSprintStatuses == {"planning", "active", "completed", "cancelled"}

\* What AddItem promotes to "open" ("backlog" and "ready" are legacy values).
PromotedStatuses == {"planned", "request", "on_hold", "backlog", "ready"}

\* The statuses whose assignment takes an item off every sprint.
ResetStatuses == {"planned", "request", "on_hold", "rejected"}

\* What Close leaves behind; every other status counts as unclosed.
SettledStatuses == {"done", "cancelled"}

\* Both promoted when an item joins a sprint and evicted when it is reset.
PreSprint == PromotedStatuses \cap ResetStatuses

Absent == {"unborn", "deleted"}

ASSUME BoardAssumption ==
    /\ ItemProject \in [Items -> Projects]
    /\ SprintProject \in [Sprints -> Projects]
    /\ Statuses \subseteq AcceptedStatuses
    /\ "open" \in Statuses
    /\ SprintStatuses \subseteq AcceptedSprintStatuses
    /\ "completed" \in SprintStatuses
    /\ NoTarget \notin Sprints
    /\ CarryTargets \subseteq Sprints \cup {NoTarget}
    /\ Faults \in BOOLEAN

VARIABLES
    status,  \* backlog_items.status, or why the row is absent
    sprint,  \* sprints.status, or why the row is absent
    board,   \* sprint_items: pairs <<sprint, item>>
    req      \* what each in-flight request still has to do

vars == <<status, sprint, board, req>>

Idle == [op |-> "idle"]

Request ==
    {Idle}
    \cup [op : {"promote", "evict"}, item : Items]
    \cup [op : {"carry"}, from : Sprints, to : Sprints, list : SUBSET Items]
    \cup [op : {"complete"}, from : Sprints]

TypeOK ==
    /\ status \in [Items -> Statuses \cup Absent]
    /\ sprint \in [Sprints -> SprintStatuses \cup Absent]
    /\ board \subseteq Sprints \X Items
    /\ req \in [Workers -> Request]

------------------------------------------------------------------------------

LiveItem(i) == status[i] \notin Absent
LiveSprint(s) == sprint[s] \notin Absent

\* The isolation guards of the nested routes: a foreign row looks missing.
ItemInProject(i, p) == LiveItem(i) /\ ItemProject[i] = p
SprintInProject(s, p) == LiveSprint(s) /\ SprintProject[s] = p

OnBoard(i) == \E s \in Sprints : <<s, i>> \in board

Unclosed(s) ==
    {i \in Items : <<s, i>> \in board /\ status[i] \notin SettledStatuses}

\* An insert into sprint_items satisfies both foreign keys.
RowResolves(s, i) == LiveSprint(s) /\ LiveItem(i)

Become(w, r) == req' = [req EXCEPT ![w] = r]

Init ==
    /\ status = [i \in Items |-> "unborn"]
    /\ sprint = [s \in Sprints |-> "unborn"]
    /\ board = {}
    /\ req = [w \in Workers |-> Idle]

------------------------------------------------------------------------------
(* Mutants: what plausible slips in the handlers would do.  Nothing below uses *)
(* them; each is put in the place of the action it is named after to see that  *)
(* a property notices.                                                         *)

\* The reset forgets the DELETE on sprint_items.
UpdateItemNoEvict(w, p, i, st) ==
    /\ req[w] = Idle
    /\ ItemInProject(i, p)
    /\ status' = [status EXCEPT ![i] = st]
    /\ UNCHANGED <<sprint, board, req>>

\* AddItem writes the status it read before the INSERT, without a WHERE on it.
PromoteAlways(w) ==
    /\ req[w].op = "promote"
    /\ LET i == req[w].item IN
       status' = IF LiveItem(i) THEN [status EXCEPT ![i] = "open"] ELSE status
    /\ Become(w, Idle)
    /\ UNCHANGED <<sprint, board>>

\* The handler leaves the status to the column's default, a legacy value.
CreateItemColumnDefault(i, st) ==
    /\ status[i] = "unborn"
    /\ status' = [status EXCEPT ![i] = "backlog"]
    /\ UNCHANGED <<sprint, board, req>>

\* The carry-over inserts without foreign keys on sprint_items.
CloseCarryUnchecked(w) ==
    /\ req[w].op = "carry"
    /\ LET from == req[w].from
           to   == req[w].to
           list == req[w].list
       IN  /\ board' = (board \ ({from} \X list)) \cup ({to} \X list)
           /\ Become(w, [op |-> "complete", from |-> from])
    /\ UNCHANGED <<status, sprint>>

\* The carry-over inserts into the target before it deletes from the source.
CloseCarryInsertFirst(w) ==
    /\ req[w].op = "carry"
    /\ LET from == req[w].from
           to   == req[w].to
           list == req[w].list
       IN  /\ \A i \in list : RowResolves(to, i)
           /\ board' = (board \cup ({to} \X list)) \ ({from} \X list)
           /\ Become(w, [op |-> "complete", from |-> from])
    /\ UNCHANGED <<status, sprint>>

------------------------------------------------------------------------------
(* Backlog items *)

CreateItem(i, st) ==
    /\ status[i] = "unborn"
    /\ status' = [status EXCEPT ![i] = st]
    /\ UNCHANGED <<sprint, board, req>>

\* The UPDATE; a reset status leaves the DELETE on sprint_items to do.
UpdateItem(w, p, i, st) ==
    /\ req[w] = Idle
    /\ ItemInProject(i, p)
    /\ status' = [status EXCEPT ![i] = st]
    /\ IF st \in ResetStatuses
       THEN Become(w, [op |-> "evict", item |-> i])
       ELSE UNCHANGED req
    /\ UNCHANGED <<sprint, board>>

Evict(w) ==
    /\ req[w].op = "evict"
    /\ board' = {row \in board : row[2] # req[w].item}
    /\ Become(w, Idle)
    /\ UNCHANGED <<status, sprint>>

\* ON DELETE CASCADE takes the rows along.
DeleteItem(p, i) ==
    /\ ItemInProject(i, p)
    /\ status' = [status EXCEPT ![i] = "deleted"]
    /\ board' = {row \in board : row[2] # i}
    /\ UNCHANGED <<sprint, req>>

------------------------------------------------------------------------------
(* Sprints *)

CreateSprint(s, st) ==
    /\ sprint[s] = "unborn"
    /\ sprint' = [sprint EXCEPT ![s] = st]
    /\ UNCHANGED <<status, board, req>>

\* PATCH: any accepted status replaces any other.
UpdateSprint(p, s, st) ==
    /\ SprintInProject(s, p)
    /\ sprint' = [sprint EXCEPT ![s] = st]
    /\ UNCHANGED <<status, board, req>>

DeleteSprint(p, s) ==
    /\ SprintInProject(s, p)
    /\ sprint' = [sprint EXCEPT ![s] = "deleted"]
    /\ board' = {row \in board : row[1] # s}
    /\ UNCHANGED <<status, req>>

------------------------------------------------------------------------------
(* Sprint items *)

\* The project checks read columns that never change, and the foreign keys
\* re-check existence, so checks and INSERT are one step.
AddItem(w, p, s, i) ==
    /\ req[w] = Idle
    /\ SprintInProject(s, p)
    /\ ItemInProject(i, p)
    /\ <<s, i>> \notin board
    /\ board' = board \cup {<<s, i>>}
    /\ Become(w, [op |-> "promote", item |-> i])
    /\ UNCHANGED <<status, sprint>>

Promote(w) ==
    /\ req[w].op = "promote"
    /\ LET i == req[w].item IN
       status' = IF status[i] \in PromotedStatuses
                 THEN [status EXCEPT ![i] = "open"]
                 ELSE status
    /\ Become(w, Idle)
    /\ UNCHANGED <<sprint, board>>

RemoveItem(p, s, i) ==
    /\ SprintInProject(s, p)
    /\ <<s, i>> \in board
    /\ board' = board \ {<<s, i>>}
    /\ UNCHANGED <<status, sprint, req>>

------------------------------------------------------------------------------
(* Closing a sprint *)

\* The list is read on the pool, before the transaction starts.  Without a
\* target nothing is carried; the count the caller is told is left out.
CloseRead(w, p, s, t) ==
    /\ req[w] = Idle
    /\ SprintInProject(s, p)
    /\ LET list == Unclosed(s) IN
       Become(w, IF list = {} \/ t = NoTarget
                 THEN [op |-> "complete", from |-> s]
                 ELSE [op |-> "carry", from |-> s, to |-> t, list |-> list])
    /\ UNCHANGED <<status, sprint, board>>

\* DELETE and INSERT ... ON CONFLICT DO NOTHING per listed item, all or nothing.
CloseCarry(w) ==
    /\ req[w].op = "carry"
    /\ LET from == req[w].from
           to   == req[w].to
           list == req[w].list
       IN  /\ \A i \in list : RowResolves(to, i)
           /\ board' = (board \ ({from} \X list)) \cup ({to} \X list)
           /\ Become(w, [op |-> "complete", from |-> from])
    /\ UNCHANGED <<status, sprint>>

\* A foreign key fails: the transaction rolls back and the request ends.
CloseRollback(w) ==
    /\ req[w].op = "carry"
    /\ \E i \in req[w].list : ~RowResolves(req[w].to, i)
    /\ Become(w, Idle)
    /\ UNCHANGED <<status, sprint, board>>

CloseComplete(w) ==
    /\ req[w].op = "complete"
    /\ LET s == req[w].from IN
       sprint' = IF LiveSprint(s)
                 THEN [sprint EXCEPT ![s] = "completed"]
                 ELSE sprint
    /\ Become(w, Idle)
    /\ UNCHANGED <<status, board>>

------------------------------------------------------------------------------

\* A crash, a database error or a client that hangs up (its context cancels
\* the next statement) ends a request after any of its statements.
Abort(w) ==
    /\ Faults
    /\ req[w] # Idle
    /\ Become(w, Idle)
    /\ UNCHANGED <<status, sprint, board>>

Next ==
    \/ \E i \in Items, st \in Statuses : CreateItem(i, st)
    \/ \E w \in Workers, p \in Projects, i \in Items, st \in Statuses : UpdateItem(w, p, i, st)
    \/ \E p \in Projects, i \in Items : DeleteItem(p, i)
    \/ \E s \in Sprints, st \in SprintStatuses : CreateSprint(s, st)
    \/ \E p \in Projects, s \in Sprints, st \in SprintStatuses : UpdateSprint(p, s, st)
    \/ \E p \in Projects, s \in Sprints : DeleteSprint(p, s)
    \/ \E w \in Workers, p \in Projects, s \in Sprints, i \in Items : AddItem(w, p, s, i)
    \/ \E p \in Projects, s \in Sprints, i \in Items : RemoveItem(p, s, i)
    \/ \E w \in Workers, p \in Projects, s \in Sprints, t \in CarryTargets : CloseRead(w, p, s, t)
    \/ \E w \in Workers : Evict(w)
    \/ \E w \in Workers : Promote(w)
    \/ \E w \in Workers : CloseCarry(w)
    \/ \E w \in Workers : CloseRollback(w)
    \/ \E w \in Workers : CloseComplete(w)
    \/ \E w \in Workers : Abort(w)

Spec == Init /\ [][Next]_vars

------------------------------------------------------------------------------
(* Properties that hold *)

\* Every sprint_items row names a live sprint and a live item, although Close
\* inserts rows from a list and a target it read some statements ago.
RowsResolve == \A row \in board : RowResolves(row[1], row[2])

\* A request between its statements will still repair item i.
Pending(i) ==
    \E w \in Workers : req[w].op \in {"promote", "evict"} /\ req[w].item = i

\* A pre-sprint item sits on a board and no request is on its way to promote
\* or to evict it: the kanban shows it in no column.
Stranded(i) == OnBoard(i) /\ status[i] \in PreSprint /\ ~Pending(i)

\* Close commits a listed item that is no longer on the sprint being closed.
StaleCarry(w, i) ==
    /\ CloseCarry(w)
    /\ i \in req[w].list
    /\ <<req[w].from, i>> \notin board

\* However AddItem, UpdateItem, RemoveItem, Close and the deletes interleave,
\* an item becomes stranded only in two ways: its request stopped between two
\* statements, or Close re-inserted it from a list that was out of date.
StrandedOnlyByAbortOrStaleCarry ==
    [][\A i \in Items :
         ~Stranded(i) /\ Stranded(i)' =>
             \E w \in Workers : Abort(w) \/ StaleCarry(w, i)]_vars

\* Carrying items over never drops one from every board, whether the target
\* is another sprint, the sprint itself, or already holds the item.
CarryDropsNothing ==
    [][\A w \in Workers : CloseCarry(w) =>
         \A i \in Items : OnBoard(i) => OnBoard(i)']_vars

\* Joining a sprint never overrides a status the user chose meanwhile: an item
\* that has left the pre-sprint statuses changes status only by a direct edit.
OnlyEditsMoveStartedItems ==
    [][\A i \in Items :
         LiveItem(i) /\ status[i] \notin PreSprint /\ status'[i] # status[i] =>
             \E p \in Projects :
                 \/ DeleteItem(p, i)
                 \/ \E w \in Workers, st \in Statuses : UpdateItem(w, p, i, st)]_vars

------------------------------------------------------------------------------
(* What a comment says of the code, and the code does not do *)

\* "Cross-project isolation: only items from this project may join the sprint."
Isolation == \A row \in board : SprintProject[row[1]] = ItemProject[row[2]]
==============================================================================
