----------------------------- MODULE SprintPages -----------------------------
(***************************************************************************)
(* The ways in which the pages of the browser application put a backlog     *)
(* item into a sprint, seen for one item: the sprint picker of the item and *)
(* of its backlog row, the picker under a sprint's board, the board's       *)
(* columns and the dialog that closes a sprint.  A change of sprint is two   *)
(* requests, sent by the browser one after the other, and is decided on     *)
(* what the page shows.  What one request does at the server is taken from  *)
(* SprintBoard, each in one step.                                           *)
(***************************************************************************)
EXTENDS Naturals, FiniteSets

CONSTANTS
    Sprints,    \* the project's sprints
    NoSprint,   \* not in any
    MaxGestures \* bound: picks, drops, clicks and changes made elsewhere

ASSUME SprintPagesAssumption ==
    /\ NoSprint \notin Sprints
    /\ MaxGestures \in Nat

\* The columns of the board, and what comes before them; the first column
\* shows whatever is in none of the others.
BOARD_COLUMNS == <<"open", "in_progress", "in_review", "done">>
ACTIVE_COLS   == {"in_progress", "in_review", "done"}
ItemStatuses  == {"planned", "open"} \cup ACTIVE_COLS

byStatus(st) == IF st \in ACTIVE_COLS THEN st ELSE "open"

VARIABLES
    members,     \* the sprints the item is in, at the server
    itemStatus,  \* its status there
    sprintStatus, \* active or completed
    shownSprint, \* the sprint the page shows it in
    shownStatus, \* the status the board shows
    asked,       \* changes of sprint under way: from, to, and what is sent next
    dropped,     \* statuses sent by the board
    closeModal,  \* the sprint to be closed, and the target chosen
    closings,    \* requests to close one; here: the dialog that sent it is open
    gesturesMade,
    \* History, read by no action:
    wanted,      \* the sprint picked last
    disturbed    \* something else wrote the item's sprint, or the page showed an old one

sprintVars == <<members, itemStatus, sprintStatus, shownSprint, shownStatus, asked, dropped,
                closeModal, closings, gesturesMade, wanted, disturbed>>

SomeSprint == Sprints \cup {NoSprint}

SprintPagesTypeOK ==
    /\ members \subseteq Sprints
    /\ {itemStatus, shownStatus} \subseteq ItemStatuses
    /\ sprintStatus \in [Sprints -> {"active", "completed"}]
    /\ {shownSprint, wanted} \subseteq SomeSprint
    /\ asked \subseteq [id : 1..MaxGestures, from : SomeSprint, to : SomeSprint,
                        next : {"remove", "add", "answer"}]
    /\ dropped \subseteq [id : 1..MaxGestures, to : ItemStatuses]
    /\ closeModal \in [of : SomeSprint, to : SomeSprint]
    /\ closings \subseteq [of : Sprints, to : SomeSprint, here : BOOLEAN]
    /\ gesturesMade \in 0..MaxGestures
    /\ disturbed \in BOOLEAN

NoModal == [of |-> NoSprint, to |-> NoSprint]

SprintPagesInit ==
    /\ shownSprint \in SomeSprint
    /\ members = {shownSprint} \cap Sprints
    /\ wanted = shownSprint
    /\ itemStatus \in ItemStatuses /\ shownStatus = itemStatus
    /\ sprintStatus = [s \in Sprints |-> "active"]
    /\ asked = {} /\ dropped = {}
    /\ closeModal = NoModal /\ closings = {}
    /\ gesturesMade = 0
    /\ disturbed = FALSE

Gesture == gesturesMade < MaxGestures /\ gesturesMade' = gesturesMade + 1

\* The page shows the item where it is, in no other sprint, undisturbed.
UpToDate == members = {shownSprint} \cap Sprints

-----------------------------------------------------------------------------
(* Changes of sprint.                                                       *)

\* Mutant: the old sprint is not left.
AddFirst(from) == "add"

\* What is sent first when the item is to go from one sprint to another.
FirstOf(from) == IF from = NoSprint THEN "add" ELSE "remove"

\* A sprint is picked, among those that are not completed.  Nothing keeps the
\* user from picking again before the first pick is through.
handlePick(s) ==
    /\ Gesture
    /\ s # shownSprint
    /\ s \in Sprints => sprintStatus[s] = "active"
    /\ asked' = asked \cup {[id |-> gesturesMade + 1, from |-> shownSprint, to |-> s,
                             next |-> FirstOf(shownSprint)]}
    /\ wanted' = s
    /\ disturbed' = (disturbed \/ asked # {} \/ ~UpToDate)
    /\ UNCHANGED <<members, itemStatus, sprintStatus, shownSprint, shownStatus, dropped,
                   closeModal, closings>>

\* The picker under the board of s offers what the board does not show.
handleAdd(s) ==
    /\ Gesture
    /\ shownSprint # s
    /\ shownStatus # "done"
    /\ asked' = asked \cup {[id |-> gesturesMade + 1, from |-> NoSprint, to |-> s, next |-> "add"]}
    /\ wanted' = s
    /\ disturbed' = (disturbed \/ asked # {} \/ ~UpToDate \/ shownSprint # NoSprint)
    /\ UNCHANGED <<members, itemStatus, sprintStatus, shownSprint, shownStatus, dropped,
                   closeModal, closings>>

Then(a, step) == asked' = (asked \ {a}) \cup {[a EXCEPT !.next = step]}

\* The server takes the item off the sprint; if it is not there the request
\* is refused and the rest is not sent.
TakeOff(a) ==
    /\ a.next = "remove"
    /\ a.from \in members
    /\ members' = members \ {a.from}
    /\ Then(a, IF a.to = NoSprint THEN "answer" ELSE "add")
    /\ UNCHANGED <<itemStatus, disturbed>>

\* An item that was only planned becomes open with its first sprint.
ThenAdd(a) ==
    /\ a.next = "add"
    /\ a.to \notin members
    /\ members' = members \cup {a.to}
    /\ itemStatus' = IF itemStatus = "planned" THEN "open" ELSE itemStatus
    /\ Then(a, "answer")
    /\ UNCHANGED disturbed

\* Refused, or failed on the way: what was done stays done.
AskStops(a) ==
    /\ a.next # "answer"
    /\ asked' = asked \ {a}
    /\ disturbed' = TRUE
    /\ UNCHANGED <<members, itemStatus>>

AskStep ==
    /\ \E a \in asked : TakeOff(a) \/ ThenAdd(a) \/ AskStops(a)
    /\ UNCHANGED <<sprintStatus, shownSprint, shownStatus, dropped, closeModal, closings, gesturesMade,
                   wanted>>

\* The last answer, and only that, makes the page read the item again.
AskAnswered(a) ==
    /\ a.next = "answer"
    /\ asked' = asked \ {a}
    /\ shownSprint' \in IF members = {} THEN {NoSprint} ELSE members
    /\ shownStatus' = itemStatus
    /\ UNCHANGED <<members, itemStatus, sprintStatus, dropped, closeModal, closings, gesturesMade, wanted,
                   disturbed>>

\* The page reads the item again for another reason.
ReadItem ==
    /\ shownSprint' \in IF members = {} THEN {NoSprint} ELSE members
    /\ shownStatus' = itemStatus
    /\ <<shownSprint, shownStatus>>' # <<shownSprint, shownStatus>>
    /\ UNCHANGED <<members, itemStatus, sprintStatus, asked, dropped, closeModal, closings, gesturesMade,
                   wanted, disturbed>>

-----------------------------------------------------------------------------
(* The board.                                                               *)

\* A card dropped on the column that shows it stays as it is.
handleDragEnd(col) ==
    /\ Gesture
    /\ shownSprint # NoSprint
    /\ byStatus(shownStatus) # col
    /\ dropped' = dropped \cup {[id |-> gesturesMade + 1, to |-> col]}
    /\ UNCHANGED <<members, itemStatus, sprintStatus, shownSprint, shownStatus, asked,
                   closeModal, closings, wanted, disturbed>>

\* Served, or refused.
DropServed(d) ==
    /\ dropped' = dropped \ {d}
    /\ itemStatus' \in {d.to, itemStatus}
    /\ UNCHANGED <<members, sprintStatus, shownSprint, shownStatus, asked, closeModal, closings,
                   gesturesMade, wanted, disturbed>>

\* Somebody sets the item back to planned, which takes it off its sprints.
SetBack ==
    /\ Gesture
    /\ itemStatus' = "planned"
    /\ members' = {}
    /\ disturbed' = TRUE
    /\ UNCHANGED <<sprintStatus, shownSprint, shownStatus, asked, dropped, closeModal, closings, wanted>>

-----------------------------------------------------------------------------
(* The dialog that closes a sprint.                                         *)

\* Offered for an active sprint; targets are the others that are not closed.
openCloseModal(s, t) ==
    /\ Gesture
    /\ closeModal = NoModal
    /\ sprintStatus[s] = "active"
    /\ t # s
    /\ t \in Sprints => sprintStatus[t] = "active"
    /\ closeModal' = [of |-> s, to |-> t]
    /\ UNCHANGED <<members, itemStatus, sprintStatus, shownSprint, shownStatus, asked, dropped,
                   closings, wanted, disturbed>>

\* The dialog goes, and with it what it knew of its request.
Forgotten(cs) == {[c EXCEPT !.here = FALSE] : c \in cs}

\* Cancel, Escape and a click outside work while the request is under way, too.
cancelClose ==
    /\ closeModal # NoModal
    /\ closeModal' = NoModal
    /\ closings' = Forgotten(closings)
    /\ UNCHANGED <<members, itemStatus, sprintStatus, shownSprint, shownStatus, asked, dropped,
                   gesturesMade, wanted, disturbed>>

handleClose ==
    /\ closeModal # NoModal
    /\ \A c \in closings : ~c.here
    /\ closings' = closings \cup {[of |-> closeModal.of, to |-> closeModal.to, here |-> TRUE]}
    /\ UNCHANGED <<members, itemStatus, sprintStatus, shownSprint, shownStatus, asked, dropped,
                   closeModal, gesturesMade, wanted, disturbed>>

\* The server carries the item over if it is not done, whatever the sprint's
\* status is by now; the dialog closes if it is still open.
CloseServed(c) ==
    /\ LET carried == c.of \in members /\ c.to # NoSprint /\ itemStatus # "done"
       IN  /\ members' = IF carried THEN (members \ {c.of}) \cup {c.to} ELSE members
           /\ disturbed' = (disturbed \/ carried)
    /\ sprintStatus' = [sprintStatus EXCEPT ![c.of] = "completed"]
    /\ closings' = closings \ {c}
    /\ closeModal' = IF c.here THEN NoModal ELSE closeModal
    /\ UNCHANGED <<itemStatus, shownSprint, shownStatus, asked, dropped, gesturesMade, wanted>>

\* Refused or failed: the dialog, if open, shows an error.
CloseFails(c) ==
    /\ closings' = closings \ {c}
    /\ UNCHANGED <<members, itemStatus, sprintStatus, shownSprint, shownStatus, asked, dropped,
                   closeModal, gesturesMade, wanted, disturbed>>

SprintPagesNext ==
    \/ \E s \in SomeSprint : handlePick(s)
    \/ \E s \in Sprints : handleAdd(s)
    \/ AskStep
    \/ \E a \in asked : AskAnswered(a)
    \/ ReadItem
    \/ \E i \in 1..4 : handleDragEnd(BOARD_COLUMNS[i])
    \/ \E d \in dropped : DropServed(d)
    \/ SetBack
    \/ \E s \in Sprints, t \in SomeSprint : openCloseModal(s, t)
    \/ cancelClose \/ handleClose
    \/ \E c \in closings : CloseServed(c) \/ CloseFails(c)

SprintPagesSpec == SprintPagesInit /\ [][SprintPagesNext]_sprintVars

-----------------------------------------------------------------------------
\* With no change of sprint under way the item is in the sprint picked last
\* and in no other: the two requests of a pick leave neither none nor two.
\* The exceptions are picks that overlapped, that were made on a page showing
\* an old sprint, or stopped half way, the picker under the board, which adds
\* without removing, and an item that was set back or carried over.
PickMovesWhole ==
    asked = {} /\ ~disturbed => members = {wanted} \cap Sprints
=============================================================================
