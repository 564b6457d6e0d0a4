------------------------------ MODULE RowActions -----------------------------
(***************************************************************************)
(* The buttons of the browser application that do one thing to a row and    *)
(* cannot be taken back by typing: delete, archive, restore, revoke, remove *)
(* from a team, deactivate, reset a password.  Some send at the first       *)
(* click, or after the browser's own question, which nothing interrupts;    *)
(* others ask on the page, in up to three steps, one of which may want some *)
(* text.  The page remembers which row it asks for, or asks for whichever   *)
(* row its address names.  Answers close the question or lead elsewhere.    *)
(***************************************************************************)
EXTENDS Naturals

CONSTANTS
    Targets,     \* the rows
    Elsewhere,   \* another page, and no row
    MaxRequests  \* bound: requests sent

ASSUME RowActionsAssumption ==
    /\ Elsewhere \notin Targets
    /\ MaxRequests \in Nat

Buttons ==
    [lists : BOOLEAN,                       \* are all rows on the page, or one?
     steps : 0..3,                          \* questions before the row is acted on
     types : 0..2,                          \* the step that wants text, zero is none
     holds : {"row", "page"},               \* is it remembered which row is asked for?
     waits : {"never", "row", "newest", "newestOfRow", "settled"}, \* see Off
     ends  : {"sending", "answer"},         \* when a question is withdrawn
     leads : {"nowhere", "ifHere", "away"}] \* where an answer leads

deleteSprint ==
    [lists |-> TRUE, steps |-> 0, types |-> 0, holds |-> "row", waits |-> "never",
     ends |-> "sending", leads |-> "nowhere"]

deleteItem      == deleteSprint
deleteEpic      == deleteSprint
deleteMilestone == deleteSprint
deleteTask      == deleteSprint
deleteTest      == deleteSprint
archiveInTree   == deleteSprint
unlinkProject   == deleteSprint
setHidden       == deleteSprint
removeTeam      == [deleteSprint EXCEPT !.waits = "newest"]
initCapacity    == removeTeam
restoreTeam     == removeTeam
restoreProject  == removeTeam
removeMember    == [deleteSprint EXCEPT !.waits = "newestOfRow"]
removeSkill     == removeMember
toggleActive    == [deleteSprint EXCEPT !.waits = "settled"]
revoke          == [deleteSprint EXCEPT !.waits = "row"]
removeCard      == revoke
resolveCard     == revoke

\* The detail pages lead away once the row is gone, if they are still there;
\* that of an item leads away in any case.
deleteTaskPage ==
    [deleteSprint EXCEPT !.lists = FALSE, !.holds = "page", !.waits = "newest",
                         !.leads = "ifHere"]
deleteTestPage == deleteTaskPage
deleteTaskModal == [deleteTaskPage EXCEPT !.holds = "row"]
deleteTestModal == deleteTaskModal
deleteItemPage == [deleteTaskPage EXCEPT !.waits = "never", !.leads = "away"]

\* A skill of the catalogue, asked for in its row; the answer withdraws
\* whichever question is on the page.
deleteSkill ==
    [removeTeam EXCEPT !.steps = 1, !.ends = "answer"]

\* A dialog for the new password of a user.
resetPassword == [deleteSkill EXCEPT !.types = 1]

\* A project, asked for once; the question stays when the address changes.
archiveOnOverview ==
    [removeTeam EXCEPT !.lists = FALSE, !.steps = 1, !.holds = "page"]

\* A team: asked for, its name typed, asked for again.
archiveTeam ==
    [archiveOnOverview EXCEPT !.steps = 3, !.types = 2, !.ends = "answer", !.leads = "away"]

ActionButtons ==
    {deleteSprint, deleteItem, deleteEpic, deleteMilestone, deleteTask, deleteTest, archiveInTree,
     unlinkProject, setHidden, removeTeam, initCapacity, restoreTeam, restoreProject, removeMember,
     removeSkill, toggleActive, revoke, removeCard, resolveCard, deleteTaskPage, deleteTestPage,
     deleteTaskModal, deleteTestModal, deleteItemPage, deleteSkill, resetPassword,
     archiveOnOverview, archiveTeam}

-----------------------------------------------------------------------------
VARIABLES
    button,    \* the button in use
    onPage,    \* the row of the page's address, any row of a list, or Elsewhere
    question,  \* the row asked for, how far the question got, and the row the
               \* text was typed for
    requests,  \* on their way to the server or back
    acted,     \* the rows the server has acted on
    requested, \* requests so far
    \* History, read by no action:
    wandered   \* has the address changed under the page?

actionVars == <<button, onPage, question, requests, acted, requested, wandered>>

NoQuestion == [row |-> Elsewhere, step |-> 0, text |-> Elsewhere]

SomeTarget == Targets \cup {Elsewhere}

RowActionsTypeOK ==
    /\ button \in ActionButtons
    /\ onPage \in SomeTarget
    /\ question \in [row : SomeTarget, step : 0..3, text : SomeTarget]
    /\ requests \subseteq [id : 1..MaxRequests, row : Targets, meant : Targets,
                           text : SomeTarget, here : BOOLEAN, newest : BOOLEAN, served : BOOLEAN]
    /\ acted \subseteq Targets
    /\ requested \in 0..MaxRequests
    /\ wandered \in BOOLEAN

RowActionsInit ==
    /\ button \in ActionButtons
    /\ onPage \in Targets
    /\ question = NoQuestion
    /\ requests = {}
    /\ acted = {}
    /\ requested = 0
    /\ wandered = FALSE

InView(r) == onPage # Elsewhere /\ (button.lists \/ r = onPage)

\* The row whose name the question shows.
RowAskedFor == IF button.holds = "row" THEN question.row ELSE onPage

\* Mutant: the text of a question that was withdrawn is still there.
BeginWithOldText(r) ==
    /\ InView(r)
    /\ button.steps > 0
    /\ question.step = 0 \/ (button.holds = "row" /\ button.types = 0 /\ question.row # r)
    /\ question' = [question EXCEPT !.row = r, !.step = 1]
    /\ UNCHANGED <<button, onPage, requests, acted, requested, wandered>>

\* A question begins without text, even if one was withdrawn before.
Begin(r) ==
    /\ InView(r)
    /\ button.steps > 0
    /\ question.step = 0 \/ (button.holds = "row" /\ button.types = 0 /\ question.row # r)
    /\ question' = [row |-> r, step |-> 1, text |-> Elsewhere]
    /\ UNCHANGED <<button, onPage, requests, acted, requested, wandered>>

\* The user types what the question wants for the row it names.
TypeAnswer ==
    /\ onPage # Elsewhere
    /\ question.step > 0 /\ question.step = button.types
    /\ question' = [question EXCEPT !.text = RowAskedFor]
    /\ UNCHANGED <<button, onPage, requests, acted, requested, wandered>>

\* From one step to the next: past the step for the team's name only with
\* the name of the team on the page.
Continue ==
    /\ onPage # Elsewhere
    /\ question.step \in 1..(button.steps - 1)
    /\ question.step = button.types => question.text = onPage
    /\ question' = [question EXCEPT !.step = @ + 1,
                       !.text = IF question.step + 1 = button.types THEN Elsewhere ELSE @]
    /\ UNCHANGED <<button, onPage, requests, acted, requested, wandered>>

\* Cancel, Escape, a click outside: the text stays behind.
Withdraw ==
    /\ question.step > 0
    /\ question' = [question EXCEPT !.row = Elsewhere, !.step = 0]
    /\ UNCHANGED <<button, onPage, requests, acted, requested, wandered>>

\* A button is off while a request is pending: of its row's own, the newest of
\* the page, or the newest of the page if it is for this row.
Off(r) ==
    \E q \in requests :
        /\ button.waits # "never" /\ q.here
        /\ button.waits # "row" => q.newest
        /\ button.waits # "newest" => q.row = r

\* The last click.  A button without questions is one on the row itself.
ActOn(r) ==
    /\ InView(r)
    /\ question.step = button.steps
    /\ button.steps > 0 => r = RowAskedFor
    /\ button.types = button.steps => question.text # Elsewhere \/ button.types = 0
    /\ ~Off(r)
    /\ requested < MaxRequests
    /\ requests' = {[q EXCEPT !.newest = FALSE] : q \in requests} \cup
                   {[id |-> requested + 1, row |-> r, newest |-> TRUE, here |-> TRUE,
                     meant |-> IF button.steps > 0 THEN question.row ELSE r,
                     text |-> question.text, served |-> FALSE]}
    /\ requested' = requested + 1
    /\ question' = IF button.ends = "sending" THEN NoQuestion ELSE question
    /\ UNCHANGED <<button, onPage, acted, wandered>>

\* Acting twice on a row changes nothing more.
ServeAction(q) ==
    /\ ~q.served
    /\ acted' = acted \cup {q.row}
    /\ requests' = (requests \ {q}) \cup {[q EXCEPT !.served = TRUE]}
    /\ UNCHANGED <<button, onPage, question, requested, wandered>>

\* What a page that is left knew of its requests is forgotten with it.
Forget(qs) == {[q EXCEPT !.here = FALSE] : q \in qs}

\* The end of any request turns the buttons of all users on again.
Without(q) ==
    IF button.waits = "settled" THEN {[o EXCEPT !.newest = FALSE] : o \in requests \ {q}}
    ELSE requests \ {q}

ActionAnswered(q) ==
    /\ q.served
    /\ LET leads == button.leads = "away" \/ (button.leads = "ifHere" /\ q.here)
       IN  /\ onPage' = IF leads THEN Elsewhere ELSE onPage
           /\ requests' = IF leads THEN Forget(requests \ {q}) ELSE Without(q)
           /\ question' = IF leads \/ button.ends = "answer" THEN NoQuestion ELSE question
    /\ UNCHANGED <<button, acted, requested, wandered>>

\* The question stays, with an error or without.
ActionFails(q) ==
    /\ requests' = Without(q)
    /\ UNCHANGED <<button, onPage, question, acted, requested, wandered>>

\* The page stays and its address names another row.
Wander(r) ==
    /\ ~button.lists
    /\ onPage \notin {Elsewhere, r}
    /\ onPage' = r
    /\ wandered' = TRUE
    /\ UNCHANGED <<button, question, requests, acted, requested>>

LeaveRow ==
    /\ onPage # Elsewhere
    /\ onPage' = Elsewhere
    /\ question' = NoQuestion
    /\ requests' = Forget(requests)
    /\ UNCHANGED <<button, acted, requested, wandered>>

VisitRow(r) ==
    /\ onPage = Elsewhere
    /\ onPage' = r
    /\ UNCHANGED <<button, question, requests, acted, requested, wandered>>

RowActionsNext ==
    \/ \E r \in Targets : Begin(r) \/ ActOn(r) \/ Wander(r) \/ VisitRow(r)
    \/ TypeAnswer \/ Continue \/ Withdraw \/ LeaveRow
    \/ \E q \in requests : ServeAction(q) \/ ActionAnswered(q) \/ ActionFails(q)

RowActionsSpec == RowActionsInit /\ [][RowActionsNext]_actionVars

-----------------------------------------------------------------------------
\* A request acts on the row the user was asked about, with the text typed
\* for that row: a question withdrawn, left, answered late or begun for
\* another row lends neither its row nor its text to the next.  The exception
\* are questions of a page whose address came to name another row.
ActsOnWhatWasMeant ==
    \A q \in requests :
        \/ q.row = q.meant /\ q.text \in {Elsewhere, q.row}
        \/ button.holds = "page" /\ wandered
=============================================================================
