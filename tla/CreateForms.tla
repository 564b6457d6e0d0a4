----------------------------- MODULE CreateForms -----------------------------
(***************************************************************************)
(* The forms and composers that create rows.  A form is opened, filled in   *)
(* and submitted; its POST is answered later, fails, or is carried out      *)
(* without the answer ever arriving.  Each way of filling the form in is a  *)
(* number, so that two rows of one filling can be told from two rows.  The  *)
(* forms are records as the editors of Drafts are.                          *)
(***************************************************************************)
EXTENDS Naturals, FiniteSets

CONSTANTS
    MaxFillings, \* bound: how often something is written into the form
    MaxPosts     \* bound: submissions

ASSUME CreateFormsAssumption == {MaxFillings, MaxPosts} \subseteq Nat

Gestures == {"button", "enter", "blur"}

FormDisciplines ==
    [gestures : SUBSET Gestures,        \* what submits
     waits    : SUBSET Gestures,        \* off while a POST is pending
     lives    : {"page", "panel"},      \* where text and pending POST are remembered
     closes   : {"sending", "answer"},
     cancel   : {"clears", "keeps", "commits"}] \* what a click on Cancel does to the text

\* A panel of its own with a submit button; while the button is off, Enter
\* does not submit the form either.
CreateItemPanel ==
    [gestures |-> {"button", "enter"}, waits |-> {"button", "enter"}, lives |-> "panel",
     closes |-> "answer", cancel |-> "clears"]

CreateTaskForm  == CreateItemPanel
CreateTestForm  == CreateItemPanel
CreateEpicPanel == CreateItemPanel
NodeModal       == CreateItemPanel
SubNodeModal    == CreateItemPanel
CreateUserForm  == CreateItemPanel
CreateTokenModal == CreateItemPanel

\* A dialog without a form element: only its button submits.
CreateSprintModal == [CreateItemPanel EXCEPT !.gestures = {"button"}]

\* Page state: the pending POST is remembered when the form is closed.
AddProjectTeam == [CreateSprintModal EXCEPT !.lives = "page"]
LinkProject    == AddProjectTeam
AddMember      == [AddProjectTeam EXCEPT !.cancel = "keeps"]

\* Enter does not look whether a POST is pending.
CreateTeam    == [CreateItemPanel EXCEPT !.lives = "page", !.waits = {"button"}]
CreateProject == CreateTeam
AddCardForm   == [CreateTeam EXCEPT !.lives = "panel"]
CreateSkill   == [CreateTeam EXCEPT !.cancel = "clears"]

\* The composers under an item: one input that submits when it is left, and
\* leaving it for the Cancel button submits it as well.
ItemComposer ==
    [gestures |-> {"enter", "blur"}, waits |-> {}, lives |-> "page",
     closes |-> "sending", cancel |-> "commits"]
SprintItemComposer == ItemComposer

Forms ==
    {CreateItemPanel, CreateTaskForm, CreateTestForm, CreateEpicPanel, NodeModal,
     SubNodeModal, CreateUserForm, CreateTokenModal, CreateSprintModal, AddProjectTeam,
     LinkProject, AddMember, CreateTeam, CreateProject, AddCardForm, CreateSkill,
     ItemComposer, SprintItemComposer}

-----------------------------------------------------------------------------
VARIABLES
    form,      \* the form in use
    open,      \* is it on the screen?
    text,      \* the filling it holds; 0 is blank
    posts,     \* POSTs in flight
    made,      \* rows the server created from each filling
    counts,    \* fillings and submissions so far
    \* History, read by no action:
    unsure     \* fillings whose POST failed without the user knowing if it was carried out

formVars == <<form, open, text, posts, made, counts, unsure>>

Fillings == 1..MaxFillings

CreateFormsTypeOK ==
    /\ form \in Forms
    /\ open \in BOOLEAN
    /\ text \in 0..MaxFillings
    /\ posts \in SUBSET [id : 1..MaxPosts, text : Fillings, guards : BOOLEAN, served : BOOLEAN]
    /\ made \in [Fillings -> 0..MaxPosts]
    /\ counts \in [fillings : 0..MaxFillings, posts : 0..MaxPosts]
    /\ unsure \in SUBSET Fillings

CreateFormsInit ==
    /\ form \in Forms
    /\ open = FALSE
    /\ text = 0
    /\ posts = {}
    /\ made = [n \in Fillings |-> 0]
    /\ counts = [fillings |-> 0, posts |-> 0]
    /\ unsure = {}

OpenForm ==
    /\ ~open
    /\ open' = TRUE
    /\ UNCHANGED <<form, text, posts, made, counts, unsure>>

\* The inputs stay on while a POST is pending.
FillIn ==
    /\ open
    /\ counts.fillings < MaxFillings
    /\ text' = counts.fillings + 1
    /\ counts' = [counts EXCEPT !.fillings = @ + 1]
    /\ UNCHANGED <<form, open, posts, made, unsure>>

\* A panel that goes takes its text, and what it knew of its POSTs.
Vanish(ps) ==
    IF form.lives = "panel" THEN {[p EXCEPT !.guards = FALSE] : p \in ps} ELSE ps

\* Mutant: no gesture looks whether a POST is pending.
SubmitAnyTime(g) ==
    /\ open
    /\ text # 0
    /\ g \in form.gestures
    /\ counts.posts < MaxPosts
    /\ posts' = posts \cup
                {[id |-> counts.posts + 1, text |-> text, guards |-> TRUE, served |-> FALSE]}
    /\ IF form.closes = "sending" THEN open' = FALSE /\ text' = 0
       ELSE UNCHANGED <<open, text>>
    /\ counts' = [counts EXCEPT !.posts = @ + 1]
    /\ UNCHANGED <<form, made, unsure>>

\* Only the newest POST is remembered as pending.
Submit(g) ==
    /\ open
    /\ text # 0
    /\ g \in form.gestures
    /\ g \in form.waits => \A p \in posts : ~p.guards
    /\ counts.posts < MaxPosts
    /\ posts' = {[p EXCEPT !.guards = FALSE] : p \in posts} \cup
                {[id |-> counts.posts + 1, text |-> text, guards |-> TRUE, served |-> FALSE]}
    /\ IF form.closes = "sending" THEN open' = FALSE /\ text' = 0
       ELSE UNCHANGED <<open, text>>
    /\ counts' = [counts EXCEPT !.posts = @ + 1]
    /\ UNCHANGED <<form, made, unsure>>

\* Cancel, Escape, a click outside.  A composer that holds text is submitted
\* by a click on Cancel; only Escape leaves it without a row.
Cancel ==
    /\ open
    /\ open' = FALSE
    /\ text' = IF form.cancel = "keeps" THEN text ELSE 0
    /\ posts' = Vanish(posts)
    /\ UNCHANGED <<form, made, counts, unsure>>

ServePost(p) ==
    /\ ~p.served
    /\ made' = [made EXCEPT ![p.text] = @ + 1]
    /\ posts' = (posts \ {p}) \cup {[p EXCEPT !.served = TRUE]}
    /\ UNCHANGED <<form, open, text, counts, unsure>>

\* The answer closes the form and empties it, whatever it holds by now and
\* even if it was closed and opened again since.
PostAnswered(p) ==
    /\ p.served
    /\ IF form.closes = "answer"
       THEN open' = FALSE /\ text' = 0 /\ posts' = Vanish(posts \ {p})
       ELSE posts' = posts \ {p} /\ UNCHANGED <<open, text>>
    /\ UNCHANGED <<form, made, counts, unsure>>

\* The request is refused or its answer is lost: the form shows an error, if
\* anything, and keeps the text.
PostFails(p) ==
    /\ posts' = posts \ {p}
    /\ unsure' = IF p.served THEN unsure \cup {p.text} ELSE unsure
    /\ UNCHANGED <<form, open, text, made, counts>>

CreateFormsNext ==
    \/ OpenForm
    \/ FillIn
    \/ \E g \in Gestures : Submit(g)
    \/ Cancel
    \/ \E p \in posts : ServePost(p) \/ PostAnswered(p) \/ PostFails(p)

CreateFormsSpec == CreateFormsInit /\ [][CreateFormsNext]_formVars

-----------------------------------------------------------------------------
\* What was filled in once becomes at most one row, in whatever order the
\* form is submitted, cancelled, opened again and answered, unless a gesture
\* of the form does not wait for the pending POST, or a POST was carried out
\* and its answer lost.
OneRowPerFilling ==
    \A n \in Fillings :
        made[n] > 1 => n \in unsure \/ (form.gestures \ form.waits # {} /\ form.closes = "answer")
=============================================================================
