------------------------------- MODULE Drafts --------------------------------
(***************************************************************************)
(* The editors of the browser application, which let a user change rows the *)
(* server holds.  An editor copies a row into a draft, sends the draft or   *)
(* what differs in it as a PATCH, and closes.  The page shows the rows as   *)
(* the query cache last saw them.  Meanwhile other users write the same     *)
(* rows, requests overtake each other, and the user opens the next row.     *)
(*                                                                          *)
(* What distinguishes one editor from the next is its discipline: when the  *)
(* draft is filled, whether it follows the row it is saved to, what is      *)
(* sent, which gestures send it and when the editor closes.  Each editor of *)
(* the pages is one such record below; editors with equal records behave    *)
(* alike.                                                                   *)
(***************************************************************************)
EXTENDS Naturals, FiniteSets

CONSTANTS
    Rows,       \* the rows one page lets the user edit
    NoRow,      \* no editor is open
    MaxDraftWrites   \* bound: what the user types, others write and the editor saves

ASSUME DraftsAssumption ==
    /\ Rows # {}
    /\ NoRow \notin Rows
    /\ MaxDraftWrites \in Nat

\* A name may not be blank; a note may be emptied.
Fields == {"name", "note"}

\* A value: the row it was written for, and whether it was there before, is
\* what the user or somebody else entered, or is empty.
Values == Rows \X {"before", "user", "other", "blank"}

Unset == <<>>
IsBlank(v) == v # Unset /\ v[2] = "blank"

-----------------------------------------------------------------------------
(* The disciplines.                                                         *)

Disciplines ==
    [covers    : SUBSET Fields,                       \* edited together
     filled    : {"opening", "mounting", "typing"},   \* when the draft is set
     follows   : {"bound", "reseeds", "stays"},       \* when another row is asked for
     sends     : {"changed", "draft"},                \* what differs from the cache, or all
     refuses   : SUBSET Fields,                       \* blank: no save
     leavesOut : SUBSET Fields,                       \* blank: not in the request
     asksAnyway : {"never", "emptied", "always"},     \* with nothing in the request
     gestures  : SUBSET {"button", "enter", "blur", "choose"},
     waits     : SUBSET {"button", "enter", "blur", "choose"}, \* off while a save is pending
     guard     : {"page", "panel"},                   \* what remembers that one is pending
     closes    : {"sending", "answer", "either"}]     \* at once, on success, on any end

\* One text that turns into an input; leaving the input saves it.
InlineTitle ==
    [covers |-> {"name"}, filled |-> "opening", follows |-> "bound", sends |-> "changed",
     refuses |-> {}, leavesOut |-> {"name"}, asksAnyway |-> "never",
     gestures |-> {"enter", "blur"}, waits |-> {}, guard |-> "page", closes |-> "sending"]

DraggableTaskRow == InlineTitle
DraggableTestRow == InlineTitle
SprintTaskRow    == InlineTitle
SprintTestRow    == InlineTitle
TaskModalTitle   == InlineTitle
TestModalTitle   == InlineTitle

\* The detail pages keep their drafts when the address names another row.
TaskPageTitle == [InlineTitle EXCEPT !.follows = "stays"]
TestPageTitle == [InlineTitle EXCEPT !.follows = "stays"]

\* A description saved on leaving it, changed or not; emptied, it is left out
\* of a request that changes nothing.
TaskModalDescription ==
    [InlineTitle EXCEPT !.covers = {"note"}, !.sends = "draft", !.leavesOut = {"note"},
                        !.asksAnyway = "always", !.gestures = {"blur"}]
TaskPageDescription == [TaskModalDescription EXCEPT !.follows = "stays"]

\* The text areas of a test: those of the dialog save on leaving, those of
\* the page with a button; both send the draft, emptied or not.
TestModalField == [TaskModalDescription EXCEPT !.leavesOut = {}]
TestPageField  == [TestModalField EXCEPT !.gestures = {"button"}, !.follows = "stays"]

\* Description and acceptance criteria of an item.
ItemDescription == TestPageField
ItemCriteria    == [ItemDescription EXCEPT !.covers = Fields]

\* The description on a project's overview: saved on leaving it if it differs.
ProjectDescription ==
    [TaskPageDescription EXCEPT !.sends = "changed", !.asksAnyway = "emptied"]

\* The backlog's edit row: page state, one row at a time, closed by the end
\* of any save.  Enter does not look whether a save is pending.
BacklogItemEditRow ==
    [covers |-> Fields, filled |-> "opening", follows |-> "reseeds", sends |-> "changed",
     refuses |-> {}, leavesOut |-> {"name"}, asksAnyway |-> "never",
     gestures |-> {"button", "enter"}, waits |-> {"button"}, guard |-> "page",
     closes |-> "either"]

\* The epic form: mounted once without a key, and handed whichever epic was
\* clicked last.  It asks for a change even if there is none.
EpicEditPanel ==
    [covers |-> Fields, filled |-> "opening", follows |-> "stays", sends |-> "changed",
     refuses |-> {"name"}, leavesOut |-> {"note"}, asksAnyway |-> "always",
     gestures |-> {"button"}, waits |-> {"button"}, guard |-> "panel", closes |-> "answer"]

\* A milestone's form sits in its own table row.
MilestoneForm == [EpicEditPanel EXCEPT !.follows = "reseeds"]

\* A skill's form in the catalogue sends the name and the category it has.
SkillForm ==
    [MilestoneForm EXCEPT !.sends = "draft", !.leavesOut = {}, !.guard = "page",
                          !.gestures = {"button", "enter"}]

\* Level, interest and note of one skill of a user.
SkillEditor == [MilestoneForm EXCEPT !.sends = "draft", !.leavesOut = {}]

\* Name and description of a team, display name and address of a user: page
\* state that outlives a change of the address.
TeamForm    == [SkillEditor EXCEPT !.follows = "stays", !.guard = "page"]
ProfileInfo == [TeamForm EXCEPT !.sends = "changed", !.refuses = {},
                                !.leavesOut = Fields, !.asksAnyway = "never"]

\* A project in the tree: name, dates and status together.
ProjectTreeNode == [SkillEditor EXCEPT !.follows = "bound", !.guard = "page"]
SubProjectNode  == ProjectTreeNode

\* A retrospective card fills its draft when it first appears and after a
\* Cancel, not when Edit is clicked.
RetroCard ==
    [ProjectTreeNode EXCEPT !.covers = {"name"}, !.filled = "mounting"]

\* Actual hours: what was typed stays in front of the row for good.
CapacityTable ==
    [InlineTitle EXCEPT !.filled = "typing", !.leavesOut = {}, !.gestures = {"blur"}]

\* Menus and pickers: one choice is one request.
Menu ==
    [InlineTitle EXCEPT !.leavesOut = {}, !.gestures = {"choose"}]

StatusPill         == Menu
StagePicker        == Menu
EpicPicker         == Menu
AssigneePicker     == Menu
ClarityPicker      == Menu
ClarityDropdown    == Menu
TaskStatusCycle    == Menu
SprintStatusSelect == Menu
TaskFieldSelects   == Menu

\* The dates of a project and the role of a team are off until the answer.
ScheduleDates      == [Menu EXCEPT !.waits = {"choose"}]
TeamCategorySelect == ScheduleDates

Editors ==
    {DraggableTaskRow, DraggableTestRow, SprintTaskRow, SprintTestRow, TaskModalTitle,
     TestModalTitle, TaskPageTitle, TestPageTitle, TaskModalDescription,
     TaskPageDescription, TestModalField, TestPageField, ItemDescription, ItemCriteria,
     ProjectDescription, BacklogItemEditRow, EpicEditPanel, MilestoneForm, SkillForm,
     SkillEditor, TeamForm, ProfileInfo, ProjectTreeNode, SubProjectNode, RetroCard,
     CapacityTable, StatusPill, StagePicker, EpicPicker, AssigneePicker, ClarityPicker,
     ClarityDropdown, TaskStatusCycle, SprintStatusSelect, TaskFieldSelects,
     ScheduleDates, TeamCategorySelect}

-----------------------------------------------------------------------------
VARIABLES
    editor,   \* the editor in use
    row,      \* the rows at the server
    shown,    \* the rows in the query cache
    target,   \* the row a save would go to, or NoRow
    instance, \* the row whose draft is on the screen
    drafts,   \* the draft of each row's instance
    saves,    \* requests on their way to the server or back
    writes,   \* how often the user typed, others wrote and the editor saved
    \* History, read by no action:
    typed,    \* fields the user touched since the editor was opened
    seen      \* what the cache showed when each draft was filled

screenVars == <<target, instance, drafts, typed, seen>>
draftsVars == <<editor, row, shown, saves, writes, screenVars>>

Rowful(V) == [Rows -> [Fields -> V]]

Saves ==
    [id : 1..MaxDraftWrites, row : Rows, patch : UNION {[S -> Values] : S \in SUBSET Fields},
     guards : BOOLEAN, served : BOOLEAN]

DraftsTypeOK ==
    /\ editor \in Editors
    /\ row \in Rowful(Values)
    /\ shown \in Rowful(Values)
    /\ target \in Rows \cup {NoRow}
    /\ instance \in Rows
    /\ drafts \in Rowful(Values \cup {Unset})
    /\ saves \in SUBSET Saves
    /\ writes \in 0..MaxDraftWrites
    /\ typed \in SUBSET Fields
    /\ seen \in Rowful(Values)

Before == [r \in Rows |-> [f \in Fields |-> <<r, "before">>]]
NoDrafts == [r \in Rows |-> [f \in Fields |-> Unset]]

DraftsInit ==
    /\ editor \in Editors
    /\ row = Before
    /\ shown = Before
    /\ target = NoRow
    /\ instance = CHOOSE r \in Rows : TRUE
    /\ drafts = IF editor.filled = "mounting" THEN Before ELSE NoDrafts
    /\ saves = {}
    /\ writes = 0
    /\ typed = {}
    /\ seen = Before

Opened == target # NoRow
Draft == drafts[instance]

Fill(r) ==
    /\ drafts' = [drafts EXCEPT ![r] = [f \in Fields |->
                     IF f \in editor.covers THEN shown[r][f] ELSE Unset]]
    /\ seen' = [seen EXCEPT ![r] = shown[r]]

\* Mutant: the editor is handed the next row without its draft being filled anew.
OpenEditorKeepsDraft(r) ==
    /\ "choose" \notin editor.gestures
    /\ ~Opened \/ (editor.follows = "reseeds" /\ target # r)
    /\ target' = r
    /\ typed' = {}
    /\ IF Opened THEN UNCHANGED <<instance, drafts, seen>>
       ELSE instance' = r /\ IF editor.filled = "opening" THEN Fill(r) ELSE UNCHANGED <<drafts, seen>>
    /\ UNCHANGED <<editor, row, shown, saves, writes>>

\* A row's editor is opened: from rest, or in place of another row's.
OpenEditor(r) ==
    /\ "choose" \notin editor.gestures
    /\ ~Opened \/ (editor.follows = "reseeds" /\ target # r)
    /\ target' = r
    /\ instance' = r
    /\ typed' = {}
    /\ IF editor.filled = "opening" THEN Fill(r) ELSE UNCHANGED <<drafts, seen>>
    /\ UNCHANGED <<editor, row, shown, saves, writes>>

\* The open editor is handed another row and keeps its draft.
Retarget(r) ==
    /\ editor.follows = "stays"
    /\ Opened
    /\ target' = r
    /\ UNCHANGED <<editor, row, shown, instance, drafts, saves, writes, typed, seen>>

\* The user writes into a field, or empties it.
Type(f, kind) ==
    /\ Opened
    /\ f \in editor.covers
    /\ writes < MaxDraftWrites
    /\ drafts' = [drafts EXCEPT ![instance][f] = <<target, kind>>]
    /\ seen' = IF editor.filled = "typing"
                   THEN [seen EXCEPT ![instance][f] = shown[instance][f]] ELSE seen
    /\ typed' = typed \cup {f}
    /\ writes' = writes + 1
    /\ UNCHANGED <<editor, row, shown, target, instance, saves>>

\* Mutant: fields are sent whether they differ from the row or not.
PatchOfEverything(d, r) ==
    LET sent == {f \in editor.covers : d[f] # Unset /\ ~(IsBlank(d[f]) /\ f \in editor.leavesOut)}
    IN  [f \in sent |-> d[f]]

\* What a save of the draft asks for.
Patch(d, r) ==
    LET sent == {f \in editor.covers :
                    /\ d[f] # Unset
                    /\ ~(IsBlank(d[f]) /\ f \in editor.leavesOut)
                    /\ editor.sends = "draft" \/ d[f] # shown[r][f]}
    IN  [f \in sent |-> d[f]]

\* Is there a request to make?  Some editors make one that changes nothing,
\* always or when its text was emptied.
SendsPatch(d, r) ==
    \/ DOMAIN Patch(d, r) # {}
    \/ editor.asksAnyway = "always"
    \/ /\ editor.asksAnyway = "emptied"
       /\ \E f \in editor.covers : d[f] # Unset /\ d[f] # shown[r][f]

\* Mutant: a save is pending until the server has it, not until it is answered.
PendingUntilServed(r) ==
    \E s \in saves : ~s.served /\ s.guards /\ (editor.follows = "bound" => s.row = r)

\* A save in flight that this editor knows of.
Pending(r) == \E s \in saves : s.guards /\ (editor.follows = "bound" => s.row = r)

\* One more request: only the newest is remembered as pending, in each row or
\* in the page.
Ask(r, patch) ==
    {[s EXCEPT !.guards = @ /\ editor.follows = "bound" /\ s.row # r] : s \in saves} \cup
    {[id |-> writes + 1, row |-> r, patch |-> patch, guards |-> TRUE, served |-> FALSE]}

\* The editor closes, with these saves in flight.  A panel is unmounted, and
\* with it what it knew of them.
Close(ss) ==
    /\ target' = NoRow
    /\ saves' = IF editor.guard = "panel" THEN {[s EXCEPT !.guards = FALSE] : s \in ss}
                ELSE ss
    /\ typed' = {}
    /\ UNCHANGED instance

\* A draft that is filled at every opening is gone with the editor.
Discard ==
    IF editor.filled = "opening"
    THEN drafts' = NoDrafts /\ seen' = Before
    ELSE UNCHANGED <<drafts, seen>>

\* Save, Enter or leaving the input.  With nothing to ask for it closes.
Commit(g) ==
    /\ Opened
    /\ g \in editor.gestures \ {"choose"}
    /\ g \in editor.waits => ~Pending(target)
    /\ \A f \in editor.refuses \cap editor.covers : ~IsBlank(Draft[f])
    /\ LET asked == Ask(target, Patch(Draft, target))
       IN  \/ /\ ~SendsPatch(Draft, target)
              /\ Close(saves) /\ Discard
              /\ UNCHANGED writes
           \/ /\ SendsPatch(Draft, target)
              /\ writes < MaxDraftWrites
              /\ IF editor.closes = "sending" THEN Close(asked) /\ Discard
                 ELSE saves' = asked /\ UNCHANGED screenVars
              /\ writes' = writes + 1
    /\ UNCHANGED <<editor, row, shown>>

\* Escape, Cancel or a click outside.  A retrospective card is filled anew;
\* typed hours have no way back.
Dismiss ==
    /\ Opened
    /\ editor.filled # "typing"
    /\ Close(saves)
    /\ IF editor.filled = "mounting" THEN Fill(instance) ELSE Discard
    /\ UNCHANGED <<editor, row, shown, writes>>

\* A menu, a picker, a date: the value picked is sent at once.
Choose(r, f) ==
    /\ "choose" \in editor.gestures
    /\ f \in editor.covers
    /\ writes < MaxDraftWrites
    /\ "choose" \in editor.waits => ~Pending(r)
    /\ saves' = Ask(r, [x \in {f} |-> <<r, "user">>])
    /\ writes' = writes + 1
    /\ UNCHANGED <<editor, row, shown, screenVars>>

\* The server takes the requests in any order.
Serve(s) ==
    /\ ~s.served
    /\ row' = [row EXCEPT ![s.row] = [f \in Fields |->
                  IF f \in DOMAIN s.patch THEN s.patch[f] ELSE @[f]]]
    /\ saves' = (saves \ {s}) \cup {[s EXCEPT !.served = TRUE]}
    /\ UNCHANGED <<editor, shown, writes, screenVars>>

\* The answer arrives, or the request fails.  It closes the editor: its own
\* if each row has one, whichever is open if the page has one for all.
Answer(s) ==
    /\ LET ends == editor.closes = "either" \/ (editor.closes = "answer" /\ s.served)
           hits == Opened /\ (editor.follows = "bound" => target = s.row)
       IN  IF ends /\ hits
           THEN Close(saves \ {s}) /\ Discard
           ELSE saves' = saves \ {s} /\ UNCHANGED screenVars
    /\ UNCHANGED <<editor, row, shown, writes>>

\* The query cache reads the row again.
Refetch(r) ==
    /\ shown[r] # row[r]
    /\ shown' = [shown EXCEPT ![r] = row[r]]
    /\ UNCHANGED <<editor, row, saves, writes, screenVars>>

\* Another user, another tab or an agent writes the row.
OthersWrite(r, f) ==
    /\ f \in editor.covers
    /\ writes < MaxDraftWrites
    /\ row' = [row EXCEPT ![r][f] = <<r, "other">>]
    /\ writes' = writes + 1
    /\ UNCHANGED <<editor, shown, saves, screenVars>>

DraftsNext ==
    \/ \E r \in Rows : OpenEditor(r) \/ Retarget(r) \/ Refetch(r)
    \/ \E f \in Fields, kind \in {"user", "blank"} : Type(f, kind)
    \/ \E g \in {"button", "enter", "blur"} : Commit(g)
    \/ \E r \in Rows, f \in Fields : Choose(r, f) \/ OthersWrite(r, f)
    \/ \E s \in saves : Serve(s) \/ Answer(s)
    \/ Dismiss

DraftsSpec == DraftsInit /\ [][DraftsNext]_draftsVars

-----------------------------------------------------------------------------
(* Properties.                                                              *)

\* What was read from one row or typed for it is never saved into another
\* row, whichever rows are opened, saved and refetched in between, unless the
\* editor is one that stays open while its row changes.
RowsKeepTheirOwn ==
    editor.follows # "stays" =>
        /\ \A r \in Rows, f \in Fields : row[r][f][1] = r
        /\ \A s \in saves : \A f \in DOMAIN s.patch : s.patch[f][1] = s.row

\* A request carries a field its user did not touch only if the editor sends
\* whole drafts, or keeps what was typed for good, or if the row changed on
\* the screen after the draft was filled: only then is the write of another
\* user undone unseen.
UntouchedGoesOnlyWhenOvertaken ==
    [][\A s \in saves' : s.id > writes =>
          \A f \in DOMAIN s.patch :
             \/ f \in typed \/ "choose" \in editor.gestures
             \/ editor.sends = "draft" \/ editor.filled = "typing"
             \/ shown[s.row][f] # seen[instance][f]]_draftsVars

\* Two saves of one row are under way together, and may reach the server in
\* the wrong order, only if some gesture of the editor does not wait for the
\* answer, or if the pending save was forgotten with a dismissed panel.
SavesOfARowInOrder ==
    \A s, t \in saves : s # t /\ s.row = t.row =>
        ~(editor.gestures \subseteq editor.waits) \/ editor.guard = "panel"
=============================================================================
