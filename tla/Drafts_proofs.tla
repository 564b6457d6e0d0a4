--------------------------- MODULE Drafts_proofs ---------------------------
(***************************************************************************)
(* Proofs about Drafts, for any set of rows and any number of writes: what   *)
(* is typed for one row is never saved into another, saves of one row follow *)
(* one another, and a field nobody touched goes out only if it changed under *)
(* the editor.                                                               *)
(***************************************************************************)
EXTENDS Drafts, TLAPS

------------------------------------------------------------------------------
(* The editors *)

\* What the proofs need to know of an editor.
EditorKnown(e) ==
    /\ e.covers \subseteq Fields
    /\ e.filled \in {"opening", "mounting", "typing"}
    /\ e.filled = "mounting" => e.sends = "draft"

\* Every editor of the pages is such an editor.
LEMMA EditorsKnown == \A e \in Editors : EditorKnown(e)
<1>1. EditorKnown(InlineTitle)
  BY DEF EditorKnown, InlineTitle, Fields
<1>2. EditorKnown(TaskPageTitle)
  BY DEF EditorKnown, TaskPageTitle, InlineTitle, Fields
<1>3. EditorKnown(TestPageTitle)
  BY DEF EditorKnown, TestPageTitle, InlineTitle, Fields
<1>4. EditorKnown(TaskModalDescription)
  BY DEF EditorKnown, TaskModalDescription, InlineTitle, Fields
<1>5. EditorKnown(TaskPageDescription)
  BY DEF EditorKnown, TaskPageDescription, TaskModalDescription, InlineTitle, Fields
<1>6. EditorKnown(TestModalField)
  BY DEF EditorKnown, TestModalField, TaskModalDescription, InlineTitle, Fields
<1>7. EditorKnown(TestPageField)
  BY DEF EditorKnown, TestPageField, TestModalField, TaskModalDescription, InlineTitle,
     Fields
<1>8. EditorKnown(ItemCriteria)
  BY DEF EditorKnown, ItemCriteria, ItemDescription, TestPageField, TestModalField,
     TaskModalDescription, InlineTitle, Fields
<1>9. EditorKnown(ProjectDescription)
  BY DEF EditorKnown, ProjectDescription, TaskPageDescription, TaskModalDescription,
     InlineTitle, Fields
<1>10. EditorKnown(BacklogItemEditRow)
  BY DEF EditorKnown, BacklogItemEditRow, Fields
<1>11. EditorKnown(EpicEditPanel)
  BY DEF EditorKnown, EpicEditPanel, Fields
<1>12. EditorKnown(MilestoneForm)
  BY DEF EditorKnown, MilestoneForm, EpicEditPanel, Fields
<1>13. EditorKnown(SkillForm)
  BY DEF EditorKnown, SkillForm, MilestoneForm, EpicEditPanel, Fields
<1>14. EditorKnown(SkillEditor)
  BY DEF EditorKnown, SkillEditor, MilestoneForm, EpicEditPanel, Fields
<1>15. EditorKnown(TeamForm)
  BY DEF EditorKnown, TeamForm, SkillEditor, MilestoneForm, EpicEditPanel, Fields
<1>16. EditorKnown(ProfileInfo)
  BY DEF EditorKnown, ProfileInfo, TeamForm, SkillEditor, MilestoneForm, EpicEditPanel,
     Fields
<1>17. EditorKnown(ProjectTreeNode)
  BY DEF EditorKnown, ProjectTreeNode, SkillEditor, MilestoneForm, EpicEditPanel, Fields
<1>18. EditorKnown(RetroCard)
  BY DEF EditorKnown, RetroCard, ProjectTreeNode, SkillEditor, MilestoneForm,
     EpicEditPanel, Fields
<1>19. EditorKnown(CapacityTable)
  BY DEF EditorKnown, CapacityTable, InlineTitle, Fields
<1>20. EditorKnown(Menu)
  BY DEF EditorKnown, Menu, InlineTitle, Fields
<1>21. EditorKnown(ScheduleDates)
  BY DEF EditorKnown, ScheduleDates, Menu, InlineTitle, Fields
<1> QED
  BY <1>1, <1>2, <1>3, <1>4, <1>5, <1>6, <1>7, <1>8, <1>9, <1>10, <1>11,
     <1>12, <1>13, <1>14, <1>15, <1>16, <1>17, <1>18, <1>19, <1>20, <1>21
  DEF Editors, DraggableTaskRow, DraggableTestRow, SprintTaskRow,
      SprintTestRow, TaskModalTitle, TestModalTitle, ItemDescription,
      SubProjectNode, StatusPill, StagePicker, EpicPicker, AssigneePicker,
      ClarityPicker, ClarityDropdown, TaskStatusCycle, SprintStatusSelect,
      TaskFieldSelects, TeamCategorySelect

------------------------------------------------------------------------------
(* Patches and saves *)

Patches == UNION {[S -> Values] : S \in SUBSET Fields}

\* A value names a row, and is never mistaken for an unset draft.
LEMMA ValuesAreSet == \A v \in Values : v # Unset /\ v[1] \in Rows
  BY DEF Values, Unset

\* A patch carries fields of the draft that are set, and unless the editor
\* sends whole drafts, only those that differ from the row it is sent to.
LEMMA PatchOfDraft ==
  ASSUME DraftsTypeOK, NEW d \in [Fields -> Values \cup {Unset}], NEW r \in Rows
  PROVE  /\ Patch(d, r) \in Patches
         /\ \A f \in DOMAIN Patch(d, r) :
               /\ f \in editor.covers
               /\ Patch(d, r)[f] = d[f]
               /\ d[f] # Unset
               /\ editor.sends = "draft" \/ d[f] # shown[r][f]
<1> DEFINE sent == {f \in editor.covers :
                      /\ d[f] # Unset
                      /\ ~(IsBlank(d[f]) /\ f \in editor.leavesOut)
                      /\ editor.sends = "draft" \/ d[f] # shown[r][f]}
<1>1. editor.covers \subseteq Fields
  BY EditorsKnown DEF DraftsTypeOK, EditorKnown
<1>2. Patch(d, r) = [f \in sent |-> d[f]]
  BY DEF Patch
<1>3. sent \subseteq Fields /\ \A f \in sent : d[f] \in Values
  BY <1>1
<1>4. [f \in sent |-> d[f]] \in [sent -> Values]
  BY <1>3
<1>5. Patch(d, r) \in Patches
  BY <1>2, <1>3, <1>4 DEF Patches
<1>6. ASSUME NEW f \in DOMAIN Patch(d, r)
      PROVE  /\ f \in editor.covers
             /\ Patch(d, r)[f] = d[f]
             /\ d[f] # Unset
             /\ editor.sends = "draft" \/ d[f] # shown[r][f]
  <2>1. f \in sent /\ Patch(d, r)[f] = d[f]
    BY <1>2
  <2> QED
    BY <2>1
<1> QED
  BY <1>5, <1>6

\* Forgetting that a save is pending changes nothing else about it.
LEMMA Unguarded ==
  ASSUME NEW s \in Saves, NEW b \in BOOLEAN
  PROVE  /\ [s EXCEPT !.guards = b] \in Saves
         /\ [s EXCEPT !.guards = b].id = s.id
         /\ [s EXCEPT !.guards = b].row = s.row
         /\ [s EXCEPT !.guards = b].patch = s.patch
         /\ [s EXCEPT !.guards = b].guards = b
  BY Zenon DEF Saves

LEMMA ServedSave ==
  ASSUME NEW s \in Saves
  PROVE  /\ [s EXCEPT !.served = TRUE] \in Saves
         /\ [s EXCEPT !.served = TRUE].id = s.id
         /\ [s EXCEPT !.served = TRUE].row = s.row
         /\ [s EXCEPT !.served = TRUE].patch = s.patch
         /\ [s EXCEPT !.served = TRUE].guards = s.guards
  BY Zenon DEF Saves

\* t is s, but for what its editor remembers of it.
SameSave(t, s) == t.id = s.id /\ t.row = s.row /\ t.patch = s.patch

\* What Ask leaves: the saves there were, and one more.
LEMMA SaveAskedAdds ==
  ASSUME DraftsTypeOK, writes < MaxDraftWrites, NEW r \in Rows, NEW p \in Patches,
         NEW t \in Ask(r, p)
  PROVE  /\ t \in Saves
         /\ \/ t.id = writes + 1 /\ t.row = r /\ t.patch = p /\ t.guards = TRUE
            \/ \E s \in saves :
                  SameSave(t, s) /\ t.guards = (s.guards /\ editor.follows = "bound" /\ s.row # r)
<1>1. saves \subseteq Saves /\ writes \in 0..MaxDraftWrites
  BY DEF DraftsTypeOK
<1> DEFINE one == [id |-> writes + 1, row |-> r, patch |-> p, guards |-> TRUE, served |-> FALSE]
<1>2. one \in Saves
  <2>1. writes + 1 \in 1..MaxDraftWrites
    BY <1>1, DraftsAssumption
  <2> QED
    BY <2>1 DEF Saves, Patches
<1>3. CASE t = one
  BY <1>2, <1>3
<1>4. ASSUME NEW s \in saves,
             t = [s EXCEPT !.guards = @ /\ editor.follows = "bound" /\ s.row # r]
      PROVE  /\ t \in Saves
             /\ SameSave(t, s)
             /\ t.guards = (s.guards /\ editor.follows = "bound" /\ s.row # r)
  <2> DEFINE b == s.guards /\ editor.follows = "bound" /\ s.row # r
  <2>1. s \in Saves /\ b \in BOOLEAN
    BY <1>1 DEF Saves
  <2>2. t = [s EXCEPT !.guards = b]
    BY <1>4
  <2> HIDE DEF b
  <2>3. t \in Saves /\ SameSave(t, s) /\ t.guards = b
    BY <2>1, <2>2, Unguarded DEF SameSave
  <2> QED
    BY <2>3 DEF b
<1>5. t = one \/ \E s \in saves :
         t = [s EXCEPT !.guards = @ /\ editor.follows = "bound" /\ s.row # r]
  BY DEF Ask
<1> QED
  BY <1>3, <1>4, <1>5

\* What Close leaves: the same saves, all of them as they were unless the
\* editor is a panel.
LEMMA CloseKeeps ==
  ASSUME NEW ss \in SUBSET Saves, Close(ss), NEW t \in saves'
  PROVE  /\ t \in Saves
         /\ \E s \in ss :
               SameSave(t, s) /\ (editor.guard # "panel" => t = s)
<1>1. CASE editor.guard = "panel"
  <2>1. PICK s \in ss : t = [s EXCEPT !.guards = FALSE]
    BY <1>1 DEF Close
  <2>2. t \in Saves /\ SameSave(t, s)
    BY <2>1, Unguarded DEF SameSave
  <2> QED
    BY <1>1, <2>2
<1>2. CASE editor.guard # "panel"
  BY <1>2 DEF Close, SameSave
<1> QED
  BY <1>1, <1>2

------------------------------------------------------------------------------
(* Types *)

\* The rest of the screen when the editor closes or a draft is dropped.
LEMMA DiscardTyped ==
  ASSUME DraftsTypeOK, Discard
  PROVE  drafts' \in Rowful(Values \cup {Unset}) /\ seen' \in Rowful(Values)
<1>1. NoDrafts \in Rowful(Values \cup {Unset}) /\ Before \in Rowful(Values)
  BY DEF NoDrafts, Before, Rowful, Values
<1>2. CASE editor.filled = "opening"
  BY <1>1, <1>2 DEF Discard
<1>3. CASE editor.filled # "opening"
  BY <1>3 DEF Discard, DraftsTypeOK
<1> QED
  BY <1>2, <1>3

LEMMA FillTyped ==
  ASSUME DraftsTypeOK, NEW r \in Rows, Fill(r)
  PROVE  drafts' \in Rowful(Values \cup {Unset}) /\ seen' \in Rowful(Values)
<1>1. [f \in Fields |-> IF f \in editor.covers THEN shown[r][f] ELSE Unset]
        \in [Fields -> Values \cup {Unset}]
  BY DEF DraftsTypeOK, Rowful
<1>2. shown[r] \in [Fields -> Values]
  BY DEF DraftsTypeOK, Rowful
<1> QED
  BY <1>1, <1>2 DEF DraftsTypeOK, Fill, Rowful

LEMMA CloseTyped ==
  ASSUME NEW ss \in SUBSET Saves, Close(ss), DraftsTypeOK
  PROVE  /\ target' \in Rows \cup {NoRow} /\ instance' \in Rows
         /\ typed' \in SUBSET Fields /\ saves' \in SUBSET Saves
<1>1. saves' \in SUBSET Saves
  BY CloseKeeps
<1> QED
  BY <1>1 DEF Close, DraftsTypeOK

LEMMA DraftTyped ==
  ASSUME DraftsTypeOK
  PROVE  Draft \in [Fields -> Values \cup {Unset}]
  BY DEF Draft, DraftsTypeOK, Rowful

\* What a gesture may do: nothing to ask, or one request more.
CommitShape(p) ==
    /\ Opened
    /\ p = Patch(Draft, target)
    /\ \/ ~SendsPatch(Draft, target) /\ Close(saves) /\ Discard /\ UNCHANGED writes
       \/ /\ SendsPatch(Draft, target)
          /\ writes < MaxDraftWrites
          /\ \/ editor.closes = "sending" /\ Close(Ask(target, p)) /\ Discard
             \/ editor.closes # "sending" /\ saves' = Ask(target, p) /\ UNCHANGED screenVars
          /\ writes' = writes + 1

LEMMA CommitShaped ==
  ASSUME NEW g, Commit(g)
  PROVE  /\ CommitShape(Patch(Draft, target))
         /\ UNCHANGED <<editor, row, shown>>
         /\ g \in editor.waits => ~Pending(target)
         /\ g \in editor.gestures
  BY DEF Commit, CommitShape

\* An answer closes the editor, or leaves it as it is.
LEMMA AnswerShape ==
  ASSUME NEW s, Answer(s)
  PROVE  /\ \/ Close(saves \ {s}) /\ Discard
            \/ saves' = saves \ {s} /\ UNCHANGED screenVars
         /\ UNCHANGED <<editor, row, shown, writes>>
<1>1. CASE /\ editor.closes = "either" \/ (editor.closes = "answer" /\ s.served)
           /\ Opened /\ (editor.follows = "bound" => target = s.row)
  BY <1>1 DEF Answer
<1>2. CASE ~(/\ editor.closes = "either" \/ (editor.closes = "answer" /\ s.served)
             /\ Opened /\ (editor.follows = "bound" => target = s.row))
  BY <1>2 DEF Answer
<1> QED
  BY <1>1, <1>2

\* Requests are numbered in the order they were made.
Numbered == \A s \in saves : s.id <= writes

DraftsInv == DraftsTypeOK /\ Numbered

LEMMA AskTyped ==
  ASSUME DraftsInv, writes < MaxDraftWrites, NEW r \in Rows, NEW p \in Patches,
         NEW t \in Ask(r, p)
  PROVE  t \in Saves /\ t.id \in Nat /\ t.id <= writes + 1
<1>1. writes \in Nat /\ saves \subseteq Saves
  BY DraftsAssumption DEF DraftsInv, DraftsTypeOK
<1>2. t \in Saves /\ t.id \in Nat
  <2>1. t \in Saves
    BY SaveAskedAdds DEF DraftsInv
  <2> QED
    BY <2>1 DEF Saves
<1>3. CASE t.id = writes + 1
  BY <1>1, <1>2, <1>3
<1>4. ASSUME NEW s \in saves, SameSave(t, s) PROVE t.id <= writes + 1
  <2>1. s.id <= writes /\ t.id = s.id
    BY <1>4 DEF DraftsInv, Numbered, SameSave
  <2> QED
    BY <2>1, <1>1, <1>2
<1> QED
  BY <1>2, <1>3, <1>4, SaveAskedAdds DEF DraftsInv

LEMMA DraftsInitInv == DraftsInit => DraftsInv
<1> SUFFICES ASSUME DraftsInit PROVE DraftsInv
  OBVIOUS
<1>1. Before \in Rowful(Values)
  BY DEF Before, Rowful, Values
<1>2. NoDrafts \in Rowful(Values \cup {Unset})
  BY DEF NoDrafts, Rowful
<1>3. instance \in Rows
  BY DraftsAssumption DEF DraftsInit
<1>4. drafts \in Rowful(Values \cup {Unset})
  BY <1>1, <1>2 DEF DraftsInit, Rowful
<1> QED
  BY <1>1, <1>3, <1>4, DraftsAssumption DEF DraftsInit, DraftsInv, DraftsTypeOK, Numbered

LEMMA DraftsNextInv == DraftsInv /\ [DraftsNext]_draftsVars => DraftsInv'
<1> SUFFICES ASSUME DraftsInv, [DraftsNext]_draftsVars PROVE DraftsInv'
  OBVIOUS
<1>0. DraftsTypeOK /\ Numbered /\ writes \in Nat /\ saves \subseteq Saves
  BY DraftsAssumption DEF DraftsInv, DraftsTypeOK
<1>a. \A s \in saves : s \in Saves /\ s.row \in Rows /\ s.id \in Nat /\ s.id <= writes
  BY <1>0 DEF Saves, Numbered
<1>1. ASSUME NEW r \in Rows, OpenEditor(r) PROVE DraftsInv'
  <2>1. drafts' \in Rowful(Values \cup {Unset}) /\ seen' \in Rowful(Values)
    BY <1>0, <1>1, FillTyped DEF OpenEditor, DraftsTypeOK
  <2> QED
    BY <1>0, <1>1, <2>1 DEF OpenEditor, DraftsInv, DraftsTypeOK, Numbered
<1>2. ASSUME NEW r \in Rows, Retarget(r) PROVE DraftsInv'
  BY <1>0, <1>2 DEF Retarget, DraftsInv, DraftsTypeOK, Numbered
<1>3. ASSUME NEW r \in Rows, Refetch(r) PROVE DraftsInv'
  <2>1. shown' \in Rowful(Values)
    BY <1>0, <1>3 DEF Refetch, DraftsTypeOK, Rowful
  <2> QED
    BY <1>0, <1>3, <2>1 DEF Refetch, DraftsInv, DraftsTypeOK, Numbered, screenVars
<1>4. ASSUME NEW f \in Fields, NEW kind \in {"user", "blank"}, Type(f, kind) PROVE DraftsInv'
  <2>1. target \in Rows /\ instance \in Rows /\ <<target, kind>> \in Values
    BY <1>0, <1>4 DEF Type, Opened, DraftsTypeOK, Values
  <2>2. drafts' \in Rowful(Values \cup {Unset})
    BY <1>0, <1>4, <2>1 DEF Type, DraftsTypeOK, Rowful
  <2>3. seen' \in Rowful(Values)
    BY <1>0, <1>4, <2>1 DEF Type, DraftsTypeOK, Rowful
  <2>4. writes' = writes + 1 /\ writes' \in 0..MaxDraftWrites
    BY <1>0, <1>4, DraftsAssumption DEF Type, DraftsTypeOK
  <2>5. Numbered'
    BY <1>a, <1>0, <1>4, <2>4 DEF Type, Numbered
  <2> QED
    BY <1>0, <1>4, <2>2, <2>3, <2>4, <2>5 DEF Type, DraftsInv, DraftsTypeOK
<1>5. ASSUME NEW g, Commit(g) PROVE DraftsInv'
  <2> DEFINE p == Patch(Draft, target)
  <2>1. CommitShape(p) /\ UNCHANGED <<editor, row, shown>>
    BY <1>5, CommitShaped
  <2>2. target \in Rows
    BY <1>0, <2>1 DEF CommitShape, Opened, DraftsTypeOK
  <2>3. p \in Patches
    BY <1>0, <2>2, DraftTyped, PatchOfDraft
  <2> HIDE DEF p
  <2>4. CASE Close(saves) /\ Discard /\ UNCHANGED writes
    <3>1. Numbered'
      BY <1>a, <1>0, <2>4, CloseKeeps DEF SameSave, Numbered
    <3> QED
      BY <1>0, <2>1, <2>4, <3>1, CloseTyped, DiscardTyped DEF DraftsInv, DraftsTypeOK
  <2>5. CASE writes < MaxDraftWrites /\ writes' = writes + 1
             /\ Close(Ask(target, p)) /\ Discard
    <3>1. \A t \in Ask(target, p) : t \in Saves /\ t.id \in Nat /\ t.id <= writes + 1
      BY <2>2, <2>3, <2>5, AskTyped
    <3>2. Ask(target, p) \in SUBSET Saves
      BY <3>1
    <3>3. Numbered'
      BY <3>1, <3>2, <2>5, CloseKeeps DEF SameSave, Numbered
    <3>4. writes' \in 0..MaxDraftWrites
      BY <1>0, <2>5, DraftsAssumption
    <3> QED
      BY <1>0, <2>1, <2>5, <3>2, <3>3, <3>4, CloseTyped, DiscardTyped DEF DraftsInv, DraftsTypeOK
  <2>6. CASE writes < MaxDraftWrites /\ writes' = writes + 1
             /\ saves' = Ask(target, p) /\ UNCHANGED screenVars
    <3>1. \A t \in Ask(target, p) : t \in Saves /\ t.id \in Nat /\ t.id <= writes + 1
      BY <2>2, <2>3, <2>6, AskTyped
    <3>2. saves' \in SUBSET Saves /\ Numbered'
      BY <3>1, <2>6 DEF Numbered
    <3>3. writes' \in 0..MaxDraftWrites
      BY <1>0, <2>6, DraftsAssumption
    <3> QED
      BY <1>0, <2>1, <2>6, <3>2, <3>3 DEF DraftsInv, DraftsTypeOK, screenVars
  <2> QED
    BY <2>1, <2>4, <2>5, <2>6 DEF CommitShape
<1>6. ASSUME NEW r \in Rows, NEW f \in Fields, Choose(r, f) PROVE DraftsInv'
  <2> DEFINE p == [x \in {f} |-> <<r, "user">>]
  <2>1. p \in Patches
    <3>1. p \in [{f} -> Values] /\ {f} \in SUBSET Fields
      BY DEF Values
    <3> QED
      BY <3>1 DEF Patches
  <2>2. saves' = Ask(r, p) /\ writes < MaxDraftWrites /\ writes' = writes + 1
        /\ UNCHANGED <<editor, row, shown, screenVars>>
    BY <1>6 DEF Choose
  <2> HIDE DEF p
  <2>3. \A t \in Ask(r, p) : t \in Saves /\ t.id \in Nat /\ t.id <= writes + 1
    BY <2>1, <2>2, AskTyped
  <2>4. saves' \in SUBSET Saves /\ Numbered'
    BY <2>2, <2>3 DEF Numbered
  <2>5. writes' \in 0..MaxDraftWrites
    BY <1>0, <2>2, DraftsAssumption
  <2> QED
    BY <1>0, <2>2, <2>4, <2>5 DEF DraftsInv, DraftsTypeOK, screenVars
<1>7. ASSUME NEW r \in Rows, NEW f \in Fields, OthersWrite(r, f) PROVE DraftsInv'
  <2>1. <<r, "other">> \in Values
    BY DEF Values
  <2>2. row' \in Rowful(Values)
    BY <1>0, <1>7, <2>1 DEF OthersWrite, DraftsTypeOK, Rowful
  <2>3. writes' = writes + 1 /\ writes' \in 0..MaxDraftWrites
    BY <1>0, <1>7, DraftsAssumption DEF OthersWrite, DraftsTypeOK
  <2>4. Numbered'
    BY <1>a, <1>0, <1>7, <2>3 DEF OthersWrite, Numbered
  <2> QED
    BY <1>0, <1>7, <2>2, <2>3, <2>4 DEF OthersWrite, DraftsInv, DraftsTypeOK, screenVars
<1>8. ASSUME NEW s \in saves, Serve(s) PROVE DraftsInv'
  <2>1. s.row \in Rows /\ \A f \in DOMAIN s.patch : s.patch[f] \in Values
    BY <1>a DEF Saves
  <2>2. [f \in Fields |-> IF f \in DOMAIN s.patch THEN s.patch[f] ELSE row[s.row][f]]
          \in [Fields -> Values]
    BY <1>0, <2>1 DEF DraftsTypeOK, Rowful
  <2>3. row' \in Rowful(Values)
    BY <1>0, <1>8, <2>1, <2>2 DEF Serve, DraftsTypeOK, Rowful
  <2>4. \A t \in saves' : t \in Saves /\ t.id <= writes
    BY <1>a, <1>8, ServedSave DEF Serve
  <2> QED
    BY <1>0, <1>8, <2>3, <2>4 DEF Serve, DraftsInv, DraftsTypeOK, Numbered, screenVars
<1>9. ASSUME NEW s \in saves, Answer(s) PROVE DraftsInv'
  <2>0. UNCHANGED <<editor, row, shown, writes>>
    BY <1>9, AnswerShape
  <2>1. CASE Close(saves \ {s}) /\ Discard
    <3>1. saves \ {s} \in SUBSET Saves
      BY <1>0
    <3>2. Numbered'
      BY <1>a, <2>0, <2>1, <3>1, CloseKeeps DEF SameSave, Numbered
    <3> QED
      BY <1>0, <2>0, <2>1, <3>1, <3>2, CloseTyped, DiscardTyped DEF DraftsInv, DraftsTypeOK
  <2>2. CASE saves' = saves \ {s} /\ UNCHANGED screenVars
    BY <1>0, <2>0, <2>2 DEF DraftsInv, DraftsTypeOK, Numbered, screenVars
  <2> QED
    BY <1>9, <2>1, <2>2, AnswerShape
<1>10. CASE Dismiss
  <2>1. Close(saves) /\ UNCHANGED <<editor, row, shown, writes>>
    BY <1>10 DEF Dismiss
  <2>2. drafts' \in Rowful(Values \cup {Unset}) /\ seen' \in Rowful(Values)
    <3>1. instance \in Rows
      BY <1>0 DEF DraftsTypeOK
    <3>2. Fill(instance) \/ Discard
      BY <1>10 DEF Dismiss
    <3> QED
      BY <1>0, <3>1, <3>2, FillTyped, DiscardTyped
  <2>3. Numbered'
    BY <1>a, <1>0, <2>1, CloseKeeps DEF SameSave, Numbered
  <2> QED
    BY <1>0, <2>1, <2>2, <2>3, CloseTyped DEF DraftsInv, DraftsTypeOK
<1>11. CASE UNCHANGED draftsVars
  BY <1>0, <1>11 DEF DraftsInv, DraftsTypeOK, Numbered, draftsVars, screenVars
<1> QED
  BY <1>1, <1>2, <1>3, <1>4, <1>5, <1>6, <1>7, <1>8, <1>9, <1>10, <1>11 DEF DraftsNext

\* Every reachable state of an editor has its type, for any rows.
THEOREM DraftsTyped == DraftsSpec => []DraftsTypeOK
<1>1. DraftsSpec => []DraftsInv
  BY DraftsInitInv, DraftsNextInv, PTL DEF DraftsSpec
<1>2. DraftsInv => DraftsTypeOK
  BY DEF DraftsInv
<1> QED
  BY <1>1, <1>2, PTL

\* The typed states, for the proofs that follow.
LEMMA DraftsInvAlways == DraftsSpec => []DraftsInv
  BY DraftsInitInv, DraftsNextInv, PTL DEF DraftsSpec

\* A step leaves saves it found, or adds the one it numbers.
LEMMA SavesOfAStep ==
  ASSUME DraftsInv, [DraftsNext]_draftsVars, NEW t \in saves'
  PROVE  \/ \E s \in saves : SameSave(t, s)
         \/ /\ t.id = writes + 1
            /\ \/ Opened /\ t.row = target /\ t.patch = Patch(Draft, target)
               \/ \E r \in Rows, f \in Fields :
                     /\ "choose" \in editor.gestures
                     /\ t.row = r /\ t.patch = [x \in {f} |-> <<r, "user">>]
<1> DEFINE Old == \E s \in saves : SameSave(t, s)
           New == /\ t.id = writes + 1
                  /\ \/ Opened /\ t.row = target /\ t.patch = Patch(Draft, target)
                     \/ \E r \in Rows, f \in Fields :
                           /\ "choose" \in editor.gestures
                           /\ t.row = r /\ t.patch = [x \in {f} |-> <<r, "user">>]
<1>0. DraftsTypeOK /\ saves \subseteq Saves
  BY DEF DraftsInv, DraftsTypeOK
<1>1. CASE saves' = saves
  BY <1>1 DEF SameSave
<1>2. ASSUME NEW g, Commit(g) PROVE Old \/ New
  <2> DEFINE p == Patch(Draft, target)
  <2>1. CommitShape(p)
    BY <1>2, CommitShaped
  <2>2. target \in Rows /\ Opened
    BY <1>0, <2>1 DEF CommitShape, Opened, DraftsTypeOK
  <2>3. p \in Patches
    BY <1>0, <2>2, DraftTyped, PatchOfDraft
  <2>4. CASE Close(saves)
    BY <1>0, <2>4, CloseKeeps
  <2>5. ASSUME writes < MaxDraftWrites, NEW u \in Ask(target, p), SameSave(t, u)
        PROVE  Old \/ New
    <3>1. \/ u.id = writes + 1 /\ u.row = target /\ u.patch = p
          \/ \E s \in saves : SameSave(u, s)
      BY <1>0, <2>2, <2>3, <2>5, SaveAskedAdds
    <3> QED
      BY <2>2, <2>5, <3>1 DEF SameSave
  <2>6. CASE writes < MaxDraftWrites /\ Close(Ask(target, p))
    <3>1. Ask(target, p) \in SUBSET Saves
      BY <1>0, <2>2, <2>3, <2>6, SaveAskedAdds
    <3>2. \E u \in Ask(target, p) : SameSave(t, u)
      BY <2>6, <3>1, CloseKeeps
    <3> QED
      BY <2>5, <2>6, <3>2
  <2>7. CASE writes < MaxDraftWrites /\ saves' = Ask(target, p)
    BY <2>5, <2>7 DEF SameSave
  <2> QED
    BY <2>1, <2>4, <2>6, <2>7 DEF CommitShape
<1>3. ASSUME NEW r \in Rows, NEW f \in Fields, Choose(r, f) PROVE Old \/ New
  <2> DEFINE p == [x \in {f} |-> <<r, "user">>]
  <2>1. p \in Patches
    <3>1. p \in [{f} -> Values] /\ {f} \in SUBSET Fields
      BY DEF Values
    <3> QED
      BY <3>1 DEF Patches
  <2>2. saves' = Ask(r, p) /\ writes < MaxDraftWrites /\ "choose" \in editor.gestures
    BY <1>3 DEF Choose
  <2>3. \/ t.id = writes + 1 /\ t.row = r /\ t.patch = p
        \/ Old
    <3> HIDE DEF p
    <3> QED
      BY <1>0, <2>1, <2>2, SaveAskedAdds
  <2> QED
    BY <2>2, <2>3
<1>4. ASSUME NEW s \in saves, Serve(s) PROVE Old
  BY <1>0, <1>4, ServedSave DEF Serve, SameSave
<1>5. ASSUME NEW s \in saves, Answer(s) PROVE Old
  <2>1. CASE Close(saves \ {s})
    <3>1. saves \ {s} \in SUBSET Saves
      BY <1>0
    <3> QED
      BY <2>1, <3>1, CloseKeeps
  <2>2. CASE saves' = saves \ {s}
    BY <2>2 DEF SameSave
  <2> QED
    BY <1>5, <2>1, <2>2, AnswerShape
<1>6. CASE Dismiss
  <2>1. Close(saves)
    BY <1>6 DEF Dismiss
  <2> QED
    BY <1>0, <2>1, CloseKeeps
<1>7. ASSUME NEW r \in Rows, OpenEditor(r) \/ Retarget(r) \/ Refetch(r) PROVE saves' = saves
  BY <1>7 DEF OpenEditor, Retarget, Refetch
<1>8. ASSUME NEW f, NEW kind, Type(f, kind) PROVE saves' = saves
  BY <1>8 DEF Type
<1>9. ASSUME NEW r, NEW f, OthersWrite(r, f) PROVE saves' = saves
  BY <1>9 DEF OthersWrite
<1>10. CASE UNCHANGED draftsVars
  BY <1>10, <1>1 DEF draftsVars
<1> QED
  BY <1>1, <1>2, <1>3, <1>4, <1>5, <1>6, <1>7, <1>8, <1>9, <1>10 DEF DraftsNext

------------------------------------------------------------------------------
(* Rows keep their own *)

OwnRows ==
    editor.follows # "stays" =>
        /\ Opened => instance = target
        /\ \A r \in Rows, f \in Fields : row[r][f][1] = r /\ shown[r][f][1] = r
        /\ \A r \in Rows, f \in Fields : drafts[r][f] # Unset => drafts[r][f][1] = r
        /\ \A s \in saves : \A f \in DOMAIN s.patch : s.patch[f][1] = s.row

\* Drafts filled, dropped or left alone hold values of their own rows.
LEMMA OwnDrafts ==
  ASSUME DraftsTypeOK, NEW q \in Rows,
         \A r \in Rows, f \in Fields : shown[r][f][1] = r,
         \A r \in Rows, f \in Fields : drafts[r][f] # Unset => drafts[r][f][1] = r,
         Fill(q) \/ Discard \/ UNCHANGED drafts
  PROVE  \A r \in Rows, f \in Fields : drafts'[r][f] # Unset => drafts'[r][f][1] = r
<1>1. CASE Fill(q)
  <2>1. \A r \in Rows : drafts'[r] = IF r = q
             THEN [f \in Fields |-> IF f \in editor.covers THEN shown[q][f] ELSE Unset]
             ELSE drafts[r]
    BY <1>1 DEF Fill, DraftsTypeOK, Rowful
  <2>2. ASSUME NEW f \in Fields, drafts'[q][f] # Unset
        PROVE  drafts'[q][f] = shown[q][f]
    BY <2>1, <2>2
  <2>3. ASSUME NEW r \in Rows, NEW f \in Fields, drafts'[r][f] # Unset
        PROVE  drafts'[r][f][1] = r
    <3>1. CASE r = q
      BY <2>2, <2>3, <3>1
    <3>2. CASE r # q
      <4>1. drafts'[r] = drafts[r]
        BY <2>1, <3>2
      <4> QED
        BY <2>3, <4>1
    <3> QED
      BY <3>1, <3>2
  <2> QED
    BY <2>3
<1>2. CASE Discard
  <2>1. drafts' = NoDrafts \/ drafts' = drafts
    BY <1>2 DEF Discard
  <2> QED
    BY <2>1 DEF NoDrafts
<1>3. CASE UNCHANGED drafts
  BY <1>3
<1> QED
  BY <1>1, <1>2, <1>3

LEMMA OwnRowsInit == DraftsInit => OwnRows
<1> SUFFICES ASSUME DraftsInit PROVE OwnRows
  OBVIOUS
<1>1. \A r \in Rows, f \in Fields : Before[r][f][1] = r /\ NoDrafts[r][f] = Unset
  BY DEF Before, NoDrafts
<1>2. drafts = Before \/ drafts = NoDrafts
  BY DEF DraftsInit
<1> QED
  BY <1>1, <1>2, Zenon DEF DraftsInit, OwnRows, Opened

LEMMA OwnRowsNext == DraftsInv /\ OwnRows /\ [DraftsNext]_draftsVars => OwnRows'
<1> SUFFICES ASSUME DraftsInv, OwnRows, [DraftsNext]_draftsVars PROVE OwnRows'
  OBVIOUS
<1>0. DraftsTypeOK /\ saves \subseteq Saves
  BY DEF DraftsInv, DraftsTypeOK
<1>1. editor' = editor
  <2>1. \A g : Commit(g) => editor' = editor
    BY CommitShaped
  <2>2. \A s : Answer(s) => editor' = editor
    BY AnswerShape
  <2> QED
    BY <2>1, <2>2 DEF DraftsNext, draftsVars, OpenEditor, Retarget, Refetch, Type, Choose,
                      OthersWrite, Serve, Dismiss
<1> SUFFICES ASSUME editor.follows # "stays"
             PROVE  /\ Opened' => instance' = target'
                    /\ \A r \in Rows, f \in Fields : row'[r][f][1] = r /\ shown'[r][f][1] = r
                    /\ \A r \in Rows, f \in Fields : drafts'[r][f] # Unset => drafts'[r][f][1] = r
                    /\ \A s \in saves' : \A f \in DOMAIN s.patch : s.patch[f][1] = s.row
  BY <1>1 DEF OwnRows
<1>2. /\ Opened => instance = target
      /\ \A r \in Rows, f \in Fields : row[r][f][1] = r
      /\ \A r \in Rows, f \in Fields : shown[r][f][1] = r
      /\ \A r \in Rows, f \in Fields : drafts[r][f] # Unset => drafts[r][f][1] = r
      /\ \A s \in saves : \A f \in DOMAIN s.patch : s.patch[f][1] = s.row
  BY DEF OwnRows
\* What the saves carry.
<1>3. ASSUME NEW t \in saves', NEW f \in DOMAIN t.patch PROVE t.patch[f][1] = t.row
  <2>1. CASE \E s \in saves : SameSave(t, s)
    BY <1>2, <1>3, <2>1 DEF SameSave
  <2>2. CASE Opened /\ t.row = target /\ t.patch = Patch(Draft, target)
    <3>1. target \in Rows /\ instance = target
      BY <1>0, <1>2, <2>2 DEF Opened, DraftsTypeOK
    <3>2. f \in editor.covers /\ t.patch[f] = Draft[f] /\ Draft[f] # Unset
      BY <1>0, <1>3, <2>2, <3>1, DraftTyped, PatchOfDraft
    <3>3. f \in Fields
      BY <1>0, <3>2, EditorsKnown DEF DraftsTypeOK, EditorKnown
    <3> QED
      BY <1>2, <2>2, <3>1, <3>2, <3>3 DEF Draft
  <2>3. ASSUME NEW r \in Rows, NEW x \in Fields,
               t.row = r, t.patch = [y \in {x} |-> <<r, "user">>]
        PROVE  t.patch[f][1] = t.row
    BY <1>3, <2>3
  <2> QED
    BY <2>1, <2>2, <2>3, SavesOfAStep
\* What the screen and the rows hold.
<1> DEFINE Rest ==
       /\ Opened' => instance' = target'
       /\ \A r \in Rows, f \in Fields : row'[r][f][1] = r
       /\ \A r \in Rows, f \in Fields : shown'[r][f][1] = r
       /\ \A r \in Rows, f \in Fields : drafts'[r][f] # Unset => drafts'[r][f][1] = r
<1>4. ASSUME NEW q \in Rows, OpenEditor(q) PROVE Rest
  <2>1. target' = q /\ instance' = q /\ UNCHANGED <<row, shown>>
    BY <1>4 DEF OpenEditor
  <2>2. Fill(q) \/ UNCHANGED drafts
    BY <1>4 DEF OpenEditor
  <2>3. \A r \in Rows, f \in Fields : drafts'[r][f] # Unset => drafts'[r][f][1] = r
    BY <1>0, <1>2, <2>2, OwnDrafts
  <2> QED
    BY <1>2, <2>1, <2>3
<1>5. ASSUME NEW q \in Rows, Refetch(q) PROVE Rest
  <2>1. \A r \in Rows : shown'[r] = IF r = q THEN row[r] ELSE shown[r]
    BY <1>0, <1>5 DEF Refetch, DraftsTypeOK, Rowful
  <2> QED
    BY <1>2, <1>5, <2>1 DEF Refetch, screenVars, Opened
<1>6. ASSUME NEW g \in Fields, NEW kind, Type(g, kind) PROVE Rest
  <2>1. instance = target /\ instance \in Rows
    BY <1>0, <1>2, <1>6 DEF Type, DraftsTypeOK
  <2>2. \A r \in Rows, f \in Fields : drafts'[r][f] = IF r = instance /\ f = g
                                                    THEN <<target, kind>> ELSE drafts[r][f]
    BY <1>0, <1>6, <2>1 DEF Type, DraftsTypeOK, Rowful
  <2>3. \A r \in Rows, f \in Fields : drafts'[r][f] # Unset => drafts'[r][f][1] = r
    BY <1>2, <2>1, <2>2
  <2> QED
    BY <1>2, <1>6, <2>3 DEF Type, Opened
<1>7. ASSUME NEW q \in Rows, NEW g, OthersWrite(q, g) PROVE Rest
  <2>1. \A r \in Rows, f \in Fields : row'[r][f] = IF r = q /\ f = g
                                                 THEN <<r, "other">> ELSE row[r][f]
    BY <1>0, <1>7 DEF OthersWrite, DraftsTypeOK, Rowful
  <2> QED
    BY <1>2, <1>7, <2>1 DEF OthersWrite, screenVars, Opened
<1>8. ASSUME NEW s \in saves, Serve(s) PROVE Rest
  <2>1. \A r \in Rows, f \in Fields : row'[r][f] =
           IF r = s.row /\ f \in DOMAIN s.patch THEN s.patch[f] ELSE row[r][f]
    BY <1>0, <1>8 DEF Serve, DraftsTypeOK, Rowful, Saves
  <2> QED
    BY <1>2, <1>8, <2>1 DEF Serve, screenVars, Opened
<1>9. ASSUME NEW ss, Close(ss), UNCHANGED <<row, shown>>,
             Fill(instance) \/ Discard \/ UNCHANGED drafts
      PROVE  Rest
  <2>1. ~Opened'
    BY <1>9 DEF Close, Opened
  <2>2. instance \in Rows
    BY <1>0 DEF DraftsTypeOK
  <2>3. \A r \in Rows, f \in Fields : drafts'[r][f] # Unset => drafts'[r][f][1] = r
    BY <1>0, <1>2, <1>9, <2>2, OwnDrafts
  <2> QED
    BY <1>2, <1>9, <2>1, <2>3
<1>10. ASSUME UNCHANGED <<row, shown, screenVars>> PROVE Rest
  BY <1>2, <1>10 DEF screenVars, Opened
<1>11. ASSUME NEW g, Commit(g) PROVE Rest
  BY <1>9, <1>10, <1>11, CommitShaped DEF CommitShape
<1>12. ASSUME NEW s, Answer(s) PROVE Rest
  BY <1>9, <1>10, <1>12, AnswerShape
<1>13. ASSUME Dismiss PROVE Rest
  BY <1>9, <1>13 DEF Dismiss
<1>14. ASSUME NEW r, NEW f, Choose(r, f) PROVE Rest
  BY <1>10, <1>14 DEF Choose
<1>15. ASSUME NEW r, Retarget(r) PROVE Rest
  BY <1>15 DEF Retarget
<1>16. ASSUME UNCHANGED draftsVars PROVE Rest
  BY <1>10, <1>16 DEF draftsVars
<1>17. Rest
  <2> HIDE DEF Rest
  <2> QED
    BY <1>4, <1>5, <1>6, <1>7, <1>8, <1>11, <1>12, <1>13, <1>14, <1>15, <1>16 DEF DraftsNext
<1> QED
  BY <1>3, <1>17

\* Whatever rows are opened, saved and refetched, none is saved under another,
\* unless the editor is one that stays open while its row changes.
THEOREM RowsStayApart == DraftsSpec => []RowsKeepTheirOwn
<1>1. DraftsSpec => []OwnRows
  BY OwnRowsInit, OwnRowsNext, DraftsInvAlways, PTL DEF DraftsSpec
<1>2. OwnRows => RowsKeepTheirOwn
  BY DEF OwnRows, RowsKeepTheirOwn
<1> QED
  BY <1>1, <1>2, PTL

------------------------------------------------------------------------------
(* Saves of a row follow one another *)

Orderly == editor.gestures \subseteq editor.waits /\ editor.guard # "panel"

\* Where every gesture waits, every save in flight is remembered, and there
\* is one for each row, or one in all.
OneAtATime ==
    Orderly =>
        /\ \A s \in saves : s.guards
        /\ \A s, t \in saves : s.row = t.row => s = t
        /\ editor.follows # "bound" => \A s, t \in saves : s = t

LEMMA StillGuarding ==
  ASSUME NEW s \in Saves, s.guards = TRUE
  PROVE  [s EXCEPT !.guards = TRUE] = s
  BY Zenon DEF Saves

\* A request made while none is pending for its row joins the saves of other
\* rows, and those are remembered still.
LEMMA AskOneMore ==
  ASSUME DraftsInv, OneAtATime, Orderly, NEW r \in Rows, NEW p, ~Pending(r)
  PROVE  \E one : /\ one.row = r /\ one.guards = TRUE
                  /\ Ask(r, p) = saves \cup {one}
                  /\ \A s \in saves : s.row # r
                  /\ editor.follows # "bound" => saves = {}
<1> DEFINE one == [id |-> writes + 1, row |-> r, patch |-> p, guards |-> TRUE, served |-> FALSE]
<1>1. \A s \in saves : s \in Saves /\ s.guards = TRUE
  BY DEF DraftsInv, DraftsTypeOK, OneAtATime, Saves
<1>2. editor.follows # "bound" => saves = {}
  BY <1>1 DEF Pending
<1>3. editor.follows = "bound" => \A s \in saves : s.row # r
  BY <1>1 DEF Pending
<1>4. \A s \in saves : s.row # r
  BY <1>2, <1>3
<1>5. \A s \in saves : [s EXCEPT !.guards = @ /\ editor.follows = "bound" /\ s.row # r] = s
  <2> SUFFICES ASSUME NEW s \in saves
               PROVE  [s EXCEPT !.guards = @ /\ editor.follows = "bound" /\ s.row # r] = s
    OBVIOUS
  <2>1. (s.guards /\ editor.follows = "bound" /\ s.row # r) = TRUE
    BY <1>1, <1>2, <1>4
  <2>2. [s EXCEPT !.guards = @ /\ editor.follows = "bound" /\ s.row # r]
          = [s EXCEPT !.guards = TRUE]
    BY <2>1, Zenon
  <2> QED
    BY <1>1, <2>2, StillGuarding
<1>6. {[s EXCEPT !.guards = @ /\ editor.follows = "bound" /\ s.row # r] : s \in saves} = saves
  BY <1>5, Zenon
<1>7. Ask(r, p) = saves \cup {one}
  BY <1>6 DEF Ask
<1>8. one.row = r /\ one.guards = TRUE
  OBVIOUS
<1> HIDE DEF one
<1> QED
  BY <1>2, <1>4, <1>7, <1>8

LEMMA OrderStep == DraftsInv /\ OneAtATime /\ [DraftsNext]_draftsVars => OneAtATime'
<1> SUFFICES ASSUME DraftsInv, OneAtATime, [DraftsNext]_draftsVars PROVE OneAtATime'
  OBVIOUS
<1>0. DraftsTypeOK /\ saves \subseteq Saves
  BY DEF DraftsInv, DraftsTypeOK
<1>1. editor' = editor
  <2>1. \A g : Commit(g) => editor' = editor
    BY CommitShaped
  <2>2. \A s : Answer(s) => editor' = editor
    BY AnswerShape
  <2> QED
    BY <2>1, <2>2 DEF DraftsNext, draftsVars, OpenEditor, Retarget, Refetch, Type, Choose,
                      OthersWrite, Serve, Dismiss
<1> SUFFICES ASSUME Orderly PROVE OneAtATime'
  BY <1>1 DEF OneAtATime, Orderly
<1>2. ASSUME saves' \subseteq saves PROVE OneAtATime'
  BY <1>1, <1>2 DEF OneAtATime
<1>3. ASSUME NEW ss \in SUBSET saves, Close(ss) PROVE OneAtATime'
  BY <1>2, <1>3 DEF Close, Orderly
<1>4. ASSUME NEW r \in Rows, NEW p, ~Pending(r), saves' = Ask(r, p) PROVE OneAtATime'
  <2>1. PICK one : /\ one.row = r /\ one.guards = TRUE
                   /\ Ask(r, p) = saves \cup {one}
                   /\ \A s \in saves : s.row # r
                   /\ editor.follows # "bound" => saves = {}
    BY <1>4, AskOneMore
  <2> QED
    BY <1>1, <1>4, <2>1 DEF OneAtATime
<1>5. ASSUME NEW g, g \in {"button", "enter", "blur"}, Commit(g) PROVE OneAtATime'
  <2> DEFINE p == Patch(Draft, target)
  <2>1. CommitShape(p) /\ ~Pending(target)
    BY <1>5, CommitShaped DEF Orderly
  <2>2. target \in Rows
    BY <1>0, <2>1 DEF CommitShape, Opened, DraftsTypeOK
  <2> HIDE DEF p
  <2>3. CASE Close(saves)
    BY <1>3, <2>3
  <2>4. CASE Close(Ask(target, p))
    BY <1>4, <2>1, <2>2, <2>4 DEF Close, Orderly
  <2>5. CASE saves' = Ask(target, p)
    BY <1>4, <2>1, <2>2, <2>5
  <2> QED
    BY <2>1, <2>3, <2>4, <2>5 DEF CommitShape
<1>6. ASSUME NEW r \in Rows, NEW f, Choose(r, f) PROVE OneAtATime'
  BY <1>4, <1>6 DEF Choose, Orderly
<1>7. ASSUME NEW s \in saves, Serve(s) PROVE OneAtATime'
  <2> DEFINE new == [s EXCEPT !.served = TRUE]
  <2>1. saves' = (saves \ {s}) \cup {new}
    BY <1>7 DEF Serve
  <2>2. new.row = s.row /\ new.guards = s.guards
    BY <1>0, ServedSave
  <2> HIDE DEF new
  <2> QED
    BY <1>1, <2>1, <2>2 DEF OneAtATime
<1>8. ASSUME NEW s \in saves, Answer(s) PROVE OneAtATime'
  <2>1. saves \ {s} \in SUBSET saves
    OBVIOUS
  <2> QED
    BY <1>2, <1>3, <1>8, <2>1, AnswerShape
<1>9. CASE Dismiss
  BY <1>3, <1>9 DEF Dismiss
<1>10. CASE UNCHANGED saves
  BY <1>2, <1>10
<1>11. (\E r \in Rows : OpenEditor(r) \/ Retarget(r) \/ Refetch(r)) => UNCHANGED saves
  BY DEF OpenEditor, Retarget, Refetch
<1>12. \A f, k : Type(f, k) => UNCHANGED saves
  BY DEF Type
<1>13. \A r, f : OthersWrite(r, f) => UNCHANGED saves
  BY DEF OthersWrite
<1>14. UNCHANGED draftsVars => UNCHANGED saves
  BY DEF draftsVars
<1> QED
  BY <1>5, <1>6, <1>7, <1>8, <1>9, <1>10, <1>11, <1>12, <1>13, <1>14 DEF DraftsNext

\* Two saves of one row are under way together only if a gesture does not
\* wait, or a panel took the memory of the first with it.
THEOREM SavesFollowOneAnother == DraftsSpec => []SavesOfARowInOrder
<1>1. DraftsInit => OneAtATime
  BY DEF DraftsInit, OneAtATime
<1>2. DraftsSpec => []OneAtATime
  BY <1>1, OrderStep, DraftsInvAlways, PTL DEF DraftsSpec
<1>3. OneAtATime => SavesOfARowInOrder
  BY DEF OneAtATime, Orderly, SavesOfARowInOrder
<1> QED
  BY <1>2, <1>3, PTL

------------------------------------------------------------------------------
(* What was not touched *)

\* A field of an open draft that nobody typed in holds what was on the
\* screen when the draft was filled.
Copied ==
    Opened /\ editor.filled = "opening" =>
        \A f \in Fields : f \notin typed /\ Draft[f] # Unset => Draft[f] = seen[instance][f]

LEMMA CopiedStep == DraftsInv /\ Copied /\ [DraftsNext]_draftsVars => Copied'
<1> SUFFICES ASSUME DraftsInv, Copied, [DraftsNext]_draftsVars PROVE Copied'
  OBVIOUS
<1>0. DraftsTypeOK
  BY DEF DraftsInv
<1>1. ASSUME NEW r \in Rows, OpenEditor(r), editor.filled = "opening" PROVE Copied'
  <2>1. /\ drafts'[r] = [f \in Fields |-> IF f \in editor.covers THEN shown[r][f] ELSE Unset]
        /\ seen'[r] = shown[r]
        /\ instance' = r
    BY <1>0, <1>1 DEF OpenEditor, Fill, DraftsTypeOK, Rowful
  <2>2. ASSUME NEW f \in Fields, drafts'[r][f] # Unset PROVE drafts'[r][f] = shown[r][f]
    BY <2>1, <2>2
  <2> QED
    BY <2>1, <2>2 DEF Copied, Draft
<1>2. ASSUME NEW r \in Rows, OpenEditor(r), editor.filled # "opening" PROVE Copied'
  BY <1>2 DEF OpenEditor, Copied
<1>3. ASSUME NEW r, Retarget(r) PROVE Copied'
  BY <1>3 DEF Retarget, Copied, Draft, Opened
<1>4. ASSUME NEW g \in Fields, NEW k, Type(g, k) PROVE Copied'
  <2> SUFFICES ASSUME editor.filled = "opening", NEW f \in Fields,
                      f \notin typed', drafts'[instance][f] # Unset
               PROVE  drafts'[instance][f] = seen'[instance][f]
    BY <1>4 DEF Type, Copied, Draft
  <2>1. f # g /\ f \notin typed /\ seen' = seen /\ Opened
    BY <1>4 DEF Type
  <2>2. drafts'[instance][f] = drafts[instance][f]
    BY <1>0, <1>4, <2>1 DEF Type, DraftsTypeOK, Rowful
  <2> QED
    BY <2>1, <2>2 DEF Copied, Draft
<1>5. ASSUME NEW ss, Close(ss) PROVE Copied'
  BY <1>5 DEF Close, Copied, Opened
<1>6. ASSUME UNCHANGED <<editor, screenVars>> PROVE Copied'
  BY <1>6 DEF screenVars, Copied, Opened, Draft
<1>7. ASSUME NEW g, Commit(g) PROVE Copied'
  BY <1>5, <1>6, <1>7, CommitShaped DEF CommitShape
<1>8. ASSUME NEW s, Answer(s) PROVE Copied'
  BY <1>5, <1>6, <1>8, AnswerShape
<1>9. CASE Dismiss
  BY <1>5, <1>9 DEF Dismiss
<1>10. (\E r : Refetch(r)) \/ (\E r, f : Choose(r, f) \/ OthersWrite(r, f)) \/ (\E s : Serve(s))
         => UNCHANGED <<editor, screenVars>>
  BY DEF Refetch, Choose, OthersWrite, Serve
<1>11. UNCHANGED draftsVars => UNCHANGED <<editor, screenVars>>
  BY DEF draftsVars
<1> QED
  BY <1>1, <1>2, <1>3, <1>4, <1>6, <1>7, <1>8, <1>9, <1>10, <1>11 DEF DraftsNext

\* A field its user did not touch goes out only from an editor of whole
\* drafts, or of drafts kept for good, or if it changed under the editor.
THEOREM UntouchedStays == DraftsSpec => UntouchedGoesOnlyWhenOvertaken
<1> DEFINE Excused(s, f) ==
       \/ f \in typed \/ "choose" \in editor.gestures
       \/ editor.sends = "draft" \/ editor.filled = "typing"
       \/ shown[s.row][f] # seen[instance][f]
    Guarded == \A s \in saves' : s.id > writes => \A f \in DOMAIN s.patch : Excused(s, f)
<1>1. DraftsInit => Copied
  BY DEF DraftsInit, Copied, Opened
<1>2. DraftsInv /\ Copied /\ [DraftsNext]_draftsVars => [Guarded]_draftsVars
  <2> SUFFICES ASSUME DraftsInv, Copied, [DraftsNext]_draftsVars,
                      NEW s \in saves', s.id > writes, NEW f \in DOMAIN s.patch
               PROVE  Excused(s, f)
    OBVIOUS
  <2>1. DraftsTypeOK /\ writes \in Nat
    BY DraftsAssumption DEF DraftsInv, DraftsTypeOK
  <2>2. ~\E t \in saves : SameSave(s, t)
    <3>1. \A t \in saves : t.id \in Nat /\ t.id <= writes
      BY <2>1 DEF DraftsInv, Numbered, DraftsTypeOK, Saves
    <3> QED
      BY <2>1, <3>1 DEF SameSave
  <2>3. CASE Opened /\ s.row = target /\ s.patch = Patch(Draft, target)
    <3>1. target \in Rows
      BY <2>1, <2>3 DEF Opened, DraftsTypeOK
    <3>2. /\ f \in editor.covers /\ Draft[f] # Unset
          /\ editor.sends = "draft" \/ Draft[f] # shown[target][f]
      BY <2>1, <2>3, <3>1, DraftTyped, PatchOfDraft
    <3>3. f \in Fields /\ editor.filled \in {"opening", "mounting", "typing"}
          /\ (editor.filled = "mounting" => editor.sends = "draft")
      BY <2>1, <3>2, EditorsKnown DEF DraftsTypeOK, EditorKnown
    <3> QED
      BY <2>3, <3>2, <3>3 DEF Copied
  <2>4. CASE "choose" \in editor.gestures
    BY <2>4
  <2> QED
    BY <2>2, <2>3, <2>4, SavesOfAStep
<1>3. DraftsSpec => []Copied
  BY <1>1, CopiedStep, DraftsInvAlways, PTL DEF DraftsSpec
<1>4. DraftsSpec => [][Guarded]_draftsVars
  BY <1>2, <1>3, DraftsInvAlways, PTL DEF DraftsSpec
<1> QED
  BY <1>4 DEF UntouchedGoesOnlyWhenOvertaken

============================================================================
