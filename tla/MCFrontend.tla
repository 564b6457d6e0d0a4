----------------------------- MODULE MCFrontend ------------------------------
(***************************************************************************)
(* The screens of the browser application, for model checking: a behaviour  *)
(* is one of one screen, and the others stay as they are, in one of their   *)
(* initial states.  The screens share nothing but the server, of which each *)
(* models the part it reads and writes.                                     *)
(***************************************************************************)
EXTENDS Drafts, CreateForms, LiveViews, Breakdown, Listings, ProjectTrees, SprintPages,
        RetroVoting, RowActions, Shell

VARIABLE screen

frontendVars ==
    <<screen, draftsVars, formVars, liveVars, breakVars, listVars, treeVars, sprintVars, voteVars,
      actionVars, shellVars>>

Init ==
    /\ screen \in {"drafts", "forms", "views", "breakdown", "lists", "trees", "sprints", "votes",
                   "actions", "shell"}
    /\ DraftsInit /\ (screen # "drafts" => editor = InlineTitle)
    /\ CreateFormsInit /\ (screen # "forms" => form = CreateItemPanel)
    /\ LiveViewsInit /\ (screen # "views" => query = useBacklog)
    /\ BreakdownInit /\ (screen # "breakdown" => sprinted = {})
    /\ ListingsInit /\ (screen # "lists" => listing = BacklogList /\ \A n \in PageSizes : pageSize <= n)
    /\ ProjectTreesInit /\ (screen # "trees" => tree = TeamProjectsTree /\ linked = {} /\ \A n \in Nodes : parent[n] = Top)
    /\ SprintPagesInit /\ (screen # "sprints" => shownSprint = NoSprint /\ itemStatus = "open")
    /\ RetroVotingInit
    /\ RowActionsInit /\ (screen # "actions" => button = deleteSprint /\ onPage = CHOOSE r \in Targets : TRUE)
    /\ ShellInit /\ (screen # "shell" => ~mustChange /\ \A n \in IdleLimits : idleChoice <= n)

Next ==
    /\ UNCHANGED screen
    /\ \/ /\ screen = "drafts" /\ DraftsNext
          /\ UNCHANGED <<formVars, liveVars, breakVars, listVars, treeVars, sprintVars,
                         voteVars, actionVars, shellVars>>
       \/ /\ screen = "forms" /\ CreateFormsNext
          /\ UNCHANGED <<draftsVars, liveVars, breakVars, listVars, treeVars, sprintVars,
                         voteVars, actionVars, shellVars>>
       \/ /\ screen = "views" /\ LiveViewsNext
          /\ UNCHANGED <<draftsVars, formVars, breakVars, listVars, treeVars, sprintVars,
                         voteVars, actionVars, shellVars>>
       \/ /\ screen = "breakdown" /\ BreakdownNext
          /\ UNCHANGED <<draftsVars, formVars, liveVars, listVars, treeVars, sprintVars,
                         voteVars, actionVars, shellVars>>
       \/ /\ screen = "lists" /\ ListingsNext
          /\ UNCHANGED <<draftsVars, formVars, liveVars, breakVars, treeVars, sprintVars,
                         voteVars, actionVars, shellVars>>
       \/ /\ screen = "trees" /\ ProjectTreesNext
          /\ UNCHANGED <<draftsVars, formVars, liveVars, breakVars, listVars, sprintVars,
                         voteVars, actionVars, shellVars>>
       \/ /\ screen = "sprints" /\ SprintPagesNext
          /\ UNCHANGED <<draftsVars, formVars, liveVars, breakVars, listVars, treeVars,
                         voteVars, actionVars, shellVars>>
       \/ /\ screen = "votes" /\ RetroVotingNext
          /\ UNCHANGED <<draftsVars, formVars, liveVars, breakVars, listVars, treeVars,
                         sprintVars, actionVars, shellVars>>
       \/ /\ screen = "actions" /\ RowActionsNext
          /\ UNCHANGED <<draftsVars, formVars, liveVars, breakVars, listVars, treeVars,
                         sprintVars, voteVars, shellVars>>
       \/ /\ screen = "shell" /\ ShellNext
          /\ UNCHANGED <<draftsVars, formVars, liveVars, breakVars, listVars, treeVars,
                         sprintVars, voteVars, actionVars>>

Spec == Init /\ [][Next]_frontendVars /\ LiveViewsFairness

\* Every screen's variables keep to their sets.
FrontendTypeOK ==
    /\ screen = "drafts" => DraftsTypeOK
    /\ screen = "forms" => CreateFormsTypeOK
    /\ screen = "views" => LiveViewsTypeOK
    /\ screen = "breakdown" => BreakdownTypeOK
    /\ screen = "lists" => ListingsTypeOK
    /\ screen = "trees" => ProjectTreesTypeOK
    /\ screen = "sprints" => SprintPagesTypeOK
    /\ screen = "votes" => RetroVotingTypeOK
    /\ screen = "actions" => RowActionsTypeOK
    /\ screen = "shell" => ShellTypeOK
=============================================================================
