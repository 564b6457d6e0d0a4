---------------------------- MODULE ProjectTrees -----------------------------
(***************************************************************************)
(* The project trees of the browser application.  A page loads some of the  *)
(* nodes as a flat list, groups them by parent, and draws them from an      *)
(* anchor downwards, as far as rows are open and as filter and search allow. *)
(* Being archived and having the status "archived" are two different things. *)
(***************************************************************************)
EXTENDS Naturals, FiniteSets

CONSTANTS
    MaxNode,        \* nodes are 1..MaxNode, children after their parents
    Named,          \* the nodes the search words match
    MaxTreeChanges  \* bound: statuses set, projects archived, restored and linked

ASSUME ProjectTreesAssumption ==
    /\ MaxNode \in Nat \ {0} /\ MaxTreeChanges \in Nat
    /\ Named \subseteq 1..MaxNode

Nodes == 1..MaxNode
Top   == 0

Trees ==
    [walks    : {"top", "home"},                    \* drawn from: the nodes without parent,
                                                    \* or the children of the page's project
     loads    : {"subtrees", "roots", "home", "team"}, \* of all roots; of the page's project
     archived : BOOLEAN,                            \* are archived nodes loaded, too?
     opens    : {"always", "all", "roots", "none"}, \* the rows open at first
     words    : BOOLEAN,                            \* is there a search?
     statuses : SUBSET {"all", "active", "archived"}]

AllProjectsTree ==
    [walks |-> "top", loads |-> "subtrees", archived |-> FALSE, opens |-> "none",
     words |-> TRUE, statuses |-> {"all", "active"}]
AdminProjectsTree ==
    [AllProjectsTree EXCEPT !.archived = TRUE, !.opens = "always", !.words = FALSE,
                            !.statuses = {"all", "active", "archived"}]
TeamProjectsTree ==
    [AllProjectsTree EXCEPT !.loads = "team", !.opens = "roots", !.words = FALSE,
                            !.statuses = {"all"}]
TeamProjectRow  == [TeamProjectsTree EXCEPT !.opens = "none"]
PickerRow       == [TeamProjectsTree EXCEPT !.loads = "roots", !.opens = "all"]
SubProjectsTree == [TeamProjectRow EXCEPT !.walks = "home", !.loads = "home"]
StageOptions    == [PickerRow EXCEPT !.loads = "home", !.opens = "always"]

TreePages ==
    {AllProjectsTree, AdminProjectsTree, TeamProjectsTree, TeamProjectRow, PickerRow,
     SubProjectsTree, StageOptions}

VARIABLES
    tree,        \* the tree on the screen
    home,        \* the page's project
    parent, status, is_archived, linked, \* the nodes at the server; linked to the team
    toggled,     \* rows opened or closed by hand
    statusFilter, searching,
    treeChanges

treeVars == <<tree, home, parent, status, is_archived, linked, toggled, statusFilter,
              searching, treeChanges>>

ProjectTreesTypeOK ==
    /\ tree \in TreePages
    /\ home \in Nodes
    /\ parent \in [Nodes -> Nodes \cup {Top}]
    /\ status \in [Nodes -> {"active", "archived"}]
    /\ {is_archived, linked, toggled} \subseteq SUBSET Nodes
    /\ statusFilter \in tree.statuses
    /\ searching \in BOOLEAN
    /\ treeChanges \in 0..MaxTreeChanges

ProjectTreesInit ==
    /\ tree \in TreePages
    /\ parent \in {f \in [Nodes -> Nodes \cup {Top}] : \A n \in Nodes : f[n] < n}
    /\ home \in IF tree.loads = "home" THEN Nodes ELSE {1}
    /\ linked \in IF tree.loads = "team" THEN SUBSET Nodes ELSE {{}}
    /\ status = [n \in Nodes |-> "active"]
    /\ is_archived = {} /\ toggled = {}
    /\ statusFilter = "all" /\ searching = FALSE
    /\ treeChanges = 0

-----------------------------------------------------------------------------
(* What a page loads and draws.                                             *)

Ancestors ==
    LET above[n \in Nodes] ==
            IF parent[n] = Top THEN {} ELSE {parent[n]} \cup above[parent[n]]
    IN  above

Roots == {n \in Nodes : parent[n] = Top}

\* The subtree under r: archived nodes and what is below them are left out,
\* r itself is not.
GetSubtree(r) ==
    {n \in Nodes :
        /\ r = n \/ r \in Ancestors[n]
        /\ tree.archived \/ \A m \in ({n} \cup Ancestors[n]) \ ({r} \cup Ancestors[r]) :
                                m \notin is_archived}

Loaded ==
    LET heads == IF tree.archived THEN Roots ELSE Roots \ is_archived
    IN  CASE tree.loads = "subtrees" -> UNION {GetSubtree(r) : r \in heads}
          [] tree.loads = "roots"    -> heads
          [] tree.loads = "home"     -> GetSubtree(home)
          [] tree.loads = "team"     -> linked \ is_archived

passesStatus(n) ==
    CASE statusFilter # "all" -> status[n] = statusFilter
      [] tree = AllProjectsTree -> status[n] # "archived"
      [] OTHER -> TRUE

selfMatches(n) == passesStatus(n) /\ (searching => n \in Named)

\* Mutant: a row is drawn only if it matches itself.
visibleAlone(n) == selfMatches(n)

\* A row is drawn if it or a row under it matches.
nodeVisible(n) == \E m \in Loaded : (m = n \/ n \in Ancestors[m]) /\ selfMatches(m)

isOpen(n) ==
    CASE tree.opens = "always" \/ searching -> TRUE
      [] OTHER -> (n \in toggled) #
                  (tree.opens = "all" \/ (tree.opens = "roots" /\ n \in Roots))

Anchor == IF tree.walks = "top" THEN Top ELSE home

\* The rows between the anchor and n.
Path(n) == Ancestors[n] \ (IF Anchor = Top THEN {} ELSE {Anchor} \cup Ancestors[Anchor])

Shown ==
    {n \in Loaded :
        /\ Anchor = Top \/ Anchor \in Ancestors[n]
        /\ nodeVisible(n)
        /\ \A m \in Path(n) : m \in Loaded /\ nodeVisible(m) /\ isOpen(m)}

-----------------------------------------------------------------------------
Toggle(n) ==
    /\ tree.opens # "always" /\ ~searching
    /\ n \in Shown
    /\ \E m \in Loaded : parent[m] = n
    /\ toggled' = (toggled \ {n}) \cup ({n} \ toggled)
    /\ UNCHANGED <<tree, home, parent, status, is_archived, linked, statusFilter, searching,
                   treeChanges>>

setStatusFilter(f) ==
    /\ f \in tree.statuses
    /\ statusFilter' = f
    /\ UNCHANGED <<tree, home, parent, status, is_archived, linked, toggled, searching,
                   treeChanges>>

setSearch ==
    /\ tree.words
    /\ searching' = ~searching
    /\ UNCHANGED <<tree, home, parent, status, is_archived, linked, toggled, statusFilter,
                   treeChanges>>

\* Somebody writes a node, and the page loads the nodes again.
Write ==
    /\ treeChanges < MaxTreeChanges
    /\ treeChanges' = treeChanges + 1
    /\ UNCHANGED <<tree, home, parent, toggled, statusFilter, searching>>

SetStatus(n) ==
    /\ Write
    /\ status' = [status EXCEPT ![n] = IF @ = "active" THEN "archived" ELSE "active"]
    /\ UNCHANGED <<is_archived, linked>>

archiveProject(n) ==
    /\ Write
    /\ n \notin is_archived
    /\ tree = AdminProjectsTree => n \in Shown /\ status[n] # "archived"
    /\ is_archived' = is_archived \cup {n}
    /\ UNCHANGED <<status, linked>>

unarchiveProject(n) ==
    /\ Write
    /\ n \in is_archived
    /\ tree = AdminProjectsTree => n \in Shown /\ status[n] = "archived"
    /\ is_archived' = is_archived \ {n}
    /\ UNCHANGED <<status, linked>>

Link(n) ==
    /\ Write
    /\ tree.loads = "team"
    /\ linked' = (linked \ {n}) \cup ({n} \ linked)
    /\ UNCHANGED <<status, is_archived>>

ProjectTreesNext ==
    \/ \E n \in Nodes : Toggle(n) \/ SetStatus(n) \/ archiveProject(n) \/ unarchiveProject(n)
                        \/ Link(n)
    \/ \E f \in {"all", "active", "archived"} : setStatusFilter(f)
    \/ setSearch

ProjectTreesSpec == ProjectTreesInit /\ [][ProjectTreesNext]_treeVars

-----------------------------------------------------------------------------
\* Whatever a page has loaded and filter and search match is drawn, however
\* rows were opened and nodes archived, if the rows above it are open; while
\* searching it is drawn in any case, on the page that says so.  Two kinds of
\* tree lose nodes: the stages of a project that is itself a stage, whose
\* nodes are looked for from the top, and the projects of a team with a node
\* in between that is not the team's.
MatchesAreInSight ==
    \A n \in Loaded :
        \/ ~selfMatches(n)
        \/ \E m \in Path(n) : ~isOpen(m)
        \/ n \in Shown
        \/ Anchor = n
        \/ tree = StageOptions /\ parent[home] # Top
        \/ tree.loads = "team" /\ \E m \in Ancestors[n] : m \notin linked \ is_archived
=============================================================================
