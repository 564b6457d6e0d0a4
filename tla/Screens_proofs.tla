--------------------------- MODULE Screens_proofs ---------------------------
(***************************************************************************)
(* Proofs about Listings, ProjectTrees, LiveViews and Shell, for any set of *)
(* rows, nodes, routes and tabs, and about the screens taken together,      *)
(* whose other components have proofs of their own.                         *)
(***************************************************************************)
EXTENDS MCFrontend, Drafts_proofs, Forms_proofs, Chains_proofs

------------------------------------------------------------------------------
(* Lists: filters, sorting and pages *)

\* Every list of the pages is a record of Lists, its default status is one of
\* its statuses, and if it keeps a page beyond the last, no column sorts it
\* without going back to page one.
LEMMA ListingPageFacts ==
    ASSUME NEW l \in ListingPages
    PROVE  /\ l \in Lists
           /\ NoFilters(l) \in Filters(l) /\ NoFilters(l).chosenIn = {}
           /\ l.pages = "kept" => l.cycle = 0 \/ l.resets
<1>1. /\ l \in Lists /\ Default(l) \in l.statuses
      /\ l.pages = "kept" => l.cycle = 0 \/ l.resets
  <2>1. CASE l = BacklogList
    BY <2>1 DEF BacklogList, Lists, Default
  <2>2. CASE l = EpicList
    BY <2>2 DEF EpicList, BacklogList, Lists, Default
  <2>3. CASE l = UserList
    BY <2>3 DEF UserList, EpicList, BacklogList, Lists, Default
  <2>4. CASE l = MilestoneList
    BY <2>4 DEF MilestoneList, UserList, EpicList, BacklogList, Lists, Default
  <2>5. CASE l = SprintItemList
    BY <2>5 DEF SprintItemList, UserList, EpicList, BacklogList, Lists, Default
  <2>6. CASE l = SprintList
    BY <2>6 DEF SprintList, SprintItemList, UserList, EpicList, BacklogList, Lists, Default
  <2>7. CASE l = MemberList
    BY <2>7 DEF MemberList, SprintList, SprintItemList, UserList, EpicList, BacklogList, Lists,
                Default
  <2> QED BY <2>1, <2>2, <2>3, <2>4, <2>5, <2>6, <2>7 DEF ListingPages
<1> QED BY <1>1 DEF NoFilters, Filters

\* What a list computes are rows.
LEMMA ListedRowsOnly ==
    ASSUME NEW p, NEW f, NEW rs, NEW g
    PROVE  Listed(Answered(p, f, rs), g) \subseteq ListedRows
BY DEF Listed, Answered

LEMMA ListedRowsCount == Cardinality(ListedRows) \in Nat
BY ListingsAssumption, FS_CardinalityType

-----------------------------------------------------------------------------
LEMMA ListingsInitTyped == ListingsInit => ListingsTypeOK
<1> SUFFICES ASSUME ListingsInit PROVE ListingsTypeOK
  OBVIOUS
<1>1. listing \in ListingPages
  BY DEF ListingsInit
<1>2. NoFilters(listing) \in Filters(listing)
  BY <1>1, ListingPageFacts
<1>3. pageNo \in 1..(Cardinality(ListedRows) + 1)
  BY ListedRowsCount DEF ListingsInit
<1>4. 0 \in 0..MaxRowChanges
  BY ListingsAssumption
<1> QED BY <1>1, <1>2, <1>3, <1>4 DEF ListingsInit, ListingsTypeOK, RowStates

\* A list drawn again is a list of rows.
LEMMA DrawTyped ==
    ASSUME ListingsTypeOK, NEW p, NEW f, NEW s, NEW rs, Draw(p, f, s, rs)
    PROVE  list' \subseteq ListedRows
BY ListedRowsOnly DEF Draw, ListingsTypeOK

\* Setting a filter leaves a filter of the list.
LEMMA FilterChosenTyped ==
    ASSUME ListingsTypeOK, NEW st, NEW w \in BOOLEAN, FilterChosen(st, w)
    PROVE  /\ filters' \in Filters(listing) /\ onList \in Projects
           /\ filters'.chosenIn = filters.chosenIn \cup {onList}
           /\ filters'.status = st /\ filters'.words = w
<1>1. onList \in Projects
  BY DEF ListingsTypeOK, FilterChosen
<1>2. filters.chosenIn \in SUBSET Projects
  BY DEF ListingsTypeOK, Filters
<1> QED BY <1>1, <1>2 DEF FilterChosen, Filters

LEMMA ListingsNextTyped == ListingsTypeOK /\ [ListingsNext]_listVars => ListingsTypeOK'
<1> SUFFICES ASSUME ListingsTypeOK, [ListingsNext]_listVars PROVE ListingsTypeOK'
  OBVIOUS
<1> USE DEF ListingsTypeOK
<1>a. NoFilters(listing) \in Filters(listing)
  BY ListingPageFacts
<1>b. ASSUME NEW p \in Projects PROVE kept[p] \in Filters(listing)
  BY <1>a
<1>c. 1 \in 1..(Cardinality(ListedRows) + 1)
  BY ListedRowsCount
<1>1. ASSUME NEW p \in Projects, OpenList(p) PROVE ListingsTypeOK'
  <2>1. filters' \in Filters(listing)
    BY <1>1, <1>b DEF OpenList
  <2>2. list' \subseteq ListedRows
    BY <1>1, DrawTyped DEF OpenList
  <2> QED BY <1>1, <2>1, <2>2 DEF OpenList
<1>2. ASSUME NEW p \in Projects, Travel(p) PROVE ListingsTypeOK'
  <2>1. list' \subseteq ListedRows
    BY <1>2, DrawTyped DEF Travel
  <2> QED BY <1>2, <2>1 DEF Travel
<1>3. CASE LeaveList
  BY <1>3, <1>a, <1>c DEF LeaveList
<1>4. CASE toggleSort
  <2>1. list' \subseteq ListedRows
    BY <1>4, DrawTyped DEF toggleSort
  <2>2. sort' \in {"none", "asc", "desc"}
    BY <1>4 DEF toggleSort, nextSort
  <2> QED BY <1>4, <1>c, <2>1, <2>2 DEF toggleSort
<1>5. ASSUME NEW st \in {"active", "all", "closed"}, NEW w \in BOOLEAN, SetFilter(st, w)
      PROVE  ListingsTypeOK'
  <2>1. filters' \in Filters(listing) /\ onList \in Projects
    BY <1>5, FilterChosenTyped DEF SetFilter
  <2>2. list' \subseteq ListedRows
    BY <1>5, DrawTyped DEF SetFilter, FilterChosen
  <2>3. kept' \in [Projects -> Filters(listing) \cup {NoFilters(listing)}]
    BY <1>5, <2>1 DEF SetFilter
  <2> QED BY <1>5, <1>c, <2>1, <2>2, <2>3 DEF SetFilter, FilterChosen
<1>6. ASSUME NEW n \in PageSizes, setPageSize(n) PROVE ListingsTypeOK'
  BY <1>6 DEF setPageSize
<1>7. ASSUME NEW n \in 1..Cardinality(ListedRows), Turn(n) PROVE ListingsTypeOK'
  <2>1. n \in 1..(Cardinality(ListedRows) + 1)
    BY ListedRowsCount
  <2> QED BY <1>7, <2>1 DEF Turn
<1>8. ASSUME NEW p \in Projects, NEW x \in ListedRows, NEW st \in RowStates,
             RowChanges(p, x, st)
      PROVE  ListingsTypeOK'
  <2>1. list' \subseteq ListedRows /\ shrunk' \in BOOLEAN
    BY <1>8, DrawTyped DEF RowChanges
  <2>2. rowChanges' \in 0..MaxRowChanges
    BY <1>8, ListingsAssumption DEF RowChanges
  <2>3. stock' \in [Projects -> [ListedRows -> RowStates]]
    BY <1>8 DEF RowChanges
  <2> QED BY <1>8, <2>1, <2>2, <2>3 DEF RowChanges
<1>9. CASE UNCHANGED listVars
  BY <1>9 DEF listVars
<1> QED BY <1>1, <1>2, <1>3, <1>4, <1>5, <1>6, <1>7, <1>8, <1>9 DEF ListingsNext

\* The variables of every list keep to their sets.
THEOREM ListingsTyped == ListingsSpec => []ListingsTypeOK
BY ListingsInitTyped, ListingsNextTyped, PTL DEF ListingsSpec

-----------------------------------------------------------------------------
(* Filters kept for a project were chosen there.                            *)

\* What makes it inductive: the filters of a list on the screen were chosen
\* in its project, unless the list was handed the project; a list that was
\* left has forgotten them, and one that keeps none has none kept.
ChosenAtHome ==
    /\ FiltersStayHome
    /\ onList = Away => filters.chosenIn = {}
    /\ onList # Away /\ onList \notin entered => filters.chosenIn \subseteq {onList}
    /\ ~listing.keeps => \A p \in Projects : kept[p].chosenIn = {}

LEMMA ChosenAtHomeInit == ListingsInit => ChosenAtHome
<1> SUFFICES ASSUME ListingsInit PROVE ChosenAtHome
  OBVIOUS
<1>1. listing \in ListingPages
  BY DEF ListingsInit
<1>2. NoFilters(listing).chosenIn = {}
  BY <1>1, ListingPageFacts
<1> QED BY <1>2 DEF ListingsInit, ChosenAtHome, FiltersStayHome

LEMMA ChosenAtHomeNext ==
    ListingsTypeOK /\ ChosenAtHome /\ [ListingsNext]_listVars => ChosenAtHome'
<1> SUFFICES ASSUME ListingsTypeOK, ChosenAtHome, [ListingsNext]_listVars PROVE ChosenAtHome'
  OBVIOUS
<1> USE DEF ChosenAtHome, FiltersStayHome
<1>a. listing \in ListingPages /\ onList \in Projects \cup {Away}
  BY DEF ListingsTypeOK
<1>1. ASSUME NEW p \in Projects, OpenList(p) PROVE ChosenAtHome'
  <2>1. p # Away
    BY ListingsAssumption
  <2>2. p \notin entered => filters'.chosenIn \subseteq {p}
    BY <1>1 DEF OpenList
  <2> QED BY <1>1, <2>1, <2>2 DEF OpenList
<1>2. ASSUME NEW p \in Projects, Travel(p) PROVE ChosenAtHome'
  <2>1. p # Away
    BY ListingsAssumption
  <2> QED BY <1>2, <2>1 DEF Travel
<1>3. CASE LeaveList
  <2>1. filters'.chosenIn = {}
    BY <1>3, <1>a, ListingPageFacts DEF LeaveList
  <2> QED BY <1>3, <2>1 DEF LeaveList
<1>4. CASE toggleSort
  BY <1>4 DEF toggleSort
<1>5. ASSUME NEW st \in {"active", "all", "closed"}, NEW w \in BOOLEAN, SetFilter(st, w)
      PROVE  ChosenAtHome'
  <2>1. filters'.chosenIn = filters.chosenIn \cup {onList} /\ onList \in Projects
    BY <1>5, FilterChosenTyped DEF SetFilter
  <2>2. onList # Away /\ UNCHANGED <<listing, onList, entered>>
    BY <1>5 DEF SetFilter, FilterChosen
  <2>3. onList \notin entered => filters'.chosenIn \subseteq {onList}
    BY <2>1, <2>2
  <2>4. CASE listing.keeps
    <3>1. kept' = [kept EXCEPT ![onList] = filters']
      BY <1>5, <2>4 DEF SetFilter
    <3>2. \A p \in Projects : kept'[p] = IF p = onList THEN filters' ELSE kept[p]
      BY <2>1, <3>1 DEF ListingsTypeOK
    <3> QED BY <2>2, <2>3, <2>4, <3>2
  <2>5. CASE ~listing.keeps
    BY <1>5, <2>2, <2>3, <2>5 DEF SetFilter
  <2> QED BY <2>4, <2>5
<1>6. ASSUME NEW n \in PageSizes, setPageSize(n) PROVE ChosenAtHome'
  BY <1>6 DEF setPageSize
<1>7. ASSUME NEW n \in 1..Cardinality(ListedRows), Turn(n) PROVE ChosenAtHome'
  BY <1>7 DEF Turn
<1>8. ASSUME NEW p \in Projects, NEW x \in ListedRows, NEW st \in RowStates,
             RowChanges(p, x, st)
      PROVE  ChosenAtHome'
  BY <1>8 DEF RowChanges
<1>9. CASE UNCHANGED listVars
  BY <1>9 DEF listVars
<1> QED BY <1>1, <1>2, <1>3, <1>4, <1>5, <1>6, <1>7, <1>8, <1>9 DEF ListingsNext

\* The filters kept for a project were chosen there, for any projects and
\* every list, unless it was handed the project.
THEOREM FiltersAreKeptAtHome == ListingsSpec => []FiltersStayHome
<1>1. ListingsInit => ListingsTypeOK /\ ChosenAtHome
  BY ListingsInitTyped, ChosenAtHomeInit
<1>2. (ListingsTypeOK /\ ChosenAtHome) /\ [ListingsNext]_listVars
      => (ListingsTypeOK /\ ChosenAtHome)'
  BY ListingsNextTyped, ChosenAtHomeNext
<1>3. ListingsTypeOK /\ ChosenAtHome => FiltersStayHome
  BY DEF ChosenAtHome
<1> QED BY <1>1, <1>2, <1>3, PTL DEF ListingsSpec

-----------------------------------------------------------------------------
(* The rows drawn are the ones asked for.                                   *)

\* Filters the page cannot tell apart: it names the search, and the status
\* only where it notices it or the server answers differently.
Alike(f, g) ==
    /\ f.words = g.words
    /\ f = g \/ (~listing.notices /\ "closed" \notin {f.status, g.status})

\* What makes it inductive: the values the rows were computed from are those
\* of the list, its filters and its rows now, except on a list just left.
Computed ==
    /\ onList = Away => basis = <<>>
    /\ onList # Away =>
          /\ basis = Basis(onList, filters, sort, stock)
          /\ \E f \in Filters(listing) :
                Alike(f, filters) /\ list = Listed(Answered(onList, f, stock), f)

\* The server answers alike to filters that ask both for closed rows or both
\* for all of them.
LEMMA AnsweredAlike ==
    ASSUME NEW f, NEW g, NEW p, NEW rs, (f.status = "closed") <=> (g.status = "closed")
    PROVE  Answered(p, f, rs) = Answered(p, g, rs)
BY DEF Answered

\* The page makes the same of an answer for filters of one status and search.
LEMMA ListedAlike ==
    ASSUME NEW f, NEW g, NEW answer, f.status = g.status, f.words = g.words
    PROVE  Listed(answer, f) = Listed(answer, g)
BY DEF Listed

\* Equal values name one project, one answer and one search, and one status
\* if the list notices it.
LEMMA BasisAlike ==
    ASSUME NEW p, NEW f, NEW s, NEW rs, NEW q, NEW g, NEW z, NEW rz,
           Basis(p, f, s, rs) = Basis(q, g, z, rz)
    PROVE  /\ p = q /\ Answered(p, f, rs) = Answered(q, g, rz) /\ f.words = g.words
           /\ (f.status = "closed") <=> (g.status = "closed")
           /\ listing.notices => f.status = g.status
BY DEF Basis

LEMMA BasisNotEmpty == ASSUME NEW p, NEW f, NEW s, NEW rs PROVE Basis(p, f, s, rs) # <<>>
BY DEF Basis

\* A list drawn shows what the filters then ask for.
LEMMA DrawComputes ==
    ASSUME ListingsTypeOK, Computed, NEW p \in Projects, NEW f \in Filters(listing), NEW s,
           NEW rs, Draw(p, f, s, rs), listing' = listing
    PROVE  /\ basis' = Basis(p, f, s, rs)
           /\ \E g \in Filters(listing) :
                 Alike(g, f) /\ list' = Listed(Answered(p, g, rs), g)
<1>1. basis' = Basis(p, f, s, rs)
  BY DEF Draw
<1>2. CASE basis' # basis
  <2>1. Alike(f, f) /\ list' = Listed(Answered(p, f, rs), f)
    BY <1>2 DEF Draw, Alike
  <2> QED BY <1>1, <2>1
<1>3. CASE basis' = basis
  <2>1. onList # Away
    BY <1>1, <1>3, BasisNotEmpty DEF Computed
  <2>2. Basis(p, f, s, rs) = Basis(onList, filters, sort, stock)
    BY <1>1, <1>3, <2>1 DEF Computed
  <2>3. /\ Answered(p, f, rs) = Answered(onList, filters, stock) /\ f.words = filters.words
        /\ (f.status = "closed") <=> (filters.status = "closed")
        /\ listing.notices => f.status = filters.status
    BY <2>2, BasisAlike
  <2>4. PICK g \in Filters(listing) :
               Alike(g, filters) /\ list = Listed(Answered(onList, g, stock), g)
    BY <2>1 DEF Computed
  <2>5. list' = list
    BY <1>3 DEF Draw
  <2>6. (g.status = "closed") <=> (filters.status = "closed")
    BY <2>4 DEF Alike
  <2>7. Answered(onList, g, stock) = Answered(onList, filters, stock)
    BY <2>6, AnsweredAlike
  <2>8. Answered(p, g, rs) = Answered(p, f, rs)
    BY <2>3, <2>6, AnsweredAlike
  <2>9. list' = Listed(Answered(p, g, rs), g)
    BY <2>3, <2>4, <2>5, <2>7, <2>8
  <2>10. g.words = f.words
    BY <2>3, <2>4 DEF Alike
  <2>11. CASE g.status = f.status
    <3>1. list' = Listed(Answered(p, f, rs), f)
      BY <2>8, <2>9, <2>10, <2>11, ListedAlike
    <3> QED BY <1>1, <3>1 DEF Alike
  <2>12. CASE g.status # f.status
    <3>1. ~listing.notices /\ "closed" \notin {g.status, f.status}
      BY <2>3, <2>4, <2>12 DEF Alike
    <3> QED BY <1>1, <2>9, <2>10, <3>1 DEF Alike
  <2> QED BY <2>11, <2>12
<1> QED BY <1>2, <1>3

LEMMA ComputedNext ==
    ListingsTypeOK /\ Computed /\ [ListingsNext]_listVars => Computed'
<1> SUFFICES ASSUME ListingsTypeOK, Computed, [ListingsNext]_listVars PROVE Computed'
  OBVIOUS
<1>a. /\ listing \in ListingPages /\ onList \in Projects \cup {Away}
      /\ filters \in Filters(listing) /\ kept \in [Projects -> Filters(listing)]
  BY ListingPageFacts DEF ListingsTypeOK
<1>b. ASSUME NEW p \in Projects, NEW f \in Filters(listing), NEW s, NEW rs,
             Draw(p, f, s, rs), listing' = listing, onList' = p, filters' = f, sort' = s,
             stock' = rs
      PROVE  Computed'
  <2>1. p # Away
    BY ListingsAssumption
  <2>2. /\ basis' = Basis(p, f, s, rs)
        /\ \E g \in Filters(listing) :
              Alike(g, f) /\ list' = Listed(Answered(p, g, rs), g)
    BY <1>b, DrawComputes
  <2> QED BY <1>b, <2>1, <2>2 DEF Computed, Basis, Alike
<1>1. ASSUME NEW p \in Projects, OpenList(p) PROVE Computed'
  <2>1. filters' \in Filters(listing)
    BY <1>1, <1>a DEF OpenList
  <2> QED BY <1>1, <1>b, <2>1 DEF OpenList
<1>2. ASSUME NEW p \in Projects, Travel(p) PROVE Computed'
  BY <1>2, <1>a, <1>b DEF Travel
<1>3. CASE LeaveList
  BY <1>3 DEF LeaveList, Computed
<1>4. CASE toggleSort
  BY <1>4, <1>a, <1>b DEF toggleSort
<1>5. ASSUME NEW st \in {"active", "all", "closed"}, NEW w \in BOOLEAN, SetFilter(st, w)
      PROVE  Computed'
  <2>1. filters' \in Filters(listing) /\ onList \in Projects
    BY <1>5, FilterChosenTyped DEF SetFilter
  <2> QED BY <1>5, <1>b, <2>1 DEF SetFilter, FilterChosen
<1>6. ASSUME NEW n \in PageSizes, setPageSize(n) PROVE Computed'
  BY <1>6 DEF setPageSize, Computed
<1>7. ASSUME NEW n \in 1..Cardinality(ListedRows), Turn(n) PROVE Computed'
  BY <1>7 DEF Turn, Computed, Basis, Alike
<1>8. ASSUME NEW p \in Projects, NEW x \in ListedRows, NEW st \in RowStates,
             RowChanges(p, x, st)
      PROVE  Computed'
  <2>1. CASE p = onList
    BY <1>8, <1>a, <1>b, <2>1 DEF RowChanges
  <2>2. CASE p # onList
    <3>1. ASSUME onList # Away, NEW f PROVE Answered(onList, f, stock') = Answered(onList, f, stock)
      <4>1. stock'[onList] = stock[onList]
        BY <1>8, <1>a, <2>2, <3>1 DEF RowChanges, ListingsTypeOK
      <4> QED BY <4>1 DEF Answered
    <3>2. UNCHANGED <<listing, onList, filters, sort, list, basis>>
      BY <1>8, <2>2 DEF RowChanges
    <3> QED BY <3>1, <3>2 DEF Computed, Basis, Alike
  <2> QED BY <2>1, <2>2
<1>9. CASE UNCHANGED listVars
  BY <1>9 DEF listVars, Computed, Basis, Alike
<1> QED BY <1>1, <1>2, <1>3, <1>4, <1>5, <1>6, <1>7, <1>8, <1>9 DEF ListingsNext

\* The rows drawn are the ones the filters ask for now, for any rows, search
\* and every list.
THEOREM ListsAreCurrent == ListingsSpec => []ListIsCurrent
<1>1. ListingsInit => ListingsTypeOK /\ Computed
  <2>1. ListingsInit => Computed
    BY DEF ListingsInit, Computed
  <2> QED BY <2>1, ListingsInitTyped
<1>2. (ListingsTypeOK /\ Computed) /\ [ListingsNext]_listVars => (ListingsTypeOK /\ Computed)'
  BY ListingsNextTyped, ComputedNext
<1>3. ListingsTypeOK /\ Computed => ListIsCurrent
  BY DEF Computed, Alike, ListIsCurrent
<1> QED BY <1>1, <1>2, <1>3, PTL DEF ListingsSpec

-----------------------------------------------------------------------------
(* An empty page is drawn only after rows left.                             *)

\* What makes it inductive: as long as nothing shrank, a list that keeps its
\* page is not beyond the last, even while it matches no row.
WithinPages ==
    /\ onList = Away => pageNo = 1
    /\ listing.pages = "kept" /\ ~shrunk => pageNo <= totalPages

LEMMA PagesOfRows ==
    ASSUME NEW c \in Nat, c # 0, NEW n \in Nat \ {0}
    PROVE  (c + n - 1) \div n \in Nat /\ (c + n - 1) \div n >= 1
OBVIOUS

\* There is at least one page.
LEMMA OnePageAtLeast == ListingsTypeOK => totalPages \in Nat /\ totalPages >= 1
<1> SUFFICES ASSUME ListingsTypeOK PROVE totalPages \in Nat /\ totalPages >= 1
  OBVIOUS
<1>1. CASE list = {}
  BY <1>1 DEF totalPages
<1>2. CASE list # {}
  <2>1. IsFiniteSet(list)
    BY ListingsAssumption, FS_Subset DEF ListingsTypeOK
  <2>2. Cardinality(list) \in Nat /\ Cardinality(list) # 0
    BY <1>2, <2>1, FS_CardinalityType, FS_EmptySet
  <2>3. pageSize \in Nat \ {0}
    BY ListingsAssumption DEF ListingsTypeOK
  <2> QED BY <1>2, <2>2, <2>3, PagesOfRows DEF totalPages
<1> QED BY <1>1, <1>2

LEMMA WithinPagesNext ==
    ListingsTypeOK /\ WithinPages /\ [ListingsNext]_listVars => WithinPages'
<1> SUFFICES ASSUME ListingsTypeOK, WithinPages, [ListingsNext]_listVars PROVE WithinPages'
  OBVIOUS
<1>a. totalPages \in Nat /\ totalPages >= 1
  BY OnePageAtLeast
<1>b. (totalPages \in Nat /\ totalPages >= 1)'
  <2>1. ListingsTypeOK'
    BY ListingsNextTyped
  <2> QED BY <2>1, OnePageAtLeast, PTL
<1>c. listing \in ListingPages /\ pageNo \in Nat
  BY ListedRowsCount DEF ListingsTypeOK
<1>d. UNCHANGED <<list, pageSize>> => totalPages' = totalPages
  BY DEF totalPages
<1>1. ASSUME NEW p \in Projects, OpenList(p) PROVE WithinPages'
  <2>1. p # Away
    BY ListingsAssumption
  <2> QED BY <1>1, <1>b, <2>1 DEF OpenList, WithinPages
<1>2. ASSUME NEW p \in Projects, Travel(p) PROVE WithinPages'
  <2>1. p # Away
    BY ListingsAssumption
  <2> QED BY <1>2, <2>1 DEF Travel, WithinPages
<1>3. CASE LeaveList
  BY <1>3, <1>b DEF LeaveList, WithinPages
<1>4. CASE toggleSort
  <2>1. onList' # Away
    BY <1>4 DEF toggleSort
  <2>2. listing.pages = "kept" => pageNo' = 1
    BY <1>4, <1>c, ListingPageFacts DEF toggleSort
  <2> QED BY <1>4, <1>b, <2>1, <2>2 DEF toggleSort, WithinPages
<1>5. ASSUME NEW st \in {"active", "all", "closed"}, NEW w \in BOOLEAN, SetFilter(st, w)
      PROVE  WithinPages'
  BY <1>5, <1>b DEF SetFilter, FilterChosen, WithinPages
<1>6. ASSUME NEW n \in PageSizes, setPageSize(n) PROVE WithinPages'
  BY <1>6, <1>b DEF setPageSize, WithinPages
<1>7. ASSUME NEW n \in 1..Cardinality(ListedRows), Turn(n) PROVE WithinPages'
  <2>1. totalPages' = totalPages /\ onList' # Away
    BY <1>7, <1>d DEF Turn
  <2>2. ASSUME listing.pages = "kept", ~shrunk' PROVE pageNo' <= totalPages
    <3>1. CASE n <= totalPages
      BY <1>7, <3>1 DEF Turn
    <3>2. CASE n > totalPages
      <4>1. ~shrunk /\ PageShown = pageNo /\ pageNo <= totalPages
        BY <1>7, <2>2, <3>2 DEF Turn, PageShown, WithinPages
      <4> QED BY <1>7, <1>a, <1>c, <4>1 DEF Turn
    <3> QED BY <1>a, <3>1, <3>2
  <2> QED BY <1>7, <2>1, <2>2 DEF Turn, WithinPages
<1>8. ASSUME NEW p \in Projects, NEW x \in ListedRows, NEW st \in RowStates,
             RowChanges(p, x, st)
      PROVE  WithinPages'
  BY <1>8, <1>d DEF RowChanges, WithinPages
<1>9. CASE UNCHANGED listVars
  BY <1>9, <1>d DEF listVars, WithinPages
<1> QED BY <1>1, <1>2, <1>3, <1>4, <1>5, <1>6, <1>7, <1>8, <1>9 DEF ListingsNext

\* No page is drawn empty while rows match, but after rows left or the list
\* was handed another project, for any rows, page sizes and every list.
THEOREM EmptyOnlyAfterShrinking == ListingsSpec => []EmptyPageOnlyAfterShrinking
<1>1. ListingsInit => ListingsTypeOK /\ WithinPages
  <2>1. ListingsInit => WithinPages
    BY DEF ListingsInit, WithinPages, totalPages
  <2> QED BY <2>1, ListingsInitTyped
<1>2. (ListingsTypeOK /\ WithinPages) /\ [ListingsNext]_listVars
      => (ListingsTypeOK /\ WithinPages)'
  BY ListingsNextTyped, WithinPagesNext
<1>3. ListingsTypeOK /\ WithinPages => EmptyPageOnlyAfterShrinking
  <2> SUFFICES ASSUME ListingsTypeOK, WithinPages, onList # Away, listing.pages # "none",
                      PageShown > totalPages
               PROVE  shrunk /\ listing.pages = "kept"
    BY DEF EmptyPageOnlyAfterShrinking
  <2>1. totalPages \in Nat /\ pageNo \in Nat /\ listing.pages \in {"none", "kept", "clamped"}
    BY OnePageAtLeast, ListedRowsCount, ListingPageFacts DEF ListingsTypeOK, Lists
  <2> QED BY <2>1 DEF PageShown, WithinPages, ListingsTypeOK
<1> QED BY <1>1, <1>2, <1>3, PTL DEF ListingsSpec

-----------------------------------------------------------------------------
(* The ancestors are what their recursive definition says: a function of    *)
(* that kind exists, for instance the one to the least set that holds n's   *)
(* parent, if it has one, and with every node the node's own parent.        *)

Upwards(n) ==
    {m \in Nodes : \A S \in SUBSET Nodes :
        (/\ parent[n] # Top => parent[n] \in S
         /\ \A x \in S : parent[x] # Top => parent[x] \in S)  => m \in S}

LEMMA UpwardsSteps ==
    ASSUME parent \in [Nodes -> Nodes \cup {Top}], NEW n \in Nodes
    PROVE  Upwards(n) = IF parent[n] = Top THEN {} ELSE {parent[n]} \cup Upwards(parent[n])
<1>1. CASE parent[n] = Top
  <2>1. ASSUME NEW m \in Upwards(n) PROVE FALSE
    <3>1. \A S \in SUBSET Nodes :
             (\A x \in S : parent[x] # Top => parent[x] \in S) => m \in S
      BY <1>1, <2>1 DEF Upwards
    <3>2. m \in {}
      BY <3>1
    <3> QED BY <3>2
  <2> QED BY <1>1, <2>1
<1>2. CASE parent[n] # Top
  <2>1. PICK p \in Nodes : p = parent[n]
    BY <1>2
  <2>2. \A x \in Upwards(p) : parent[x] # Top => parent[x] \in Upwards(p)
    BY DEF Upwards
  <2>3. parent[p] # Top => parent[p] \in Upwards(p)
    BY DEF Upwards
  <2>4. Upwards(n) \subseteq {p} \cup Upwards(p)
    <3> DEFINE S == {p} \cup Upwards(p)
    <3>1. S \in SUBSET Nodes
      BY DEF Upwards
    <3>2. \A x \in S : parent[x] # Top => parent[x] \in S
      BY <2>2, <2>3
    <3>3. parent[n] \in S
      BY <2>1
    <3> HIDE DEF S
    <3>4. Upwards(n) \subseteq S
      BY <3>1, <3>2, <3>3 DEF Upwards
    <3> QED BY <3>4 DEF S
  <2>5. p \in Upwards(n)
    BY <1>2, <2>1 DEF Upwards
  <2>6. Upwards(p) \subseteq Upwards(n)
    <3> SUFFICES ASSUME NEW m \in Upwards(p), NEW S \in SUBSET Nodes, parent[n] \in S,
                        \A x \in S : parent[x] # Top => parent[x] \in S
                 PROVE  m \in S
      BY <1>2 DEF Upwards
    <3>1. parent[p] # Top => parent[p] \in S
      BY <2>1
    <3> QED BY <3>1 DEF Upwards
  <2> QED BY <1>2, <2>1, <2>4, <2>5, <2>6
<1> QED BY <1>1, <1>2

LEMMA AncestorsSteps ==
    ASSUME parent \in [Nodes -> Nodes \cup {Top}]
    PROVE  Ancestors = [n \in Nodes |->
               IF parent[n] = Top THEN {} ELSE {parent[n]} \cup Ancestors[parent[n]]]
<1> DEFINE f == [n \in Nodes |-> Upwards(n)]
<1>1. f = [n \in Nodes |-> IF parent[n] = Top THEN {} ELSE {parent[n]} \cup f[parent[n]]]
  BY UpwardsSteps
<1>2. \E g : g = [n \in Nodes |->
                     IF parent[n] = Top THEN {} ELSE {parent[n]} \cup g[parent[n]]]
  BY <1>1
<1> QED BY <1>2 DEF Ancestors

-----------------------------------------------------------------------------
(* Ancestors form a chain, because children come after their parents; each  *)
(* fact is shown of the least node for which it might fail.                 *)

Grown == parent \in [Nodes -> Nodes \cup {Top}] /\ \A n \in Nodes : parent[n] < n

LEMMA AncestorsOf ==
    ASSUME Grown, NEW n \in Nodes
    PROVE  \/ parent[n] = Top /\ Ancestors[n] = {}
           \/ /\ parent[n] \in Nodes /\ parent[n] < n
              /\ Ancestors[n] = {parent[n]} \cup Ancestors[parent[n]]
<1>1. Ancestors[n] = IF parent[n] = Top THEN {} ELSE {parent[n]} \cup Ancestors[parent[n]]
  BY AncestorsSteps DEF Grown
<1> QED BY <1>1 DEF Grown

LEMMA AncestorsAreNodes == ASSUME Grown PROVE \A n \in Nodes : Ancestors[n] \subseteq Nodes
<1> DEFINE Odd == {n \in Nodes : ~(Ancestors[n] \subseteq Nodes)}
<1> SUFFICES ASSUME Odd # {} PROVE FALSE
  OBVIOUS
<1>1. Odd \in SUBSET Nat
  BY DEF Nodes
<1>2. PICK n \in Odd : \A k \in Odd : n <= k
  BY <1>1, LeastExists
<1>3. n \in Nodes /\ ~(Ancestors[n] \subseteq Nodes)
  OBVIOUS
<1>4. /\ parent[n] \in Nodes /\ parent[n] < n
      /\ Ancestors[n] = {parent[n]} \cup Ancestors[parent[n]]
  BY <1>3, AncestorsOf
<1>5. parent[n] \notin Odd
  BY <1>2, <1>3, <1>4 DEF Nodes
<1> QED BY <1>3, <1>4, <1>5

LEMMA AncestorsOfAncestors ==
    ASSUME Grown PROVE \A n \in Nodes : \A m \in Ancestors[n] : Ancestors[m] \subseteq Ancestors[n]
<1> DEFINE Odd == {n \in Nodes : \E m \in Ancestors[n] : ~(Ancestors[m] \subseteq Ancestors[n])}
<1> SUFFICES ASSUME Odd # {} PROVE FALSE
  OBVIOUS
<1>1. Odd \in SUBSET Nat
  BY DEF Nodes
<1>2. PICK n \in Odd : \A k \in Odd : n <= k
  BY <1>1, LeastExists
<1>3. PICK m \in Ancestors[n] : n \in Nodes /\ ~(Ancestors[m] \subseteq Ancestors[n])
  OBVIOUS
<1>4. /\ parent[n] \in Nodes /\ parent[n] < n
      /\ Ancestors[n] = {parent[n]} \cup Ancestors[parent[n]]
  BY <1>3, AncestorsOf
<1>5. parent[n] \notin Odd
  BY <1>2, <1>3, <1>4 DEF Nodes
<1> QED BY <1>3, <1>4, <1>5

LEMMA AncestorsFormAChain ==
    ASSUME Grown
    PROVE  \A n \in Nodes : \A m, r \in Ancestors[n] :
              m = r \/ m \in Ancestors[r] \/ r \in Ancestors[m]
<1> DEFINE Odd == {n \in Nodes : \E m, r \in Ancestors[n] :
                      ~(m = r \/ m \in Ancestors[r] \/ r \in Ancestors[m])}
<1> SUFFICES ASSUME Odd # {} PROVE FALSE
  OBVIOUS
<1>1. Odd \in SUBSET Nat
  BY DEF Nodes
<1>2. PICK n \in Odd : \A k \in Odd : n <= k
  BY <1>1, LeastExists
<1>3. PICK m \in Ancestors[n], r \in Ancestors[n] :
             n \in Nodes /\ ~(m = r \/ m \in Ancestors[r] \/ r \in Ancestors[m])
  OBVIOUS
<1>4. /\ parent[n] \in Nodes /\ parent[n] < n
      /\ Ancestors[n] = {parent[n]} \cup Ancestors[parent[n]]
  BY <1>3, AncestorsOf
<1>5. parent[n] \notin Odd
  BY <1>2, <1>3, <1>4 DEF Nodes
<1> QED BY <1>3, <1>4, <1>5

-----------------------------------------------------------------------------
\* What the trees of the pages have in common.
LEMMA TreePageFacts ==
    ASSUME NEW t \in TreePages
    PROVE  /\ "all" \in t.statuses
           /\ t.loads \in {"subtrees", "roots", "home", "team"}
           /\ t.walks \in {"top", "home"}
           /\ t.walks = "home" => t.loads = "home"
           /\ t.loads = "home" /\ t.walks = "top" => t = StageOptions
<1>1. CASE t = AllProjectsTree
  BY <1>1 DEF AllProjectsTree
<1>2. CASE t = AdminProjectsTree
  BY <1>2 DEF AdminProjectsTree, AllProjectsTree
<1>3. CASE t = TeamProjectsTree
  BY <1>3 DEF TeamProjectsTree, AllProjectsTree
<1>4. CASE t = TeamProjectRow
  BY <1>4 DEF TeamProjectRow, TeamProjectsTree, AllProjectsTree
<1>5. CASE t = PickerRow
  BY <1>5 DEF PickerRow, TeamProjectsTree, AllProjectsTree
<1>6. CASE t = SubProjectsTree
  BY <1>6 DEF SubProjectsTree, TeamProjectRow, TeamProjectsTree, AllProjectsTree
<1>7. CASE t = StageOptions
  BY <1>7 DEF StageOptions, PickerRow, TeamProjectsTree, AllProjectsTree
<1> QED BY <1>1, <1>2, <1>3, <1>4, <1>5, <1>6, <1>7 DEF TreePages

\* The types, and parents that come before their children.
TreesInv == ProjectTreesTypeOK /\ Grown

LEMMA TreesInitInv == ProjectTreesInit => TreesInv
<1> SUFFICES ASSUME ProjectTreesInit PROVE TreesInv
  OBVIOUS
<1>1. tree \in TreePages /\ "all" \in tree.statuses
  BY TreePageFacts DEF ProjectTreesInit
<1>2. 1 \in Nodes /\ 0 \in 0..MaxTreeChanges
  BY ProjectTreesAssumption DEF Nodes
<1>3. Grown
  BY DEF ProjectTreesInit, Grown
<1> QED BY <1>1, <1>2, <1>3 DEF ProjectTreesInit, TreesInv, ProjectTreesTypeOK, Grown

LEMMA TreesNextInv == TreesInv /\ [ProjectTreesNext]_treeVars => TreesInv'
<1> SUFFICES ASSUME TreesInv, [ProjectTreesNext]_treeVars PROVE TreesInv'
  OBVIOUS
<1> USE DEF TreesInv, ProjectTreesTypeOK, Grown
<1>a. Write => treeChanges' \in 0..MaxTreeChanges
  BY ProjectTreesAssumption DEF Write
<1>1. ASSUME NEW n \in Nodes, Toggle(n) PROVE TreesInv'
  BY <1>1 DEF Toggle
<1>2. ASSUME NEW n \in Nodes, SetStatus(n) PROVE TreesInv'
  <2>1. status' \in [Nodes -> {"active", "archived"}]
    BY <1>2 DEF SetStatus
  <2> QED BY <1>2, <1>a, <2>1 DEF SetStatus, Write
<1>3. ASSUME NEW n \in Nodes, archiveProject(n) PROVE TreesInv'
  BY <1>3, <1>a DEF archiveProject, Write
<1>4. ASSUME NEW n \in Nodes, unarchiveProject(n) PROVE TreesInv'
  BY <1>4, <1>a DEF unarchiveProject, Write
<1>5. ASSUME NEW n \in Nodes, Link(n) PROVE TreesInv'
  BY <1>5, <1>a DEF Link, Write
<1>6. ASSUME NEW f \in {"all", "active", "archived"}, setStatusFilter(f) PROVE TreesInv'
  BY <1>6 DEF setStatusFilter
<1>7. CASE setSearch
  BY <1>7 DEF setSearch
<1>8. CASE UNCHANGED treeVars
  BY <1>8 DEF treeVars
<1> QED BY <1>1, <1>2, <1>3, <1>4, <1>5, <1>6, <1>7, <1>8 DEF ProjectTreesNext

\* Below the head of a subtree a node's ancestors are loaded with it.
LEMMA SubtreeHoldsAncestors ==
    ASSUME Grown, NEW r \in Nodes, NEW n \in GetSubtree(r), NEW m \in Ancestors[n],
           m = r \/ m \notin Ancestors[r]
    PROVE  m \in GetSubtree(r)
<1>1. n \in Nodes /\ m \in Nodes
  BY AncestorsAreNodes DEF GetSubtree
<1>2. r = m \/ r \in Ancestors[m]
  <2>1. CASE r = n
    BY <2>1
  <2>2. CASE r \in Ancestors[n]
    BY <1>1, <2>2, AncestorsFormAChain
  <2> QED BY <2>1, <2>2 DEF GetSubtree
<1>3. {m} \cup Ancestors[m] \subseteq Ancestors[n]
  BY <1>1, AncestorsOfAncestors
<1> QED BY <1>1, <1>2, <1>3 DEF GetSubtree

LEMMA RootsHaveNoAncestors == ASSUME Grown, NEW r \in Roots PROVE r \in Nodes /\ Ancestors[r] = {}
BY AncestorsOf DEF Roots, Nodes, Top

\* The rows between the anchor and a loaded row are loaded, too, but for the
\* two kinds of tree that lose rows.
LEMMA PathIsLoaded ==
    ASSUME TreesInv, NEW n \in Loaded, Anchor # n,
           ~(tree = StageOptions /\ parent[home] # Top),
           ~(tree.loads = "team" /\ \E m \in Ancestors[n] : m \notin linked \ is_archived)
    PROVE  /\ n \in Nodes /\ Path(n) \subseteq Loaded \cap Ancestors[n]
           /\ Anchor = Top \/ Anchor \in Ancestors[n]
<1>a. Grown /\ tree \in TreePages /\ home \in Nodes /\ {linked, is_archived} \subseteq SUBSET Nodes
  BY DEF TreesInv, ProjectTreesTypeOK
<1>b. Path(n) \subseteq Ancestors[n]
  BY DEF Path
<1>c. /\ tree.walks \in {"top", "home"} /\ tree.loads \in {"subtrees", "roots", "home", "team"}
      /\ tree.loads # "home" => Anchor = Top
      /\ tree.loads = "home" => tree.walks = "home" \/ tree = StageOptions
  BY <1>a, TreePageFacts DEF Anchor
<1>1. CASE tree.loads = "subtrees"
  <2>1. PICK r \in Roots : n \in GetSubtree(r) /\ GetSubtree(r) \subseteq Loaded
    BY <1>1 DEF Loaded
  <2>2. r \in Nodes /\ Ancestors[r] = {}
    BY <1>a, <2>1, RootsHaveNoAncestors
  <2>3. \A m \in Ancestors[n] : m \in GetSubtree(r)
    BY <1>a, <2>1, <2>2, SubtreeHoldsAncestors
  <2>4. n \in Nodes
    BY <2>1 DEF GetSubtree
  <2> QED BY <1>1, <1>b, <1>c, <2>1, <2>3, <2>4
<1>2. CASE tree.loads = "roots"
  <2>1. n \in Roots
    BY <1>2 DEF Loaded
  <2>2. n \in Nodes /\ Ancestors[n] = {}
    BY <1>a, <2>1, RootsHaveNoAncestors
  <2> QED BY <1>2, <1>b, <1>c, <2>2
<1>3. CASE tree.loads = "home"
  <2>1. n \in GetSubtree(home) /\ Loaded = GetSubtree(home)
    BY <1>3 DEF Loaded
  <2>2. n \in Nodes /\ (home = n \/ home \in Ancestors[n])
    BY <2>1 DEF GetSubtree
  <2>3. CASE tree.walks = "home"
    <3>1. Anchor = home
      BY <2>3 DEF Anchor
    <3>2. ASSUME NEW m \in Path(n) PROVE m \in GetSubtree(home)
      <4>1. m \in Ancestors[n] /\ m \notin Ancestors[home]
        BY <1>a, <3>1, <3>2 DEF Path, Nodes, Top
      <4> QED BY <1>a, <2>1, <4>1, SubtreeHoldsAncestors
    <3> QED BY <1>b, <2>1, <2>2, <3>1, <3>2
  <2>4. CASE tree.walks = "top"
    <3>1. tree = StageOptions /\ Anchor = Top
      BY <1>c, <1>3, <2>4 DEF Anchor
    <3>2. Ancestors[home] = {}
      BY <1>a, <3>1, RootsHaveNoAncestors DEF Roots
    <3>3. \A m \in Ancestors[n] : m \in GetSubtree(home)
      BY <1>a, <2>1, <3>2, SubtreeHoldsAncestors
    <3> QED BY <1>b, <2>1, <2>2, <3>1, <3>3
  <2> QED BY <1>c, <2>3, <2>4
<1>4. CASE tree.loads = "team"
  <2>1. Loaded = linked \ is_archived
    BY <1>4 DEF Loaded
  <2> QED BY <1>4, <1>a, <1>b, <1>c, <2>1
<1> QED BY <1>c, <1>1, <1>2, <1>3, <1>4

\* The variables of every tree keep to their sets.
THEOREM TreesTyped == ProjectTreesSpec => []ProjectTreesTypeOK
<1>1. TreesInv => ProjectTreesTypeOK
  BY DEF TreesInv
<1> QED BY <1>1, TreesInitInv, TreesNextInv, PTL DEF ProjectTreesSpec

\* What a page has loaded and filter and search match is drawn if the rows
\* above it are open, for any number of nodes and every tree.
THEOREM MatchesAreDrawn == ProjectTreesSpec => []MatchesAreInSight
<1>1. TreesInv => MatchesAreInSight
  <2> SUFFICES ASSUME TreesInv, NEW n \in Loaded, selfMatches(n), \A m \in Path(n) : isOpen(m),
                      Anchor # n, ~(tree = StageOptions /\ parent[home] # Top),
                      ~(tree.loads = "team" /\ \E m \in Ancestors[n] : m \notin linked \ is_archived)
               PROVE  n \in Shown
    BY DEF MatchesAreInSight
  <2>1. /\ Path(n) \subseteq Loaded \cap Ancestors[n]
        /\ Anchor = Top \/ Anchor \in Ancestors[n]
    BY PathIsLoaded
  <2>2. nodeVisible(n)
    BY DEF nodeVisible
  <2>3. \A m \in Path(n) : m \in Loaded /\ nodeVisible(m) /\ isOpen(m)
    BY <2>1 DEF nodeVisible
  <2> QED BY <2>1, <2>2, <2>3 DEF Shown
<1> QED BY <1>1, TreesInitInv, TreesNextInv, PTL DEF ProjectTreesSpec

------------------------------------------------------------------------------
(* Live views: mutations, queries and fetches *)

\* What a mutation sets in the cache it also makes stale.
LEMMA MutationFacts ==
    ASSUME NEW m \in Mutations
    PROVE  /\ m.does \in Domains
           /\ m.sets \in {<<>>, <<"backlog", "item">>}
           /\ m.sets = <<"backlog", "item">> => <<"backlog">> \in m.stale
BY DEF Mutations, Mutation, Domains, Announced,
       useCreateBacklogItem, useDeleteBacklogItem, useReorderBacklog, useUpdateBacklogItem,
       useCreateSprint, useUpdateSprint, useDeleteSprint, useCloseSprint, useAddSprintItem,
       useRemoveSprintItem, useCreateTask, useUpdateTask, useDeleteTask, useMoveTask,
       useCreateItemTest, useUpdateItemTest, useDeleteItemTest, useMoveItemTest, useCreateEpic,
       useUpdateEpic, useDeleteEpic, useCreateMilestone, useUpdateMilestone,
       useDeleteMilestone, useBindNodeMilestone, useAddProjectTeam, useRemoveProjectTeam,
       useCreateProject, useUpdateProject, useCreateChild, useMoveNode

LEMMA QueryFacts == ASSUME NEW q \in Queries PROVE q.key # <<>>
BY DEF Queries, useBacklog, useBacklogItem, useBacklogChildren, useSprints, useSprint,
       useSprintItems, useTasks, useTask, useItemTests, useEpics, useMilestones, useTimeline,
       useProjects, useAllProjects, useProject, useProjectTeams, useProjectTree

LEMMA SetsIsStale ==
    ASSUME NEW q \in Queries, NEW m \in Mutations, m.sets = q.key
    PROVE  Under(q.key, m.stale)
<1>1. q.key = <<"backlog", "item">> /\ <<"backlog">> \in m.stale
  BY MutationFacts, QueryFacts
<1>2. IsPrefix(<<"backlog">>, <<"backlog", "item">>)
  BY DEF IsPrefix
<1> QED BY <1>1, <1>2 DEF Under

LEMMA BoundedSeqs ==
    ASSUME NEW S, NEW e \in Seq(S), NEW n \in Nat, Len(e) <= n
    PROVE  e \in BoundedSeq(S, n)
<1>1. e \in [1..Len(e) -> S] /\ Len(e) \in 0..n
  OBVIOUS
<1> QED BY <1>1 DEF BoundedSeq, SeqOf

-----------------------------------------------------------------------------
Fetches == [on : BOOLEAN, served : BOOLEAN, read : Versions, tries : 0..2]
Writes  == [id : Versions, does : Domains, stales : BOOLEAN, sets : BOOLEAN, served : BOOLEAN,
            version : Versions]

\* The mutations the server has not seen.
Waiting == {m \in own : ~m.served}

\* What bounds the version and the announcements: every version is a write
\* that was begun, and so is every mutation the server has not seen.
Counted ==
    /\ IsFiniteSet(own) /\ version + Cardinality(Waiting) <= changes
    /\ events \in Seq(Announced) /\ Len(events) <= version

LiveInv == LiveViewsTypeOK /\ Counted

LEMMA VersionFacts == MaxVersions \in Nat /\ Versions = 0..MaxVersions /\ 0 \in Versions
BY LiveViewsAssumption DEF Versions

LEMMA FetchFacts ==
    /\ NoFetch \in Fetches /\ ~NoFetch.on /\ ~NoFetch.served /\ NoFetch.read = 0
    /\ NewFetch \in Fetches /\ NewFetch.on /\ ~NewFetch.served /\ NewFetch.read = 0
    /\ [NewFetch EXCEPT !.tries = 2] \in Fetches /\ ~[NewFetch EXCEPT !.tries = 2].served
    /\ [NewFetch EXCEPT !.tries = 2].read = 0
<1>1. /\ NoFetch \in Fetches /\ ~NoFetch.on /\ ~NoFetch.served /\ NoFetch.read = 0
      /\ NewFetch \in Fetches /\ NewFetch.on /\ ~NewFetch.served /\ NewFetch.read = 0
  BY VersionFacts DEF NoFetch, NewFetch, Fetches
<1>2. /\ [NewFetch EXCEPT !.tries = 2] \in Fetches
      /\ ~[NewFetch EXCEPT !.tries = 2].served /\ [NewFetch EXCEPT !.tries = 2].read = 0
  BY <1>1 DEF Fetches
<1> QED BY <1>1, <1>2

LEMMA LiveInitInv == LiveViewsInit => LiveInv
<1> SUFFICES ASSUME LiveViewsInit PROVE LiveInv
  OBVIOUS
<1>1. IsFiniteSet(own) /\ Cardinality(Waiting) = 0
  <2>1. own = {} /\ Waiting = {}
    BY DEF LiveViewsInit, Waiting
  <2> QED BY <2>1, FS_EmptySet
<1>2. events \in Seq(Announced) /\ Len(events) = 0
  BY DEF LiveViewsInit
<1>3. events \in BoundedSeq(Announced, MaxVersions)
  <2>1. Len(events) <= MaxVersions
    BY <1>2, VersionFacts
  <2> QED BY <1>2, <2>1, VersionFacts, BoundedSeqs
<1>4. LiveViewsTypeOK
  BY <1>3, VersionFacts, FetchFacts DEF LiveViewsInit, LiveViewsTypeOK, Fetches
<1> QED BY <1>1, <1>2, <1>4 DEF LiveViewsInit, LiveInv, Counted

LEMMA WaitingFacts ==
    ASSUME LiveInv
    PROVE  /\ IsFiniteSet(Waiting) /\ Cardinality(Waiting) \in Nat
           /\ own \subseteq Writes /\ version \in Versions /\ changes \in Versions
<1>1. IsFiniteSet(Waiting)
  BY FS_Subset DEF LiveInv, Counted, Waiting
<1> QED BY <1>1, FS_CardinalityType DEF LiveInv, LiveViewsTypeOK, Writes

\* What is counted stays within the bound.
LEMMA CountedFits ==
    ASSUME changes \in Versions, version \in Nat, Cardinality(Waiting) \in Nat, Counted
    PROVE  version \in Versions /\ events \in BoundedSeq(Announced, MaxVersions)
<1>1. changes \in Nat /\ changes <= MaxVersions /\ version <= MaxVersions
  BY VersionFacts DEF Counted
<1>2. events \in Seq(Announced) /\ Len(events) \in Nat /\ Len(events) <= MaxVersions
  BY <1>1, VersionFacts DEF Counted
<1> QED BY <1>1, <1>2, VersionFacts, BoundedSeqs

\* A write at the server that is one of the writes begun.
LEMMA CommitCounted ==
    ASSUME LiveInv, NEW d \in Domains, NEW told, CommitWrite(d, told), changes' \in Versions,
           IsFiniteSet(own'), Cardinality(Waiting)' \in Nat,
           version + Cardinality(Waiting)' + 1 <= changes'
    PROVE  /\ Counted' /\ version' \in Versions
           /\ events' \in BoundedSeq(Announced, MaxVersions)
           /\ missed' \subseteq {"announcement", "refetch"}
<1>1. version \in Nat /\ version' = version + 1
  BY WaitingFacts, VersionFacts DEF CommitWrite
<1>2. events' \in Seq(Announced) /\ Len(events') <= version'
  <2>1. events \in Seq(Announced) /\ Len(events) <= version
    BY DEF LiveInv, Counted
  <2>2. CASE d \in Announced /\ events' = Append(events, d)
    BY <1>1, <2>1, <2>2
  <2>3. CASE events' = events
    BY <1>1, <2>1, <2>3
  <2> QED BY <2>2, <2>3 DEF CommitWrite
<1>3. Counted'
  BY <1>1, <1>2 DEF Counted
<1>4. (version \in Versions /\ events \in BoundedSeq(Announced, MaxVersions))'
  <2>1. (changes \in Versions /\ version \in Nat /\ Cardinality(Waiting) \in Nat /\ Counted)'
    BY <1>1, <1>3
  <2> QED BY <2>1, CountedFits, PTL
<1>5. missed' \subseteq {"announcement", "refetch"}
  BY DEF CommitWrite, LiveInv, LiveViewsTypeOK
<1> QED BY <1>3, <1>4, <1>5

LEMMA InvalidateTyped ==
    ASSUME LiveInv, Invalidate \/ UNCHANGED <<stale, fetch, missed>>
    PROVE  stale' \in BOOLEAN /\ fetch' \in Fetches /\ missed' \subseteq {"announcement", "refetch"}
BY FetchFacts DEF Invalidate, LiveInv, LiveViewsTypeOK, Fetches

LEMMA LiveNextInv == LiveInv /\ [LiveViewsNext]_liveVars => LiveInv'
<1> SUFFICES ASSUME LiveInv, [LiveViewsNext]_liveVars PROVE LiveInv'
  OBVIOUS
<1>a. /\ IsFiniteSet(Waiting) /\ Cardinality(Waiting) \in Nat /\ IsFiniteSet(own)
      /\ own \subseteq Writes /\ version \in Nat /\ changes \in Nat /\ fetch \in Fetches
      /\ version + Cardinality(Waiting) <= changes
  BY WaitingFacts, VersionFacts DEF LiveInv, Counted, LiveViewsTypeOK, Fetches
<1>b. UNCHANGED own => Waiting' = Waiting
  BY DEF Waiting
<1>c. UNCHANGED <<version, changes, own, events>> => Counted'
  BY <1>b DEF LiveInv, Counted
<1>1. ASSUME NEW d \in Domains, OthersWriteView(d) PROVE LiveInv'
  <2>1. changes' \in Versions /\ changes' = changes + 1
    BY <1>1, <1>a, VersionFacts DEF OthersWriteView
  <2>2. Waiting' = Waiting /\ own' = own /\ CommitWrite(d, FALSE)
    BY <1>1, <1>b DEF OthersWriteView
  <2>3. /\ Counted' /\ version' \in Versions
        /\ events' \in BoundedSeq(Announced, MaxVersions)
        /\ missed' \subseteq {"announcement", "refetch"}
    <3>1. Cardinality(Waiting') \in Nat /\ version + Cardinality(Waiting') + 1 <= changes'
      BY <1>a, <2>1, <2>2
    <3> QED BY <1>a, <2>1, <2>2, <3>1, CommitCounted
  <2> QED BY <1>1, <2>1, <2>3 DEF OthersWriteView, LiveInv, LiveViewsTypeOK
<1>2. ASSUME NEW m \in Mutations, Mutate(m) PROVE LiveInv'
  <2> DEFINE r == [id |-> changes, does |-> m.does, stales |-> Under(query.key, m.stale),
                   sets |-> m.sets = query.key, served |-> FALSE, version |-> 0]
  <2>1. own' = own \cup {r} /\ ~r.served
    BY <1>2 DEF Mutate
  <2>2. r \in Writes
    <3>1. Under(query.key, m.stale) \in BOOLEAN
      BY DEF Under
    <3>2. changes \in Versions
      BY WaitingFacts
    <3> QED BY <3>1, <3>2, MutationFacts, VersionFacts DEF Writes
  <2> HIDE DEF r
  <2>3. changes' \in Versions /\ changes' = changes + 1
    BY <1>2, <1>a, VersionFacts DEF Mutate
  <2>4. Waiting' = Waiting \cup {r}
    BY <2>1 DEF Waiting
  <2>5. IsFiniteSet(own') /\ Cardinality(Waiting') <= Cardinality(Waiting) + 1
    <3>1. IsFiniteSet(own')
      BY <1>a, <2>1, FS_AddElement
    <3>2. \/ Cardinality(Waiting') = Cardinality(Waiting)
          \/ Cardinality(Waiting') = Cardinality(Waiting) + 1
      BY <1>a, <2>4, FS_AddElement
    <3> QED BY <1>a, <3>1, <3>2
  <2>6. Cardinality(Waiting') \in Nat
    BY <1>a, <2>4, FS_AddElement, FS_CardinalityType
  <2>7. UNCHANGED <<query, mounted, version, cached, stale, fetch, stream, events, missed>>
    BY <1>2 DEF Mutate
  <2>8. Counted'
    BY <1>a, <2>3, <2>5, <2>6, <2>7 DEF LiveInv, Counted
  <2> QED BY <1>a, <2>1, <2>2, <2>3, <2>7, <2>8 DEF LiveInv, LiveViewsTypeOK, Writes
<1>3. ASSUME NEW m \in own, ServeMutation(m) PROVE LiveInv'
  <2> DEFINE r == [m EXCEPT !.served = TRUE, !.version = version + 1]
  <2>1. /\ own' = (own \ {m}) \cup {r} /\ CommitWrite(m.does, m.stales) /\ ~m.served
        /\ UNCHANGED <<query, mounted, cached, stale, fetch, stream, changes>>
    BY <1>3 DEF ServeMutation
  <2>2. m \in Writes /\ m \in Waiting
    BY <1>a, <2>1 DEF Waiting
  <2>3. r.served
    BY <2>2 DEF Writes
  <2>4. Waiting' = Waiting \ {m}
    BY <2>1, <2>3 DEF Waiting
  <2>5. Cardinality(Waiting') = Cardinality(Waiting) - 1 /\ IsFiniteSet(Waiting')
    BY <1>a, <2>2, <2>4, FS_RemoveElement
  <2>6. Cardinality(Waiting') \in Nat
    BY <2>5, FS_CardinalityType
  <2>7. IsFiniteSet(own')
    BY <1>a, <2>1, FS_RemoveElement, FS_AddElement
  <2>8. m.does \in Domains /\ changes' = changes /\ changes' \in Versions
    BY <2>1, <2>2, WaitingFacts DEF Writes
  <2>9. version + Cardinality(Waiting') + 1 <= changes'
    BY <1>a, <2>5, <2>8
  <2>10. /\ Counted' /\ version' \in Versions
         /\ events' \in BoundedSeq(Announced, MaxVersions)
         /\ missed' \subseteq {"announcement", "refetch"}
    BY <2>1, <2>6, <2>7, <2>8, <2>9, CommitCounted
  <2>11. version' = version + 1
    BY <2>1 DEF CommitWrite
  <2>12. r \in Writes
    BY <2>2, <2>10, <2>11 DEF Writes
  <2> HIDE DEF r
  <2> QED BY <1>a, <2>1, <2>8, <2>10, <2>12 DEF LiveInv, LiveViewsTypeOK, Writes
<1>4. ASSUME NEW m \in own, MutationAnswered(m) PROVE LiveInv'
  <2>1. /\ own' = own \ {m} /\ m.served /\ UNCHANGED <<query, mounted, version, stream, events, changes>>
        /\ cached' = IF m.sets THEN m.version ELSE cached
        /\ Invalidate \/ UNCHANGED <<stale, fetch, missed>>
    BY <1>4 DEF MutationAnswered
  <2>2. Waiting' = Waiting
    BY <2>1 DEF Waiting
  <2>3. IsFiniteSet(own')
    BY <1>a, <2>1, FS_RemoveElement
  <2>4. Counted'
    BY <2>1, <2>2, <2>3 DEF LiveInv, Counted
  <2>5. cached' \in Versions
    BY <1>a, <2>1 DEF Writes, LiveInv, LiveViewsTypeOK
  <2>6. stale' \in BOOLEAN /\ fetch' \in Fetches /\ missed' \subseteq {"announcement", "refetch"}
    BY <2>1, InvalidateTyped
  <2> QED BY <1>a, <2>1, <2>4, <2>5, <2>6 DEF LiveInv, LiveViewsTypeOK, Writes, Fetches
<1>5. ASSUME NEW m \in own, MutationFails(m) PROVE LiveInv'
  <2>1. /\ own' = own \ {m} /\ missed' \subseteq missed \cup {"announcement"}
        /\ UNCHANGED <<query, mounted, version, cached, stale, fetch, stream, events, changes>>
    BY <1>5 DEF MutationFails
  <2>2. Waiting' = Waiting \ {m}
    BY <2>1 DEF Waiting
  <2>3. IsFiniteSet(own') /\ IsFiniteSet(Waiting') /\ Cardinality(Waiting') <= Cardinality(Waiting)
    <3>1. IsFiniteSet(own')
      BY <1>a, <2>1, FS_RemoveElement
    <3>2. /\ IsFiniteSet(Waiting')
          /\ \/ Cardinality(Waiting') = Cardinality(Waiting)
             \/ Cardinality(Waiting') = Cardinality(Waiting) - 1
      BY <1>a, <2>2, FS_RemoveElement
    <3> QED BY <1>a, <3>1, <3>2
  <2>4. Cardinality(Waiting') \in Nat
    BY <2>3, FS_CardinalityType
  <2>5. Counted'
    BY <1>a, <2>1, <2>3, <2>4 DEF LiveInv, Counted
  <2> QED BY <1>a, <2>1, <2>5 DEF LiveInv, LiveViewsTypeOK, Writes
<1>6. CASE Deliver
  <2>1. /\ events # <<>> /\ events' = Tail(events)
        /\ Invalidate \/ UNCHANGED <<stale, fetch, missed>>
        /\ UNCHANGED <<query, mounted, version, cached, stream, own, changes>>
    BY <1>6 DEF Deliver
  <2>2. events \in Seq(Announced) /\ Len(events) <= version
    BY DEF LiveInv, Counted
  <2>3. events' \in Seq(Announced) /\ Len(events') <= version'
    BY <1>a, <2>1, <2>2
  <2>4. Counted'
    BY <1>b, <2>1, <2>3 DEF LiveInv, Counted
  <2>5. (version \in Versions /\ events \in BoundedSeq(Announced, MaxVersions))'
    <3>1. (changes \in Versions /\ version \in Nat /\ Cardinality(Waiting) \in Nat /\ Counted)'
      BY <1>a, <1>b, <2>1, <2>4, WaitingFacts
    <3> QED BY <3>1, CountedFits, PTL
  <2>6. stale' \in BOOLEAN /\ fetch' \in Fetches /\ missed' \subseteq {"announcement", "refetch"}
    BY <2>1, InvalidateTyped
  <2> QED BY <2>1, <2>4, <2>5, <2>6 DEF LiveInv, LiveViewsTypeOK, Fetches
<1>7. CASE ServeFetch
  <2>1. fetch' \in Fetches
    BY <1>7, <1>a, WaitingFacts DEF ServeFetch, Fetches
  <2> QED BY <1>7, <1>c, <2>1 DEF ServeFetch, LiveInv, LiveViewsTypeOK, Fetches
<1>8. CASE FetchAnswered
  <2>1. fetch.read \in Versions
    BY <1>a DEF Fetches
  <2> QED BY <1>8, <1>c, <2>1, FetchFacts DEF FetchAnswered, LiveInv, LiveViewsTypeOK, Fetches
<1>9. CASE FetchFails
  <2>1. fetch' \in Fetches /\ missed' \subseteq missed \cup {"refetch"}
    BY <1>9, FetchFacts DEF FetchFails
  <2> QED BY <1>9, <1>c, <2>1 DEF FetchFails, LiveInv, LiveViewsTypeOK, Fetches
<1>10. CASE Leave
  BY <1>10, <1>c DEF Leave, LiveInv, LiveViewsTypeOK
<1>11. CASE Return
  <2>1. fetch' \in Fetches
    BY <1>11, <1>a, FetchFacts DEF Return
  <2> QED BY <1>11, <1>c, <2>1 DEF Return, LiveInv, LiveViewsTypeOK, Fetches
<1>12. CASE StaleTimePasses
  BY <1>12, <1>c DEF StaleTimePasses, LiveInv, LiveViewsTypeOK
<1>13. CASE TokenChanges
  <2>1. /\ events' = <<>> /\ UNCHANGED <<query, mounted, version, cached, stale, fetch, own, changes>>
        /\ missed' \subseteq missed \cup {"announcement"} /\ stream' = FALSE
    BY <1>13 DEF TokenChanges
  <2>2. Counted'
    BY <1>a, <1>b, <2>1 DEF LiveInv, Counted
  <2>3. (version \in Versions /\ events \in BoundedSeq(Announced, MaxVersions))'
    <3>1. (changes \in Versions /\ version \in Nat /\ Cardinality(Waiting) \in Nat /\ Counted)'
      BY <1>a, <1>b, <2>1, <2>2, WaitingFacts
    <3> QED BY <3>1, CountedFits, PTL
  <2> QED BY <2>1, <2>2, <2>3 DEF LiveInv, LiveViewsTypeOK
<1>14. CASE Connect
  BY <1>14, <1>c DEF Connect, LiveInv, LiveViewsTypeOK
<1>15. CASE UNCHANGED liveVars
  BY <1>15, <1>c DEF liveVars, LiveInv, LiveViewsTypeOK
<1> QED BY <1>1, <1>2, <1>3, <1>4, <1>5, <1>6, <1>7, <1>8, <1>9, <1>10, <1>11, <1>12, <1>13,
           <1>14, <1>15 DEF LiveViewsNext

\* The variables of every view keep to their sets: no more versions than
\* writes were begun, and no more announcements than versions.
THEOREM LiveViewsTyped == LiveViewsSpec => []LiveViewsTypeOK
<1>1. LiveInv => LiveViewsTypeOK
  BY DEF LiveInv
<1> QED BY <1>1, LiveInitInv, LiveNextInv, PTL DEF LiveViewsSpec

-----------------------------------------------------------------------------
(* Older data is fetched again.                                             *)

\* What makes it inductive: nothing holds a version the server has not had, a
\* mutation that sets the view's data also makes it stale, and a fetch that
\* was served read at least what the cache holds, unless its view was away.
NoneAhead ==
    /\ cached <= version /\ fetch.read <= version
    /\ \A m \in own : m.version <= version /\ (m.sets => m.stales)
    /\ fetch.served => fetch.on
    /\ fetch.served /\ "refetch" \notin missed => cached <= fetch.read

LEMMA NoneAheadNext == LiveInv /\ NoneAhead /\ [LiveViewsNext]_liveVars => NoneAhead'
<1> SUFFICES ASSUME LiveInv, NoneAhead, [LiveViewsNext]_liveVars PROVE NoneAhead'
  OBVIOUS
<1>a. /\ own \subseteq Writes /\ version \in Nat /\ cached \in Nat /\ fetch \in Fetches
      /\ fetch.read \in Nat /\ \A m \in own : m.version \in Nat
  BY WaitingFacts, VersionFacts DEF LiveInv, LiveViewsTypeOK, Fetches, Writes
<1>b. ASSUME Invalidate \/ UNCHANGED <<stale, fetch, missed>>
      PROVE  /\ fetch'.read <= version
             /\ fetch'.served => fetch'.on
             /\ fetch'.served /\ "refetch" \notin missed' => cached <= fetch'.read
  BY <1>a, <1>b, FetchFacts DEF Invalidate, NoneAhead
<1>1. ASSUME NEW d \in Domains, OthersWriteView(d) PROVE NoneAhead'
  <2>1. /\ version' = version + 1 /\ missed \subseteq missed'
        /\ UNCHANGED <<cached, fetch, own>>
    BY <1>1 DEF OthersWriteView, CommitWrite
  <2> QED BY <1>a, <2>1 DEF NoneAhead
<1>2. ASSUME NEW m \in Mutations, Mutate(m) PROVE NoneAhead'
  <2> DEFINE r == [id |-> changes, does |-> m.does, stales |-> Under(query.key, m.stale),
                   sets |-> m.sets = query.key, served |-> FALSE, version |-> 0]
  <2>1. own' = own \cup {r} /\ UNCHANGED <<version, cached, fetch, missed>>
    BY <1>2 DEF Mutate
  <2>2. r.version = 0 /\ (r.sets => r.stales)
    BY SetsIsStale DEF LiveInv, LiveViewsTypeOK
  <2> HIDE DEF r
  <2> QED BY <1>a, <2>1, <2>2 DEF NoneAhead
<1>3. ASSUME NEW m \in own, ServeMutation(m) PROVE NoneAhead'
  <2> DEFINE r == [m EXCEPT !.served = TRUE, !.version = version + 1]
  <2>1. /\ own' = (own \ {m}) \cup {r} /\ version' = version + 1 /\ missed \subseteq missed'
        /\ UNCHANGED <<cached, fetch>>
    BY <1>3 DEF ServeMutation, CommitWrite
  <2>2. r.version = version + 1 /\ r.sets = m.sets /\ r.stales = m.stales
    <3>1. m \in Writes
      BY <1>a
    <3> QED BY <3>1 DEF Writes
  <2> HIDE DEF r
  <2> QED BY <1>a, <2>1, <2>2 DEF NoneAhead
<1>4. ASSUME NEW m \in own, MutationAnswered(m) PROVE NoneAhead'
  <2>1. /\ own' = own \ {m} /\ version' = version
        /\ cached' = IF m.sets THEN m.version ELSE cached
        /\ IF m.stales THEN Invalidate ELSE UNCHANGED <<stale, fetch, missed>>
    BY <1>4 DEF MutationAnswered
  <2>2. fetch'.read <= version
    BY <1>b, <2>1
  <2>3. CASE m.sets
    <3>1. Invalidate /\ cached' = m.version
      BY <2>1, <2>3 DEF NoneAhead
    <3>2. fetch'.served => "refetch" \in missed'
      BY <3>1, FetchFacts DEF Invalidate, NoneAhead
    <3> QED BY <1>a, <1>b, <2>1, <2>2, <3>1, <3>2 DEF NoneAhead
  <2>4. CASE ~m.sets
    BY <1>b, <2>1, <2>2, <2>4 DEF NoneAhead
  <2> QED BY <2>3, <2>4
<1>5. ASSUME NEW m \in own, MutationFails(m) PROVE NoneAhead'
  <2>1. /\ own' = own \ {m} /\ missed \subseteq missed' /\ UNCHANGED <<version, cached, fetch>>
    BY <1>5 DEF MutationFails
  <2> QED BY <2>1 DEF NoneAhead
<1>6. CASE Deliver
  <2>1. /\ Invalidate \/ UNCHANGED <<stale, fetch, missed>>
        /\ UNCHANGED <<version, cached, own>>
    BY <1>6 DEF Deliver
  <2> QED BY <1>b, <2>1 DEF NoneAhead
<1>7. CASE ServeFetch
  <2>1. fetch'.read = version /\ fetch'.on /\ UNCHANGED <<version, cached, own, missed>>
    BY <1>7, <1>a DEF ServeFetch, Fetches
  <2> QED BY <1>a, <2>1 DEF NoneAhead
<1>8. CASE FetchAnswered
  BY <1>8, <1>a, FetchFacts DEF FetchAnswered, NoneAhead
<1>9. CASE FetchFails
  <2>1. /\ ~fetch'.served /\ fetch'.read = 0 /\ missed \subseteq missed'
        /\ UNCHANGED <<version, cached, own>>
    BY <1>9, FetchFacts DEF FetchFails
  <2> QED BY <1>a, <2>1 DEF NoneAhead
<1>10. CASE Leave
  BY <1>10 DEF Leave, NoneAhead
<1>11. CASE Return
  BY <1>11, <1>a, FetchFacts DEF Return, NoneAhead
<1>12. CASE StaleTimePasses
  BY <1>12 DEF StaleTimePasses, NoneAhead
<1>13. CASE TokenChanges
  <2>1. missed \subseteq missed' /\ UNCHANGED <<version, cached, fetch, own>>
    BY <1>13 DEF TokenChanges
  <2> QED BY <2>1 DEF NoneAhead
<1>14. CASE Connect
  BY <1>14 DEF Connect, NoneAhead
<1>15. CASE UNCHANGED liveVars
  BY <1>15 DEF liveVars, NoneAhead
<1> QED BY <1>1, <1>2, <1>3, <1>4, <1>5, <1>6, <1>7, <1>8, <1>9, <1>10, <1>11, <1>12, <1>13,
           <1>14, <1>15 DEF LiveViewsNext

\* Where the data of a view on the screen goes back to an older version, it is
\* being fetched again.
LEMMA OlderIsRefetched ==
    ASSUME LiveInv, NoneAhead, [LiveViewsNext]_liveVars,
           cached' < cached, mounted, "refetch" \notin missed
    PROVE  fetch'.on
<1>a. cached \in Nat /\ fetch.read \in Nat
  BY VersionFacts DEF LiveInv, LiveViewsTypeOK
<1>1. ~(cached < cached)
  BY <1>a
<1>2. FetchAnswered \/ \E m \in own : MutationAnswered(m)
  BY <1>1 DEF LiveViewsNext, OthersWriteView, Mutate, ServeMutation, MutationFails, Deliver,
              ServeFetch, FetchFails, Leave, Return, StaleTimePasses, TokenChanges, Connect,
              liveVars
<1>3. CASE FetchAnswered
  <2>1. cached <= fetch.read /\ cached' = fetch.read
    BY <1>3 DEF FetchAnswered, NoneAhead
  <2> QED BY <1>a, <2>1
<1>4. ASSUME NEW m \in own, MutationAnswered(m) PROVE fetch'.on
  <2>1. m.sets
    BY <1>1, <1>4 DEF MutationAnswered
  <2>2. Invalidate
    BY <1>4, <2>1 DEF MutationAnswered, NoneAhead
  <2> QED BY <2>2, FetchFacts DEF Invalidate
<1> QED BY <1>2, <1>3, <1>4

\* The data of a view on the screen goes back to an older version only for as
\* long as it takes to fetch it again, for any number of versions.
THEOREM OlderDataIsFetchedAgain == LiveViewsSpec => OlderDataIsRefetched
<1>1. LiveViewsInit => LiveInv /\ NoneAhead
  <2>1. LiveViewsInit => NoneAhead
    BY FetchFacts DEF LiveViewsInit, NoneAhead
  <2> QED BY <2>1, LiveInitInv
<1>2. (LiveInv /\ NoneAhead) /\ [LiveViewsNext]_liveVars => (LiveInv /\ NoneAhead)'
  BY LiveNextInv, NoneAheadNext
<1>3. LiveInv /\ NoneAhead /\ [LiveViewsNext]_liveVars
      => [(cached' < cached /\ mounted /\ "refetch" \notin missed) => fetch'.on]_liveVars
  BY OlderIsRefetched
<1> QED BY <1>1, <1>2, <1>3, PTL DEF LiveViewsSpec, OlderDataIsRefetched

-----------------------------------------------------------------------------
(* Behind only in between.                                                  *)

\* A key is under its first word.
LEMMA FirstWordIsPrefix ==
    ASSUME NEW w, NEW x, NEW y
    PROVE  /\ IsPrefix(<<w>>, <<w>>)
           /\ IsPrefix(<<w>>, <<w, x>>)
           /\ IsPrefix(<<w>>, <<w, x, y>>)
BY DEF IsPrefix

\* An event of a write that a query reads invalidates it, except for what the
\* event map leaves out.
LEMMA ReadIsInvalidated ==
    ASSUME NEW q \in Queries, q # useProjectTree, NEW d \in q.reads \cap Announced
    PROVE  Under(q.key, invalidateFor(d))
<1>1. CASE q \in {useBacklog, useBacklogItem, useBacklogChildren}
  <2>1. d \in {"backlog", "sprint"}
    BY <1>1 DEF useBacklog, useBacklogItem, useBacklogChildren, Announced
  <2>2. <<"backlog">> \in invalidateFor(d)
    BY <2>1 DEF invalidateFor
  <2>3. q.key \in {<<"backlog", "filters">>, <<"backlog", "item">>,
                    <<"backlog", "item", "children">>}
    BY <1>1 DEF useBacklog, useBacklogItem, useBacklogChildren
  <2>4. IsPrefix(<<"backlog">>, q.key)
    BY <2>3, FirstWordIsPrefix
  <2> QED BY <2>2, <2>4 DEF Under
<1>2. CASE q \in {useSprints, useSprint, useSprintItems}
  <2>1. d \in {"backlog", "sprint"}
    BY <1>2 DEF useSprints, useSprint, useSprintItems, Announced
  <2>2. <<"sprints">> \in invalidateFor(d)
    BY <2>1 DEF invalidateFor
  <2>3. q.key \in {<<"sprints">>, <<"sprints", "sprint">>, <<"sprints", "sprint", "items">>}
    BY <1>2 DEF useSprints, useSprint, useSprintItems
  <2>4. IsPrefix(<<"sprints">>, q.key)
    BY <2>3, FirstWordIsPrefix
  <2> QED BY <2>2, <2>4 DEF Under
<1>3. CASE q \in {useTasks, useTask}
  <2>1. d = "task"
    BY <1>3 DEF useTasks, useTask, Announced
  <2>2. <<"tasks">> \in invalidateFor(d)
    BY <2>1 DEF invalidateFor
  <2>3. q.key \in {<<"tasks", "item">>, <<"tasks", "item", "task">>}
    BY <1>3 DEF useTasks, useTask
  <2>4. IsPrefix(<<"tasks">>, q.key)
    BY <2>3, FirstWordIsPrefix
  <2> QED BY <2>2, <2>4 DEF Under
<1>4. CASE q = useItemTests
  <2>1. d = "test"
    BY <1>4 DEF useItemTests, Announced
  <2>2. <<"item-tests">> \in invalidateFor(d)
    BY <2>1 DEF invalidateFor
  <2>3. q.key \in {<<"item-tests", "item">>}
    BY <1>4 DEF useItemTests
  <2>4. IsPrefix(<<"item-tests">>, q.key)
    BY <2>3, FirstWordIsPrefix
  <2> QED BY <2>2, <2>4 DEF Under
<1>5. CASE q = useEpics
  <2>1. d = "epic"
    BY <1>5 DEF useEpics, Announced
  <2>2. <<"epics">> \in invalidateFor(d)
    BY <2>1 DEF invalidateFor
  <2>3. q.key \in {<<"epics">>}
    BY <1>5 DEF useEpics
  <2>4. IsPrefix(<<"epics">>, q.key)
    BY <2>3, FirstWordIsPrefix
  <2> QED BY <2>2, <2>4 DEF Under
<1>6. CASE q \in {useMilestones, useTimeline}
  <2>1. d = "milestone"
    BY <1>6 DEF useMilestones, useTimeline, Announced
  <2>2. <<"milestones">> \in invalidateFor(d)
    BY <2>1 DEF invalidateFor
  <2>3. q.key \in {<<"milestones">>, <<"milestones", "timeline">>}
    BY <1>6 DEF useMilestones, useTimeline
  <2>4. IsPrefix(<<"milestones">>, q.key)
    BY <2>3, FirstWordIsPrefix
  <2> QED BY <2>2, <2>4 DEF Under
<1>7. q \notin {useProjects, useAllProjects, useProject, useProjectTeams}
  BY DEF useProjects, useAllProjects, useProject, useProjectTeams, Announced
<1> QED BY <1>1, <1>2, <1>3, <1>4, <1>5, <1>6, <1>7 DEF Queries

\* What makes it inductive: where no news is on its way, a view is up to date
\* unless a fetch is on or, being away, it is stale; and a fetch that was
\* served has read the newest version.
OnItsWay ==
    missed = {} /\ query # useProjectTree =>
        \/ News
        \/ /\ cached = version \/ fetch.on \/ (~mounted /\ stale)
           /\ fetch.served => fetch.read = version

\* Only mutations of what the view reads are counted.
OwnIsRead == \A m \in own : m.does \in query.reads

LEMMA OwnIsReadNext == LiveInv /\ OwnIsRead /\ [LiveViewsNext]_liveVars => OwnIsRead'
<1> SUFFICES ASSUME LiveInv, OwnIsRead, [LiveViewsNext]_liveVars PROVE OwnIsRead'
  OBVIOUS
<1>1. ASSUME NEW m \in own, ServeMutation(m) PROVE OwnIsRead'
  <2>1. [m EXCEPT !.served = TRUE, !.version = version + 1].does = m.does
    BY DEF LiveInv, LiveViewsTypeOK
  <2> QED BY <1>1, <2>1 DEF ServeMutation, OwnIsRead
<1>2. ASSUME NEW m \in Mutations, Mutate(m) PROVE OwnIsRead'
  BY <1>2 DEF Mutate, OwnIsRead
<1>3. CASE own' \subseteq own /\ query' = query
  BY <1>3 DEF OwnIsRead
<1> QED
  BY <1>1, <1>2, <1>3
  DEF LiveViewsNext, liveVars, OthersWriteView, MutationAnswered, MutationFails, Deliver,
      ServeFetch, FetchAnswered, FetchFails, Leave, Return, StaleTimePasses, TokenChanges, Connect

\* A write of the view's data is news, or missed.
LEMMA WritesAreNews ==
    ASSUME LiveInv, NEW d \in query.reads, NEW told, CommitWrite(d, told), query' = query,
           told => \E m \in own' : m.served /\ m.stales
    PROVE  OnItsWay'
<1>1. CASE told
  BY <1>1 DEF OnItsWay, News
<1>2. CASE ~told /\ missed' # {}
  BY <1>2 DEF OnItsWay
<1>3. CASE d \in Announced /\ events' = Append(events, d) /\ query # useProjectTree
  <2>1. Under(query.key, invalidateFor(d))
    BY <1>3, ReadIsInvalidated DEF LiveInv, LiveViewsTypeOK
  <2>2. events \in Seq(Announced)
    BY DEF LiveInv, Counted
  <2>3. Len(events') \in 1..Len(events') /\ events'[Len(events')] = d
    BY <1>3, <2>2
  <2>4. News'
    BY <2>1, <2>3 DEF News
  <2> QED BY <2>4 DEF OnItsWay
<1>4. CASE query = useProjectTree
  BY <1>4 DEF OnItsWay
<1> QED BY <1>1, <1>2, <1>3, <1>4 DEF CommitWrite

\* An invalidation makes the view fetch, or be stale when it returns.
LEMMA InvalidatedIsOnItsWay ==
    ASSUME LiveInv, NoneAhead, Invalidate, UNCHANGED mounted
    PROVE  OnItsWay'
<1>1. CASE mounted
  BY <1>1, FetchFacts DEF Invalidate, OnItsWay
<1>2. CASE ~mounted /\ fetch.on
  BY <1>2 DEF Invalidate, OnItsWay
<1>3. CASE ~mounted /\ ~fetch.on
  BY <1>3 DEF Invalidate, OnItsWay, NoneAhead
<1> QED BY <1>1, <1>2, <1>3

LEMMA OnItsWayNext ==
    LiveInv /\ NoneAhead /\ OwnIsRead /\ OnItsWay /\ [LiveViewsNext]_liveVars => OnItsWay'
<1> SUFFICES ASSUME LiveInv, NoneAhead, OwnIsRead, OnItsWay, [LiveViewsNext]_liveVars
             PROVE  OnItsWay'
  OBVIOUS
<1>a. fetch \in Fetches /\ events \in Seq(Announced) /\ own \subseteq Writes
  BY DEF LiveInv, LiveViewsTypeOK, Counted, Fetches, Writes
<1>1. ASSUME NEW d \in Domains, OthersWriteView(d) PROVE OnItsWay'
  BY <1>1, WritesAreNews DEF OthersWriteView
<1>2. ASSUME NEW m \in Mutations, Mutate(m) PROVE OnItsWay'
  <2>1. News => News'
    BY <1>2 DEF Mutate, News
  <2> QED BY <1>2, <2>1 DEF Mutate, OnItsWay
<1>3. ASSUME NEW m \in own, ServeMutation(m) PROVE OnItsWay'
  <2>1. [m EXCEPT !.served = TRUE, !.version = version + 1].served = TRUE
        /\ [m EXCEPT !.served = TRUE, !.version = version + 1].stales = m.stales
    BY <1>a DEF Writes
  <2>2. m.stales => \E w \in own' : w.served /\ w.stales
    BY <1>3, <2>1 DEF ServeMutation
  <2>3. m.does \in query.reads /\ CommitWrite(m.does, m.stales) /\ query' = query
    BY <1>3 DEF ServeMutation, OwnIsRead
  <2> QED BY <2>2, <2>3, WritesAreNews
<1>4. ASSUME NEW m \in own, MutationAnswered(m) PROVE OnItsWay'
  <2>1. CASE m.stales
    BY <1>4, <2>1, InvalidatedIsOnItsWay DEF MutationAnswered
  <2>2. CASE ~m.stales
    <3>1. ~m.sets /\ UNCHANGED <<query, mounted, version, events, cached, stale, fetch, missed>>
      BY <1>4, <2>2 DEF MutationAnswered, NoneAhead
    <3>2. News => News'
      BY <1>4, <2>2, <3>1 DEF MutationAnswered, News
    <3> QED BY <3>1, <3>2 DEF OnItsWay
  <2> QED BY <2>1, <2>2
<1>5. ASSUME NEW m \in own, MutationFails(m) PROVE OnItsWay'
  <2>1. CASE m.served /\ m.stales
    BY <1>5, <2>1 DEF MutationFails, OnItsWay
  <2>2. CASE ~(m.served /\ m.stales)
    <3>1. News => News'
      BY <1>5, <2>2 DEF MutationFails, News
    <3> QED BY <1>5, <2>2, <3>1 DEF MutationFails, OnItsWay
  <2> QED BY <2>1, <2>2
<1>6. CASE Deliver
  <2>1. CASE Under(query.key, invalidateFor(Head(events)))
    BY <1>6, <2>1, InvalidatedIsOnItsWay DEF Deliver
  <2>2. CASE ~Under(query.key, invalidateFor(Head(events)))
    <3>1. UNCHANGED <<query, own, mounted, version, cached, stale, fetch, missed>>
          /\ events # <<>> /\ events' = Tail(events)
      BY <1>6, <2>2 DEF Deliver
    <3>2. ASSUME NEW n \in 1..Len(events), Under(query.key, invalidateFor(events[n]))
          PROVE  News'
      <4>1. n # 1
        BY <2>2, <3>1, <3>2, <1>a
      <4>2. n - 1 \in 1..Len(events') /\ events'[n - 1] = events[n]
        BY <1>a, <3>1, <4>1
      <4> QED BY <3>1, <3>2, <4>2 DEF News
    <3>3. News => News'
      BY <3>1, <3>2 DEF News
    <3> QED BY <3>1, <3>3 DEF OnItsWay
  <2> QED BY <2>1, <2>2
<1>7. CASE ServeFetch
  <2>1. fetch' = [fetch EXCEPT !.served = TRUE, !.read = version]
        /\ UNCHANGED <<query, mounted, version, cached, stale, events, own, missed>>
    BY <1>7 DEF ServeFetch
  <2>2. fetch'.on = fetch.on /\ fetch'.read = version
    BY <1>a, <2>1 DEF Fetches
  <2>3. News => News'
    BY <2>1 DEF News
  <2> QED BY <2>1, <2>2, <2>3 DEF OnItsWay
<1>8. CASE FetchAnswered
  <2>1. News => News'
    BY <1>8 DEF FetchAnswered, News
  <2> QED BY <1>8, <2>1, FetchFacts DEF FetchAnswered, OnItsWay
<1>9. CASE FetchFails
  <2>1. News => News'
    BY <1>9 DEF FetchFails, News
  <2>2. [NewFetch EXCEPT !.tries = 2].on /\ ~[NewFetch EXCEPT !.tries = 2].served
    BY FetchFacts DEF NewFetch
  <2>3. CASE fetch.tries = 1
    BY <1>9, <2>1, <2>2, <2>3 DEF FetchFails, OnItsWay
  <2>4. CASE fetch.tries # 1
    BY <1>9, <2>4 DEF FetchFails, OnItsWay
  <2> QED BY <2>3, <2>4
<1>10. CASE Leave
  <2>1. News => News'
    BY <1>10 DEF Leave, News
  <2> QED BY <1>10, <2>1 DEF Leave, OnItsWay
<1>11. CASE Return
  <2>1. News => News'
    BY <1>11 DEF Return, News
  <2> QED BY <1>11, <2>1, FetchFacts DEF Return, OnItsWay
<1>12. CASE StaleTimePasses
  <2>1. News => News'
    BY <1>12 DEF StaleTimePasses, News
  <2> QED BY <1>12, <2>1 DEF StaleTimePasses, OnItsWay
<1>13. CASE TokenChanges
  <2>1. CASE events = <<>>
    <3>1. News => News'
      BY <1>13, <2>1 DEF TokenChanges, News
    <3> QED BY <1>13, <2>1, <3>1 DEF TokenChanges, OnItsWay
  <2>2. CASE events # <<>>
    BY <1>13, <2>2 DEF TokenChanges, OnItsWay
  <2> QED BY <2>1, <2>2
<1>14. CASE Connect
  <2>1. News => News'
    BY <1>14 DEF Connect, News
  <2> QED BY <1>14, <2>1 DEF Connect, OnItsWay
<1>15. CASE UNCHANGED liveVars
  <2>1. News => News'
    BY <1>15 DEF liveVars, News
  <2> QED BY <1>15, <2>1 DEF liveVars, OnItsWay
<1> QED
  BY <1>1, <1>2, <1>3, <1>4, <1>5, <1>6, <1>7, <1>8, <1>9, <1>10, <1>11, <1>12, <1>13, <1>14,
     <1>15
  DEF LiveViewsNext

\* A view on the screen that shows an old version has a fetch on that will read
\* the newest, or news of it on its way, for every query but one and any number
\* of writes: the part of LiveViewCatchesUp that needs no fairness.
THEOREM BehindNotForLong == LiveViewsSpec => []BehindOnlyInBetween
<1>1. LiveViewsInit => NoneAhead /\ OwnIsRead /\ OnItsWay
  BY FetchFacts DEF LiveViewsInit, NoneAhead, OwnIsRead, OnItsWay
<1>2. OnItsWay => BehindOnlyInBetween
  BY DEF OnItsWay, BehindOnlyInBetween
<1> QED
  BY <1>1, <1>2, LiveInitInv, LiveNextInv, NoneAheadNext, OwnIsReadNext, OnItsWayNext, PTL
  DEF LiveViewsSpec

------------------------------------------------------------------------------
(* Frame of the pages: tabs *)

Tab == [at : Routes \cup {"closed", "login", "password"}, who : Signed,
        from : Routes \cup {"password", NoRoute}, quiet : 0..MaxIdle,
        leaving : SUBSET {"timer", "refresh", "user"},
        asking : BOOLEAN, told : SUBSET Users]

\* The longest idle time is one, and no other is longer.
LEMMA LongestIdle ==
    /\ MaxIdle \in IdleLimits /\ MaxIdle \in Nat
    /\ \A n \in IdleLimits \cup {0} : n \in Nat /\ n <= MaxIdle
<1>1. \E n \in IdleLimits : \A m \in IdleLimits : m <= n
  BY ShellAssumption
<1>2. MaxIdle \in IdleLimits /\ \A m \in IdleLimits : m <= MaxIdle
  BY <1>1 DEF MaxIdle
<1> QED BY <1>2, ShellAssumption

\* What the guard makes of a tab.
LEMMA Guarded ==
    ASSUME NEW x \in Tab
    PROVE  /\ ProtectedRoute(x) \in Tab
           /\ ProtectedRoute(x).who = x.who /\ ProtectedRoute(x).quiet = x.quiet
           /\ ProtectedRoute(x).leaving = x.leaving
           /\ x.at \in {"closed", "login"} => ProtectedRoute(x) = x
           /\ x.at \in Routes \cup {"password"} =>
                 IF x.who.login = 0
                 THEN ProtectedRoute(x).at = "login" /\ ProtectedRoute(x).from = x.at
                 ELSE ProtectedRoute(x).at = "password" \/ ProtectedRoute(x) = x
<1>1. CASE x.at \in {"closed", "login"}
  BY <1>1, ShellAssumption DEF ProtectedRoute
<1>2. CASE x.at \in Routes \cup {"password"} /\ x.who.login = 0
  <2>1. x.at \notin {"closed", "login"}
    BY <1>2, ShellAssumption
  <2>2. ProtectedRoute(x) = [x EXCEPT !.at = "login", !.from = x.at]
    BY <1>2, <2>1 DEF ProtectedRoute
  <2> QED BY <1>2, <2>1, <2>2 DEF Tab
<1>3. CASE x.at \in Routes \cup {"password"} /\ x.who.login # 0
  <2>1. x.at \notin {"closed", "login"}
    BY <1>3, ShellAssumption
  <2>2. CASE x.who.forced
    <3>1. ProtectedRoute(x) = [x EXCEPT !.at = "password", !.from = NoRoute]
      BY <1>3, <2>1, <2>2 DEF ProtectedRoute
    <3> QED BY <1>3, <2>1, <3>1 DEF Tab
  <2>3. CASE ~x.who.forced
    BY <1>3, <2>1, <2>3 DEF ProtectedRoute
  <2> QED BY <2>2, <2>3
<1> QED BY <1>1, <1>2, <1>3 DEF Tab

\* What an act of the user makes of his tab and of the others.
LEMMA Acted ==
    ASSUME tabs \in [Tabs -> Tab], alone \in [Tabs -> 0..MaxIdle + 1],
           lastSeen \in [Tabs -> Routes \cup {"password", NoRoute}],
           NEW t \in Tabs, NEW x \in Tab, Act(t, x)
    PROVE  /\ tabs' \in [Tabs -> Tab] /\ alone' \in [Tabs -> 0..MaxIdle + 1]
           /\ lastSeen' \in [Tabs -> Routes \cup {"password", NoRoute}]
           /\ \A u \in Tabs \ {t} : /\ tabs'[u] = tabs[u] /\ alone'[u] = alone[u]
                                    /\ lastSeen'[u] = lastSeen[u]
           /\ tabs'[t] = [ProtectedRoute(x) EXCEPT !.quiet = 0]
           /\ tabs'[t].quiet = 0 /\ alone'[t] = 0
           /\ tabs'[t].at = ProtectedRoute(x).at /\ tabs'[t].who = x.who
           /\ tabs'[t].from = ProtectedRoute(x).from /\ tabs'[t].leaving = x.leaving
           /\ lastSeen'[t] = Seen(t, x)
<1>1. ProtectedRoute(x) \in Tab
  BY Guarded
<1>2. 0 \in 0..MaxIdle /\ 0 \in 0..MaxIdle + 1
  BY LongestIdle
<1> DEFINE y == [ProtectedRoute(x) EXCEPT !.quiet = 0]
<1>3. /\ y \in Tab /\ y.quiet = 0 /\ y.at = ProtectedRoute(x).at /\ y.who = ProtectedRoute(x).who
      /\ y.from = ProtectedRoute(x).from /\ y.leaving = ProtectedRoute(x).leaving
  BY <1>1, <1>2 DEF Tab
<1>4. Seen(t, x) \in Routes \cup {"password", NoRoute}
  BY DEF Seen
<1>5. tabs' = [tabs EXCEPT ![t] = y]
  BY DEF Act
<1> HIDE DEF y
<1>6. tabs' \in [Tabs -> Tab] /\ tabs'[t] = y /\ \A u \in Tabs \ {t} : tabs'[u] = tabs[u]
  BY <1>3, <1>5
<1>7. y.who = x.who /\ y.leaving = x.leaving
  BY <1>3, Guarded
<1>8. /\ alone' \in [Tabs -> 0..MaxIdle + 1] /\ alone'[t] = 0
      /\ lastSeen' \in [Tabs -> Routes \cup {"password", NoRoute}] /\ lastSeen'[t] = Seen(t, x)
      /\ \A u \in Tabs \ {t} : alone'[u] = alone[u] /\ lastSeen'[u] = lastSeen[u]
  BY <1>2, <1>4 DEF Act
<1>9. y = [ProtectedRoute(x) EXCEPT !.quiet = 0]
  BY DEF y
<1> QED BY <1>3, <1>6, <1>7, <1>8, <1>9

-----------------------------------------------------------------------------
LEMMA ShellInitTyped == ShellInit => ShellTypeOK
<1> SUFFICES ASSUME ShellInit PROVE ShellTypeOK
  OBVIOUS
<1>1. 0 \in SignIns /\ 0 \in 0..MaxWalks /\ 0 \in 0..MaxIdle /\ 0 \in 0..MaxIdle + 1
  BY ShellAssumption, LongestIdle DEF SignIns
<1>2. Nobody \in Signed /\ {} \in SUBSET {"timer", "refresh", "user"}
  BY <1>1 DEF Nobody, Signed
<1>3. [at |-> "closed", who |-> Nobody, from |-> NoRoute, quiet |-> 0, leaving |-> {},
       asking |-> FALSE, told |-> {}] \in Tab
  BY <1>1, <1>2 DEF Tab
<1>4. tabs \in [Tabs -> Tab]
  BY <1>3 DEF ShellInit
<1> QED BY <1>1, <1>2, <1>4 DEF ShellInit, ShellTypeOK, Tab

\* What each act of the user is: his tab goes on from inside the shell.
Acts(t) ==
    \/ \E p \in Routes \cup {"password"} : Load(t, p) \/ Navigate(t, p)
    \/ reset(t) \/ onSubmit(t) \/ changePassword(t) \/ updateInfo(t) \/ handleLogout(t)
    \/ \E n \in IdleLimits : handleIdleTimeoutChange(t, n)

\* What an act leaves of everything but the tabs.
FrameTyped ==
    /\ sessionAt \in SignIns /\ mustChange \in BOOLEAN /\ idleChoice \in IdleLimits
    /\ storage \in Signed
    /\ signIns \in SignIns /\ walks \in 0..MaxWalks

LEMMA ActsGoOn ==
    ASSUME ShellTypeOK, NEW t \in Tabs, Acts(t)
    PROVE  /\ FrameTyped'
           /\ \E x \in Tab : x.at \in Routes \cup {"password"} /\ Act(t, x)
<1>a. /\ tabs[t] \in Tab /\ tabs[t].who \in Signed /\ storage \in Signed
      /\ NoRoute \in Routes \cup {"password", NoRoute}
      /\ tabs[t].leaving \in SUBSET {"timer", "refresh", "user"}
      /\ signIns \in SignIns /\ walks \in 0..MaxWalks /\ MaxWalks \in Nat /\ MaxSignIns \in Nat
  BY ShellAssumption DEF ShellTypeOK, Tab
<1>b. Walk => walks' \in 0..MaxWalks
  BY <1>a DEF Walk
<1>c. onSubmit(t) => signIns' \in SignIns
  BY <1>a DEF onSubmit, SignIns
<1> USE DEF FrameTyped
<1> DEFINE Goal == /\ FrameTyped'
                   /\ \E x \in Tab : x.at \in Routes \cup {"password"} /\ Act(t, x)
<1>1. ASSUME NEW p \in Routes \cup {"password"}, Load(t, p) PROVE Goal
  <2> DEFINE x == [tabs[t] EXCEPT !.at = p, !.who = storage, !.from = NoRoute, !.leaving = {},
                                  !.asking = FALSE, !.told = {}]
  <2>1. x \in Tab /\ x.at = p
    BY <1>a DEF Tab
  <2>2. Act(t, x)
    BY <1>1 DEF Load
  <2> HIDE DEF x
  <2>3. FrameTyped'
    BY <1>1, <1>b DEF Load, ShellTypeOK
  <2> QED BY <2>1, <2>2, <2>3
<1>2. ASSUME NEW p \in Routes \cup {"password"}, Navigate(t, p) PROVE Goal
  <2> DEFINE x == [tabs[t] EXCEPT !.at = p]
  <2>1. x \in Tab /\ x.at = p
    BY <1>a DEF Tab
  <2>2. Act(t, x)
    BY <1>2 DEF Navigate
  <2> HIDE DEF x
  <2>3. FrameTyped'
    BY <1>2, <1>b DEF Navigate, ShellTypeOK
  <2> QED BY <2>1, <2>2, <2>3
<1>3. CASE onSubmit(t)
  <2> DEFINE p == IF tabs[t].from = NoRoute THEN Home ELSE tabs[t].from
             x == [tabs[t] EXCEPT !.who = storage', !.from = NoRoute, !.at = p]
  <2>1. FrameTyped'
    <3>1. storage' \in Signed
      BY <1>3, <1>a, <1>c DEF onSubmit, Signed, ShellTypeOK
    <3> QED BY <1>3, <1>c, <3>1 DEF onSubmit, ShellTypeOK
  <2>2. p \in Routes \cup {"password"}
    BY <1>a, ShellAssumption DEF Tab
  <2>3. x \in Tab /\ x.at = p
    <3> HIDE DEF p
    <3> QED BY <1>a, <2>1, <2>2 DEF Tab
  <2>4. Act(t, x)
    BY <1>3 DEF onSubmit
  <2> HIDE DEF x
  <2> QED BY <2>1, <2>2, <2>3, <2>4
<1>4. CASE changePassword(t)
  <2> DEFINE x == [tabs[t] EXCEPT !.who = storage', !.at = Teams]
  <2>1. FrameTyped'
    <3>1. storage' \in Signed
      BY <1>4, <1>a DEF changePassword, Signed, ShellTypeOK
    <3> QED BY <1>4, <3>1 DEF changePassword, ShellTypeOK
  <2>2. x \in Tab /\ x.at = Teams
    BY <1>a, <2>1, ShellAssumption DEF Tab
  <2>3. Act(t, x)
    BY <1>4 DEF changePassword
  <2> HIDE DEF x
  <2> QED BY <2>1, <2>2, <2>3, ShellAssumption
<1>5. CASE handleLogout(t)
  <2> DEFINE x == [tabs[t] EXCEPT !.leaving = @ \cup {"user"}]
  <2>1. x \in Tab /\ x.at = tabs[t].at
    BY <1>a DEF Tab
  <2>2. Act(t, x) /\ tabs[t].at \in Routes
    BY <1>5 DEF handleLogout
  <2> HIDE DEF x
  <2>3. FrameTyped'
    BY <1>5 DEF handleLogout, ShellTypeOK
  <2> QED BY <2>1, <2>2, <2>3
<1>6. ASSUME NEW n \in IdleLimits, handleIdleTimeoutChange(t, n) PROVE Goal
  <2>1. Act(t, tabs[t]) /\ tabs[t].at \in Routes
    BY <1>6 DEF handleIdleTimeoutChange
  <2>2. FrameTyped'
    BY <1>6, <1>b DEF handleIdleTimeoutChange, ShellTypeOK
  <2> QED BY <1>a, <2>1, <2>2
<1>7. CASE reset(t)
  <2>1. Act(t, tabs[t]) /\ tabs[t].at \in Routes
    BY <1>7 DEF reset
  <2>2. FrameTyped'
    BY <1>7 DEF reset, ShellTypeOK
  <2> QED BY <1>a, <2>1, <2>2
<1>8. CASE updateInfo(t)
  <2> DEFINE x == [tabs[t] EXCEPT !.asking = TRUE]
  <2>1. x \in Tab /\ x.at = tabs[t].at
    BY <1>a DEF Tab
  <2>2. Act(t, x) /\ tabs[t].at \in Routes
    BY <1>8 DEF updateInfo
  <2> HIDE DEF x
  <2>3. FrameTyped'
    BY <1>8, <1>b DEF updateInfo, ShellTypeOK
  <2> QED BY <2>1, <2>2, <2>3
<1> QED BY <1>1, <1>2, <1>3, <1>4, <1>5, <1>6, <1>7, <1>8 DEF Acts

\* A tab whose logout has ended, by whoever asked for it.
Out(t, why) == ProtectedRoute([tabs[t] EXCEPT !.who = Nobody, !.leaving = @ \ {why}])

\* Such a tab is at the login page or closed; it knows where from unless its
\* user signed out himself.
LEMMA LeftOut ==
    ASSUME ShellTypeOK, NEW t \in Tabs, NEW why, LoggedOut(t, why)
    PROVE  /\ Nobody \in Signed /\ tabs' \in [Tabs -> Tab]
           /\ lastSeen' \in [Tabs -> Routes \cup {"password", NoRoute}]
           /\ \A u \in Tabs \ {t} : tabs'[u] = tabs[u] /\ lastSeen'[u] = lastSeen[u]
           /\ tabs'[t].at \in {"closed", "login"}
           /\ why = "user" => tabs'[t].from = NoRoute /\ lastSeen'[t] = NoRoute
           /\ why # "user" =>
                 /\ lastSeen'[t] = lastSeen[t]
                 /\ \/ tabs[t].at \in {"closed", "login"} /\ tabs'[t].at = tabs[t].at
                       /\ tabs'[t].from = tabs[t].from
                    \/ tabs[t].at \in Routes \cup {"password"} /\ tabs'[t].from = tabs[t].at
<1>a. /\ tabs \in [Tabs -> Tab] /\ tabs[t] \in Tab
      /\ lastSeen \in [Tabs -> Routes \cup {"password", NoRoute}]
  BY DEF ShellTypeOK, Tab
<1>b. Nobody \in Signed /\ Nobody.login = 0
  BY ShellAssumption DEF Nobody, Signed, SignIns
<1> DEFINE x == [tabs[t] EXCEPT !.who = Nobody, !.leaving = @ \ {why}]
           y == IF why = "user" THEN [Out(t, why) EXCEPT !.at = "login", !.from = NoRoute]
                ELSE Out(t, why)
<1>1. x \in Tab /\ x.at = tabs[t].at /\ x.who = Nobody /\ x.from = tabs[t].from
  BY <1>a, <1>b DEF Tab
<1>2. Out(t, why) = ProtectedRoute(x)
  BY DEF Out
<1>3. tabs' = [tabs EXCEPT ![t] = y]
  BY DEF LoggedOut, Out
<1> HIDE DEF x
<1>4. /\ Out(t, why) \in Tab
      /\ \/ tabs[t].at \in {"closed", "login"} /\ Out(t, why).at = tabs[t].at
            /\ Out(t, why).from = tabs[t].from
         \/ tabs[t].at \in Routes \cup {"password"} /\ Out(t, why).at = "login"
            /\ Out(t, why).from = tabs[t].at
  <2>1. Out(t, why) \in Tab
    BY <1>1, <1>2, Guarded
  <2>2. tabs[t].at \in Routes \cup {"closed", "login", "password"}
    BY <1>a DEF Tab
  <2> QED BY <1>1, <1>2, <1>b, <2>1, <2>2, Guarded
<1>5. /\ y \in Tab
      /\ why # "user" => y = Out(t, why)
      /\ why = "user" => y.at = "login" /\ y.from = NoRoute
  BY <1>4 DEF Tab
<1> HIDE DEF y
<1>6. tabs' \in [Tabs -> Tab] /\ tabs'[t] = y /\ \A u \in Tabs \ {t} : tabs'[u] = tabs[u]
  BY <1>a, <1>3, <1>5
<1>7. /\ lastSeen' \in [Tabs -> Routes \cup {"password", NoRoute}]
      /\ \A u \in Tabs \ {t} : lastSeen'[u] = lastSeen[u]
      /\ lastSeen'[t] = IF why = "user" THEN NoRoute ELSE lastSeen[t]
  BY <1>a DEF LoggedOut
<1> QED BY <1>b, <1>4, <1>5, <1>6, <1>7

\* A logout that is asked for by nobody's hand, a refresh, or the server's
\* reading of the user leaves the tab where it is.
LEMMA StaysThere ==
    ASSUME ShellTypeOK, NEW t \in Tabs,
           idleLogout(t) \/ refreshed(t) \/ refreshFails(t) \/ Me(t)
    PROVE  /\ tabs' \in [Tabs -> Tab] /\ storage' \in Signed /\ walks' \in 0..MaxWalks
           /\ \A u \in Tabs : /\ tabs'[u].at = tabs[u].at /\ tabs'[u].from = tabs[u].from
                              /\ tabs'[u].quiet = tabs[u].quiet
                              /\ tabs'[u].who.limit = tabs[u].who.limit
                              /\ tabs[u].leaving \subseteq tabs'[u].leaving
           /\ UNCHANGED <<sessionAt, mustChange, idleChoice, signIns, alone, lastSeen>>
<1>a. /\ tabs \in [Tabs -> Tab] /\ tabs[t] \in Tab /\ storage \in Signed /\ tabs[t].who \in Signed
      /\ sessionAt \in SignIns /\ walks \in 0..MaxWalks /\ MaxWalks \in Nat
  BY ShellAssumption DEF ShellTypeOK, Tab
<1>1. ASSUME NEW x \in Tab, tabs' = [tabs EXCEPT ![t] = x], x.at = tabs[t].at,
             x.from = tabs[t].from, x.quiet = tabs[t].quiet,
             x.who.limit = tabs[t].who.limit, tabs[t].leaving \subseteq x.leaving
      PROVE  /\ tabs' \in [Tabs -> Tab]
             /\ \A u \in Tabs : /\ tabs'[u].at = tabs[u].at /\ tabs'[u].from = tabs[u].from
                                /\ tabs'[u].quiet = tabs[u].quiet
                                /\ tabs'[u].who.limit = tabs[u].who.limit
                                /\ tabs[u].leaving \subseteq tabs'[u].leaving
  <2>1. tabs' \in [Tabs -> Tab] /\ tabs'[t] = x /\ \A u \in Tabs \ {t} : tabs'[u] = tabs[u]
    BY <1>a, <1>1
  <2> QED BY <1>1, <2>1
<1>2. ASSUME NEW why \in {"timer", "refresh"}
      PROVE  LET x == [tabs[t] EXCEPT !.leaving = @ \cup {why}]
             IN  /\ x \in Tab /\ x.at = tabs[t].at /\ x.from = tabs[t].from
                 /\ x.quiet = tabs[t].quiet /\ x.who = tabs[t].who
                 /\ tabs[t].leaving \subseteq x.leaving
  BY <1>a DEF Tab
<1>3. CASE idleLogout(t)
  <2> DEFINE x == [tabs[t] EXCEPT !.leaving = @ \cup {"timer"}]
  <2>1. /\ x \in Tab /\ x.at = tabs[t].at /\ x.from = tabs[t].from /\ x.quiet = tabs[t].quiet
        /\ x.who = tabs[t].who /\ tabs[t].leaving \subseteq x.leaving
    BY <1>2
  <2>2. tabs' = [tabs EXCEPT ![t] = x]
    BY <1>3 DEF idleLogout
  <2> HIDE DEF x
  <2> QED BY <1>1, <1>3, <1>a, <2>1, <2>2 DEF idleLogout
<1>4. CASE refreshFails(t)
  <2> DEFINE x == [tabs[t] EXCEPT !.leaving = @ \cup {"refresh"}]
  <2>1. /\ x \in Tab /\ x.at = tabs[t].at /\ x.from = tabs[t].from /\ x.quiet = tabs[t].quiet
        /\ x.who = tabs[t].who /\ tabs[t].leaving \subseteq x.leaving
    BY <1>2
  <2>2. tabs' = [tabs EXCEPT ![t] = x]
    BY <1>4 DEF refreshFails
  <2>3. walks' \in 0..MaxWalks
    BY <1>4, <1>a DEF refreshFails, Walk
  <2> HIDE DEF x
  <2> QED BY <1>1, <1>4, <1>a, <2>1, <2>2, <2>3 DEF refreshFails
<1>5. CASE refreshed(t)
  <2>1. storage' \in Signed /\ storage'.limit = tabs[t].who.limit
    BY <1>5, <1>a DEF refreshed, Signed
  <2> DEFINE x == [tabs[t] EXCEPT !.who = storage']
  <2>2. /\ x \in Tab /\ x.at = tabs[t].at /\ x.from = tabs[t].from /\ x.quiet = tabs[t].quiet
        /\ x.who = storage' /\ tabs[t].leaving = x.leaving
    BY <1>a, <2>1 DEF Tab
  <2>3. tabs' = [tabs EXCEPT ![t] = x]
    BY <1>5 DEF refreshed
  <2> HIDE DEF x
  <2> QED BY <1>1, <1>5, <1>a, <2>1, <2>2, <2>3 DEF refreshed
<1>6. CASE Me(t)
  <2> DEFINE user == [limit |-> idleChoice, forced |-> mustChange]
             x == [tabs[t] EXCEPT !.asking = FALSE, !.told = @ \cup {user}]
  <2>1. user \in Users
    BY DEF ShellTypeOK, Users
  <2>2. tabs' = [tabs EXCEPT ![t] = x]
    BY <1>6 DEF Me
  <2> HIDE DEF user
  <2>3. /\ x \in Tab /\ x.at = tabs[t].at /\ x.from = tabs[t].from /\ x.quiet = tabs[t].quiet
        /\ x.who = tabs[t].who /\ tabs[t].leaving \subseteq x.leaving
    BY <1>a, <2>1 DEF Tab
  <2> HIDE DEF x
  <2> QED BY <1>1, <1>6, <1>a, <2>2, <2>3 DEF Me
<1> QED BY <1>3, <1>4, <1>5, <1>6

\* A tab that learns who its user is goes on where the guard lets it; its
\* timer starts again if the idle time is another.
LEMMA Learned ==
    ASSUME ShellTypeOK, NEW t \in Tabs, NEW u \in Users, loadMe(t, u)
    PROVE  /\ tabs' \in [Tabs -> Tab] /\ storage' \in Signed
           /\ alone' \in [Tabs -> 0..MaxIdle + 1]
           /\ \A v \in Tabs \ {t} : tabs'[v] = tabs[v] /\ alone'[v] = alone[v]
           /\ \/ tabs'[t].at = tabs[t].at /\ tabs'[t].from = tabs[t].from
              \/ tabs[t].at \in Routes \cup {"password"} /\ tabs'[t].at = "login"
                    /\ tabs'[t].from = tabs[t].at
              \/ tabs'[t].at = "password"
           /\ tabs'[t].leaving = tabs[t].leaving
           /\ \/ tabs'[t].quiet = 0 /\ alone'[t] = 0
              \/ /\ tabs'[t].quiet = tabs[t].quiet /\ alone'[t] = alone[t]
                 /\ tabs'[t].who.limit = tabs[t].who.limit
<1> DEFINE new == u.limit # tabs[t].who.limit
           x == [tabs[t] EXCEPT !.who = storage', !.told = @ \ {u},
                                !.quiet = IF new THEN 0 ELSE @]
           y == ProtectedRoute(x)
<1>a. /\ tabs \in [Tabs -> Tab] /\ tabs[t] \in Tab /\ tabs[t].who \in Signed
      /\ alone \in [Tabs -> 0..MaxIdle + 1]
      /\ tabs[t].at \in Routes \cup {"closed", "login", "password"}
  BY DEF ShellTypeOK, Tab
<1>b. 0 \in 0..MaxIdle /\ 0 \in 0..MaxIdle + 1
  BY LongestIdle
<1>1. storage' = [tabs[t].who EXCEPT !.limit = u.limit, !.forced = u.forced]
  BY DEF loadMe
<1>2. storage' \in Signed /\ storage'.limit = u.limit
  BY <1>1, <1>a DEF Signed, Users
<1>3. tabs' = [tabs EXCEPT ![t] = y]
  BY DEF loadMe
<1>4. alone' = [alone EXCEPT ![t] = IF new THEN 0 ELSE @]
  BY DEF loadMe
<1>5. /\ x \in Tab /\ x.at = tabs[t].at /\ x.from = tabs[t].from /\ x.who = storage'
      /\ x.leaving = tabs[t].leaving /\ x.quiet = IF new THEN 0 ELSE tabs[t].quiet
  <2> HIDE DEF new
  <2> QED BY <1>a, <1>b, <1>2 DEF Tab
<1> HIDE DEF x
<1>6. /\ y \in Tab /\ y.who = x.who /\ y.quiet = x.quiet /\ y.leaving = x.leaving
      /\ \/ y.at = x.at /\ y.from = x.from
         \/ x.at \in Routes \cup {"password"} /\ y.at = "login" /\ y.from = x.at
         \/ y.at = "password"
  BY <1>a, <1>5, Guarded
<1> HIDE DEF y
<1>7. tabs' \in [Tabs -> Tab] /\ tabs'[t] = y /\ \A v \in Tabs \ {t} : tabs'[v] = tabs[v]
  BY <1>a, <1>3, <1>6
<1>8. /\ alone' \in [Tabs -> 0..MaxIdle + 1] /\ alone'[t] = IF new THEN 0 ELSE alone[t]
      /\ \A v \in Tabs \ {t} : alone'[v] = alone[v]
  <2> HIDE DEF new
  <2> QED BY <1>a, <1>b, <1>4
<1>9. CASE new
  BY <1>2, <1>5, <1>6, <1>7, <1>8, <1>9
<1>10. CASE ~new
  BY <1>2, <1>5, <1>6, <1>7, <1>8, <1>10
<1> QED BY <1>9, <1>10

\* A tab that cannot learn it forgets its login, and knows where from.
LEMMA Unlearned ==
    ASSUME ShellTypeOK, NEW t \in Tabs, loadMeFails(t)
    PROVE  /\ tabs' \in [Tabs -> Tab] /\ storage' \in Signed
           /\ \A v \in Tabs \ {t} : tabs'[v] = tabs[v]
           /\ tabs'[t].at \in {"closed", "login"}
           /\ \/ tabs'[t].at = tabs[t].at /\ tabs'[t].from = tabs[t].from
              \/ tabs[t].at \in Routes \cup {"password"} /\ tabs'[t].from = tabs[t].at
<1> DEFINE x == [tabs[t] EXCEPT !.who = Nobody, !.asking = FALSE]
           y == ProtectedRoute(x)
<1>a. /\ tabs \in [Tabs -> Tab] /\ tabs[t] \in Tab
      /\ tabs[t].at \in Routes \cup {"closed", "login", "password"}
  BY DEF ShellTypeOK, Tab
<1>b. Nobody \in Signed /\ Nobody.login = 0
  BY ShellAssumption DEF Nobody, Signed, SignIns
<1>1. tabs' = [tabs EXCEPT ![t] = y] /\ storage' = Nobody
  BY DEF loadMeFails
<1>2. x \in Tab /\ x.at = tabs[t].at /\ x.from = tabs[t].from /\ x.who = Nobody
  BY <1>a, <1>b DEF Tab
<1> HIDE DEF x
<1>3. /\ y \in Tab /\ y.at \in {"closed", "login"}
      /\ \/ y.at = x.at /\ y.from = x.from
         \/ x.at \in Routes \cup {"password"} /\ y.from = x.at
  BY <1>a, <1>b, <1>2, Guarded
<1> HIDE DEF y
<1>4. tabs' \in [Tabs -> Tab] /\ tabs'[t] = y /\ \A v \in Tabs \ {t} : tabs'[v] = tabs[v]
  BY <1>a, <1>1, <1>3
<1> QED BY <1>b, <1>1, <1>2, <1>3, <1>4

\* Time passes in every tab.
LEMMA Ticked ==
    ASSUME ShellTypeOK, Tick
    PROVE  /\ tabs' \in [Tabs -> Tab] /\ alone' \in [Tabs -> 0..MaxIdle + 1]
           /\ \A u \in Tabs :
                 /\ tabs'[u].at = tabs[u].at /\ tabs'[u].from = tabs[u].from
                 /\ tabs'[u].who = tabs[u].who /\ tabs'[u].leaving = tabs[u].leaving
                 /\ tabs'[u].quiet = tabs[u].quiet + IF Running(tabs[u]) THEN 1 ELSE 0
                 /\ alone'[u] = IF Armed(tabs[u]) /\ alone[u] <= MaxIdle
                                THEN alone[u] + 1 ELSE alone[u]
           /\ UNCHANGED <<sessionAt, mustChange, idleChoice, storage, signIns, walks, lastSeen>>
<1>1. ASSUME NEW u \in Tabs
      PROVE  LET x == [tabs[u] EXCEPT !.quiet = IF Running(tabs[u]) THEN @ + 1 ELSE @]
             IN  /\ x \in Tab /\ x.at = tabs[u].at /\ x.from = tabs[u].from
                 /\ x.who = tabs[u].who /\ x.leaving = tabs[u].leaving
                 /\ x.quiet = tabs[u].quiet + IF Running(tabs[u]) THEN 1 ELSE 0
  <2>1. tabs[u] \in Tab /\ tabs[u].quiet \in 0..MaxIdle
    BY DEF ShellTypeOK, Tab
  <2>2. tabs[u].who.limit \in IdleLimits \cup {0}
    BY <2>1 DEF Tab, Signed
  <2>3. Running(tabs[u]) => tabs[u].quiet + 1 \in 0..MaxIdle
    <3>1. tabs[u].who.limit \in Nat /\ tabs[u].who.limit <= MaxIdle /\ MaxIdle \in Nat
      BY <2>2, LongestIdle
    <3> QED BY <2>1, <3>1 DEF Running
  <2> QED BY <2>1, <2>3 DEF Tab
<1>2. tabs' = [t \in Tabs |-> [tabs[t] EXCEPT !.quiet = IF Running(tabs[t]) THEN @ + 1 ELSE @]]
  BY DEF Tick
<1>3. alone' \in [Tabs -> 0..MaxIdle + 1]
  BY LongestIdle DEF Tick, ShellTypeOK
<1>4. \A u \in Tabs : alone'[u] = IF Armed(tabs[u]) /\ alone[u] <= MaxIdle
                                THEN alone[u] + 1 ELSE alone[u]
  BY DEF Tick
<1>5. tabs' \in [Tabs -> Tab]
  BY <1>1, <1>2
<1>6. ASSUME NEW u \in Tabs
      PROVE  /\ tabs'[u].at = tabs[u].at /\ tabs'[u].from = tabs[u].from
             /\ tabs'[u].who = tabs[u].who /\ tabs'[u].leaving = tabs[u].leaving
             /\ tabs'[u].quiet = tabs[u].quiet + IF Running(tabs[u]) THEN 1 ELSE 0
  BY <1>1, <1>2
<1>7. UNCHANGED <<sessionAt, mustChange, idleChoice, storage, signIns, walks, lastSeen>>
  BY DEF Tick
<1> QED BY <1>3, <1>4, <1>5, <1>6, <1>7

LEMMA ShellNextCases ==
    ASSUME [ShellNext]_shellVars
    PROVE  \/ Tick
           \/ \E t \in Tabs : \/ Acts(t)
                              \/ \E why \in {"timer", "refresh", "user"} : LoggedOut(t, why)
                              \/ idleLogout(t) \/ refreshed(t) \/ refreshFails(t) \/ Me(t)
                              \/ loadMeFails(t) \/ \E u \in Users : loadMe(t, u)
           \/ UNCHANGED shellVars
BY DEF ShellNext, Acts

LEMMA ShellNextTyped == ShellTypeOK /\ [ShellNext]_shellVars => ShellTypeOK'
<1> SUFFICES ASSUME ShellTypeOK, [ShellNext]_shellVars PROVE ShellTypeOK'
  OBVIOUS
<1>a. /\ FrameTyped
      /\ tabs \in [Tabs -> Tab] /\ alone \in [Tabs -> 0..MaxIdle + 1]
      /\ lastSeen \in [Tabs -> Routes \cup {"password", NoRoute}]
  BY DEF ShellTypeOK, FrameTyped, Tab
<1>1. CASE Tick
  BY <1>1, <1>a, Ticked DEF FrameTyped, ShellTypeOK, Tab
<1>2. ASSUME NEW t \in Tabs, Acts(t) PROVE ShellTypeOK'
  <2>1. FrameTyped' /\ \E x \in Tab : x.at \in Routes \cup {"password"} /\ Act(t, x)
    BY <1>2, ActsGoOn
  <2>2. PICK x \in Tab : Act(t, x)
    BY <2>1
  <2>3. /\ tabs' \in [Tabs -> Tab] /\ alone' \in [Tabs -> 0..MaxIdle + 1]
        /\ lastSeen' \in [Tabs -> Routes \cup {"password", NoRoute}]
    BY <1>a, <2>2, Acted
  <2> QED BY <2>1, <2>3 DEF FrameTyped, ShellTypeOK, Tab
<1>3. ASSUME NEW t \in Tabs, NEW why \in {"timer", "refresh", "user"}, LoggedOut(t, why)
      PROVE  ShellTypeOK'
  <2>1. /\ tabs' \in [Tabs -> Tab] /\ Nobody \in Signed
        /\ lastSeen' \in [Tabs -> Routes \cup {"password", NoRoute}]
    BY <1>3, LeftOut
  <2>2. sessionAt' \in SignIns /\ storage' \in Signed
    BY <1>3, <1>a, <2>1, ShellAssumption DEF LoggedOut, FrameTyped, SignIns
  <2>3. UNCHANGED <<mustChange, idleChoice, signIns, walks, alone>>
    BY <1>3 DEF LoggedOut
  <2> QED BY <1>a, <2>1, <2>2, <2>3 DEF FrameTyped, ShellTypeOK, Tab
<1>4. ASSUME NEW t \in Tabs, idleLogout(t) \/ refreshed(t) \/ refreshFails(t) \/ Me(t)
      PROVE  ShellTypeOK'
  BY <1>4, <1>a, StaysThere DEF FrameTyped, ShellTypeOK, Tab
<1>5. ASSUME NEW t \in Tabs, NEW u \in Users, loadMe(t, u) PROVE ShellTypeOK'
  <2>1. UNCHANGED <<sessionAt, mustChange, idleChoice, signIns, walks, lastSeen>>
    BY <1>5 DEF loadMe
  <2> QED BY <1>5, <1>a, <2>1, Learned DEF FrameTyped, ShellTypeOK, Tab
<1>6. ASSUME NEW t \in Tabs, loadMeFails(t) PROVE ShellTypeOK'
  <2>1. UNCHANGED <<sessionAt, mustChange, idleChoice, signIns, walks, alone, lastSeen>>
    BY <1>6 DEF loadMeFails
  <2> QED BY <1>6, <1>a, <2>1, Unlearned DEF FrameTyped, ShellTypeOK, Tab
<1>7. CASE UNCHANGED shellVars
  BY <1>7 DEF shellVars, ShellTypeOK
<1> QED BY <1>1, <1>2, <1>3, <1>4, <1>5, <1>6, <1>7, ShellNextCases

\* The tabs, the storage and the session keep to their sets.
THEOREM ShellTyped == ShellSpec => []ShellTypeOK
BY ShellInitTyped, ShellNextTyped, PTL DEF ShellSpec

-----------------------------------------------------------------------------
(* No tab is left alone for too long.                                       *)

\* What makes it inductive: the timer of a tab inside the shell shows the time
\* the tab has been alone, up to the idle time; past that only its logout
\* keeps it there.
TimerIsRight ==
    \A t \in Tabs :
        Armed(tabs[t]) =>
            \/ tabs[t].quiet < tabs[t].who.limit /\ alone[t] = tabs[t].quiet
            \/ tabs[t].quiet = tabs[t].who.limit /\ alone[t] = tabs[t].who.limit
            \/ /\ tabs[t].quiet = tabs[t].who.limit /\ alone[t] >= tabs[t].who.limit
               /\ "timer" \in tabs[t].leaving

LEMMA TimerIsRightNext ==
    ShellTypeOK /\ TimerIsRight /\ [ShellNext]_shellVars => TimerIsRight'
<1> SUFFICES ASSUME ShellTypeOK, TimerIsRight, [ShellNext]_shellVars PROVE TimerIsRight'
  OBVIOUS
<1>a. /\ tabs \in [Tabs -> Tab] /\ alone \in [Tabs -> 0..MaxIdle + 1]
      /\ lastSeen \in [Tabs -> Routes \cup {"password", NoRoute}]
  BY DEF ShellTypeOK, Tab
<1>b. ASSUME NEW u \in Tabs
      PROVE  /\ tabs[u].quiet \in Nat /\ alone[u] \in Nat
             /\ tabs[u].who.limit \in Nat /\ tabs[u].who.limit <= MaxIdle
             /\ MaxIdle \in Nat
  <2>1. tabs[u].quiet \in 0..MaxIdle /\ tabs[u].who.limit \in IdleLimits \cup {0}
    BY <1>a DEF Tab, Signed
  <2>2. tabs[u].who.limit \in Nat /\ tabs[u].who.limit <= MaxIdle /\ MaxIdle \in Nat
    BY <2>1, LongestIdle
  <2>3. tabs[u].quiet \in Nat /\ alone[u] \in Nat
    BY <1>a, <2>1
  <2> QED BY <2>2, <2>3
<1>1. CASE Tick
  <2> SUFFICES ASSUME NEW t \in Tabs, Armed(tabs[t])'
               PROVE  \/ /\ tabs'[t].quiet < tabs'[t].who.limit
                         /\ alone'[t] = tabs'[t].quiet
                      \/ /\ tabs'[t].quiet = tabs'[t].who.limit
                         /\ alone'[t] = tabs'[t].who.limit
                      \/ /\ tabs'[t].quiet = tabs'[t].who.limit
                         /\ alone'[t] >= tabs'[t].who.limit /\ "timer" \in tabs'[t].leaving
    BY DEF TimerIsRight
  <2>1. /\ tabs'[t].at = tabs[t].at /\ tabs'[t].who = tabs[t].who
        /\ tabs'[t].leaving = tabs[t].leaving
        /\ tabs'[t].quiet = tabs[t].quiet + IF Running(tabs[t]) THEN 1 ELSE 0
        /\ alone'[t] = IF Armed(tabs[t]) /\ alone[t] <= MaxIdle
                       THEN alone[t] + 1 ELSE alone[t]
    BY <1>1, Ticked
  <2>2. Armed(tabs[t])
    BY <2>1 DEF Armed
  <2>3. CASE Running(tabs[t])
    BY <1>b, <2>1, <2>2, <2>3 DEF Running, TimerIsRight
  <2>4. CASE ~Running(tabs[t])
    <3>1. "timer" \in tabs[t].leaving
      BY <1>1, <2>2, <2>4 DEF Tick
    <3> QED BY <1>b, <2>1, <2>2, <2>4, <3>1 DEF Running, TimerIsRight
  <2> QED BY <2>3, <2>4
<1>2. ASSUME NEW t \in Tabs, Acts(t) PROVE TimerIsRight'
  <2>1. PICK x \in Tab : Act(t, x)
    BY <1>2, ActsGoOn
  <2>2. /\ tabs' \in [Tabs -> Tab] /\ tabs'[t].quiet = 0 /\ alone'[t] = 0
        /\ \A u \in Tabs \ {t} : tabs'[u] = tabs[u] /\ alone'[u] = alone[u]
    BY <1>a, <2>1, Acted
  <2>3. tabs'[t].who.limit \in Nat
    <3>1. tabs'[t].who.limit \in IdleLimits \cup {0}
      BY <2>2 DEF Tab, Signed
    <3> QED BY <3>1, LongestIdle
  <2> QED BY <2>2, <2>3 DEF TimerIsRight, Armed
<1>3. ASSUME NEW t \in Tabs, NEW why, LoggedOut(t, why) PROVE TimerIsRight'
  <2>1. /\ tabs'[t].at \notin Routes
        /\ \A u \in Tabs \ {t} : tabs'[u] = tabs[u]
    BY <1>3, LeftOut, ShellAssumption
  <2>2. alone' = alone
    BY <1>3 DEF LoggedOut
  <2> QED BY <2>1, <2>2 DEF TimerIsRight, Armed
<1>4. ASSUME NEW t \in Tabs, idleLogout(t) \/ refreshed(t) \/ refreshFails(t) \/ Me(t)
      PROVE  TimerIsRight'
  BY <1>4, StaysThere DEF TimerIsRight, Armed
<1>5. ASSUME NEW t \in Tabs, NEW u \in Users, loadMe(t, u) PROVE TimerIsRight'
  <2>1. \A v \in Tabs \ {t} : tabs'[v] = tabs[v] /\ alone'[v] = alone[v]
    BY <1>5, Learned
  <2>2. CASE tabs'[t].quiet = 0 /\ alone'[t] = 0
    <3>1. tabs'[t].who.limit \in IdleLimits \cup {0}
      BY <1>5, Learned DEF Tab, Signed
    <3>2. tabs'[t].who.limit \in Nat
      BY <3>1, LongestIdle
    <3> QED BY <2>1, <2>2, <3>2 DEF TimerIsRight, Armed
  <2>3. CASE /\ tabs'[t].quiet = tabs[t].quiet /\ alone'[t] = alone[t]
             /\ tabs'[t].who.limit = tabs[t].who.limit
    <3>1. tabs'[t].at \in Routes => tabs[t].at \in Routes
      BY <1>5, Learned, ShellAssumption
    <3>2. tabs'[t].leaving = tabs[t].leaving
      BY <1>5, Learned
    <3> QED BY <2>1, <2>3, <3>1, <3>2 DEF TimerIsRight, Armed
  <2> QED BY <1>5, <2>2, <2>3, Learned
<1>6. ASSUME NEW t \in Tabs, loadMeFails(t) PROVE TimerIsRight'
  <2>1. /\ tabs'[t].at \notin Routes
        /\ \A u \in Tabs \ {t} : tabs'[u] = tabs[u]
    BY <1>6, Unlearned, ShellAssumption
  <2>2. alone' = alone
    BY <1>6 DEF loadMeFails
  <2> QED BY <2>1, <2>2 DEF TimerIsRight, Armed
<1>7. CASE UNCHANGED shellVars
  BY <1>7 DEF shellVars, TimerIsRight
<1> QED BY <1>1, <1>2, <1>3, <1>4, <1>5, <1>6, <1>7, ShellNextCases

\* A tab inside the shell is not left alone for longer than its idle time, nor
\* logged out by its timer before it, for any tabs and idle times.
THEOREM TabsAreLeftInTime == ShellSpec => []IdleTabsAreLeft
<1>1. ShellInit => ShellTypeOK /\ TimerIsRight
  <2>1. ShellInit => TimerIsRight
    BY ShellAssumption DEF ShellInit, TimerIsRight, Armed
  <2> QED BY <2>1, ShellInitTyped
<1>2. (ShellTypeOK /\ TimerIsRight) /\ [ShellNext]_shellVars => (ShellTypeOK /\ TimerIsRight)'
  BY ShellNextTyped, TimerIsRightNext
<1>3. ShellTypeOK /\ TimerIsRight => IdleTabsAreLeft
  <2> SUFFICES ASSUME ShellTypeOK, TimerIsRight, NEW t \in Tabs, Armed(tabs[t])
               PROVE  /\ alone[t] <= tabs[t].who.limit \/ "timer" \in tabs[t].leaving
                      /\ tabs[t].quiet = tabs[t].who.limit => alone[t] >= tabs[t].who.limit
    BY DEF IdleTabsAreLeft
  <2>1. tabs[t].quiet \in 0..MaxIdle /\ tabs[t].who.limit \in IdleLimits \cup {0}
    BY DEF ShellTypeOK, Signed
  <2>2. tabs[t].who.limit \in Nat
    BY <2>1, LongestIdle
  <2>3. tabs[t].quiet \in Nat
    BY <2>1
  <2> QED BY <2>2, <2>3 DEF TimerIsRight
<1> QED BY <1>1, <1>2, <1>3, PTL DEF ShellSpec

-----------------------------------------------------------------------------
(* Whoever did not sign out himself comes back to where he was.             *)

\* What makes it inductive: a tab inside the shell shows the page it last
\* showed, and one at the login page came from there, or from the page for a
\* new password, to which a login leads back.
KnowsWhereFrom ==
    \A t \in Tabs :
        /\ tabs[t].at \in Routes => lastSeen[t] = tabs[t].at
        /\ tabs[t].at = "login" => tabs[t].from \in {lastSeen[t], "password"}

LEMMA KnowsWhereFromNext ==
    ShellTypeOK /\ KnowsWhereFrom /\ [ShellNext]_shellVars => KnowsWhereFrom'
<1> SUFFICES ASSUME ShellTypeOK, KnowsWhereFrom, [ShellNext]_shellVars PROVE KnowsWhereFrom'
  OBVIOUS
<1>a. /\ tabs \in [Tabs -> Tab] /\ alone \in [Tabs -> 0..MaxIdle + 1]
      /\ lastSeen \in [Tabs -> Routes \cup {"password", NoRoute}]
  BY DEF ShellTypeOK, Tab
<1>1. CASE Tick
  BY <1>1, Ticked DEF KnowsWhereFrom
<1>2. ASSUME NEW t \in Tabs, Acts(t) PROVE KnowsWhereFrom'
  <2>1. PICK x \in Tab : x.at \in Routes \cup {"password"} /\ Act(t, x)
    BY <1>2, ActsGoOn
  <2>2. /\ \A u \in Tabs \ {t} : tabs'[u] = tabs[u] /\ lastSeen'[u] = lastSeen[u]
        /\ tabs'[t].at = ProtectedRoute(x).at /\ tabs'[t].from = ProtectedRoute(x).from
        /\ lastSeen'[t] = x.at
    BY <1>a, <2>1, Acted DEF Seen
  <2>3. \/ tabs'[t].at = "login" /\ tabs'[t].from = x.at
        \/ tabs'[t].at \in {"password", x.at}
    BY <2>1, <2>2, Guarded
  <2>4. /\ tabs'[t].at \in Routes => lastSeen'[t] = tabs'[t].at
        /\ tabs'[t].at = "login" => tabs'[t].from \in {lastSeen'[t], "password"}
    BY <2>1, <2>2, <2>3, ShellAssumption
  <2> QED BY <2>2, <2>4 DEF KnowsWhereFrom
<1>3. ASSUME NEW t \in Tabs, NEW why, LoggedOut(t, why) PROVE KnowsWhereFrom'
  <2>1. /\ tabs'[t].at \notin Routes
        /\ \A u \in Tabs \ {t} : tabs'[u] = tabs[u] /\ lastSeen'[u] = lastSeen[u]
    BY <1>3, LeftOut, ShellAssumption
  <2>2. tabs'[t].at = "login" => tabs'[t].from \in {lastSeen'[t], "password"}
    BY <1>3, LeftOut DEF KnowsWhereFrom
  <2> QED BY <2>1, <2>2 DEF KnowsWhereFrom
<1>4. ASSUME NEW t \in Tabs, idleLogout(t) \/ refreshed(t) \/ refreshFails(t) \/ Me(t)
      PROVE  KnowsWhereFrom'
  BY <1>4, StaysThere DEF KnowsWhereFrom
<1>5. ASSUME NEW t \in Tabs, NEW u \in Users, loadMe(t, u) PROVE KnowsWhereFrom'
  <2>1. lastSeen' = lastSeen /\ \A v \in Tabs \ {t} : tabs'[v] = tabs[v]
    BY <1>5, Learned DEF loadMe
  <2>2. /\ tabs'[t].at \in Routes => lastSeen[t] = tabs'[t].at
        /\ tabs'[t].at = "login" => tabs'[t].from \in {lastSeen[t], "password"}
    BY <1>5, Learned, ShellAssumption DEF KnowsWhereFrom
  <2> QED BY <2>1, <2>2 DEF KnowsWhereFrom
<1>6. ASSUME NEW t \in Tabs, loadMeFails(t) PROVE KnowsWhereFrom'
  <2>1. lastSeen' = lastSeen /\ \A v \in Tabs \ {t} : tabs'[v] = tabs[v]
    BY <1>6, Unlearned DEF loadMeFails
  <2>2. /\ tabs'[t].at \notin Routes
        /\ tabs'[t].at = "login" => tabs'[t].from \in {lastSeen[t], "password"}
    BY <1>6, Unlearned, ShellAssumption DEF KnowsWhereFrom
  <2> QED BY <2>1, <2>2 DEF KnowsWhereFrom
<1>7. CASE UNCHANGED shellVars
  BY <1>7 DEF shellVars, KnowsWhereFrom
<1> QED BY <1>1, <1>2, <1>3, <1>4, <1>5, <1>6, <1>7, ShellNextCases

\* A login leads the tab that makes it to the page it came from, or to the
\* page for a new password.
LEMMA LoginLeadsBack ==
    ASSUME ShellTypeOK, KnowsWhereFrom, NEW t \in Tabs, onSubmit(t), tabs'[t].at \in Routes
    PROVE  tabs'[t].at = IF lastSeen[t] = NoRoute THEN Home ELSE lastSeen[t]
<1> DEFINE p == IF tabs[t].from = NoRoute THEN Home ELSE tabs[t].from
           x == [tabs[t] EXCEPT !.who = storage', !.from = NoRoute, !.at = p]
<1>1. tabs[t] \in Tab /\ tabs[t].at = "login" /\ tabs[t].from \in {lastSeen[t], "password"}
  BY DEF ShellTypeOK, Tab, onSubmit, KnowsWhereFrom
<1>2. p \in Routes \cup {"password"}
  BY <1>1, ShellAssumption DEF Tab
<1>3. storage' \in Signed
  BY ActsGoOn DEF Acts, FrameTyped
<1>4. x \in Tab /\ x.at = p
  <2> HIDE DEF p
  <2> QED BY <1>1, <1>2, <1>3, ShellAssumption DEF Tab
<1>5. Act(t, x)
  BY DEF onSubmit
<1> HIDE DEF x
<1>6. tabs'[t].at = ProtectedRoute(x).at
  BY <1>4, <1>5, Acted DEF ShellTypeOK, Tab
<1>7. tabs'[t].at \in {"login", "password", p}
  BY <1>2, <1>4, <1>6, Guarded
<1>8. tabs'[t].at = p /\ p # "password"
  BY <1>7, ShellAssumption
<1> QED BY <1>1, <1>8, ShellAssumption

\* Whoever did not sign out himself comes back, by his next login, to the page
\* he was on, for any tabs, pages and number of logins.
THEOREM UsersComeBack == ShellSpec => BackWhereHeWas
<1>1. ShellInit => ShellTypeOK /\ KnowsWhereFrom
  <2>1. ShellInit => KnowsWhereFrom
    <3>1. ASSUME ShellInit, NEW t \in Tabs PROVE tabs[t].at = "closed"
      <4>1. tabs[t] = [at |-> "closed", who |-> Nobody, from |-> NoRoute, quiet |-> 0,
                       leaving |-> {}, asking |-> FALSE, told |-> {}]
        BY <3>1 DEF ShellInit
      <4> QED BY <4>1
    <3> QED BY <3>1, ShellAssumption DEF KnowsWhereFrom
  <2> QED BY <2>1, ShellInitTyped
<1>2. (ShellTypeOK /\ KnowsWhereFrom) /\ [ShellNext]_shellVars
      => (ShellTypeOK /\ KnowsWhereFrom)'
  BY ShellNextTyped, KnowsWhereFromNext
<1>3. ShellTypeOK /\ KnowsWhereFrom /\ [ShellNext]_shellVars
      => [\A t \in Tabs :
             (tabs[t].at = "login" /\ tabs[t]'.at \in Routes /\ signIns' # signIns)
                 => tabs[t]'.at = IF lastSeen[t] = NoRoute THEN Home ELSE lastSeen[t]]_shellVars
  <2> SUFFICES ASSUME ShellTypeOK, KnowsWhereFrom, [ShellNext]_shellVars, NEW t \in Tabs,
                      tabs[t].at = "login", tabs'[t].at \in Routes, signIns' # signIns
               PROVE  tabs'[t].at = IF lastSeen[t] = NoRoute THEN Home ELSE lastSeen[t]
    OBVIOUS
  <2>1. PICK u \in Tabs : Acts(u)
    BY ShellNextCases, Ticked, StaysThere DEF LoggedOut, loadMe, loadMeFails, shellVars
  <2>2. onSubmit(u)
    BY <2>1 DEF Acts, Load, Navigate, reset, changePassword, updateInfo, handleLogout,
                handleIdleTimeoutChange
  <2>3. u = t
    <3>1. \A v \in Tabs \ {u} : tabs'[v] = tabs[v]
      <4>1. PICK x \in Tab : Act(u, x)
        BY <2>1, ActsGoOn
      <4> QED BY <4>1, Acted DEF ShellTypeOK, Tab
    <3> QED BY <3>1, ShellAssumption
  <2> QED BY <2>2, <2>3, LoginLeadsBack
<1> QED BY <1>1, <1>2, <1>3, PTL DEF ShellSpec, BackWhereHeWas

------------------------------------------------------------------------------
(* The screens together *)

\* Every screen begins as it does alone.
LEMMA ScreensInit ==
  Init =>
      /\ DraftsInit
      /\ CreateFormsInit
      /\ LiveViewsInit
      /\ BreakdownInit
      /\ ListingsInit
      /\ ProjectTreesInit
      /\ SprintPagesInit
      /\ RetroVotingInit
      /\ RowActionsInit
      /\ ShellInit
  BY DEF Init

\* A step of the pages is, on every screen, a step of its own or no step.
LEMMA ScreensNext ==
  [Next]_frontendVars =>
      /\ [DraftsNext]_draftsVars
      /\ [CreateFormsNext]_formVars
      /\ [LiveViewsNext]_liveVars
      /\ [BreakdownNext]_breakVars
      /\ [ListingsNext]_listVars
      /\ [ProjectTreesNext]_treeVars
      /\ [SprintPagesNext]_sprintVars
      /\ [RetroVotingNext]_voteVars
      /\ [RowActionsNext]_actionVars
      /\ [ShellNext]_shellVars
<1> SUFFICES ASSUME [Next]_frontendVars
             PROVE  /\ [DraftsNext]_draftsVars
                    /\ [CreateFormsNext]_formVars
                    /\ [LiveViewsNext]_liveVars
                    /\ [BreakdownNext]_breakVars
                    /\ [ListingsNext]_listVars
                    /\ [ProjectTreesNext]_treeVars
                    /\ [SprintPagesNext]_sprintVars
                    /\ [RetroVotingNext]_voteVars
                    /\ [RowActionsNext]_actionVars
                    /\ [ShellNext]_shellVars
  OBVIOUS
<1>0. CASE UNCHANGED frontendVars
  BY <1>0 DEF frontendVars
<1>1. CASE /\ screen = "drafts" /\ DraftsNext
           /\ UNCHANGED <<formVars, liveVars, breakVars, listVars, treeVars,
                          sprintVars, voteVars, actionVars, shellVars>>
  BY <1>1
<1>2. CASE /\ screen = "forms" /\ CreateFormsNext
           /\ UNCHANGED <<draftsVars, liveVars, breakVars, listVars, treeVars,
                          sprintVars, voteVars, actionVars, shellVars>>
  BY <1>2
<1>3. CASE /\ screen = "views" /\ LiveViewsNext
           /\ UNCHANGED <<draftsVars, formVars, breakVars, listVars, treeVars,
                          sprintVars, voteVars, actionVars, shellVars>>
  BY <1>3
<1>4. CASE /\ screen = "breakdown" /\ BreakdownNext
           /\ UNCHANGED <<draftsVars, formVars, liveVars, listVars, treeVars,
                          sprintVars, voteVars, actionVars, shellVars>>
  BY <1>4
<1>5. CASE /\ screen = "lists" /\ ListingsNext
           /\ UNCHANGED <<draftsVars, formVars, liveVars, breakVars, treeVars,
                          sprintVars, voteVars, actionVars, shellVars>>
  BY <1>5
<1>6. CASE /\ screen = "trees" /\ ProjectTreesNext
           /\ UNCHANGED <<draftsVars, formVars, liveVars, breakVars, listVars,
                          sprintVars, voteVars, actionVars, shellVars>>
  BY <1>6
<1>7. CASE /\ screen = "sprints" /\ SprintPagesNext
           /\ UNCHANGED <<draftsVars, formVars, liveVars, breakVars, listVars,
                          treeVars, voteVars, actionVars, shellVars>>
  BY <1>7
<1>8. CASE /\ screen = "votes" /\ RetroVotingNext
           /\ UNCHANGED <<draftsVars, formVars, liveVars, breakVars, listVars,
                          treeVars, sprintVars, actionVars, shellVars>>
  BY <1>8
<1>9. CASE /\ screen = "actions" /\ RowActionsNext
           /\ UNCHANGED <<draftsVars, formVars, liveVars, breakVars, listVars,
                          treeVars, sprintVars, voteVars, shellVars>>
  BY <1>9
<1>10. CASE /\ screen = "shell" /\ ShellNext
            /\ UNCHANGED <<draftsVars, formVars, liveVars, breakVars, listVars,
                           treeVars, sprintVars, voteVars, actionVars>>
  BY <1>10
<1> QED
  BY <1>0, <1>1, <1>2, <1>3, <1>4, <1>5, <1>6, <1>7, <1>8, <1>9, <1>10 DEF Next

\* A behaviour of the pages is a behaviour of every component, so what is
\* proved of a component alone holds on its screen.
THEOREM ScreensAreTheirComponents ==
  Spec =>
      /\ DraftsSpec
      /\ CreateFormsSpec
      /\ LiveViewsSpec
      /\ BreakdownSpec
      /\ ListingsSpec
      /\ ProjectTreesSpec
      /\ SprintPagesSpec
      /\ RetroVotingSpec
      /\ RowActionsSpec
      /\ ShellSpec
<1> QED
  BY ScreensInit, ScreensNext, PTL
  DEF Spec, DraftsSpec, CreateFormsSpec, LiveViewsSpec, BreakdownSpec, ListingsSpec, ProjectTreesSpec, SprintPagesSpec, RetroVotingSpec, RowActionsSpec, ShellSpec

\* Every screen's variables keep to their sets.
THEOREM FrontendTyped == Spec => []FrontendTypeOK
<1>1. /\ DraftsTypeOK
      /\ CreateFormsTypeOK
      /\ LiveViewsTypeOK
      /\ BreakdownTypeOK
      /\ ListingsTypeOK
      /\ ProjectTreesTypeOK
      /\ SprintPagesTypeOK
      /\ RetroVotingTypeOK
      /\ RowActionsTypeOK
      /\ ShellTypeOK
      => FrontendTypeOK
  BY DEF FrontendTypeOK
<1> QED
  BY <1>1, ScreensAreTheirComponents, DraftsTyped, CreateFormsTyped, LiveViewsTyped,
     BreakdownTyped, ListingsTyped, TreesTyped, SprintPagesTyped, RetroVotingTyped,
     RowActionsTyped, ShellTyped, PTL

\* What the pages promise, on whichever screen the user is: what is typed for
\* a row goes to that row, in the order it was typed; a filling becomes one row;
\* a breakdown is done whole, a sprint picked is the sprint joined, and what was
\* confirmed is what is done; lists and trees show what they should, and
\* views the newest data but for what is on its way; and an idle tab is left.
THEOREM FrontendIsCorrect ==
  Spec =>
      /\ [](RowsKeepTheirOwn /\ SavesOfARowInOrder /\ OneRowPerFilling)
      /\ [](CompletedBreakdownIsWhole /\ PickMovesWhole /\ ActsOnWhatWasMeant)
      /\ [](FiltersStayHome /\ ListIsCurrent /\ EmptyPageOnlyAfterShrinking)
      /\ [](MatchesAreInSight /\ IdleTabsAreLeft /\ BehindOnlyInBetween)
      /\ UntouchedGoesOnlyWhenOvertaken /\ OlderDataIsRefetched /\ BackWhereHeWas
<1> QED
  BY ScreensAreTheirComponents, RowsStayApart, SavesFollowOneAnother, FormsCreateOnce,
     BreakdownsAreWhole, PicksMoveWhole, ActsAreMeant, FiltersAreKeptAtHome, ListsAreCurrent,
     EmptyOnlyAfterShrinking, MatchesAreDrawn, TabsAreLeftInTime, UntouchedStays,
     OlderDataIsFetchedAgain, BehindNotForLong, UsersComeBack, PTL
=============================================================================
