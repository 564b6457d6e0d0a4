------------------------------ MODULE Listings -------------------------------
(***************************************************************************)
(* The lists of the browser application: filters, a sort column and pages.  *)
(* A list of a project is computed from what the query answers, which the   *)
(* page then filters and sorts itself; React computes it again only if one  *)
(* of the values the page names has changed.  Some lists keep their filters *)
(* in the browser's storage under the project's name.  Lists differ in what *)
(* they offer, as the editors of Drafts do.                                 *)
(***************************************************************************)
EXTENDS Naturals, FiniteSets

CONSTANTS
    Projects,        \* whose lists are looked at
    Away,            \* no list is on the screen
    ListedRows,      \* rows each project may have
    Worded,          \* the rows the search words match
    PageSizes,       \* what a user may choose
    MaxRowChanges    \* bound: rows added, closed and removed

ASSUME ListingsAssumption ==
    /\ Away \notin Projects
    /\ Worded \subseteq ListedRows /\ IsFiniteSet(ListedRows)
    /\ PageSizes # {} /\ PageSizes \subseteq Nat \ {0}
    /\ MaxRowChanges \in Nat

\* The status filters: "active" leaves out what is closed, "closed" asks the
\* server for one status, "all" leaves nothing out.
Lists ==
    [statuses : SUBSET {"active", "all", "closed"}, \* the choices; the default is Default
     words    : BOOLEAN,                            \* is there a search?
     keeps    : BOOLEAN,                            \* are filters kept per project?
     cycle    : {0, 2, 3},                          \* states of a sort column, 0: fixed
     resets   : BOOLEAN,                            \* does sorting go back to page one?
     pages    : {"none", "kept", "clamped"},        \* is a page beyond the last kept?
     notices  : BOOLEAN]                            \* is the list computed anew for a status?

\* The status of the backlog's filter is not among the values named.
BacklogList ==
    [statuses |-> {"active", "all", "closed"}, words |-> TRUE, keeps |-> TRUE, cycle |-> 3,
     resets |-> TRUE, pages |-> "kept", notices |-> FALSE]
EpicList ==
    [BacklogList EXCEPT !.statuses = {"all", "closed"}, !.cycle = 2, !.notices = TRUE]
UserList       == [EpicList EXCEPT !.keeps = FALSE, !.resets = FALSE, !.pages = "none"]
MilestoneList  == [UserList EXCEPT !.cycle = 0]
SprintItemList == [UserList EXCEPT !.statuses = {"all"}, !.words = FALSE, !.cycle = 3]
SprintList     == [SprintItemList EXCEPT !.cycle = 0, !.pages = "kept"]
MemberList     == [SprintList EXCEPT !.pages = "clamped"]

ListingPages ==
    {BacklogList, EpicList, UserList, MilestoneList, SprintItemList, SprintList, MemberList}

Default(l) == IF "active" \in l.statuses THEN "active" ELSE "all"

-----------------------------------------------------------------------------
VARIABLES
    listing,  \* the list in use
    onList,      \* the project it shows, or Away
    stock,    \* each project's rows
    filters,  \* status, words, and the projects they were chosen in
    sort,     \* the sort column's state
    pageNo, pageSize,
    list,     \* the rows the page computed last
    basis,    \* the values it computed them from
    kept,     \* filters in the browser's storage
    rowChanges,
    \* History, read by no action:
    shrunk,   \* have rows left since the page was chosen, or was the project changed?
    entered   \* projects that were entered without leaving the list

listVars == <<listing, onList, stock, filters, sort, pageNo, pageSize, list, basis, kept,
              rowChanges, shrunk, entered>>

Filters(l) == [status : l.statuses, words : BOOLEAN, chosenIn : SUBSET Projects]
NoFilters(l) == [status |-> Default(l), words |-> FALSE, chosenIn |-> {}]

RowStates == {"absent", "open", "closed"}

ListingsTypeOK ==
    /\ listing \in ListingPages
    /\ onList \in Projects \cup {Away}
    /\ stock \in [Projects -> [ListedRows -> RowStates]]
    /\ filters \in Filters(listing)
    /\ sort \in {"none", "asc", "desc"}
    /\ pageNo \in 1..(Cardinality(ListedRows) + 1)
    /\ pageSize \in PageSizes
    /\ list \subseteq ListedRows
    /\ kept \in [Projects -> Filters(listing) \cup {NoFilters(listing)}]
    /\ rowChanges \in 0..MaxRowChanges
    /\ shrunk \in BOOLEAN
    /\ entered \subseteq Projects

\* What the server answers: "active" and "all" ask for everything.
Answered(p, f, rs) ==
    {<<x, rs[p][x]>> : x \in {y \in ListedRows : rs[p][y] # "absent" /\
                                 (f.status = "closed" => rs[p][y] = "closed")}}

\* What the page makes of it.
Listed(answer, f) ==
    {a[1] : a \in {b \in answer : /\ f.status = "active" => b[2] # "closed"
                                  /\ f.words => b[1] \in Worded}}

\* Mutant: the search words are not among the values named.
BasisWithoutWords(p, f, s, rs) ==
    <<p, f.status = "closed", Answered(p, f, rs), s,
      IF listing.notices THEN f.status ELSE "unnoticed">>

\* The values named when the list was computed.
Basis(p, f, s, rs) ==
    <<p, f.status = "closed", Answered(p, f, rs), f.words, s,
      IF listing.notices THEN f.status ELSE "unnoticed">>

\* The page is drawn: the list is computed if it has to be.
Draw(p, f, s, rs) ==
    /\ basis' = Basis(p, f, s, rs)
    /\ list' = IF basis' = basis THEN list ELSE Listed(Answered(p, f, rs), f)

ListingsInit ==
    /\ listing \in ListingPages
    /\ onList = Away
    /\ stock = [p \in Projects |-> [x \in ListedRows |-> "open"]]
    /\ filters = NoFilters(listing)
    /\ sort = "none"
    /\ pageNo = 1
    /\ pageSize \in PageSizes
    /\ list = {} /\ basis = <<>>
    /\ kept = [p \in Projects |-> NoFilters(listing)]
    /\ rowChanges = 0
    /\ shrunk = FALSE
    /\ entered = {}

\* The list is mounted, with the filters kept for the project, if any.
OpenList(p) ==
    /\ onList = Away
    /\ onList' = p
    /\ filters' = IF listing.keeps THEN kept[p] ELSE filters
    /\ Draw(p, filters', sort, stock)
    /\ UNCHANGED <<listing, stock, sort, pageNo, pageSize, kept, rowChanges, shrunk, entered>>

\* The sidebar leads to the same list of another project.  If that project is
\* in the cache the list stays mounted, with all it remembers.
Travel(p) ==
    /\ onList \notin {Away, p}
    /\ onList' = p
    /\ Draw(p, filters, sort, stock)
    /\ shrunk' = TRUE
    /\ entered' = entered \cup {p}
    /\ UNCHANGED <<listing, stock, filters, sort, pageNo, pageSize, kept, rowChanges>>

\* The list is unmounted: what it remembered is gone but for the filters kept.
LeaveList ==
    /\ onList # Away
    /\ onList' = Away
    /\ filters' = NoFilters(listing)
    /\ sort' = "none" /\ pageNo' = 1
    /\ list' = {} /\ basis' = <<>>
    /\ shrunk' = FALSE
    /\ UNCHANGED <<listing, stock, pageSize, kept, rowChanges, entered>>

\* What setting a filter does, but for the page number and the browser's storage.
FilterChosen(status, words) ==
    /\ onList # Away
    /\ status \in listing.statuses
    /\ words => listing.words
    /\ (status # filters.status) # (words # filters.words)
    /\ filters' = [status |-> status, words |-> words,
                   chosenIn |-> filters.chosenIn \cup {onList}]
    /\ Draw(onList, filters', sort, stock)
    /\ UNCHANGED <<listing, onList, stock, sort, pageSize, rowChanges, entered>>

\* Mutant: the page number stays when a filter is set.
SetFilterKeepsPage(status, words) ==
    /\ FilterChosen(status, words)
    /\ kept' = IF listing.keeps THEN [kept EXCEPT ![onList] = filters'] ELSE kept
    /\ UNCHANGED <<pageNo, shrunk>>

\* Mutant: the key in the storage does not name the project.
SetFilterForAll(status, words) ==
    /\ FilterChosen(status, words)
    /\ kept' = IF listing.keeps THEN [p \in Projects |-> filters'] ELSE kept
    /\ IF listing.pages = "none" THEN UNCHANGED <<pageNo, shrunk>>
       ELSE pageNo' = 1 /\ shrunk' = FALSE

\* A filter is set; all of them are saved under the project on the screen.
SetFilter(status, words) ==
    /\ FilterChosen(status, words)
    /\ IF listing.pages = "none" THEN UNCHANGED <<pageNo, shrunk>>
       ELSE pageNo' = 1 /\ shrunk' = FALSE
    /\ kept' = IF listing.keeps THEN [kept EXCEPT ![onList] = filters'] ELSE kept

nextSort ==
    CASE sort = "none" -> "asc"
      [] sort = "asc"  -> "desc"
      [] sort = "desc" -> IF listing.cycle = 3 THEN "none" ELSE "asc"

toggleSort ==
    /\ onList # Away
    /\ listing.cycle # 0
    /\ sort' = nextSort
    /\ IF listing.resets THEN pageNo' = 1 /\ shrunk' = FALSE ELSE UNCHANGED <<pageNo, shrunk>>
    /\ Draw(onList, filters, sort', stock)
    /\ UNCHANGED <<listing, onList, stock, filters, pageSize, kept, rowChanges, entered>>

\* A user's preference, set on a page of its own.
setPageSize(n) ==
    /\ onList = Away
    /\ pageSize' = n
    /\ UNCHANGED <<listing, onList, stock, filters, sort, pageNo, list, basis, kept, rowChanges,
                   shrunk, entered>>

totalPages == IF list = {} THEN 1 ELSE (Cardinality(list) + pageSize - 1) \div pageSize

\* The page on the screen: one beyond the last is kept, or taken as the last.
PageShown ==
    IF listing.pages = "clamped" /\ pageNo > totalPages THEN totalPages ELSE pageNo

\* First, previous, next and last.
Turn(n) ==
    /\ onList # Away
    /\ listing.pages # "none"
    /\ \/ PageShown > 1 /\ n \in {1, PageShown - 1}
       \/ PageShown < totalPages /\ n \in {PageShown + 1, totalPages}
    /\ pageNo' = n
    /\ shrunk' = (shrunk /\ n > totalPages)
    /\ UNCHANGED <<listing, onList, stock, filters, sort, pageSize, list, basis, kept, rowChanges,
                   entered>>

\* A row is added, changed or removed, by anybody; the list hears of it.
RowChanges(p, x, st) ==
    /\ rowChanges < MaxRowChanges
    /\ stock[p][x] # st
    /\ stock' = [stock EXCEPT ![p][x] = st]
    /\ rowChanges' = rowChanges + 1
    /\ IF p = onList THEN Draw(p, filters, sort, stock') /\ shrunk' = TRUE
       ELSE UNCHANGED <<list, basis, shrunk>>
    /\ UNCHANGED <<listing, onList, filters, sort, pageNo, pageSize, kept, entered>>

ListingsNext ==
    \/ \E p \in Projects : OpenList(p) \/ Travel(p)
    \/ LeaveList \/ toggleSort
    \/ \E status \in {"active", "all", "closed"}, words \in BOOLEAN : SetFilter(status, words)
    \/ \E n \in PageSizes : setPageSize(n)
    \/ \E n \in 1..Cardinality(ListedRows) : Turn(n)
    \/ \E p \in Projects, x \in ListedRows, st \in RowStates : RowChanges(p, x, st)

ListingsSpec == ListingsInit /\ [][ListingsNext]_listVars

-----------------------------------------------------------------------------
\* No page is drawn empty while rows match: not after any filter, sort order
\* or page was chosen, only after rows left the list, or after the list was
\* handed another project, and then only where the page number is kept.
EmptyPageOnlyAfterShrinking ==
    (onList # Away /\ list # {} /\ listing.pages # "none" /\ PageShown > totalPages)
        => shrunk /\ listing.pages = "kept"

\* The filters kept for a project are the ones chosen there, although they
\* are saved all together and the list may show project after project; the
\* exception is a project that was entered without leaving the list.
FiltersStayHome ==
    \A p \in Projects \ entered : kept[p].chosenIn \subseteq {p}

\* The rows drawn are the ones the filters ask for now, whatever was chosen,
\* added, closed or removed since they were computed; where the page does not
\* name the status among the values it computes them from, they may be those
\* of the other status for which the server gives the same answer.
ListIsCurrent ==
    onList # Away =>
        \E f \in Filters(listing) :
            /\ f.words = filters.words
            /\ f = filters \/ (~listing.notices /\ "closed" \notin {f.status, filters.status})
            /\ list = Listed(Answered(onList, f, stock), f)
=============================================================================
