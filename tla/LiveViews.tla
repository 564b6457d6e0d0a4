------------------------------ MODULE LiveViews ------------------------------
(***************************************************************************)
(* How a view of the browser application keeps up with the server.  A view  *)
(* is one query of the cache.  A write of anybody is announced on the event *)
(* stream, which makes the queries under some key prefixes refetch; a write *)
(* of this tab also invalidates prefixes itself when it is answered, and    *)
(* one of them puts its answer into the cache.  Every write to what the     *)
(* view reads is a new version of the view's data.                          *)
(***************************************************************************)
EXTENDS Naturals, Sequences, SequencesExt

CONSTANTS MaxVersions \* bound: writes, of others and of this tab

ASSUME LiveViewsAssumption == MaxVersions \in Nat

\* What is written, by the first word of the event that announces it; writes
\* to projects and their teams are not announced.
Announced == {"backlog", "task", "test", "epic", "milestone", "sprint", "comment"}
Domains   == Announced \cup {"project"}

-----------------------------------------------------------------------------
(* The queries: key, and the writes their answers depend on.                *)

useBacklog         == [key |-> <<"backlog", "filters">>, reads |-> {"backlog", "sprint"}]
useBacklogItem     == [key |-> <<"backlog", "item">>, reads |-> {"backlog", "sprint"}]
useBacklogChildren == [key |-> <<"backlog", "item", "children">>, reads |-> {"backlog", "sprint"}]
useSprints         == [key |-> <<"sprints">>, reads |-> {"sprint"}]
useSprint          == [key |-> <<"sprints", "sprint">>, reads |-> {"sprint"}]
useSprintItems     == [key |-> <<"sprints", "sprint", "items">>, reads |-> {"sprint", "backlog"}]
useTasks           == [key |-> <<"tasks", "item">>, reads |-> {"task"}]
useTask            == [key |-> <<"tasks", "item", "task">>, reads |-> {"task"}]
useItemTests       == [key |-> <<"item-tests", "item">>, reads |-> {"test"}]
useEpics           == [key |-> <<"epics">>, reads |-> {"epic"}]
useMilestones      == [key |-> <<"milestones">>, reads |-> {"milestone"}]
\* Mutant: the timeline has a key of its own.
TimelineOwnKey     == [key |-> <<"timeline">>, reads |-> {"milestone", "project"}]
useTimeline        == [key |-> <<"milestones", "timeline">>, reads |-> {"milestone", "project"}]
useProjects        == [key |-> <<"projects", "team">>, reads |-> {"project"}]
useAllProjects     == [key |-> <<"projects">>, reads |-> {"project"}]
useProject         == [key |-> <<"projects", "id">>, reads |-> {"project"}]
useProjectTeams    == [key |-> <<"projects", "id", "teams">>, reads |-> {"project"}]
useProjectTree     == [key |-> <<"projects", "id", "tree">>, reads |-> {"project", "milestone"}]

Queries ==
    {useBacklog, useBacklogItem, useBacklogChildren, useSprints, useSprint, useSprintItems,
     useTasks, useTask, useItemTests, useEpics, useMilestones, useTimeline, useProjects,
     useAllProjects, useProject, useProjectTeams, useProjectTree}

(* The mutations of this tab: what they write, the prefixes they invalidate *)
(* on success, and the key that gets the answer.                            *)

Mutation(does, stale) == [does |-> does, stale |-> stale, sets |-> <<>>]

useCreateBacklogItem == Mutation("backlog", {<<"backlog">>})
useDeleteBacklogItem == useCreateBacklogItem
useReorderBacklog    == useCreateBacklogItem
\* Mutant: the answer goes into the cache and nothing is fetched again.
UpdateTrustsItsAnswer == [Mutation("backlog", {}) EXCEPT !.sets = <<"backlog", "item">>]

useUpdateBacklogItem == [useCreateBacklogItem EXCEPT !.sets = <<"backlog", "item">>]
useCreateSprint      == Mutation("sprint", {<<"sprints">>})
useUpdateSprint      == useCreateSprint
useDeleteSprint      == useCreateSprint
useCloseSprint       == useCreateSprint
useAddSprintItem     == Mutation("sprint", {<<"sprints", "sprint", "items">>})
useRemoveSprintItem  == useAddSprintItem
useCreateTask        == Mutation("task", {<<"tasks", "item">>})
useUpdateTask        == useCreateTask
useDeleteTask        == useCreateTask
useMoveTask          == useCreateTask
useCreateItemTest    == Mutation("test", {<<"item-tests", "item">>})
useUpdateItemTest    == useCreateItemTest
useDeleteItemTest    == useCreateItemTest
useMoveItemTest      == useCreateItemTest
useCreateEpic        == Mutation("epic", {<<"epics">>})
useUpdateEpic        == useCreateEpic
useDeleteEpic        == useCreateEpic
useCreateMilestone   == Mutation("milestone", {<<"milestones">>})
useUpdateMilestone   == useCreateMilestone
useDeleteMilestone   == useCreateMilestone
useBindNodeMilestone == Mutation("milestone", {<<"milestones">>, <<"projects", "id", "tree">>})
useAddProjectTeam    == Mutation("project", {<<"projects", "id", "teams">>})
useRemoveProjectTeam == useAddProjectTeam
useCreateProject     == Mutation("project", {<<"projects", "team">>})
useUpdateProject     == Mutation("project", {<<"projects">>})
useCreateChild       == Mutation("project", {<<"projects", "id", "tree">>, <<"projects", "team">>})
useMoveNode          == useCreateProject

Mutations ==
    {useCreateBacklogItem, useDeleteBacklogItem, useReorderBacklog, useUpdateBacklogItem,
     useCreateSprint, useUpdateSprint, useDeleteSprint, useCloseSprint, useAddSprintItem,
     useRemoveSprintItem, useCreateTask, useUpdateTask, useDeleteTask, useMoveTask,
     useCreateItemTest, useUpdateItemTest, useDeleteItemTest, useMoveItemTest, useCreateEpic,
     useUpdateEpic, useDeleteEpic, useCreateMilestone, useUpdateMilestone,
     useDeleteMilestone, useBindNodeMilestone, useAddProjectTeam, useRemoveProjectTeam,
     useCreateProject, useUpdateProject, useCreateChild, useMoveNode}

\* Mutant: sprints are not thought of as part of the backlog.
InvalidateOwnKind(d) ==
    CASE d = "backlog"   -> {<<"backlog">>, <<"sprints">>}
      [] d = "sprint"    -> {<<"sprints">>}
      [] d = "task"      -> {<<"tasks">>}
      [] d = "test"      -> {<<"item-tests">>}
      [] d = "epic"      -> {<<"epics">>}
      [] d = "milestone" -> {<<"milestones">>}
      [] d = "comment"   -> {<<"backlog">>, <<"tasks">>}
      [] OTHER           -> {}

\* The prefixes an event invalidates.
invalidateFor(d) ==
    CASE d \in {"backlog", "sprint"} -> {<<"backlog">>, <<"sprints">>}
      [] d = "task"      -> {<<"tasks">>}
      [] d = "test"      -> {<<"item-tests">>}
      [] d = "epic"      -> {<<"epics">>}
      [] d = "milestone" -> {<<"milestones">>}
      [] d = "comment"   -> {<<"backlog">>, <<"tasks">>}
      [] OTHER           -> {}

Under(key, prefixes) == \E p \in prefixes : IsPrefix(p, key)

-----------------------------------------------------------------------------
VARIABLES
    query,    \* the query of the view
    mounted,  \* is the view on the screen?
    version,  \* of the view's data at the server
    cached,    \* the version in the cache
    stale,    \* would mounting the view refetch?
    fetch,    \* the fetch in flight
    stream,   \* is the event stream connected?
    events,   \* announcements on their way, by domain
    own,      \* mutations of this tab in flight
    changes,  \* writes so far
    \* History, read by no action:
    missed    \* what was missed: an announcement lost or never made, or a refetch

liveVars == <<query, mounted, version, cached, stale, fetch, stream, events, own, changes, missed>>

Versions == 0..MaxVersions
NoFetch  == [on |-> FALSE, served |-> FALSE, read |-> 0, tries |-> 0]
NewFetch == [on |-> TRUE, served |-> FALSE, read |-> 0, tries |-> 1]

LiveViewsTypeOK ==
    /\ query \in Queries
    /\ {mounted, stale, stream} \subseteq BOOLEAN
    /\ missed \subseteq {"announcement", "refetch"}
    /\ {version, cached, changes} \subseteq Versions
    /\ fetch \in [on : BOOLEAN, served : BOOLEAN, read : Versions, tries : 0..2]
    /\ events \in BoundedSeq(Announced, MaxVersions)
    /\ own \subseteq [id : Versions, does : Domains, stales : BOOLEAN, sets : BOOLEAN,
                      served : BOOLEAN, version : Versions]

LiveViewsInit ==
    /\ query \in Queries
    /\ mounted = TRUE
    /\ version = 0 /\ cached = 0 /\ changes = 0
    /\ stale = FALSE
    /\ fetch = NoFetch
    /\ stream = TRUE
    /\ events = <<>>
    /\ own = {}
    /\ missed = {}

\* An invalidation refetches a mounted query, dropping the fetch in flight;
\* of an unmounted one it is remembered, until a fetch still in flight ends.
Invalidate ==
    /\ stale' = TRUE
    /\ fetch' = IF mounted THEN NewFetch ELSE fetch
    /\ missed' = IF ~mounted /\ fetch.on THEN missed \cup {"refetch"} ELSE missed

\* The server commits a write of d and then announces it; a full buffer or a
\* stream that is down loses the announcement.  told: the tab will know of
\* the write by its answer.
CommitWrite(d, told) ==
    /\ version' = version + 1
    /\ \/ d \in Announced /\ stream /\ events' = Append(events, d) /\ UNCHANGED missed
       \/ events' = events /\ missed' = IF told THEN missed ELSE missed \cup {"announcement"}

OthersWriteView(d) ==
    /\ changes < MaxVersions
    /\ d \in query.reads
    /\ CommitWrite(d, FALSE)
    /\ changes' = changes + 1
    /\ UNCHANGED <<query, mounted, cached, stale, fetch, stream, own>>

Mutate(m) ==
    /\ changes < MaxVersions
    /\ m.does \in query.reads
    /\ changes' = changes + 1
    /\ own' = own \cup {[id |-> changes, does |-> m.does, stales |-> Under(query.key, m.stale),
                         sets |-> m.sets = query.key, served |-> FALSE, version |-> 0]}
    /\ UNCHANGED <<query, mounted, version, cached, stale, fetch, stream, events, missed>>

ServeMutation(m) ==
    /\ ~m.served
    /\ CommitWrite(m.does, m.stales)
    /\ own' = (own \ {m}) \cup {[m EXCEPT !.served = TRUE, !.version = version + 1]}
    /\ UNCHANGED <<query, mounted, cached, stale, fetch, stream, changes>>

MutationAnswered(m) ==
    /\ m.served
    /\ own' = own \ {m}
    /\ cached' = IF m.sets THEN m.version ELSE cached
    /\ IF m.stales THEN Invalidate ELSE UNCHANGED <<stale, fetch, missed>>
    /\ UNCHANGED <<query, mounted, version, stream, events, changes>>

MutationFails(m) ==
    /\ own' = own \ {m}
    /\ missed' = IF m.served /\ m.stales THEN missed \cup {"announcement"} ELSE missed
    /\ UNCHANGED <<query, mounted, version, cached, stale, fetch, stream, events, changes>>

Deliver ==
    /\ stream /\ events # <<>>
    /\ events' = Tail(events)
    /\ IF Under(query.key, invalidateFor(Head(events))) THEN Invalidate
       ELSE UNCHANGED <<stale, fetch, missed>>
    /\ UNCHANGED <<query, mounted, version, cached, stream, own, changes>>

ServeFetch ==
    /\ fetch.on /\ ~fetch.served
    /\ fetch' = [fetch EXCEPT !.served = TRUE, !.read = version]
    /\ UNCHANGED <<query, mounted, version, cached, stale, stream, events, own, changes, missed>>

FetchAnswered ==
    /\ fetch.served
    /\ cached' = fetch.read
    /\ stale' = FALSE
    /\ fetch' = NoFetch
    /\ UNCHANGED <<query, mounted, version, stream, events, own, changes, missed>>

\* A failed fetch is repeated once.
FetchFails ==
    /\ fetch.on
    /\ IF fetch.tries = 1
       THEN fetch' = [NewFetch EXCEPT !.tries = 2] /\ UNCHANGED missed
       ELSE fetch' = NoFetch /\ missed' = missed \cup {"refetch"}
    /\ UNCHANGED <<query, mounted, version, cached, stale, stream, events, own, changes>>

Leave ==
    /\ mounted
    /\ mounted' = FALSE
    /\ UNCHANGED <<query, version, cached, stale, fetch, stream, events, own, changes, missed>>

\* A view that comes back refetches what is stale, unless a fetch is on.
Return ==
    /\ ~mounted
    /\ mounted' = TRUE
    /\ fetch' = IF stale /\ ~fetch.on THEN NewFetch ELSE fetch
    /\ UNCHANGED <<query, version, cached, stale, stream, events, own, changes, missed>>

\* Thirty seconds after its fetch a query counts as stale.
StaleTimePasses ==
    /\ ~stale /\ ~fetch.on
    /\ stale' = TRUE
    /\ UNCHANGED <<query, mounted, version, cached, fetch, stream, events, own, changes, missed>>

\* A new access token closes the stream; the next one starts with what is
\* published from then on.
TokenChanges ==
    /\ stream
    /\ stream' = FALSE
    /\ events' = <<>>
    /\ missed' = IF events = <<>> THEN missed ELSE missed \cup {"announcement"}
    /\ UNCHANGED <<query, mounted, version, cached, stale, fetch, own, changes>>

Connect ==
    /\ ~stream
    /\ stream' = TRUE
    /\ UNCHANGED <<query, mounted, version, cached, stale, fetch, events, own, changes, missed>>

LiveViewsNext ==
    \/ \E d \in Domains : OthersWriteView(d)
    \/ \E m \in Mutations : Mutate(m)
    \/ \E m \in own : ServeMutation(m) \/ MutationAnswered(m) \/ MutationFails(m)
    \/ Deliver \/ ServeFetch \/ FetchAnswered \/ FetchFails
    \/ Leave \/ Return \/ StaleTimePasses \/ TokenChanges \/ Connect

\* The network delivers: events of an open stream arrive and requests end.
LiveViewsFairness ==
    /\ WF_liveVars(Deliver)
    /\ WF_liveVars(ServeFetch)
    /\ WF_liveVars(FetchAnswered)
    /\ WF_liveVars(\E m \in own : MutationAnswered(m) \/ MutationFails(m))

LiveViewsSpec == LiveViewsInit /\ [][LiveViewsNext]_liveVars /\ LiveViewsFairness

-----------------------------------------------------------------------------
\* A view on the screen catches up with every write that was announced, of
\* others and of its own tab, unless an announcement was lost with the stream
\* or in a full buffer, its refetch failed twice, or it came while the view
\* was away with a fetch still in flight.  The exception is what the event
\* map leaves out: the project tree does not hear of milestones.
LiveViewCatchesUp ==
    []<>(cached = version \/ missed # {} \/ ~mounted \/ query = useProjectTree)

\* Is the view about to be told: by an event, or by an answer to its own tab?
News ==
    \/ \E n \in 1..Len(events) : Under(query.key, invalidateFor(events[n]))
    \/ \E m \in own : m.served /\ m.stales

\* And it is behind only in between: while it shows an old version, a fetch is
\* on or news of the newer one on its way, with the same exceptions; a fetch
\* that was served too early is not what the view waits for.
BehindOnlyInBetween ==
    (mounted /\ missed = {} /\ query # useProjectTree /\ cached # version)
        => (fetch.on /\ (fetch.served => fetch.read = version)) \/ News

\* The data of a view on the screen goes back to an older version only for as
\* long as it takes to fetch it again, in whatever order the answers of
\* mutations and fetches arrive, unless the view was away when it was written.
OlderDataIsRefetched ==
    [][(cached' < cached /\ mounted /\ "refetch" \notin missed) => fetch'.on]_liveVars
=============================================================================
