# Verification of V.42

V.42 is a project-management platform: a Go API over PostgreSQL, a React
application, live events over SSE, and an MCP server for agents. This directory
models the parts where concurrent requests, partial failure, message order or
stale pages decide whether the system is right, checks them with TLC on small
instances and proves the main invariants with TLAPS for every instance. Four
modules are about the server and the session protocol, ten about the pages. Paths
are relative to the repository; names without a directory are under
`frontend/src/`.

## 1. Inventory

### How the system runs

One Go process serves HTTP; every request is a goroutine. State lives in
PostgreSQL 16 at READ COMMITTED. Most handlers issue several statements, each in
a transaction of its own: between them other requests run, and a client that
hangs up cancels the request's context, so the next statement fails. In the
process's memory there are only the event broker's subscribers and the rate
limiter's table. A browser tab keeps an access token (15 minutes), a
`refreshPromise` and a query cache; the refresh token is an httpOnly cookie that
all tabs share.

### Components

| component | state | operations | what makes it correct |
|---|---|---|---|
| Sprint board | `backlog_items`, `sprints`, `sprint_items` | create, update, delete, add, remove, close | rows resolve; nothing is stranded or dropped; the user's status stands |
| Sessions | `users`, `refresh_tokens` | login, refresh, logout, reset, change, (de)activate | rotation leaves one usable token; a kill is final; nobody ends another user's session |
| Event broker | `Broker.subs`, channels, `done` | Subscribe, unsubscribe, Publish, Close, Stream | no send on a closed channel; writers never wait for readers; streams end |
| Browser session client | access token, `refreshPromise`, cookie jar | 401 interceptor, refresh, login, logout, loadMe | one refresh at a time; no call waits for ever; jar and server agree |
| Live views | React Query cache, SSE reconnects | mutate, invalidate, announce, refetch, reconnect | a view on the screen catches up; older data does not stay |
| Row editors | draft, pending PATCHes, the rows as last read | open, type, commit, dismiss, refetch | nothing is saved into another row; an untouched field is not sent back; saves arrive in order |
| Creation forms | text, pending POSTs | open, fill in, submit, cancel | one filling is one row at most |
| Breakdown dialog | slots, drops, attempts; the rows at the server | add and remove slots, drop, execute, fail, retry | an attempt that ends well moved everything |
| Lists | filters and their storage, sort, page | filter, sort, turn, travel between projects | drawn rows are the ones asked for; filters stay with their project |
| Project trees | open rows, filters, loaded nodes | toggle, search, archive, link | what matches is in sight |
| Sprint membership | the sprint shown and asked for, the closing dialog | pick, drag, close | the item is where it was put last |
| Row actions | the question asked, its text, pending requests | begin, answer, withdraw, act, wander | the act is on the row that was asked about |
| Frame of the pages | guards, idle timer, storage shared by tabs | load, navigate, sign in, choose an idle time, save the profile, log out, tick | idle tabs are left; a user comes back where he was |
| Retrospective | cards, votes | vote, unvote from two pages | the limit of votes per sprint |
| Sprint test results | `test_results` | InitResults on activation, UpdateResult with auto-skip | skips follow the failures; re-activation loses nothing |
| User accounts, agent tokens | `users`, `agent_tokens` | Update, reset, create and revoke tokens | only administrators grant rights; an administrator remains |
| Project tree at the server | `projects`, cached statistics | move, archive, triggers that mark statistics dirty | stays a forest; statistics are recomputed after each change |
| Order and numbers | `position`, counters | Reorder, triggers that assign numbers | a permutation; numbers never reused |
| Capacity, milestones, readiness | capacity rows, milestone status | init, edit, compute | pure functions of the rows |
| Teams, skills, comments, epics, tasks, tests | their tables | one statement per request | foreign keys and uniqueness |
| Rate limiter | visitors, cleanup goroutine | Allow, Stop | bounded table, stops once |
| MCP server, drawing, scripts, start-up | none of their own | translate and display | not a subject of these models |

Interactions: handlers of the board and of all other entities call
`Broker.Publish` after their last statement; `Stream` relays to the tabs; the
tabs refetch through the session client, whose refreshes are requests to the
sessions component. A page asks the server only through the query cache and the
mutations of the hooks, so what a page shows is what some earlier answer said; an
editor, a question or a drag that starts from it meets a row that others have
changed since. Tabs share the cookie and the browser's storage, and no memory.
Activation of a sprint starts a goroutine that writes test
results. Shutdown closes the broker, then waits up to 10 seconds for handlers.

Hard behaviours: requests that interleave between their statements; statements
whose error is dropped; a request cut off half-way; a token that two requests
present; answers that overtake each other; locks and buffers shared by readers
and writers; a promise that several calls await; drafts and questions that
outlive the row they began with; chains of requests the browser sends one by one
and nobody rolls back; a pending request that a closed panel forgets. `PROJECT.json` lists each at its
line under `hazards`, with the properties that watch it.

## 2. Plan

The modules, the most important behaviour first. All of these exist.

1. `SprintBoard` - the board, statement by statement.
2. `AuthSessions`, and the abstract `Sessions` it implements for one request at
   a time.
3. `EventBroker` - broker and streams.
4. `AuthClient` - the browser's side of the sessions.
5. `Drafts`, `CreateForms`, `RowActions` - how pages change, create and remove
   rows.
6. `LiveViews` - how a page hears of changes.
7. `Breakdown`, `SprintPages` - chains of requests a page sends.
8. `Listings`, `ProjectTrees`, `RetroVoting`, `Shell` - lists, trees, votes, and
   the frame of the pages. `MCFrontend` composes groups 5 to 8 for TLC.

Left, in this order: `SprintResults`, composed with the activation step of the
board; `UserAccounts`; the milestones' progress and health and the readiness of an
item as operators against reference definitions. Every invariant and every
action property the runs check has its theorem. Theorems still worth proving: that
the claims of a run with a counterexample hold but for that one cause, as
`OnlyAForeignTargetMixes` and `OneVoteAtATimeKeepsTheLimit` state it of two, for
the others as far as they are safety; and the safety halves of the liveness
properties of `EventBroker` and `AuthClient`, as `BehindOnlyInBetween` is that of
`LiveViewCatchesUp`: whoever has to go on can.

Runs stay few: one safety run per component of the server, one for its liveness
where safety and liveness need different instances, one for all pages, and one
for each disagreement worth a counterexample.

## 3. The modules

### SprintBoard

State: `status` and `sprint` are the rows with their status or the reason they
are absent, `board` is the table `sprint_items`, and `req` holds what each
request still has to do after the statement it has issued. Three handlers have
more than one statement: AddItem (`AddItem`, `Promote`), item Update
(`UpdateItem`, `Evict`) and Close (`CloseRead`, `CloseCarry` or
`CloseRollback`, `CloseComplete`). Everything else is one statement and one
action. The project guards read columns that never change, and the foreign keys
re-check existence, so guard and INSERT are one step. `Abort` ends a request
after any statement: a crash, a database error (the errors of the second
statements are dropped by the code) or a client that hangs up. Answers, events
and fields other than the status are left out.

### AuthSessions and Sessions

State: the columns of `users` and `refresh_tokens` that decide, with passwords as
versions 0, 1, ..., and `req` as above. Login, Refresh, Logout, ResetPassword and
ChangePassword are split at each statement. History variables, read by no
action, record where a token came from (`parent`, `login`, `verified`) and what a
kill met (`killed`, `floor`, `overtaken`). JWTs carry no server state. `Sessions`
is what the endpoints promise: a login opens a session of one holder, it ends at
most once and never comes back.

### EventBroker

A stream handler is in one of six phases; Subscribe and unsubscribe are the two
that wait for the write lock. `Publish` takes the read lock (`RLock`), serves one
subscriber per step (`Send`) in any order, as Go ranges over maps, and returns
(`PublishReturns`). A channel is everything that was put into it (`sent`) and how
much was taken out (`taken`). The RWMutex and the clients are external:
a waiting writer keeps new readers out, and a client may stop reading, read
again, or leave. A finished stream's history is forgotten.

### AuthClient

A call sits in a slot, is `Sent` with the bearer and cookie of that moment, is
answered by the server in one step, and `Arrive`s later; answers arrive in any
order. What one turn of the event loop does, microtasks included, is one step:
so `RefreshSucceeds` stores the token, clears `refreshPromise` and resends every
waiting call, and `RefreshFails` starts the logout that is not awaited. The jar
belongs to the browser, everything else to a tab. `live` are the tokens the server accepts;
`excused` is history: tokens an alarm, a half-done rotation or a lost answer took.
Tokens that nobody can present any more are forgotten, so a small set of tokens
covers runs of any length. Page reloads are left out: they forget a tab's calls.

### The pages: one record per component

The application has dozens of editors, forms and buttons that differ in a few
respects only. Where that is so, the module has one record type for those
respects, one record per component, named for it, and one set of actions that
read the record; `map` leads from each record to its component. Two components
with equal records are one definition by the other. What a page shows is a
variable of its own, apart from what the server holds, and the server's part of a
request is one step between sending and answer, since at the server a single
statement decides (`SprintBoard` shows where it does not).

- `Drafts` - the row editors: inline titles, edit rows, panels, text areas, menus
  and pickers. A record of `Disciplines` says when the draft is filled, whether
  the editor is `bound` to a row, `reseeds` itself for the next one or `stays`,
  whether it sends what differs or all, what a blank field does, which gestures
  save, which of them wait for a pending PATCH, whether it asks with nothing to
  change (`asksAnyway`: an epic's panel sends an empty PATCH), and when it closes. A value is the
  row it was written for and its author, which is what the properties tell apart.
  `Patch` compares with the cache at the moment of saving, as the code does.
- `CreateForms` - the forms and composers that create rows: `Submit` by a button,
  Enter or leaving the input, `Cancel`, answers, failures and POSTs whose answer
  is lost. Fillings are numbered, so two rows of one filling can be told.
- `RowActions` - buttons that act on one row, with up to three questions. The
  `waits` field is what exactly a pending request switches off: nothing, the row,
  the newest request's row only (a mutation object knows its last call), or all.
- `LiveViews` - one query of the cache, any of seventeen, under the thirty-one
  mutations of the hooks and the event map of `useEventStream`. Keys are the
  words of the query keys, and `Under` is TanStack's prefix match; an answer may
  be older than the version a mutation has put in. `missed` is history: what the
  stream or a failed refetch lost.
- `Breakdown` - the dialog and the chain of requests it sends: children, moves,
  sprint, attachment. `Request` is the next request of an attempt, whichever it
  is; `RequestRefused` and `RequestFails` end the attempt where it stands, with or
  without the effect of the request whose answer was lost.
- `SprintPages` - the pickers, the board's drag and drop and the closing dialog
  for one item. What one request does at the server is that of `SprintBoard`.
- `Listings` - filters with the storage they are kept in, the memoised list, sort
  and pages. `Basis` is the array of values after which React computes again.
- `ProjectTrees` - what seven trees load, and which nodes they draw.
- `RetroVoting` - the votes of one voter, cast from two pages; the server counts
  and casts in two statements.
- `Shell` - guards, the way back from the login page, the idle timer and the
  storage tabs share. A tab is a record; time is counted in the unit in which an
  idle time is chosen, and time stands still while a logout is due (`Tick`).
  `reset` is what the user does in a page, `handleIdleTimeoutChange` tells the server
  only, and a saved profile makes the tab ask who its user is (`updateInfo`, `Me`):
  the answer (`loadMe`) replaces the user in tab and storage, idle time included, and
  its failure (`loadMeFails`) clears both.

`MCFrontend` extends all ten. A behaviour is one of one screen: `screen` is chosen
at first and never changes. Screens share only the server, and each module models
the part of the server it reads and writes with other users' changes to it, so
running two of them side by side would reach no state of either that it does not
reach alone.

## 4. The runs

| run | what it shows |
|---|---|
| `SprintBoard` | Two requests in flight over two items and two sprints with faults. `RowsResolve`; an item is left pre-sprint on a board only by a request cut off or by a carry-over from an outdated list; Close drops no item; promotion overrides no status the user chose. |
| `SprintBoardIsolation` | finding: Close carries items into a sprint of another project. |
| `AuthSessions` | Two requests, two users, two tokens, faults. No usable token has a successor; what survives a kill was in flight when it ran; sessions end only on behalf of their owner. |
| `AuthSessionsOneByOne` | One request at a time, cut off anywhere: one usable token per login, and the endpoints implement `Sessions`. |
| `AuthSessionsKill` | finding: a session outlives the reuse alarm. |
| `EventBroker` | Two streams, two publishers, two events, a buffer of one, clients that stall. Safety and liveness together. |
| `EventBrokerStalled` | finding: shutdown does not reach a stream that waits in a write. |
| `AuthClient` | Two tabs that log in, log out and load the user, failures, lost answers: the jar follows the server. |
| `AuthClientSettles` | Two calls of one tab and their shared refresh: single flight, and every call ends unless its refresh was answered 401. |
| `AuthClientHang` | finding: a refresh answered 401 waits for itself. |
| `Frontend` | The pages, one screen per behaviour. Editors: what is typed for one row reaches no other (`RowsKeepTheirOwn`), untouched fields are sent only if they changed meanwhile, saves of a row keep their order - each with the editors that are excepted named by their discipline. Forms create one row per filling; buttons act on the row that was asked about; a breakdown that ends well is whole; a change of sprint moves the item whole; lists are current, no page is empty without cause, filters stay home; matching nodes are in sight; views catch up with what was announced and are behind only while news or a fetch is on its way, and older data is on its way out. In two tabs, each with its own timer, whatever is loaded, visited, signed in or out, refreshed, chosen and saved in either, no tab is left alone beyond the idle time it knows of nor logged out before it (`IdleTabsAreLeft`), and whoever did not sign out himself comes back where he was (`BackWhereHeWas`). |
| `RetroVotingLimit` | finding: a voter and a facilitator who vote for him at once exceed the limit. |

CHECK_DEADLOCK is off throughout: rows, tokens and events are finite stocks that
run out, and streams and tabs may rest.

**Bounds.** All races found or excluded here are between two requests, so two
workers are enough to reach them; a third adds interleavings of the same pairs
and the theorems cover any number. A carry-over needs two sprints, a kill that
must spare somebody two users, a rotation two tokens; `MaxPassword` bounds resets.
In `EventBroker`, BufferSize 1 fills with the first event, MaxEvents 2 gives an
order to be wrong about, and two publishers hold the read lock together. In
`AuthClient` a slot must stay free for a refresh whenever a page starts a call
(`Start`); three slots let two calls meet one refresh, and four in two tabs let
two tabs present the same cookie. Symmetry is used where no liveness is checked.

In `Frontend`: two rows are one to edit and one to confuse it with, and two draft
writes let another user's write and the user's own meet (`MaxDraftWrites` bounds
typing, saves and others' writes, each). Three POSTs of two fillings are one more
than forms that wait ever have. Two writes make three versions, and room
for an own write next to another user's. The breakdown has one
test, one task that may appear late, three slots and two attempts, one of which
fails: enough for a retry over what the first attempt has moved; `MaxEdits` 2 lets
a slot be added and a row be dropped on it. Two projects with two rows each, one
of which matches the search, and pages of one or two rows: a list can shrink below
its page. Three nodes make a chain, a fork and a forest; two changes archive and
restore. Two sprints are one to leave and one to join; two gestures let picks
overlap, or a board change while a pick is under way. Two requests of a button are
a late answer and the question it must not disturb. The votes have three cards and a limit of two
(two clicks in `Frontend`, where only the types are checked, four in
`RetroVotingLimit`).

The frame has two tabs, both of which may be open at any time and on either of two
pages; two logins, so that one may follow an idle logout or replace the session of
the other tab; and one walk, which is a page left for another or loaded again, a
profile saved or a refresh that fails (`MaxWalks`). Opening a closed tab, what the
user does in a page, idle times chosen (never, or two), refreshes that succeed,
logouts and the passing of time are not bounded: the timer of one tab runs out while
the other is in use, with time to spare on either side, and a tab whose profile is
saved may learn of another idle time before, at and after the end of its own, or
learn it from an answer older than the last choice.

**Fairness.** `EventBroker`: a goroutine that can run does (weak fairness); the
return of a stream is strongly fair, since `select` picks at random among ready
cases and the case stays ready at every select. Nothing is assumed of clients.
`AuthClient`: each request is answered or fails, and the event loop runs. Strong
fairness for arrivals makes up for the slot bound only: a browser starts the
refresh at once. There is no fairness for users, expiry or lost answers.
`LiveViews`: what is on its way is delivered, served and answered, or fails
(weak fairness of `Deliver`, `ServeFetch`, `FetchAnswered` and the answers to own
mutations), since the browser runs its event loop and gives up on a request whose
connection is dead. A view need not return, a closed stream need not be reopened,
and a fetch may fail for good: what is lost that way is in `missed`.

## 5. What is proved

`SprintBoard_proofs`: `TypeCorrect`, `RowsAlwaysResolve`, `StrandedOnlySo`,
`CarryDrops` and `EditsStand`, from `BoardAssumption`. The invariant is
`TypeOK /\ RowsResolve`; the action properties follow step by step from it.
`OnlyAForeignTargetMixes` takes the counterexample of `SprintBoardIsolation` apart:
while no Close is given a target in another project, `Isolation` holds under every
interleaving. It is inductive together with `ListsOfOneProject`, by which a list
that waits to be carried is of one project, although items and sprints may be gone.

`AuthSessions_proofs`, from `SessionAssumption`: `TypeCorrect`,
`RotationRevokesFirst`, `KillFinalForLaterRequests` and `NobodyElseEnds` for any
number of requests in flight. `NoLiveAncestor` is not inductive by itself: the
strengthening (`SessionInv`) says that a request about to issue a successor has
already revoked the token it came from, and that requests in flight that concern a
killed user are in `overtaken`. `OneTokenPerLogin` and `EndpointsKeepSessions`
assume that any two requests in flight are the same one; the counterexample of
`AuthSessionsKill` needs two. The first rests on `Alone`: a request about to
rotate holds the login's live token, one about to issue knows that there is none.
The second is the refinement of `Sessions`: `Families` says that a login's first
token names it and shares its user, and `NextMaps` takes each statement to `Open`,
`End`, `EndAll` or no step, an interrupted rotation to `End`.

`EventBroker_proofs`: `TypeCorrect`, `NoSendOnClosed`, `NobodyIsSkipped` and
`StreamsAreInOrder`. The invariant relates each running Publish to the
subscribers it still has to serve, to what it has put into which channel, and to
the events that had returned before it was called.

`AuthClient_proofs`: `TypeCorrect`, `SingleFlight` and `JarInLine`, for any number
of tabs, slots and tokens. Single flight (`OneRefreshPerTab` and
`WaitersHaveARefresh` together) is inductive over the types. `JarFollowsServer` is
not: the strengthening `SetsAreFresh` says that a token on its way to the jar is
accepted or excused, is not the jar's, and is held by no other request or answer,
so nothing else can take it out of the server's sets before it arrives. The
server's steps enter the argument through one shape (`Served`), the client's
through another (`ClientStep`).

`WaitersAreWoken` states the second half of single flight by itself.

`Drafts_proofs`, from `DraftsAssumption`, for any rows and every editor:
`DraftsTyped`; `RowsStayApart` from `Own`, by which the editor is the one of the
row asked for, and rows, drafts and patches hold values of their own row only; `SavesFollowOneAnother` from
`OneAtATime`, by which an editor all of whose gestures wait remembers every save
in flight; `UntouchedStays` from `Copied`, by which a field nobody typed in holds
what was on the screen when the draft was filled. The actions are few and the
disciplines many, so the proofs split on the fields of a record and never on the
editors; `EditorKnown` collects what the editors have in common.

`Forms_proofs`, from the assumptions of the three modules (the bounds are natural
numbers, `Elsewhere` is no row):

- creation forms: `CreateFormsTyped` and `FormsCreateOnce`. The bound on the rows of
  a filling is not a matter of types: `PostsNumbered` says that POSTs have numbers
  of their own and that rows and POSTs not yet served are never more than were
  sent. `OnceEach` says of each filling that it has at most one POST, that the form
  is shut to it while it has one, and that it has left the form once it is a row.
- row actions: `RowActionsTyped` and `ActsAreMeant`, from `Sincere`: a question
  under way names the row it would act on and holds a text for no other.
- voting: `RetroVotingTyped` and `OneVoteAtATimeKeepsTheLimit`: the limit of votes
  is passed only if two votes are between the server's count and its INSERT at the
  same time, which is what the counterexample of `RetroVotingLimit` does. The
  invariant keeps room for the one vote that has been counted (`RoomForCounted`).

`Chains_proofs`, about the pages that send several requests for one wish:

- `BreakdownTyped` and `BreakdownsAreWhole`, from `BreakdownAssumption`. The
  invariant `Stands` carries every attempt's finished requests: what it made, moved
  and joined is at the server or deleted since, and when it is done nothing is left
  to do. An attempt that is over can still be disturbed, by the next attempt or by
  others, so each request is shown to leave the other attempts standing
  (`MoveRowStands` is where it matters: a row is only moved out of the item). The order
  of the requests is a choice of the least, so `LeastTaken` is needed to know that
  it is one of those left.
- `SprintPagesTyped` and `PicksMoveWhole`, from `CarriedThrough`: while the pages are
  undisturbed there is one pick at most, and what the item is in follows from how
  far it got.

`Screens_proofs`:

- `Listings`: `ListingsTyped`; `FiltersAreKeptAtHome` from `ChosenAtHome` (the filters
  of a list that was left are forgotten, those on the screen were chosen in its
  project unless it was handed the project); `ListsAreCurrent` from `Computed` (the
  values the rows were computed from are the current ones; the property speaks of the
  rows only, which a step cannot compare with what it does not recompute);
  `EmptyOnlyAfterShrinking` from `WithinPages` (a kept page is in range even while
  nothing matches).
- `ProjectTrees`: `TreesTyped` and `MatchesAreDrawn`, for a tree of any size and depth.
  The invariant `Grown` (a parent is an older node) makes `Ancestors`, which the module
  defines by recursion, what it says.
- `LiveViews`: `LiveViewsTyped` from `Counted` (writes served and writes waiting are no
  more than the changes begun, announcements no more than versions), and
  `OlderDataIsFetchedAgain` from `NoneAhead` (no cache, fetch or answer holds a version
  the server has not had; a served fetch has read at least what is cached).
  `BehindNotForLong` is the part of `LiveViewCatchesUp` that needs no fairness: behind
  is only a view that has news on its way or a fetch that will read the newest
  version (`OnItsWay`). It rests on `ReadIsInvalidated`: the event map reaches every
  query whose data an announced write changes, but for the one the property names.
- `Shell`: `ShellTyped`; `TabsAreLeftInTime` from `TimerIsRight` (the timer of a tab
  shows the time it was alone, up to the idle time, past which its logout is under
  way; another idle time sets both back); `UsersComeBack` from `KnowsWhereFrom` (a tab at the login page came from the
  page it last showed). `ShellAssumption` says that there is a longest idle time, as
  the page's list of choices has one.
- the screens together: `ScreensAreTheirComponents` shows a behaviour of `MCFrontend`
  to be one of each component, fairness of the live views included, so every theorem
  above carries over. `FrontendTyped` and `FrontendIsCorrect` conclude all that the
  run `Frontend` checks but for its liveness property, for every value of all
  constants.

Two arguments are by induction over the data, though the library's induction
theorems cannot be used. Both rest on `LeastExists`: a nonempty set of natural numbers
has a least element, which the library's well-foundedness of `<` gives without an
operator as a parameter. A claim about all nodes is proved of the least node that
would violate it. That the recursive function `Ancestors` exists at all is proved from
one that satisfies its equation, which `Upwards` defines without recursion.

The strengthenings of the pages' components also hold on the instance of `Frontend`,
where TLC tried them before they were composed; no run lists them, since the
theorems say more.

Only model-checked: the liveness properties (`PublishAlwaysReturns`,
`LeaversUnsubscribe`, `CloseEndsReadStreams`, `CallsSettleUnlessRefused`,
`LiveViewCatchesUp`), as fairness is outside the prover, and the counterexamples.

## 6. Where comments and code part

With a counterexample run: the five findings of the table above. Found while
modelling, without a run of their own:

- `internal/db/store/backlog.go:441` says a reset removes an item "from any
  active sprint"; the DELETE removes it from completed sprints as well, and when
  it fails or Close re-inserts the item the item stays
  (`StrandedOnlyByAbortOrStaleCarry` names exactly these cases).
- `internal/db/store/sprints.go:365`: Close "moves unclosed sprint items"; only
  `done` and `cancelled` count as closed, so `closed`, `rejected` and `decomposed`
  items move too. Without a target it reports a count although it moves nothing.
- `internal/api/handler_tasks_sprints.go:527`: Close completes the sprint in a
  statement after the carry-over; items added in between stay behind in it.
- `internal/api/handler_users.go:383`: a login or a rotation in flight keeps its
  session across an administrator's reset, and `handler_auth.go:263`: a password
  change that was in flight clears the forced change the reset had set.
- `internal/domain/auth.go:191` calls every reuse a stolen token; two tabs that
  refresh at once, a logout that overtakes a refresh, or a lost answer raise the
  same alarm (the cases `excused` collects in `AuthClient`).
- `hooks/useAuth.ts:51`: a refresh in flight when logout clears the store sets the
  access token again when it arrives.
- `hooks/useAuth.ts:36`: a refresh replaces the token and keeps the user; after
  another tab has signed in as somebody else, this tab goes on under the old name.
- `pages/BreakdownModal.tsx:7` and `:312` say "nothing stays on the archived
  original"; rows others add while the dialog is open do stay
  (`CompletedBreakdownIsWhole` speaks of the rows the dialog knew).
- `pages/BacklogPage.tsx:1068` excludes closed items for the active filter, but the
  list at `:1115` does not name `filterStatus` among what it is computed from; a
  change of filter shows only with the server's next answer (`ListIsCurrent`).
- `pages/ProfilePage.tsx:475` sends a new idle time to the server and leaves the
  store alone, from which `hooks/useIdleTimeout.ts:2` reads it: it takes effect in a
  tab with its next login or new password, or when the profile is saved there, since
  `:390` then asks for the user again (`IdleTabsAreLeft`). A tab that is idle too long logs the browser
  out, tabs in use included.
- `pages/LoginPage.tsx:56` falls back on the last route, which nothing ever sets:
  `setLastRoute` and `addRecentSprint` have no caller.
- `internal/db/queries/projects.sql:124`: "Cycle prevention is enforced at the
  handler layer"; `internal/api/handler_projects.go:342` has none.
- Archiving sets `is_archived`, while `pages/AdminProjectsPage.tsx:40` and
  `pages/ProjectShell.tsx:356` go by the status `archived`.
- The stages offered for a project that is itself a stage are none
  (`pages/BacklogPage.tsx:42`): its nodes are looked for from the top
  (`MatchesAreInSight`).
- The keys `project-tree` (`pages/BacklogPage.tsx:1035` and four others) and
  `readiness` (`pages/BacklogItemDetailPage.tsx:420`) are under no invalidated
  prefix; projects and teams are not announced, and the tree of a project does not
  hear of milestones (`LiveViewCatchesUp`).
- `pages/EpicsPage.tsx:478`: the panel has no key, so when another epic is chosen
  it keeps the draft of the first (`RowsKeepTheirOwn` excepts it by `stays`).
- `pages/AdminAgentTokensPage.tsx:298`: a second token replaces the first one's
  secret on the page, which shows it only once.

## 7. Not modelled

`PROJECT.json` gives the reason for each component. Left out for good are data
that no property tells apart (titles, texts, layout), cryptography, the MCP
server's translation, charts and ambient art, pages that only show an answer, and
components of one statement per request. Sprint results and the accounts'
administration are what the plan has left.

Within the modelled components: the change of sprint that an item's edit row makes
after its PATCH is the pick of `SprintPages` and is not chained to `Drafts`;
validation on the server that a form could not know of is a failed request; a page
reload in `AuthClient` and `SprintPages`, which forgets what was pending; the
retrospective's closing, which no handler reads.

Three hazards have no property. They are known to go wrong, nothing in the
repository says otherwise, and a property that names the exception would only
repeat the guard: an item added between Close's two statements
(`internal/api/handler_tasks_sprints.go:547`), a password change on the strength
of a hash read before a reset (`internal/api/handler_auth.go:263`), and a refresh
that arrives after the logout (`hooks/useAuth.ts:51`).
