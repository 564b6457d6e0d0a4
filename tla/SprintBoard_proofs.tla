------------------------- MODULE SprintBoard_proofs --------------------------
(***************************************************************************)
(* Theorems about SprintBoard for any projects, items, sprints, statuses    *)
(* and number of requests in flight, with and without faults.               *)
(***************************************************************************)
EXTENDS SprintBoard, TLAPS

\* A record built by a handler is one of the requests.
LEMMA RequestIntro ==
    /\ Idle \in Request
    /\ \A i \in Items : [op |-> "promote", item |-> i] \in Request
    /\ \A i \in Items : [op |-> "evict", item |-> i] \in Request
    /\ \A f, t \in Sprints, l \in SUBSET Items :
         [op |-> "carry", from |-> f, to |-> t, list |-> l] \in Request
    /\ \A f \in Sprints : [op |-> "complete", from |-> f] \in Request
BY DEF Request, Idle

\* What the op of a request says of its other fields.
LEMMA RequestElim ==
    ASSUME NEW r \in Request
    PROVE  /\ r.op \in {"promote", "evict"} => r.item \in Items
           /\ r.op = "carry" =>
                r.from \in Sprints /\ r.to \in Sprints /\ r.list \in SUBSET Items
           /\ r.op = "complete" => r.from \in Sprints
<1>1. CASE r = Idle
  BY <1>1 DEF Idle
<1>2. CASE r \in [op : {"promote", "evict"}, item : Items]
  BY <1>2
<1>3. CASE r \in [op : {"carry"}, from : Sprints, to : Sprints, list : SUBSET Items]
  BY <1>3
<1>4. CASE r \in [op : {"complete"}, from : Sprints]
  BY <1>4
<1> QED BY <1>1, <1>2, <1>3, <1>4 DEF Request

\* Moving one request on keeps the table of requests well formed.
LEMMA BecomeType ==
    ASSUME TypeOK, NEW w \in Workers, NEW r \in Request, Become(w, r)
    PROVE  req' \in [Workers -> Request]
BY DEF TypeOK, Become

\* The empty database is well formed.
LEMMA InitType == Init => TypeOK
<1> SUFFICES ASSUME Init PROVE TypeOK
  OBVIOUS
<1>1. Idle \in Request
  BY RequestIntro
<1> QED BY <1>1 DEF Init, TypeOK, Absent

\* Every statement of every handler keeps the rows and the requests well formed.
LEMMA NextType == TypeOK /\ [Next]_vars => TypeOK'
<1> SUFFICES ASSUME TypeOK, [Next]_vars PROVE TypeOK'
  OBVIOUS
<1> USE BoardAssumption
<1>1. ASSUME NEW i \in Items, NEW st \in Statuses, CreateItem(i, st) PROVE TypeOK'
  BY <1>1 DEF CreateItem, TypeOK
<1>2. ASSUME NEW w \in Workers, NEW p \in Projects, NEW i \in Items, NEW st \in Statuses,
             UpdateItem(w, p, i, st)
      PROVE  TypeOK'
  <2>1. req' \in [Workers -> Request]
    BY <1>2, RequestIntro, BecomeType DEF UpdateItem, TypeOK
  <2> QED BY <1>2, <2>1 DEF UpdateItem, TypeOK
<1>3. ASSUME NEW p \in Projects, NEW i \in Items, DeleteItem(p, i) PROVE TypeOK'
  BY <1>3 DEF DeleteItem, TypeOK, Absent
<1>4. ASSUME NEW s \in Sprints, NEW st \in SprintStatuses, CreateSprint(s, st) PROVE TypeOK'
  BY <1>4 DEF CreateSprint, TypeOK
<1>5. ASSUME NEW p \in Projects, NEW s \in Sprints, NEW st \in SprintStatuses,
             UpdateSprint(p, s, st)
      PROVE  TypeOK'
  BY <1>5 DEF UpdateSprint, TypeOK
<1>6. ASSUME NEW p \in Projects, NEW s \in Sprints, DeleteSprint(p, s) PROVE TypeOK'
  BY <1>6 DEF DeleteSprint, TypeOK, Absent
<1>7. ASSUME NEW w \in Workers, NEW p \in Projects, NEW s \in Sprints, NEW i \in Items,
             AddItem(w, p, s, i)
      PROVE  TypeOK'
  <2>1. req' \in [Workers -> Request]
    BY <1>7, RequestIntro, BecomeType DEF AddItem
  <2> QED BY <1>7, <2>1 DEF AddItem, TypeOK
<1>8. ASSUME NEW p \in Projects, NEW s \in Sprints, NEW i \in Items, RemoveItem(p, s, i)
      PROVE  TypeOK'
  BY <1>8 DEF RemoveItem, TypeOK
<1>9. ASSUME NEW w \in Workers, NEW p \in Projects, NEW s \in Sprints, NEW t \in CarryTargets,
             CloseRead(w, p, s, t)
      PROVE  TypeOK'
  <2>1. Unclosed(s) \in SUBSET Items /\ {} \in SUBSET Items
    BY DEF Unclosed
  <2>2. t # NoTarget => t \in Sprints
    OBVIOUS
  <2>3. [op |-> "complete", from |-> s] \in Request
    BY RequestIntro
  <2>4. t # NoTarget =>
          [op |-> "carry", from |-> s, to |-> t, list |-> Unclosed(s)] \in Request
    BY <2>1, <2>2, RequestIntro
  <2>5. req' \in [Workers -> Request]
    BY <1>9, <2>3, <2>4, BecomeType DEF CloseRead
  <2> QED BY <1>9, <2>5 DEF CloseRead, TypeOK
<1>10. ASSUME NEW w \in Workers, Evict(w) PROVE TypeOK'
  <2>1. req' \in [Workers -> Request]
    BY <1>10, RequestIntro, BecomeType DEF Evict
  <2> QED BY <1>10, <2>1 DEF Evict, TypeOK
<1>11. ASSUME NEW w \in Workers, Promote(w) PROVE TypeOK'
  <2>1. req' \in [Workers -> Request]
    BY <1>11, RequestIntro, BecomeType DEF Promote
  <2> QED BY <1>11, <2>1 DEF Promote, TypeOK
<1>12. ASSUME NEW w \in Workers, CloseCarry(w) PROVE TypeOK'
  <2> DEFINE from == req[w].from
             to   == req[w].to
             list == req[w].list
  <2>1. from \in Sprints /\ to \in Sprints /\ list \in SUBSET Items
    BY <1>12, RequestElim DEF CloseCarry, TypeOK
  <2>2. [op |-> "complete", from |-> from] \in Request
    BY <2>1, RequestIntro
  <2>3. req' \in [Workers -> Request]
    BY <1>12, <2>2, BecomeType DEF CloseCarry
  <2>4. board' \subseteq Sprints \X Items
    BY <1>12, <2>1 DEF CloseCarry, TypeOK
  <2> QED BY <1>12, <2>3, <2>4 DEF CloseCarry, TypeOK
<1>13. ASSUME NEW w \in Workers, CloseRollback(w) PROVE TypeOK'
  <2>1. req' \in [Workers -> Request]
    BY <1>13, RequestIntro, BecomeType DEF CloseRollback
  <2> QED BY <1>13, <2>1 DEF CloseRollback, TypeOK
<1>14. ASSUME NEW w \in Workers, CloseComplete(w) PROVE TypeOK'
  <2>1. req' \in [Workers -> Request]
    BY <1>14, RequestIntro, BecomeType DEF CloseComplete
  <2> QED BY <1>14, <2>1 DEF CloseComplete, TypeOK
<1>15. ASSUME NEW w \in Workers, Abort(w) PROVE TypeOK'
  <2>1. req' \in [Workers -> Request]
    BY <1>15, RequestIntro, BecomeType DEF Abort
  <2> QED BY <1>15, <2>1 DEF Abort, TypeOK
<1>16. CASE UNCHANGED vars
  BY <1>16 DEF vars, TypeOK
<1> QED
  BY <1>1, <1>2, <1>3, <1>4, <1>5, <1>6, <1>7, <1>8, <1>9, <1>10, <1>11, <1>12, <1>13,
     <1>14, <1>15, <1>16 DEF Next

\* Type correctness: rows name known items and sprints, statuses are accepted
\* values, and a request carries only what its handler read.
THEOREM TypeCorrect == Spec => []TypeOK
BY InitType, NextType, PTL DEF Spec

------------------------------------------------------------------------------
(* Rows resolve *)

\* No step leaves a row behind: the deletes cascade, and both inserts check
\* their two foreign keys when they run, not when the request read its list.
LEMMA NextRows == TypeOK /\ RowsResolve /\ [Next]_vars => RowsResolve'
<1> SUFFICES ASSUME TypeOK, RowsResolve, [Next]_vars,
                    NEW row \in board'
             PROVE  RowResolves(row[1], row[2])'
  BY DEF RowsResolve
<1> USE DEF RowResolves, LiveItem, LiveSprint, Absent
<1> row \in Sprints \X Items
  BY NextType DEF TypeOK
<1> USE BoardAssumption DEF AcceptedStatuses, AcceptedSprintStatuses
<1>1. ASSUME NEW i \in Items, NEW st \in Statuses, CreateItem(i, st)
      PROVE  RowResolves(row[1], row[2])'
  BY <1>1 DEF CreateItem, RowsResolve, TypeOK
<1>2. ASSUME NEW w \in Workers, NEW p \in Projects, NEW i \in Items, NEW st \in Statuses,
             UpdateItem(w, p, i, st)
      PROVE  RowResolves(row[1], row[2])'
  BY <1>2 DEF UpdateItem, RowsResolve, TypeOK
<1>3. ASSUME NEW p \in Projects, NEW i \in Items, DeleteItem(p, i)
      PROVE  RowResolves(row[1], row[2])'
  BY <1>3 DEF DeleteItem, RowsResolve, TypeOK
<1>4. ASSUME NEW s \in Sprints, NEW st \in SprintStatuses, CreateSprint(s, st)
      PROVE  RowResolves(row[1], row[2])'
  BY <1>4 DEF CreateSprint, RowsResolve, TypeOK
<1>5. ASSUME NEW p \in Projects, NEW s \in Sprints, NEW st \in SprintStatuses,
             UpdateSprint(p, s, st)
      PROVE  RowResolves(row[1], row[2])'
  BY <1>5 DEF UpdateSprint, RowsResolve, TypeOK
<1>6. ASSUME NEW p \in Projects, NEW s \in Sprints, DeleteSprint(p, s)
      PROVE  RowResolves(row[1], row[2])'
  BY <1>6 DEF DeleteSprint, RowsResolve, TypeOK
<1>7. ASSUME NEW w \in Workers, NEW p \in Projects, NEW s \in Sprints, NEW i \in Items,
             AddItem(w, p, s, i)
      PROVE  RowResolves(row[1], row[2])'
  BY <1>7 DEF AddItem, SprintInProject, ItemInProject, RowsResolve, TypeOK
<1>8. ASSUME NEW p \in Projects, NEW s \in Sprints, NEW i \in Items, RemoveItem(p, s, i)
      PROVE  RowResolves(row[1], row[2])'
  BY <1>8 DEF RemoveItem, RowsResolve, TypeOK
<1>9. ASSUME NEW w \in Workers, Promote(w) PROVE RowResolves(row[1], row[2])'
  BY <1>9 DEF Promote, RowsResolve, TypeOK
<1>10. ASSUME NEW w \in Workers, CloseCarry(w) PROVE RowResolves(row[1], row[2])'
  <2>1. CASE row \in board
    BY <1>10, <2>1 DEF CloseCarry, RowsResolve
  <2>2. CASE row \in {req[w].to} \X req[w].list
    BY <1>10, <2>2 DEF CloseCarry
  <2> QED BY <1>10, <2>1, <2>2 DEF CloseCarry
<1>11. ASSUME NEW w \in Workers, CloseComplete(w) PROVE RowResolves(row[1], row[2])'
  BY <1>11 DEF CloseComplete, RowsResolve, TypeOK
<1>12. ASSUME board' \subseteq board, UNCHANGED <<status, sprint>>
       PROVE  RowResolves(row[1], row[2])'
  BY <1>12 DEF RowsResolve
<1>13. ASSUME NEW w \in Workers, Evict(w) \/ CloseRollback(w) \/ Abort(w)
       PROVE  board' \subseteq board /\ UNCHANGED <<status, sprint>>
  BY <1>13 DEF Evict, CloseRollback, Abort
<1>14. ASSUME NEW w \in Workers, NEW p \in Projects, NEW s \in Sprints, NEW t \in CarryTargets,
             CloseRead(w, p, s, t)
       PROVE  board' \subseteq board /\ UNCHANGED <<status, sprint>>
  BY <1>14 DEF CloseRead
<1>15. CASE UNCHANGED vars
  BY <1>12, <1>15 DEF vars
<1> QED
  BY <1>1, <1>2, <1>3, <1>4, <1>5, <1>6, <1>7, <1>8, <1>9, <1>10, <1>11, <1>12, <1>13,
     <1>14, <1>15 DEF Next

\* Referential integrity of sprint_items under every interleaving: a carry-over
\* that acts on an old list and an old target still commits no dangling row.
THEOREM RowsAlwaysResolve == Spec => []RowsResolve
<1>1. Init => RowsResolve
  BY DEF Init, RowsResolve
<1> QED BY <1>1, TypeCorrect, NextRows, PTL DEF Spec

------------------------------------------------------------------------------
(* Stranded items *)

\* A step that leaves the board rows, the status and the pending statement of
\* item i alone, or only takes rows away, does not strand it.
LEMMA NotStrandedByRemoval ==
    ASSUME NEW i \in Items, ~Stranded(i),
           board' \subseteq board,
           status'[i] = status[i],
           Pending(i) => Pending(i)'
    PROVE  ~Stranded(i)'
BY DEF Stranded, OnBoard

\* A worker whose request concerns other items can start or finish it.
LEMMA PendingKept ==
    ASSUME TypeOK, NEW i \in Items, NEW w \in Workers, NEW r, Become(w, r),
           req[w].op \in {"promote", "evict"} => req[w].item # i
    PROVE  Pending(i) => Pending(i)'
BY DEF TypeOK, Become, Pending

\* The step of the theorem below: every statement but an abort and an outdated
\* carry-over leaves item i either off the pre-sprint statuses, off every board,
\* or with a request still pending.
LEMMA StrandedStep ==
    TypeOK /\ RowsResolve /\ [Next]_vars =>
        \A i \in Items :
          ~Stranded(i) /\ Stranded(i)' =>
              \E w \in Workers : Abort(w) \/ StaleCarry(w, i)
<1> SUFFICES ASSUME TypeOK, RowsResolve, [Next]_vars,
                    NEW i \in Items, ~Stranded(i), Stranded(i)'
             PROVE  \E w \in Workers : Abort(w) \/ StaleCarry(w, i)
  OBVIOUS
<1> DEFINE Goal == \E w \in Workers : Abort(w) \/ StaleCarry(w, i)
<1> HIDE DEF Goal
<1>1. ASSUME NEW j \in Items, NEW st \in Statuses, CreateItem(j, st) PROVE FALSE
  <2>1. CASE j = i
    <3>1. \A s \in Sprints : <<s, i>> \notin board
      BY <1>1, <2>1 DEF CreateItem, RowsResolve, RowResolves, LiveItem, Absent
    <3> QED BY <1>1, <3>1 DEF CreateItem, Stranded, OnBoard
  <2>2. CASE j # i
    <3>1. status'[i] = status[i] /\ UNCHANGED <<board, req>>
      BY <1>1, <2>2 DEF CreateItem, TypeOK
    <3> QED BY <3>1, NotStrandedByRemoval DEF Pending
  <2> QED BY <2>1, <2>2
<1>2. ASSUME NEW w \in Workers, NEW p \in Projects, NEW j \in Items, NEW st \in Statuses,
             UpdateItem(w, p, j, st)
      PROVE  FALSE
  <2>1. CASE j = i
    <3>1. status'[i] = st
      BY <1>2, <2>1 DEF UpdateItem, TypeOK
    <3>2. st \in ResetStatuses
      BY <3>1 DEF Stranded, PreSprint
    <3>3. req'[w] = [op |-> "evict", item |-> i]
      BY <1>2, <2>1, <3>2 DEF UpdateItem, Become, TypeOK
    <3> QED BY <3>3 DEF Stranded, Pending
  <2>2. CASE j # i
    <3>1. status'[i] = status[i] /\ board' = board
      BY <1>2, <2>2 DEF UpdateItem, TypeOK
    <3>2. Pending(i) => Pending(i)'
      BY <1>2, PendingKept DEF UpdateItem, Idle, Pending
    <3> QED BY <3>1, <3>2, NotStrandedByRemoval
  <2> QED BY <2>1, <2>2
<1>3. ASSUME NEW p \in Projects, NEW j \in Items, DeleteItem(p, j) PROVE FALSE
  <2>1. CASE j = i
    <3>1. status'[i] = "deleted"
      BY <1>3, <2>1 DEF DeleteItem, TypeOK
    <3> QED BY <3>1 DEF Stranded, PreSprint, PromotedStatuses, ResetStatuses
  <2>2. CASE j # i
    <3>1. status'[i] = status[i] /\ board' \subseteq board /\ req' = req
      BY <1>3, <2>2 DEF DeleteItem, TypeOK
    <3> QED BY <3>1, NotStrandedByRemoval DEF Pending
  <2> QED BY <2>1, <2>2
<1>4. ASSUME board' \subseteq board, UNCHANGED <<status, req>> PROVE FALSE
  BY <1>4, NotStrandedByRemoval DEF Pending
<1>5. ASSUME NEW s \in Sprints, NEW st \in SprintStatuses, CreateSprint(s, st) PROVE FALSE
  BY <1>4, <1>5 DEF CreateSprint
<1>6. ASSUME NEW p \in Projects, NEW s \in Sprints, NEW st \in SprintStatuses,
             UpdateSprint(p, s, st)
      PROVE  FALSE
  BY <1>4, <1>6 DEF UpdateSprint
<1>7. ASSUME NEW p \in Projects, NEW s \in Sprints, DeleteSprint(p, s) PROVE FALSE
  BY <1>4, <1>7 DEF DeleteSprint
<1>8. ASSUME NEW w \in Workers, NEW p \in Projects, NEW s \in Sprints, NEW j \in Items,
             AddItem(w, p, s, j)
      PROVE  FALSE
  <2>1. CASE j = i
    <3>1. req'[w] = [op |-> "promote", item |-> i]
      BY <1>8, <2>1 DEF AddItem, Become, TypeOK
    <3> QED BY <3>1 DEF Stranded, Pending
  <2>2. CASE j # i
    <3>1. OnBoard(i)' => OnBoard(i)
      BY <1>8, <2>2 DEF AddItem, OnBoard
    <3>2. Pending(i) => Pending(i)'
      BY <1>8, PendingKept DEF AddItem, Idle
    <3> QED BY <1>8, <3>1, <3>2 DEF AddItem, Stranded
  <2> QED BY <2>1, <2>2
<1>9. ASSUME NEW p \in Projects, NEW s \in Sprints, NEW j \in Items, RemoveItem(p, s, j)
      PROVE  FALSE
  BY <1>4, <1>9 DEF RemoveItem
<1>10. ASSUME NEW w \in Workers, NEW p \in Projects, NEW s \in Sprints, NEW t \in CarryTargets,
             CloseRead(w, p, s, t)
       PROVE  FALSE
  <2>1. Pending(i) => Pending(i)'
    BY <1>10, PendingKept DEF CloseRead, Idle
  <2> QED BY <1>10, <2>1, NotStrandedByRemoval DEF CloseRead
<1>11. ASSUME NEW w \in Workers, Evict(w) PROVE FALSE
  <2>1. CASE req[w].item = i
    <3>1. \A s \in Sprints : <<s, i>> \notin board'
      BY <1>11, <2>1 DEF Evict
    <3> QED BY <3>1 DEF Stranded, OnBoard
  <2>2. CASE req[w].item # i
    <3>1. Pending(i) => Pending(i)'
      BY <1>11, <2>2, PendingKept DEF Evict
    <3>2. board' \subseteq board /\ status' = status
      BY <1>11 DEF Evict
    <3> QED BY <3>1, <3>2, NotStrandedByRemoval
  <2> QED BY <2>1, <2>2
<1>12. ASSUME NEW w \in Workers, Promote(w) PROVE FALSE
  <2>1. CASE req[w].item = i
    <3>1. status'[i] = IF status[i] \in PromotedStatuses THEN "open" ELSE status[i]
      BY <1>12, <2>1 DEF Promote, TypeOK
    <3> QED BY <3>1 DEF Stranded, PreSprint, PromotedStatuses
  <2>2. CASE req[w].item # i
    <3>1. Pending(i) => Pending(i)'
      BY <1>12, <2>2, PendingKept DEF Promote
    <3>2. board' = board /\ status'[i] = status[i]
      BY <1>12, <2>2 DEF Promote, TypeOK
    <3> QED BY <3>1, <3>2, NotStrandedByRemoval
  <2> QED BY <2>1, <2>2
<1>13. ASSUME NEW w \in Workers, CloseCarry(w) PROVE Goal
  <2>1. Pending(i) => Pending(i)'
    BY <1>13, PendingKept DEF CloseCarry
  <2>2. ~OnBoard(i)
    BY <1>13, <2>1 DEF CloseCarry, Stranded
  <2>3. PICK s \in Sprints : <<s, i>> \in board'
    BY DEF Stranded, OnBoard
  <2>4. <<s, i>> \in {req[w].to} \X req[w].list
    BY <1>13, <2>2, <2>3 DEF CloseCarry, OnBoard
  <2>5. req[w].from \in Sprints
    BY <1>13, RequestElim DEF CloseCarry, TypeOK
  <2>6. StaleCarry(w, i)
    BY <1>13, <2>2, <2>4, <2>5 DEF StaleCarry, OnBoard
  <2> QED BY <2>6 DEF Goal
<1>14. ASSUME NEW w \in Workers, CloseRollback(w) \/ CloseComplete(w) PROVE FALSE
  <2>1. Pending(i) => Pending(i)'
    BY <1>14, PendingKept DEF CloseRollback, CloseComplete
  <2> QED BY <1>14, <2>1, NotStrandedByRemoval DEF CloseRollback, CloseComplete
<1>15. ASSUME NEW w \in Workers, Abort(w) PROVE Goal
  BY <1>15 DEF Goal
<1>16. ASSUME UNCHANGED vars PROVE FALSE
  BY <1>4, <1>16 DEF vars
<1>17. Goal
  BY <1>1, <1>2, <1>3, <1>5, <1>6, <1>7, <1>8, <1>9, <1>10, <1>11, <1>12, <1>13, <1>14,
     <1>15, <1>16 DEF Next
<1> QED BY <1>17 DEF Goal

\* Whatever the requests do and however they interleave, an item is left
\* pre-sprint on a board only by an aborted request or an outdated carry-over.
THEOREM StrandedOnlySo == Spec => StrandedOnlyByAbortOrStaleCarry
<1>1. TypeOK /\ RowsResolve /\ [Next]_vars =>
        [\A i \in Items :
           ~Stranded(i) /\ Stranded(i)' =>
               \E w \in Workers : Abort(w) \/ StaleCarry(w, i)]_vars
  BY StrandedStep
<1> QED BY <1>1, TypeCorrect, RowsAlwaysResolve, PTL
        DEF Spec, StrandedOnlyByAbortOrStaleCarry

------------------------------------------------------------------------------
(* Carry-over and promotion *)

\* A listed item ends up in the target, an unlisted one keeps its rows.
LEMMA CarryStep ==
    ASSUME TypeOK, NEW w \in Workers, CloseCarry(w), NEW i \in Items, OnBoard(i)
    PROVE  OnBoard(i)'
<1>1. req[w].to \in Sprints
  BY RequestElim DEF CloseCarry, TypeOK
<1>2. CASE i \in req[w].list
  <2>1. <<req[w].to, i>> \in board'
    BY <1>2 DEF CloseCarry
  <2> QED BY <1>1, <2>1 DEF OnBoard
<1>3. CASE i \notin req[w].list
  <2>1. PICK s \in Sprints : <<s, i>> \in board
    BY DEF OnBoard
  <2>2. <<s, i>> \in board'
    BY <1>3, <2>1 DEF CloseCarry
  <2> QED BY <2>2 DEF OnBoard
<1> QED BY <1>2, <1>3

\* No carry-over drops an item from every board, a sprint closed into itself
\* and a target that already holds the item included.
THEOREM CarryDrops == Spec => CarryDropsNothing
<1>1. TypeOK /\ [Next]_vars =>
        [\A w \in Workers : CloseCarry(w) =>
            \A i \in Items : OnBoard(i) => OnBoard(i)']_vars
  BY CarryStep
<1> QED BY <1>1, TypeCorrect, PTL DEF Spec, CarryDropsNothing

\* Only the two edits move an item that has left the pre-sprint statuses.
LEMMA StatusStep ==
    TypeOK /\ [Next]_vars =>
        \A i \in Items :
          LiveItem(i) /\ status[i] \notin PreSprint /\ status'[i] # status[i] =>
              \E p \in Projects :
                  \/ DeleteItem(p, i)
                  \/ \E w \in Workers, st \in Statuses : UpdateItem(w, p, i, st)
<1> SUFFICES ASSUME TypeOK, [Next]_vars,
                    NEW i \in Items, LiveItem(i), status[i] \notin PreSprint,
                    status'[i] # status[i]
             PROVE  \E p \in Projects :
                        \/ DeleteItem(p, i)
                        \/ \E w \in Workers, st \in Statuses : UpdateItem(w, p, i, st)
  OBVIOUS
<1>1. ASSUME NEW j \in Items, NEW st \in Statuses, CreateItem(j, st) PROVE FALSE
  BY <1>1 DEF CreateItem, TypeOK, LiveItem, Absent
<1>2. ASSUME NEW w \in Workers, NEW p \in Projects, NEW j \in Items, NEW st \in Statuses,
             UpdateItem(w, p, j, st)
      PROVE  j = i
  BY <1>2 DEF UpdateItem, TypeOK
<1>3. ASSUME NEW p \in Projects, NEW j \in Items, DeleteItem(p, j) PROVE j = i
  BY <1>3 DEF DeleteItem, TypeOK
<1>4. ASSUME NEW w \in Workers, Promote(w) PROVE FALSE
  <2>1. status[i] \in PromotedStatuses
    BY <1>4 DEF Promote, TypeOK
  <2>2. status[i] \in AcceptedStatuses
    BY BoardAssumption DEF TypeOK, LiveItem
  <2> QED BY <2>1, <2>2 DEF AcceptedStatuses, PromotedStatuses, ResetStatuses, PreSprint
<1>5. status' # status
  OBVIOUS
<1> QED
  BY <1>1, <1>2, <1>3, <1>4, <1>5
     DEF Next, vars, CreateSprint, UpdateSprint, DeleteSprint, AddItem, RemoveItem,
         CloseRead, Evict, CloseCarry, CloseRollback, CloseComplete, Abort

\* A status the user chose stands: the promotion that follows an insert into a
\* sprint never overrides it, however late it runs.
THEOREM EditsStand == Spec => OnlyEditsMoveStartedItems
<1>1. TypeOK /\ [Next]_vars =>
        [\A i \in Items :
           LiveItem(i) /\ status[i] \notin PreSprint /\ status'[i] # status[i] =>
               \E p \in Projects :
                   \/ DeleteItem(p, i)
                   \/ \E w \in Workers, st \in Statuses : UpdateItem(w, p, i, st)]_vars
  BY StatusStep
<1> QED BY <1>1, TypeCorrect, PTL DEF Spec, OnlyEditsMoveStartedItems

------------------------------------------------------------------------------
(* Isolation, but for a foreign target of Close *)

\* No Close carries into a sprint of another project: what the handler, which
\* checks the sprint it closes, does not ask of the target.
CarriesWithinProject ==
    \A w \in Workers :
        req[w].op = "carry" => SprintProject[req[w].to] = SprintProject[req[w].from]

\* What a Close has listed is of the project of the sprint it closes.
ListsOfOneProject ==
    \A w \in Workers :
        req[w].op = "carry" =>
            \A i \in req[w].list : ItemProject[i] = SprintProject[req[w].from]

\* A list read from an isolated board stays what it is until it is carried.
LEMMA ListsNext ==
    TypeOK /\ Isolation /\ ListsOfOneProject /\ [Next]_vars => ListsOfOneProject'
<1> SUFFICES ASSUME TypeOK, Isolation, ListsOfOneProject, [Next]_vars PROVE ListsOfOneProject'
  OBVIOUS
<1>1. ASSUME NEW w \in Workers, NEW r, Become(w, r), r.op # "carry"
      PROVE  ListsOfOneProject'
  BY <1>1 DEF Become, ListsOfOneProject, TypeOK
<1>2. ASSUME NEW w \in Workers, NEW p \in Projects, NEW s \in Sprints, NEW t \in CarryTargets,
             CloseRead(w, p, s, t)
      PROVE  ListsOfOneProject'
  <2>1. CASE Unclosed(s) = {} \/ t = NoTarget
    BY <1>1, <1>2, <2>1 DEF CloseRead
  <2>2. CASE ~(Unclosed(s) = {} \/ t = NoTarget)
    <3> DEFINE r == [op |-> "carry", from |-> s, to |-> t, list |-> Unclosed(s)]
    <3>1. \A i \in r.list : ItemProject[i] = SprintProject[r.from]
      BY DEF Unclosed, Isolation
    <3>2. Become(w, r)
      BY <1>2, <2>2 DEF CloseRead
    <3> HIDE DEF r
    <3> QED
      BY <3>1, <3>2 DEF Become, ListsOfOneProject, TypeOK
  <2> QED BY <2>1, <2>2
<1>3. ASSUME NEW w \in Workers, NEW p \in Projects, NEW i \in Items, NEW st \in Statuses,
             UpdateItem(w, p, i, st)
      PROVE  ListsOfOneProject'
  <2>1. CASE UNCHANGED req
    BY <2>1 DEF ListsOfOneProject
  <2>2. CASE Become(w, [op |-> "evict", item |-> i])
    BY <1>1, <2>2
  <2> QED BY <1>3, <2>1, <2>2 DEF UpdateItem
<1>4. ASSUME NEW w \in Workers, NEW p \in Projects, NEW s \in Sprints, NEW i \in Items,
             AddItem(w, p, s, i)
      PROVE  ListsOfOneProject'
  BY <1>1, <1>4 DEF AddItem
<1>5. ASSUME NEW w \in Workers,
             Evict(w) \/ Promote(w) \/ CloseRollback(w) \/ CloseComplete(w) \/ Abort(w)
      PROVE  ListsOfOneProject'
  <2>1. Become(w, Idle) /\ Idle.op # "carry"
    BY <1>5 DEF Evict, Promote, CloseRollback, CloseComplete, Abort, Idle
  <2> QED BY <1>1, <2>1
<1>6. ASSUME NEW w \in Workers, CloseCarry(w) PROVE ListsOfOneProject'
  <2>1. Become(w, [op |-> "complete", from |-> req[w].from])
    BY <1>6 DEF CloseCarry
  <2> QED BY <1>1, <2>1
<1>7. CASE UNCHANGED req
  BY <1>7 DEF ListsOfOneProject
<1> QED
  BY <1>2, <1>3, <1>4, <1>5, <1>6, <1>7
  DEF Next, vars, CreateItem, DeleteItem, CreateSprint, UpdateSprint, DeleteSprint, RemoveItem

LEMMA IsolationNext ==
    TypeOK /\ Isolation /\ ListsOfOneProject /\ CarriesWithinProject /\ [Next]_vars
        => Isolation'
<1> SUFFICES ASSUME TypeOK, Isolation, ListsOfOneProject, CarriesWithinProject, [Next]_vars
             PROVE  Isolation'
  OBVIOUS
<1>1. ASSUME NEW w \in Workers, NEW p \in Projects, NEW s \in Sprints, NEW i \in Items,
             AddItem(w, p, s, i)
      PROVE  Isolation'
  BY <1>1 DEF AddItem, SprintInProject, ItemInProject, Isolation
<1>2. ASSUME NEW w \in Workers, CloseCarry(w) PROVE Isolation'
  <2>1. \A i \in req[w].list : ItemProject[i] = SprintProject[req[w].to]
    BY <1>2 DEF CloseCarry, ListsOfOneProject, CarriesWithinProject
  <2>2. board' \subseteq board \cup ({req[w].to} \X req[w].list)
    BY <1>2 DEF CloseCarry
  <2> QED BY <2>1, <2>2 DEF Isolation
<1>3. CASE board' \subseteq board
  BY <1>3 DEF Isolation
<1> QED
  BY <1>1, <1>2, <1>3
  DEF Next, vars, CreateItem, UpdateItem, DeleteItem, CreateSprint, UpdateSprint, DeleteSprint,
      RemoveItem, CloseRead, Evict, Promote, CloseRollback, CloseComplete, Abort

\* A target of another project is the only way an item comes into a sprint of a
\* project not its own: while no Close is given one, the guards of AddItem, of
\* the lists that Close reads and of everything else keep the projects apart.
THEOREM OnlyAForeignTargetMixes == Spec /\ []CarriesWithinProject => []Isolation
<1>1. Init => Isolation /\ ListsOfOneProject
  BY DEF Init, Isolation, ListsOfOneProject, Idle
<1> QED BY <1>1, TypeCorrect, IsolationNext, ListsNext, PTL DEF Spec
==============================================================================
