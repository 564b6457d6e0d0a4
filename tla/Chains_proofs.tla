--------------------------- MODULE Chains_proofs ----------------------------
(***************************************************************************)
(* Proofs about Breakdown and SprintPages, the pages that send a chain of   *)
(* requests for one wish, for any set of rows and sprints: a breakdown that *)
(* ends without an error has done all of it, and a change of sprint that    *)
(* nothing disturbs ends with the item in the sprint picked, and in no      *)
(* other.                                                                   *)
(***************************************************************************)
EXTENDS Breakdown, SprintPages, FiniteSetTheorems, WellFoundedInduction, TLAPS

-----------------------------------------------------------------------------
(* The least and the greatest of a set of numbers.                          *)

LEMMA LeastExists ==
    ASSUME NEW S \in SUBSET Nat, S # {}
    PROVE  \E x \in S : \A y \in S : x <= y
<1>1. \E x \in S : \A y \in S : <<y, x>> \notin OpToRel(<, Nat)
  BY NatLessThanWellFounded, WFMin
<1>2. PICK x \in S : \A y \in S : <<y, x>> \notin OpToRel(<, Nat)
  BY <1>1
<1>3. ASSUME NEW y \in S PROVE x <= y
  <2>1. <<y, x>> \notin {ss \in Nat \X Nat : ss[1] < ss[2]}
    BY <1>2 DEF OpToRel
  <2> QED BY <2>1
<1> QED BY <1>3

LEMMA LeastTaken == ASSUME NEW S \in SUBSET Nat, S # {} PROVE Min(S) \in S
BY LeastExists DEF Min

LEMMA GreatestTaken ==
    ASSUME NEW N \in Nat, NEW S \in SUBSET (0..N), S # {}
    PROVE  Max(S) \in S
<1> DEFINE T == {i \in 0..N : N - i \in S}
<1>1. T \in SUBSET Nat /\ T # {}
  <2>1. PICK x \in S : x \in 0..N
    OBVIOUS
  <2>2. N - x \in 0..N /\ N - (N - x) = x
    BY <2>1
  <2>3. N - x \in T
    BY <2>1, <2>2
  <2>4. T \in SUBSET Nat
    OBVIOUS
  <2> HIDE DEF T
  <2> QED BY <2>3, <2>4
<1>2. PICK i \in T : \A j \in T : i <= j
  BY <1>1, LeastExists
<1>3. ASSUME NEW y \in S PROVE N - i >= y
  <2>1. N - y \in 0..N /\ N - (N - y) = y
    OBVIOUS
  <2>2. N - y \in T
    BY <2>1
  <2> QED BY <1>2, <2>2
<1>4. \E x \in S : \A y \in S : x >= y
  BY <1>2, <1>3
<1> QED BY <1>4 DEF Max

-----------------------------------------------------------------------------
(* What an attempt moves, and where.                                        *)

LEMMA ToMoveIsOneOfFour ==
    ASSUME NEW a
    PROVE  /\ ToMove(a) \in {{}, Dropped(a, AllTasks), Dropped(a, Tests), Rest(a, AllTasks),
                             Rest(a, Tests)}
           /\ ToMove(a) = {} => /\ Dropped(a, AllTasks) = {} /\ Dropped(a, Tests) = {}
                                /\ Rest(a, AllTasks) = {} /\ Rest(a, Tests) = {}
<1> DEFINE groups == <<Dropped(a, AllTasks), Dropped(a, Tests), Rest(a, AllTasks),
                       Rest(a, Tests)>>
           left == {i \in 1..4 : groups[i] # {}}
<1>1. ToMove(a) = IF left = {} THEN {} ELSE groups[Min(left)]
  BY DEF ToMove
<1>2. left # {} => Min(left) \in left
  <2>1. left \in SUBSET Nat
    OBVIOUS
  <2> HIDE DEF left
  <2> QED BY <2>1, LeastTaken
<1>3. ASSUME NEW i \in left
      PROVE  /\ groups[i] # {}
             /\ groups[i] \in {Dropped(a, AllTasks), Dropped(a, Tests), Rest(a, AllTasks),
                               Rest(a, Tests)}
  <2>1. i \in {1, 2, 3, 4}
    OBVIOUS
  <2> QED BY <2>1
<1>4. left = {} => \A i \in {1, 2, 3, 4} : groups[i] = {}
  OBVIOUS
<1>5. left = {} => /\ Dropped(a, AllTasks) = {} /\ Dropped(a, Tests) = {}
                   /\ Rest(a, AllTasks) = {} /\ Rest(a, Tests) = {}
  BY <1>4
<1> HIDE DEF left, groups
<1> QED BY <1>1, <1>2, <1>3, <1>5

\* What is moved is a row not moved yet; if none is left, all the user
\* dropped somewhere and all the page listed have been moved.
LEMMA ToMoveIsWhatIsLeft ==
    ASSUME NEW a \in Attempts
    PROVE  /\ ToMove(a) \subseteq Things \ a.moved
           /\ ToMove(a) = {} => a.rows \cup {y \in Things : a.dropped[y] # NoSlot} \subseteq a.moved
<1>1. a.rows \subseteq Things /\ Things = AllTasks \cup Tests
  BY DEF Attempts, Things
<1>2. ToMove(a) \subseteq Things \ a.moved
  BY <1>1, ToMoveIsOneOfFour DEF Dropped, Rest
<1>3. ASSUME ToMove(a) = {}, NEW x \in a.rows \cup {y \in Things : a.dropped[y] # NoSlot}
      PROVE  x \in a.moved
  <2>1. CASE a.dropped[x] # NoSlot
    BY <1>1, <1>3, <2>1, ToMoveIsOneOfFour DEF Dropped
  <2>2. CASE a.dropped[x] = NoSlot
    BY <1>1, <1>3, <2>2, ToMoveIsOneOfFour DEF Rest
  <2> QED BY <2>1, <2>2
<1> QED BY <1>2, <1>3

\* A row is moved to a slot the attempt has, or to one of the dialog's.
LEMMA SlotOfIsASlot ==
    ASSUME NEW a \in Attempts, a.slots # {}, NEW x \in Things
    PROVE  SlotOf(a, x) \in Slots
<1>1. MaxSlots \in Nat /\ a.slots \in SUBSET (0..MaxSlots) /\ a.slots \subseteq Slots
  BY BreakdownAssumption DEF Attempts, Slots
<1>2. Max(a.slots) \in a.slots
  BY <1>1, GreatestTaken
<1>3. a.dropped[x] \in Slots \cup {NoSlot}
  BY DEF Attempts
<1> QED BY <1>1, <1>2, <1>3 DEF SlotOf

-----------------------------------------------------------------------------
Places  == Children \cup {Original, Absent, Gone}
Dialogs == [open : BOOLEAN, slots : SUBSET Slots, titled : BOOLEAN,
            dropped : [Things -> Slots \cup {NoSlot}]]
Counts  == edits \in 0..MaxEdits /\ faults \in 0..MaxFaults

LEMMA BreakdownConstants ==
    /\ {MaxSlots, MaxAttempts, MaxEdits, MaxFaults} \subseteq Nat
    /\ {1, 2} \subseteq Slots /\ Slots \subseteq Nat
    /\ Original \notin Children /\ Absent \notin Children /\ Gone \notin Children
    /\ Gone # Original /\ Gone # Absent /\ Original # Absent
BY BreakdownAssumption DEF Slots, Children, Original, Absent, Gone

LEMMA NewTyped == Idle \in Attempts /\ NewDialog \in Dialogs /\ NoDialog \in Dialogs
<1>1. Idle.dropped \in [Things -> Slots \cup {NoSlot}]
  BY DEF Idle
<1>2. Idle \in Attempts
  BY DEF Idle, Attempts
<1>3. NewDialog \in Dialogs
  BY <1>1, BreakdownConstants DEF NewDialog, Dialogs
<1>4. NoDialog \in Dialogs
  BY <1>3 DEF NoDialog, Dialogs
<1> QED BY <1>2, <1>3, <1>4

\* An attempt whose dialog is gone goes on as it was.
LEMMA Detached ==
    ASSUME attempts \in [1..MaxAttempts -> Attempts]
    PROVE  /\ Detach \in [1..MaxAttempts -> Attempts]
           /\ \A n \in 1..MaxAttempts :
                 /\ Detach[n].state = attempts[n].state /\ Detach[n].slots = attempts[n].slots
                 /\ Detach[n].dropped = attempts[n].dropped /\ Detach[n].rows = attempts[n].rows
                 /\ Detach[n].made = attempts[n].made /\ Detach[n].moved = attempts[n].moved
                 /\ Detach[n].joined = attempts[n].joined
<1>1. ASSUME NEW n \in 1..MaxAttempts
      PROVE  LET a == [attempts[n] EXCEPT !.attached = FALSE]
             IN  /\ a \in Attempts /\ a.state = attempts[n].state /\ a.slots = attempts[n].slots
                 /\ a.dropped = attempts[n].dropped /\ a.rows = attempts[n].rows
                 /\ a.made = attempts[n].made /\ a.moved = attempts[n].moved
                 /\ a.joined = attempts[n].joined
  <2>1. attempts[n] \in Attempts
    OBVIOUS
  <2> QED BY <2>1 DEF Attempts
<1>2. Detach = [n \in 1..MaxAttempts |-> [attempts[n] EXCEPT !.attached = FALSE]]
  BY DEF Detach
<1>3. Detach \in [1..MaxAttempts -> Attempts]
  BY <1>1, <1>2
<1>4. \A n \in 1..MaxAttempts : Detach[n] = [attempts[n] EXCEPT !.attached = FALSE]
  BY <1>2
<1> QED BY <1>1, <1>3, <1>4

\* Where an attempt stands, given where the rows are, the children there are
\* and the members of the sprint: what it made, moved and joined is there,
\* but for rows deleted since, and when it is done nothing is left to do.
Stands(n, a, rows, children, inSprint) ==
    /\ a.made \subseteq a.slots /\ a.joined \subseteq a.slots
    /\ a.state \in {"running", "done"} =>
          /\ a.slots # {}
          /\ \A s \in a.made : <<n, s>> \in children
          /\ \A x \in a.moved : rows[x] \in {<<n, SlotOf(a, x)>>, Gone}
          /\ \A s \in a.joined : <<n, s>> \in inSprint
    /\ a.state = "done" =>
          /\ a.made = a.slots /\ ToMove(a) = {}
          /\ inSprint # {} => a.joined = a.slots

\* Others' requests, and those of other attempts, leave it standing.
LEMMA StandsStill ==
    ASSUME NEW n \in 1..MaxAttempts, NEW a \in Attempts, NEW b,
           b.state = a.state, b.slots = a.slots, b.dropped = a.dropped, b.rows = a.rows,
           b.made = a.made, b.moved = a.moved, b.joined = a.joined,
           NEW r, NEW c, NEW m, Stands(n, a, r, c, m),
           NEW rr, NEW cc, NEW mm, c \subseteq cc, m \subseteq mm, m = {} => mm = {},
           \A x \in Things : r[x] \notin {Original, Absent} => rr[x] \in {r[x], Gone}
    PROVE  Stands(n, b, rr, cc, mm)
<1>1. \A x : SlotOf(b, x) = SlotOf(a, x)
  BY DEF SlotOf
<1>2. ToMove(b) = ToMove(a)
  BY DEF ToMove, Dropped, Rest
<1>3. ASSUME a.state \in {"running", "done"}, NEW x \in a.moved
      PROVE  rr[x] \in {<<n, SlotOf(b, x)>>, Gone}
  <2>1. x \in Things /\ r[x] \in {<<n, SlotOf(a, x)>>, Gone}
    BY <1>3 DEF Stands, Attempts
  <2>2. n # 0
    OBVIOUS
  <2>3. <<n, SlotOf(a, x)>> \notin {Original, Absent} /\ Gone \notin {Original, Absent}
    BY <2>2 DEF Original, Absent, Gone
  <2> QED BY <1>1, <2>1, <2>3
<1>4. /\ b.made \subseteq b.slots /\ b.joined \subseteq b.slots
      /\ b.state \in {"running", "done"} =>
            /\ b.slots # {}
            /\ \A s \in b.made : <<n, s>> \in cc
            /\ \A s \in b.joined : <<n, s>> \in mm
      /\ b.state = "done" =>
            /\ b.made = b.slots /\ ToMove(b) = {}
            /\ mm # {} => b.joined = b.slots
  BY <1>2 DEF Stands
<1> QED BY <1>3, <1>4 DEF Stands

AllStand == \A n \in 1..MaxAttempts : Stands(n, attempts[n], at, born, sprinted)

\* Requests only add children and members, and take rows from the item only.
ServerGoesOn ==
    /\ born \subseteq born' /\ sprinted \subseteq sprinted' /\ (sprinted = {} => sprinted' = {})
    /\ \A x \in Things : at[x] \notin {Original, Absent} => at'[x] \in {at[x], Gone}

\* What is needed of a step that changes one attempt.
LEMMA OneAttemptChanges ==
    ASSUME BreakdownTypeOK, AllStand, ServerGoesOn, NEW n \in 1..MaxAttempts, NEW f,
           f \in {attempts, Detach}, NEW b \in Attempts, attempts' = [f EXCEPT ![n] = b],
           Stands(n, b, at', born', sprinted')
    PROVE  attempts' \in [1..MaxAttempts -> Attempts] /\ AllStand'
<1>a. attempts \in [1..MaxAttempts -> Attempts]
  BY DEF BreakdownTypeOK
<1>1. f \in [1..MaxAttempts -> Attempts]
  BY <1>a, Detached
<1>2. /\ attempts' \in [1..MaxAttempts -> Attempts] /\ attempts'[n] = b
      /\ \A m \in 1..MaxAttempts : m # n => attempts'[m] = f[m]
  BY <1>1
<1>3. ASSUME NEW m \in 1..MaxAttempts, m # n
      PROVE  Stands(m, attempts'[m], at', born', sprinted')
  <2>1. /\ attempts[m] \in Attempts /\ Stands(m, attempts[m], at, born, sprinted)
    BY <1>a DEF AllStand
  <2>2. /\ f[m].state = attempts[m].state /\ f[m].slots = attempts[m].slots
        /\ f[m].dropped = attempts[m].dropped /\ f[m].rows = attempts[m].rows
        /\ f[m].made = attempts[m].made /\ f[m].moved = attempts[m].moved
        /\ f[m].joined = attempts[m].joined
    BY <1>a, Detached
  <2>3. Stands(m, f[m], at', born', sprinted')
    BY <2>1, <2>2, StandsStill DEF ServerGoesOn
  <2> QED BY <1>2, <1>3, <2>3
<1> QED BY <1>2, <1>3 DEF AllStand

\* And of one that changes none.
LEMMA NoAttemptChanges ==
    ASSUME BreakdownTypeOK, AllStand, ServerGoesOn, attempts' \in {attempts, Detach}
    PROVE  attempts' \in [1..MaxAttempts -> Attempts] /\ AllStand'
<1>a. attempts \in [1..MaxAttempts -> Attempts]
  BY DEF BreakdownTypeOK
<1>1. attempts' \in [1..MaxAttempts -> Attempts]
  BY <1>a, Detached
<1>2. ASSUME NEW m \in 1..MaxAttempts
      PROVE  Stands(m, attempts'[m], at', born', sprinted')
  <2>1. /\ attempts[m] \in Attempts /\ Stands(m, attempts[m], at, born, sprinted)
    BY <1>a DEF AllStand
  <2>2. /\ attempts'[m].state = attempts[m].state /\ attempts'[m].slots = attempts[m].slots
        /\ attempts'[m].dropped = attempts[m].dropped /\ attempts'[m].rows = attempts[m].rows
        /\ attempts'[m].made = attempts[m].made /\ attempts'[m].moved = attempts[m].moved
        /\ attempts'[m].joined = attempts[m].joined
    BY <1>a, Detached
  <2> QED BY <2>1, <2>2, StandsStill DEF ServerGoesOn
<1> QED BY <1>1, <1>2 DEF AllStand

\* An edit leaves a dialog.
LEMMA EditTyped ==
    ASSUME BreakdownTypeOK, NEW d \in Dialogs, Edit(d)
    PROVE  dialog' \in Dialogs /\ Counts'
BY BreakdownConstants DEF Edit, BreakdownTypeOK, Counts

LEMMA EditsTyped ==
    ASSUME BreakdownTypeOK,
           \/ addSlot \/ updateSlotTitle
           \/ \E s \in Slots : removeSlot(s)
           \/ \E x \in Things, s \in Slots \cup {NoSlot} : handleDrop(x, s)
    PROVE  dialog' \in Dialogs /\ Counts' /\ UNCHANGED <<listed, attempts, Server>>
<1>a. /\ dialog \in Dialogs /\ dialog.slots \in SUBSET Slots
      /\ dialog.dropped \in [Things -> Slots \cup {NoSlot}]
  BY DEF BreakdownTypeOK, Dialogs
<1>b. ASSUME NEW d \in Dialogs, Edit(d)
      PROVE  dialog' \in Dialogs /\ Counts' /\ UNCHANGED <<listed, attempts, Server>>
  BY <1>b, EditTyped DEF Edit
<1>1. CASE addSlot
  <2>1. PICK s \in Slots : Edit([dialog EXCEPT !.slots = @ \cup {s}, !.titled = FALSE])
    BY <1>1 DEF addSlot
  <2>2. [dialog EXCEPT !.slots = @ \cup {s}, !.titled = FALSE] \in Dialogs
    BY <1>a DEF Dialogs
  <2> QED BY <1>b, <2>1, <2>2
<1>2. CASE updateSlotTitle
  <2>1. [dialog EXCEPT !.titled = TRUE] \in Dialogs
    BY <1>a DEF Dialogs
  <2> QED BY <1>b, <1>2, <2>1 DEF updateSlotTitle
<1>3. ASSUME NEW s \in Slots, removeSlot(s)
      PROVE  dialog' \in Dialogs /\ Counts' /\ UNCHANGED <<listed, attempts, Server>>
  <2> DEFINE g == [x \in Things |-> IF dialog.dropped[x] = s THEN NoSlot ELSE dialog.dropped[x]]
  <2>1. g \in [Things -> Slots \cup {NoSlot}]
    BY <1>a
  <2>2. Edit([dialog EXCEPT !.slots = @ \ {s}, !.dropped = g])
    BY <1>3 DEF removeSlot
  <2> HIDE DEF g
  <2>3. [dialog EXCEPT !.slots = @ \ {s}, !.dropped = g] \in Dialogs
    BY <1>a, <2>1 DEF Dialogs
  <2> QED BY <1>b, <2>2, <2>3
<1>4. ASSUME NEW x \in Things, NEW s \in Slots \cup {NoSlot}, handleDrop(x, s)
      PROVE  dialog' \in Dialogs /\ Counts' /\ UNCHANGED <<listed, attempts, Server>>
  <2> DEFINE g == [dialog.dropped EXCEPT ![x] = s]
  <2>1. g \in [Things -> Slots \cup {NoSlot}]
    BY <1>a
  <2>2. Edit([dialog EXCEPT !.dropped = g])
    BY <1>4 DEF handleDrop
  <2> HIDE DEF g
  <2>3. [dialog EXCEPT !.dropped = g] \in Dialogs
    BY <1>a, <2>1 DEF Dialogs
  <2> QED BY <1>b, <2>2, <2>3
<1> QED BY <1>1, <1>2, <1>3, <1>4

-----------------------------------------------------------------------------
(* One request, carried out or not, of a running attempt.                   *)

ServerTyped ==
    /\ at \in [Things -> Places]
    /\ born \subseteq Children
    /\ sprinted \subseteq Children \cup {Original}
    /\ broken \in BOOLEAN

LEMMA CreateChildStands ==
    ASSUME BreakdownTypeOK, AllStand, NEW n \in 1..MaxAttempts,
           attempts[n].state = "running", CreateChild(n)
    PROVE  /\ ServerTyped' /\ ServerGoesOn
           /\ \E b \in Attempts : /\ attempts' = [attempts EXCEPT ![n] = b]
                                  /\ Stands(n, b, at', born', sprinted')
<1>1. PICK a \in Attempts : a = attempts[n]
  BY DEF BreakdownTypeOK
<1> DEFINE s == Min(a.slots \ a.made)
           b == [a EXCEPT !.made = @ \cup {s}]
<1>2. Stands(n, a, at, born, sprinted) /\ a.state = "running"
  BY <1>1 DEF AllStand
<1>3. s \in a.slots /\ s \in Slots
  <2>1. a.slots \ a.made # {} /\ a.slots \subseteq Slots /\ a.slots \ a.made \in SUBSET Nat
    BY <1>1, <1>2, BreakdownConstants DEF CreateChild, Stands, Attempts
  <2> QED BY <2>1, LeastTaken
<1>4. born' = born \cup {<<n, s>>} /\ attempts' = [attempts EXCEPT ![n] = b]
  BY <1>1 DEF CreateChild, Advance
<1>5. UNCHANGED <<at, sprinted, broken>>
  BY DEF CreateChild
<1> HIDE DEF s
<1>6. /\ b \in Attempts /\ b.state = "running" /\ b.slots = a.slots /\ b.dropped = a.dropped
      /\ b.rows = a.rows /\ b.made = a.made \cup {s} /\ b.moved = a.moved /\ b.joined = a.joined
  BY <1>2, <1>3 DEF Attempts
<1> HIDE DEF b
<1>7. Stands(n, b, at', born', sprinted')
  <2>1. \A x : SlotOf(b, x) = SlotOf(a, x)
    BY <1>6 DEF SlotOf
  <2> QED BY <1>2, <1>3, <1>4, <1>5, <1>6, <2>1 DEF Stands
<1>8. ServerTyped'
  <2>1. <<n, s>> \in Children
    BY <1>3 DEF Children
  <2> QED BY <1>4, <1>5, <2>1 DEF BreakdownTypeOK, ServerTyped, Places
<1>9. ServerGoesOn
  BY <1>4, <1>5 DEF ServerGoesOn
<1> QED BY <1>4, <1>6, <1>7, <1>8, <1>9

\* A row that is taken from the item: what an attempt moved stays in its child.
LEMMA RowTaken ==
    ASSUME BreakdownTypeOK, AllStand, NEW n \in 1..MaxAttempts,
           attempts[n].state = "running", NEW x \in ToMove(attempts[n]), at[x] = Original,
           at' = [at EXCEPT ![x] = <<n, SlotOf(attempts[n], x)>>],
           UNCHANGED <<born, sprinted, broken>>
    PROVE  /\ ServerTyped' /\ ServerGoesOn
           /\ at'[x] = <<n, SlotOf(attempts[n], x)>> /\ x \in Things
           /\ \A y \in Things \ {x} : at'[y] = at[y]
<1>1. attempts[n] \in Attempts /\ attempts[n].slots # {} /\ at \in [Things -> Places]
  BY DEF BreakdownTypeOK, AllStand, Stands, Places
<1>2. x \in Things
  BY <1>1, ToMoveIsWhatIsLeft
<1>3. <<n, SlotOf(attempts[n], x)>> \in Places
  BY <1>1, <1>2, SlotOfIsASlot DEF Places, Children
<1>4. /\ at' \in [Things -> Places] /\ at'[x] = <<n, SlotOf(attempts[n], x)>>
      /\ \A y \in Things \ {x} : at'[y] = at[y]
  BY <1>1, <1>2, <1>3
<1> QED BY <1>2, <1>4 DEF ServerTyped, ServerGoesOn, BreakdownTypeOK

LEMMA MoveRowStands ==
    ASSUME BreakdownTypeOK, AllStand, NEW n \in 1..MaxAttempts,
           attempts[n].state = "running", MoveRow(n)
    PROVE  /\ ServerTyped' /\ ServerGoesOn
           /\ \E b \in Attempts : /\ attempts' = [attempts EXCEPT ![n] = b]
                                  /\ Stands(n, b, at', born', sprinted')
<1>1. PICK a \in Attempts : a = attempts[n]
  BY DEF BreakdownTypeOK
<1>2. Stands(n, a, at, born, sprinted) /\ a.state = "running"
  BY <1>1 DEF AllStand
<1>3. PICK x \in ToMove(a) :
             /\ at[x] = Original
             /\ at' = [at EXCEPT ![x] = <<n, SlotOf(a, x)>>]
             /\ Advance(n, [a EXCEPT !.moved = @ \cup {x}])
  BY <1>1 DEF MoveRow
<1>4. UNCHANGED <<born, sprinted, broken>>
  BY DEF MoveRow
<1>5. /\ ServerTyped' /\ ServerGoesOn
      /\ at'[x] = <<n, SlotOf(a, x)>> /\ x \in Things
      /\ \A y \in Things \ {x} : at'[y] = at[y]
  BY <1>1, <1>2, <1>3, <1>4, RowTaken
<1> DEFINE b == [a EXCEPT !.moved = @ \cup {x}]
<1>6. /\ b \in Attempts /\ b.state = "running" /\ b.slots = a.slots /\ b.dropped = a.dropped
      /\ b.rows = a.rows /\ b.made = a.made /\ b.moved = a.moved \cup {x} /\ b.joined = a.joined
  BY <1>2, <1>5 DEF Attempts
<1>7. attempts' = [attempts EXCEPT ![n] = b]
  BY <1>3 DEF Advance
<1> HIDE DEF b
<1>8. Stands(n, b, at', born', sprinted')
  <2>1. \A y : SlotOf(b, y) = SlotOf(a, y)
    BY <1>6 DEF SlotOf
  <2>2. ASSUME NEW y \in b.moved PROVE at'[y] \in {<<n, SlotOf(b, y)>>, Gone}
    <3>1. CASE y = x
      BY <1>5, <2>1, <3>1
    <3>2. CASE y # x
      BY <1>2, <1>5, <1>6, <2>1, <2>2, <3>2 DEF Stands, Attempts
    <3> QED BY <3>1, <3>2
  <2> QED BY <1>2, <1>4, <1>6, <2>2 DEF Stands
<1> QED BY <1>5, <1>6, <1>7, <1>8

LEMMA JoinSprintStands ==
    ASSUME BreakdownTypeOK, AllStand, NEW n \in 1..MaxAttempts,
           attempts[n].state = "running", JoinSprint(n)
    PROVE  /\ ServerTyped' /\ ServerGoesOn
           /\ \E b \in Attempts : /\ attempts' = [attempts EXCEPT ![n] = b]
                                  /\ Stands(n, b, at', born', sprinted')
<1>1. PICK a \in Attempts : a = attempts[n]
  BY DEF BreakdownTypeOK
<1> DEFINE s == Min(a.slots \ a.joined)
           b == [a EXCEPT !.joined = @ \cup {s}]
<1>2. Stands(n, a, at, born, sprinted) /\ a.state = "running"
  BY <1>1 DEF AllStand
<1>3. s \in a.slots /\ s \in Slots
  <2>1. a.slots \ a.joined # {} /\ a.slots \subseteq Slots /\ a.slots \ a.joined \in SUBSET Nat
    BY <1>1, <1>2, BreakdownConstants DEF JoinSprint, Stands, Attempts
  <2> QED BY <2>1, LeastTaken
<1>4. sprinted' = sprinted \cup {<<n, s>>} /\ attempts' = [attempts EXCEPT ![n] = b]
  BY <1>1 DEF JoinSprint, Advance
<1>5. UNCHANGED <<at, born, broken>> /\ sprinted # {}
  BY DEF JoinSprint
<1> HIDE DEF s
<1>6. /\ b \in Attempts /\ b.state = "running" /\ b.slots = a.slots /\ b.dropped = a.dropped
      /\ b.rows = a.rows /\ b.made = a.made /\ b.moved = a.moved /\ b.joined = a.joined \cup {s}
  BY <1>2, <1>3 DEF Attempts
<1> HIDE DEF b
<1>7. Stands(n, b, at', born', sprinted')
  <2>1. \A x : SlotOf(b, x) = SlotOf(a, x)
    BY <1>6 DEF SlotOf
  <2> QED BY <1>2, <1>3, <1>4, <1>5, <1>6, <2>1 DEF Stands
<1>8. ServerTyped'
  <2>1. <<n, s>> \in Children
    BY <1>3 DEF Children
  <2> QED BY <1>4, <1>5, <2>1 DEF BreakdownTypeOK, ServerTyped, Places
<1>9. ServerGoesOn
  BY <1>4, <1>5 DEF ServerGoesOn
<1> QED BY <1>4, <1>6, <1>7, <1>8, <1>9

LEMMA DecomposeStands ==
    ASSUME BreakdownTypeOK, AllStand, NEW n \in 1..MaxAttempts,
           attempts[n].state = "running", Decompose(n)
    PROVE  /\ ServerTyped' /\ ServerGoesOn
           /\ \E b \in Attempts : /\ attempts' = [Detach EXCEPT ![n] = b]
                                  /\ Stands(n, b, at', born', sprinted')
<1>1. PICK a \in Attempts : a = attempts[n]
  BY DEF BreakdownTypeOK
<1> DEFINE b == [a EXCEPT !.state = "done", !.attached = FALSE]
<1>2. Stands(n, a, at, born, sprinted) /\ a.state = "running"
  BY <1>1 DEF AllStand
<1>3. /\ a.slots = a.made /\ ToMove(a) = {} /\ (sprinted # {} => a.joined = a.slots)
      /\ broken' = TRUE /\ UNCHANGED <<at, born, sprinted>>
      /\ attempts' = [Detach EXCEPT ![n] = b]
  BY <1>1 DEF Decompose
<1>4. /\ b \in Attempts /\ b.state = "done" /\ b.slots = a.slots /\ b.dropped = a.dropped
      /\ b.rows = a.rows /\ b.made = a.made /\ b.moved = a.moved /\ b.joined = a.joined
  BY DEF Attempts
<1> HIDE DEF b
<1>5. Stands(n, b, at', born', sprinted')
  <2>1. \A x : SlotOf(b, x) = SlotOf(a, x)
    BY <1>4 DEF SlotOf
  <2>2. ToMove(b) = ToMove(a)
    BY <1>4 DEF ToMove, Dropped, Rest
  <2> QED BY <1>2, <1>3, <1>4, <2>1, <2>2 DEF Stands
<1>6. ServerTyped' /\ ServerGoesOn
  BY <1>3 DEF BreakdownTypeOK, ServerTyped, ServerGoesOn, Places
<1> QED BY <1>3, <1>4, <1>5, <1>6

\* An attempt that stops forgets what it did; the server does not.
LEMMA StopStands ==
    ASSUME NEW n \in 1..MaxAttempts, Stop(n)
    PROVE  \E b \in Attempts : /\ attempts' = [attempts EXCEPT ![n] = b]
                               /\ Stands(n, b, at', born', sprinted')
<1> DEFINE b == [Idle EXCEPT !.state = "failed"]
<1>1. b \in Attempts /\ b.state = "failed" /\ b.made = {} /\ b.joined = {} /\ b.slots = {}
  <2>1. Idle \in Attempts /\ Idle.made = {} /\ Idle.joined = {} /\ Idle.slots = {}
    BY NewTyped DEF Idle
  <2> QED BY <2>1 DEF Attempts
<1>2. attempts' = [attempts EXCEPT ![n] = b]
  BY DEF Stop
<1> HIDE DEF b
<1>3. Stands(n, b, at', born', sprinted')
  BY <1>1 DEF Stands
<1> QED BY <1>1, <1>2, <1>3

LEMMA RequestFailsStands ==
    ASSUME BreakdownTypeOK, AllStand, NEW n \in 1..MaxAttempts, RequestFails(n)
    PROVE  ServerTyped' /\ ServerGoesOn
<1>1. PICK a \in Attempts : a = attempts[n]
  BY DEF BreakdownTypeOK
<1>2. a.state = "running" /\ Stands(n, a, at, born, sprinted)
  BY <1>1 DEF RequestFails, AllStand
<1>3. /\ a.slots # a.made => Min(a.slots \ a.made) \in Slots
      /\ a.slots # a.joined => Min(a.slots \ a.joined) \in Slots
  <2>1. ASSUME NEW S \in SUBSET a.slots, a.slots # S PROVE Min(a.slots \ S) \in Slots
    <3>1. a.slots \ S # {} /\ a.slots \subseteq Slots /\ a.slots \ S \in SUBSET Nat
      BY <1>1, <2>1, BreakdownConstants DEF Attempts
    <3> QED BY <3>1, LeastTaken
  <2>2. a.made \in SUBSET a.slots /\ a.joined \in SUBSET a.slots
    BY <1>1, <1>2 DEF Stands
  <2> QED BY <2>1, <2>2
<1>4. CASE UNCHANGED Server
  BY <1>4 DEF Server, BreakdownTypeOK, ServerTyped, ServerGoesOn, Places
<1>5. ASSUME NEW s \in Slots, born' = born \cup {<<n, s>>}, UNCHANGED <<at, sprinted, broken>>
      PROVE  ServerTyped' /\ ServerGoesOn
  <2>1. <<n, s>> \in Children
    BY DEF Children
  <2> QED BY <1>5, <2>1 DEF BreakdownTypeOK, ServerTyped, ServerGoesOn, Places
<1>6. ASSUME NEW x \in ToMove(a), at[x] = Original,
             at' = [at EXCEPT ![x] = <<n, SlotOf(a, x)>>],
             UNCHANGED <<born, sprinted, broken>>
      PROVE  ServerTyped' /\ ServerGoesOn
  BY <1>1, <1>2, <1>6, RowTaken
<1>7. ASSUME NEW s \in Slots, sprinted # {}, sprinted' = sprinted \cup {<<n, s>>},
             UNCHANGED <<at, born, broken>>
      PROVE  ServerTyped' /\ ServerGoesOn
  <2>1. <<n, s>> \in Children
    BY DEF Children
  <2> QED BY <1>7, <2>1 DEF BreakdownTypeOK, ServerTyped, ServerGoesOn, Places
<1>8. CASE broken' = TRUE /\ UNCHANGED <<at, born, sprinted>>
  BY <1>8 DEF BreakdownTypeOK, ServerTyped, ServerGoesOn, Places
<1> QED BY <1>1, <1>3, <1>4, <1>5, <1>6, <1>7, <1>8 DEF RequestFails

LEMMA OthersStand ==
    ASSUME BreakdownTypeOK, NEW x \in Things, OthersAdd(x) \/ OthersDelete(x)
    PROVE  ServerTyped' /\ ServerGoesOn /\ UNCHANGED <<dialog, listed, attempts, Bounds>>
<1>1. at \in [Things -> Places] /\ {Original, Gone} \subseteq Places
  BY DEF BreakdownTypeOK, Places
<1>2. at' \in [Things -> Places] /\ \A y \in Things \ {x} : at'[y] = at[y]
  BY <1>1 DEF OthersAdd, OthersDelete
<1>3. at[x] \notin {Original, Absent} => at'[x] = Gone
  BY <1>1 DEF OthersAdd, OthersDelete
<1> QED BY <1>2, <1>3 DEF OthersAdd, OthersDelete, BreakdownTypeOK, ServerTyped, ServerGoesOn

-----------------------------------------------------------------------------
LEMMA BreakdownInitStands == BreakdownInit => BreakdownTypeOK /\ AllStand
<1> SUFFICES ASSUME BreakdownInit PROVE BreakdownTypeOK /\ AllStand
  OBVIOUS
<1>1. \A n \in 1..MaxAttempts : attempts[n] = Idle
  BY DEF BreakdownInit
<1>2. AllStand
  <2>1. Idle.made = {} /\ Idle.joined = {} /\ Idle.slots = {} /\ Idle.state = "none"
    BY DEF Idle
  <2> QED BY <1>1, <2>1 DEF AllStand, Stands
<1>3. /\ dialog \in Dialogs
      /\ attempts \in [1..MaxAttempts -> Attempts]
      /\ at \in [Things -> Places]
      /\ listed \subseteq Things
  BY NewTyped DEF BreakdownInit, Places, Things, AllTasks
<1>4. sprinted \subseteq Children \cup {Original} /\ born = {} /\ broken = FALSE
  BY DEF BreakdownInit
<1>5. edits \in 0..MaxEdits /\ faults \in 0..MaxFaults
  BY BreakdownConstants DEF BreakdownInit
<1> QED BY <1>2, <1>3, <1>4, <1>5 DEF BreakdownTypeOK, Dialogs, Places

LEMMA BreakdownNextStands ==
    BreakdownTypeOK /\ AllStand /\ [BreakdownNext]_breakVars => BreakdownTypeOK' /\ AllStand'
<1> SUFFICES ASSUME BreakdownTypeOK, AllStand, [BreakdownNext]_breakVars
             PROVE  BreakdownTypeOK' /\ AllStand'
  OBVIOUS
<1>a. ServerTyped /\ Counts /\ dialog \in Dialogs /\ listed \subseteq Things
  BY DEF BreakdownTypeOK, ServerTyped, Counts, Dialogs, Places
<1>b. ASSUME UNCHANGED Server PROVE ServerTyped' /\ ServerGoesOn
  BY <1>a, <1>b DEF Server, ServerTyped, ServerGoesOn
<1>c. ASSUME dialog' \in Dialogs, listed' \subseteq Things, Counts', ServerTyped', ServerGoesOn,
             \/ attempts' \in {attempts, Detach}
             \/ \E n \in 1..MaxAttempts, f \in {attempts, Detach}, b \in Attempts :
                   attempts' = [f EXCEPT ![n] = b] /\ Stands(n, b, at', born', sprinted')
      PROVE  BreakdownTypeOK' /\ AllStand'
  <2>1. attempts' \in [1..MaxAttempts -> Attempts] /\ AllStand'
    BY <1>c, OneAttemptChanges, NoAttemptChanges
  <2> QED BY <1>c, <2>1 DEF BreakdownTypeOK, ServerTyped, Counts, Dialogs, Places
<1>d. UNCHANGED Bounds => Counts'
  BY <1>a DEF Bounds, Counts
<1>1. CASE OpenBreakdown
  BY <1>1, <1>a, <1>b, <1>c, <1>d, NewTyped DEF OpenBreakdown
<1>2. CASE CloseBreakdown
  BY <1>2, <1>a, <1>b, <1>c, <1>d, NewTyped DEF CloseBreakdown
<1>3. CASE \/ addSlot \/ updateSlotTitle
           \/ \E s \in Slots : removeSlot(s)
           \/ \E x \in Things, s \in Slots \cup {NoSlot} : handleDrop(x, s)
  BY <1>3, <1>a, <1>b, <1>c, EditsTyped
<1>4. CASE execute
  <2>1. PICK n \in 1..MaxAttempts :
               attempts' = [attempts EXCEPT ![n] = [Idle EXCEPT !.state = "running",
                               !.slots = dialog.slots, !.dropped = dialog.dropped,
                               !.rows = listed, !.attached = TRUE]]
    BY <1>4 DEF execute
  <2> DEFINE b == [Idle EXCEPT !.state = "running", !.slots = dialog.slots,
                       !.dropped = dialog.dropped, !.rows = listed, !.attached = TRUE]
  <2>2. /\ dialog.slots \in SUBSET Slots /\ dialog.dropped \in [Things -> Slots \cup {NoSlot}]
        /\ dialog.slots # {}
    <3>1. ~(Cardinality({}) >= 2)
      BY FS_EmptySet
    <3> QED BY <1>4, <1>a, <3>1 DEF execute, canExecute, Dialogs
  <2>3. /\ b \in Attempts /\ b.state = "running" /\ b.slots = dialog.slots /\ b.made = {}
        /\ b.moved = {} /\ b.joined = {}
    BY <1>a, <2>2 DEF Attempts, Idle
  <2>4. attempts' = [attempts EXCEPT ![n] = b]
    BY <2>1
  <2> HIDE DEF b
  <2>5. Stands(n, b, at', born', sprinted')
    BY <2>2, <2>3 DEF Stands
  <2>6. UNCHANGED <<dialog, listed, Server, Bounds>>
    BY <1>4 DEF execute
  <2> QED BY <1>a, <1>b, <1>c, <1>d, <2>3, <2>4, <2>5, <2>6
<1>5. CASE Relist
  BY <1>5, <1>a, <1>b, <1>c, <1>d DEF Relist
<1>6. ASSUME NEW n \in 1..MaxAttempts, Request(n) PROVE BreakdownTypeOK' /\ AllStand'
  <2>1. /\ ServerTyped' /\ ServerGoesOn
        /\ \E f \in {attempts, Detach}, b \in Attempts :
              attempts' = [f EXCEPT ![n] = b] /\ Stands(n, b, at', born', sprinted')
    BY <1>6, CreateChildStands, MoveRowStands, JoinSprintStands, DecomposeStands DEF Request
  <2>2. dialog' \in {dialog, NoDialog} /\ UNCHANGED <<listed, Bounds>>
    BY <1>6 DEF Request, CreateChild, MoveRow, JoinSprint, Decompose
  <2> QED BY <1>a, <1>c, <1>d, <2>1, <2>2, NewTyped
<1>7. ASSUME NEW n \in 1..MaxAttempts, RequestRefused(n) PROVE BreakdownTypeOK' /\ AllStand'
  <2>1. Stop(n) /\ UNCHANGED <<dialog, listed, Server, Bounds>>
    BY <1>7 DEF RequestRefused
  <2> QED BY <1>a, <1>b, <1>c, <1>d, <2>1, StopStands
<1>8. ASSUME NEW n \in 1..MaxAttempts, RequestFails(n) PROVE BreakdownTypeOK' /\ AllStand'
  <2>1. Stop(n) /\ UNCHANGED <<dialog, listed>> /\ Counts'
    BY <1>8, <1>a, BreakdownConstants DEF RequestFails, Counts
  <2> QED BY <1>8, <1>a, <1>c, <2>1, StopStands, RequestFailsStands
<1>9. ASSUME NEW x \in Things, OthersAdd(x) \/ OthersDelete(x)
      PROVE  BreakdownTypeOK' /\ AllStand'
  BY <1>9, <1>a, <1>c, <1>d, OthersStand
<1>10. CASE UNCHANGED breakVars
  BY <1>10, <1>a, <1>b, <1>c, <1>d DEF breakVars, Server, Bounds
<1> QED BY <1>1, <1>2, <1>3, <1>4, <1>5, <1>6, <1>7, <1>8, <1>9, <1>10 DEF BreakdownNext

\* The dialog, its attempts and what they did keep to their sets.
THEOREM BreakdownTyped == BreakdownSpec => []BreakdownTypeOK
BY BreakdownInitStands, BreakdownNextStands, PTL DEF BreakdownSpec

\* An attempt that got to the end left every row where its user put it, for
\* any rows, slots and attempts, faults and others' changes in between.
THEOREM BreakdownsAreWhole == BreakdownSpec => []CompletedBreakdownIsWhole
<1>1. BreakdownTypeOK /\ AllStand => CompletedBreakdownIsWhole
  <2> SUFFICES ASSUME BreakdownTypeOK, AllStand, NEW n \in 1..MaxAttempts,
                      attempts[n].state = "done"
               PROVE  LET a == attempts[n]
                      IN  /\ \A s \in a.slots : <<n, s>> \in born
                          /\ \A x \in a.rows \cup {y \in Things : a.dropped[y] # NoSlot} :
                                at[x] \in {<<n, SlotOf(a, x)>>, Gone}
                          /\ sprinted # {} => \A s \in a.slots : <<n, s>> \in sprinted
    BY DEF CompletedBreakdownIsWhole
  <2>1. attempts[n] \in Attempts /\ Stands(n, attempts[n], at, born, sprinted)
    BY DEF BreakdownTypeOK, AllStand
  <2>2. attempts[n].rows \cup {y \in Things : attempts[n].dropped[y] # NoSlot}
            \subseteq attempts[n].moved
    BY <2>1, ToMoveIsWhatIsLeft DEF Stands
  <2> QED BY <2>1, <2>2 DEF Stands
<1> QED BY <1>1, BreakdownInitStands, BreakdownNextStands, PTL DEF BreakdownSpec

------------------------------------------------------------------------------
(* Sprint membership: the requests of a page *)

Asks  == [id : 1..MaxGestures, from : SomeSprint, to : SomeSprint, next : {"remove", "add", "answer"}]
Drops == [id : 1..MaxGestures, to : ItemStatuses]
Closings == [of : Sprints, to : SomeSprint, here : BOOLEAN]

------------------------------------------------------------------------------
(* Types *)

\* The next request of a change belongs to the same change.
LEMMA AskMovesOn ==
  ASSUME NEW a \in Asks, NEW step \in {"remove", "add", "answer"}
  PROVE  /\ [a EXCEPT !.next = step] \in Asks
         /\ [a EXCEPT !.next = step].next = step
         /\ [a EXCEPT !.next = step].to = a.to
         /\ [a EXCEPT !.next = step].from = a.from
  BY Zenon DEF Asks

LEMMA ForgottenTyped ==
  ASSUME NEW cs \in SUBSET Closings
  PROVE  Forgotten(cs) \in SUBSET Closings
<1>1. \A c \in Closings : [c EXCEPT !.here = FALSE] \in Closings
  BY Zenon DEF Closings
<1> QED
  BY <1>1 DEF Forgotten

\* The type, with the sets of requests given their names.
SprintsHold ==
    /\ members \subseteq Sprints
    /\ itemStatus \in ItemStatuses /\ shownStatus \in ItemStatuses
    /\ sprintStatus \in [Sprints -> {"active", "completed"}]
    /\ shownSprint \in SomeSprint /\ wanted \in SomeSprint
    /\ asked \in SUBSET Asks
    /\ \A a \in asked : a.next = "add" => a.to # NoSprint
    /\ dropped \in SUBSET Drops
    /\ closeModal \in [of : SomeSprint, to : SomeSprint]
    /\ closeModal # NoModal => closeModal.of \in Sprints
    /\ closings \in SUBSET Closings
    /\ gesturesMade \in 0..MaxGestures
    /\ disturbed \in BOOLEAN

LEMMA SprintsInitHold == SprintPagesInit => SprintsHold
<1>1. NoModal \in [of : SomeSprint, to : SomeSprint]
  BY DEF NoModal, SomeSprint
<1> SUFFICES ASSUME SprintPagesInit PROVE SprintsHold
  OBVIOUS
<1>2. members \subseteq Sprints /\ sprintStatus \in [Sprints -> {"active", "completed"}]
  BY DEF SprintPagesInit
<1>3. asked \in SUBSET Asks /\ dropped \in SUBSET Drops /\ closings \in SUBSET Closings
  BY DEF SprintPagesInit
<1>4. gesturesMade \in 0..MaxGestures
  BY SprintPagesAssumption DEF SprintPagesInit
<1> QED
  BY <1>1, <1>2, <1>3, <1>4 DEF SprintPagesInit, SprintsHold

LEMMA SprintsNextHold == SprintsHold /\ [SprintPagesNext]_sprintVars => SprintsHold'
<1> SUFFICES ASSUME SprintsHold, [SprintPagesNext]_sprintVars PROVE SprintsHold'
  OBVIOUS
<1>0. Sprints \subseteq SomeSprint /\ NoSprint \in SomeSprint
  BY DEF SomeSprint
<1>g. Gesture => gesturesMade' \in 0..MaxGestures /\ gesturesMade + 1 \in 1..MaxGestures
  BY SprintPagesAssumption DEF Gesture, SprintsHold
<1>1. ASSUME NEW s \in SomeSprint, handlePick(s) PROVE SprintsHold'
  <2> DEFINE one == [id |-> gesturesMade + 1, from |-> shownSprint, to |-> s,
                     next |-> FirstOf(shownSprint)]
  <2>1. one \in Asks
    BY <1>1, <1>g DEF handlePick, FirstOf, Asks, SprintsHold
  <2>2. asked' = asked \cup {one}
    BY <1>1 DEF handlePick
  <2>5. one.next = "add" => one.to # NoSprint
    BY <1>1 DEF handlePick, FirstOf
  <2> HIDE DEF one
  <2>3. disturbed' \in BOOLEAN
    BY <1>1 DEF handlePick
  <2>4. asked' \in SUBSET Asks /\ \A a \in asked' : a.next = "add" => a.to # NoSprint
    BY <1>1, <2>1, <2>2, <2>5 DEF handlePick, SprintsHold
  <2> QED
    BY <1>1, <1>g, <2>3, <2>4 DEF handlePick, SprintsHold
<1>2. ASSUME NEW s \in Sprints, handleAdd(s) PROVE SprintsHold'
  <2> DEFINE one == [id |-> gesturesMade + 1, from |-> NoSprint, to |-> s, next |-> "add"]
  <2>1. one \in Asks
    BY <1>0, <1>2, <1>g DEF handleAdd, Asks
  <2>2. asked' = asked \cup {one}
    BY <1>2 DEF handleAdd
  <2>5. one.to # NoSprint
    BY SprintPagesAssumption
  <2> HIDE DEF one
  <2>3. disturbed' \in BOOLEAN
    BY <1>2 DEF handleAdd
  <2>4. asked' \in SUBSET Asks /\ \A a \in asked' : a.next = "add" => a.to # NoSprint
    BY <2>1, <2>2, <2>5 DEF SprintsHold
  <2> QED
    BY <1>0, <1>2, <1>g, <2>3, <2>4 DEF handleAdd, SprintsHold
<1>3. ASSUME AskStep PROVE SprintsHold'
  <2>0. UNCHANGED <<sprintStatus, shownSprint, shownStatus, dropped, closeModal, closings,
                    gesturesMade, wanted>>
    BY <1>3 DEF AskStep
  <2>1. ASSUME NEW a \in asked, NEW step \in {"remove", "add", "answer"}, Then(a, step),
               step = "add" => a.to # NoSprint
        PROVE  asked' \in SUBSET Asks /\ \A b \in asked' : b.next = "add" => b.to # NoSprint
    <3> DEFINE one == [a EXCEPT !.next = step]
    <3>1. one \in Asks /\ one.next = step /\ one.to = a.to
      <4>1. a \in Asks
        BY DEF SprintsHold
      <4> QED
        BY <4>1, AskMovesOn
    <3>2. asked' = (asked \ {a}) \cup {one}
      BY <2>1 DEF Then
    <3> HIDE DEF one
    <3> QED
      BY <2>1, <3>1, <3>2 DEF SprintsHold
  <2>2. ASSUME NEW a \in asked, TakeOff(a) PROVE SprintsHold'
    <3>1. asked' \in SUBSET Asks /\ \A b \in asked' : b.next = "add" => b.to # NoSprint
      BY <2>1, <2>2 DEF TakeOff
    <3> QED
      BY <2>0, <2>2, <3>1 DEF TakeOff, SprintsHold
  <2>3. ASSUME NEW a \in asked, ThenAdd(a) PROVE SprintsHold'
    <3>1. asked' \in SUBSET Asks /\ \A b \in asked' : b.next = "add" => b.to # NoSprint
      BY <2>1, <2>3 DEF ThenAdd
    <3>2. a.to \in Sprints
      BY <2>3 DEF ThenAdd, SprintsHold, Asks, SomeSprint
    <3>3. itemStatus' \in ItemStatuses
      BY <2>3 DEF ThenAdd, SprintsHold, ItemStatuses
    <3>4. members' \subseteq Sprints
      BY <2>3, <3>2 DEF ThenAdd, SprintsHold
    <3> QED
      BY <2>0, <2>3, <3>1, <3>3, <3>4 DEF ThenAdd, SprintsHold
  <2>4. ASSUME NEW a \in asked, AskStops(a) PROVE SprintsHold'
    BY <2>0, <2>4 DEF AskStops, SprintsHold
  <2> QED
    BY <1>3, <2>2, <2>3, <2>4 DEF AskStep
<1>4. ASSUME NEW a \in asked, AskAnswered(a) PROVE SprintsHold'
  BY <1>0, <1>4 DEF AskAnswered, SprintsHold
<1>5. CASE ReadItem
  BY <1>0, <1>5 DEF ReadItem, SprintsHold
<1>6. ASSUME NEW i \in 1..4, handleDragEnd(BOARD_COLUMNS[i]) PROVE SprintsHold'
  <2>1. BOARD_COLUMNS[i] \in ItemStatuses
    BY DEF BOARD_COLUMNS, ItemStatuses, ACTIVE_COLS
  <2>2. [id |-> gesturesMade + 1, to |-> BOARD_COLUMNS[i]] \in Drops
    BY <1>6, <1>g, <2>1 DEF handleDragEnd, Drops
  <2> QED
    BY <1>6, <1>g, <2>2 DEF handleDragEnd, SprintsHold
<1>7. ASSUME NEW d \in dropped, DropServed(d) PROVE SprintsHold'
  <2>1. d.to \in ItemStatuses
    BY DEF SprintsHold, Drops
  <2> QED
    BY <1>7, <2>1 DEF DropServed, SprintsHold
<1>8. CASE SetBack
  BY <1>8, <1>g DEF SetBack, SprintsHold, ItemStatuses
<1>9. ASSUME NEW s \in Sprints, NEW t \in SomeSprint, openCloseModal(s, t) PROVE SprintsHold'
  BY <1>0, <1>9, <1>g DEF openCloseModal, SprintsHold
<1>10. CASE cancelClose
  <2>1. NoModal \in [of : SomeSprint, to : SomeSprint]
    BY DEF NoModal, SomeSprint
  <2>2. closings' \in SUBSET Closings
    BY <1>10, ForgottenTyped DEF cancelClose, SprintsHold
  <2> QED
    BY <1>10, <2>1, <2>2 DEF cancelClose, SprintsHold
<1>11. CASE handleClose
  <2> DEFINE one == [of |-> closeModal.of, to |-> closeModal.to, here |-> TRUE]
  <2>1. one \in Closings
    BY <1>11 DEF handleClose, SprintsHold, Closings
  <2>2. closings' = closings \cup {one}
    BY <1>11 DEF handleClose
  <2> HIDE DEF one
  <2> QED
    BY <1>11, <2>1, <2>2 DEF handleClose, SprintsHold
<1>12. ASSUME NEW c \in closings, CloseServed(c) PROVE SprintsHold'
  <2>1. c.of \in Sprints /\ (c.to # NoSprint => c.to \in Sprints)
    BY DEF SprintsHold, Closings, SomeSprint
  <2>2. members' \subseteq Sprints
    BY <1>12, <2>1 DEF CloseServed, SprintsHold
  <2>3. disturbed' \in BOOLEAN
    BY <1>12 DEF CloseServed
  <2>4. sprintStatus' \in [Sprints -> {"active", "completed"}]
    BY <1>12, <2>1 DEF CloseServed, SprintsHold
  <2>5. closeModal' \in [of : SomeSprint, to : SomeSprint]
        /\ (closeModal' # NoModal => closeModal'.of \in Sprints)
    BY <1>12 DEF CloseServed, SprintsHold, NoModal, SomeSprint
  <2> QED
    BY <1>12, <2>2, <2>3, <2>4, <2>5 DEF CloseServed, SprintsHold
<1>13. ASSUME NEW c \in closings, CloseFails(c) PROVE SprintsHold'
  BY <1>13 DEF CloseFails, SprintsHold
<1>14. CASE UNCHANGED sprintVars
  BY <1>14 DEF sprintVars, SprintsHold
<1> QED
  BY <1>1, <1>2, <1>3, <1>4, <1>5, <1>6, <1>7, <1>8, <1>9, <1>10, <1>11, <1>12, <1>13, <1>14
  DEF SprintPagesNext

LEMMA SprintsHoldAlways == SprintPagesSpec => []SprintsHold
  BY SprintsInitHold, SprintsNextHold, PTL DEF SprintPagesSpec

\* Every reachable state of the sprint pages has its type.
THEOREM SprintPagesTyped == SprintPagesSpec => []SprintPagesTypeOK
<1>1. SprintsHold => SprintPagesTypeOK
  BY DEF SprintsHold, SprintPagesTypeOK, Asks, Drops, Closings
<1> QED
  BY <1>1, SprintsHoldAlways, PTL

------------------------------------------------------------------------------
(* A pick is carried through *)

\* While nothing disturbs it there is one change at most, and the server is
\* as far with it as the request that comes next says.
Underway(a) ==
    /\ a.to = wanted
    /\ a.next = "remove" => a.from \in Sprints /\ members = {a.from}
    /\ a.next = "add"    => members = {} /\ wanted \in Sprints
    /\ a.next = "answer" => members = {wanted} \cap Sprints

CarriedThrough ==
    ~disturbed =>
        /\ \A a, b \in asked : a = b
        /\ \A a \in asked : Underway(a)
        /\ asked = {} => members = {wanted} \cap Sprints

LEMMA CarriedStep == SprintsHold /\ CarriedThrough /\ [SprintPagesNext]_sprintVars => CarriedThrough'
<1> SUFFICES ASSUME SprintsHold, CarriedThrough, [SprintPagesNext]_sprintVars, ~disturbed'
             PROVE  CarriedThrough'
  BY DEF CarriedThrough
<1>0. asked \subseteq Asks /\ shownSprint \in SomeSprint /\ NoSprint \notin Sprints
  BY SprintPagesAssumption DEF SprintsHold
\* A change that begins is the only one.
<1>1. ASSUME NEW one, asked' = {one}, Underway(one)' PROVE CarriedThrough'
  BY <1>1 DEF CarriedThrough
\* Nothing the invariant speaks of changes.
<1>2. ASSUME UNCHANGED <<members, asked, wanted, disturbed>> PROVE CarriedThrough'
  BY <1>2 DEF CarriedThrough, Underway
<1>3. ASSUME NEW s \in SomeSprint, handlePick(s) PROVE CarriedThrough'
  <2> DEFINE one == [id |-> gesturesMade + 1, from |-> shownSprint, to |-> s,
                     next |-> FirstOf(shownSprint)]
  <2>1. asked = {} /\ UpToDate /\ s # shownSprint /\ wanted' = s /\ members' = members
    BY <1>3 DEF handlePick
  <2>2. asked' = {one}
    BY <1>3, <2>1 DEF handlePick
  <2>3. one.to = s /\ one.from = shownSprint /\ one.next = FirstOf(shownSprint)
    OBVIOUS
  <2> HIDE DEF one
  <2>4. CASE shownSprint = NoSprint
    <3>1. s \in Sprints /\ members = {} /\ one.next = "add"
      BY <1>0, <2>1, <2>3, <2>4 DEF UpToDate, SomeSprint, FirstOf
    <3> QED
      BY <1>1, <2>1, <2>2, <2>3, <3>1 DEF Underway
  <2>5. CASE shownSprint # NoSprint
    <3>1. shownSprint \in Sprints /\ members = {shownSprint} /\ one.next = "remove"
      BY <1>0, <2>1, <2>3, <2>5 DEF UpToDate, SomeSprint, FirstOf
    <3> QED
      BY <1>1, <2>1, <2>2, <2>3, <3>1 DEF Underway
  <2> QED
    BY <2>4, <2>5
<1>4. ASSUME NEW s \in Sprints, handleAdd(s) PROVE CarriedThrough'
  <2> DEFINE one == [id |-> gesturesMade + 1, from |-> NoSprint, to |-> s, next |-> "add"]
  <2>1. asked = {} /\ members = {} /\ wanted' = s /\ members' = members
    BY <1>0, <1>4 DEF handleAdd, UpToDate
  <2>2. asked' = {one}
    BY <1>4, <2>1 DEF handleAdd
  <2>3. one.to = s /\ one.next = "add"
    OBVIOUS
  <2> HIDE DEF one
  <2> QED
    BY <1>1, <2>1, <2>2, <2>3 DEF Underway
<1>5. ASSUME AskStep PROVE CarriedThrough'
  <2>0. wanted' = wanted
    BY <1>5 DEF AskStep
  <2>1. ASSUME NEW a \in asked, ~disturbed, NEW step \in {"remove", "add", "answer"}, Then(a, step)
        PROVE  asked' = {[a EXCEPT !.next = step]}
    <3>1. asked = {a}
      BY <2>1 DEF CarriedThrough
    <3> QED
      BY <2>1, <3>1 DEF Then
  <2>2. ASSUME NEW a \in asked, TakeOff(a) PROVE CarriedThrough'
    <3> DEFINE step == IF a.to = NoSprint THEN "answer" ELSE "add"
               one == [a EXCEPT !.next = step]
    <3>1. /\ a.to = wanted /\ members = {a.from} /\ members' = {}
          /\ ~disturbed /\ a \in Asks
      BY <1>0, <2>2 DEF TakeOff, CarriedThrough, Underway
    <3>2. asked' = {one} /\ step \in {"remove", "add", "answer"}
      BY <2>1, <2>2, <3>1 DEF TakeOff
    <3> HIDE DEF step
    <3>3. one.next = step /\ one.to = a.to
      BY <3>1, <3>2, AskMovesOn
    <3> HIDE DEF one
    <3>4. a.to # NoSprint => wanted \in Sprints
      BY <3>1 DEF Asks, SomeSprint
    <3> QED
      BY <1>0, <1>1, <2>0, <3>1, <3>2, <3>3, <3>4 DEF Underway, step
  <2>3. ASSUME NEW a \in asked, ThenAdd(a) PROVE CarriedThrough'
    <3> DEFINE one == [a EXCEPT !.next = "answer"]
    <3>1. /\ a.to = wanted /\ wanted \in Sprints /\ members' = {wanted}
          /\ ~disturbed /\ a \in Asks
      BY <1>0, <2>3 DEF ThenAdd, CarriedThrough, Underway
    <3>2. asked' = {one}
      BY <2>1, <2>3, <3>1 DEF ThenAdd
    <3>3. one.next = "answer" /\ one.to = a.to
      BY <3>1, AskMovesOn
    <3> HIDE DEF one
    <3> QED
      BY <1>1, <2>0, <3>1, <3>2, <3>3 DEF Underway
  <2>4. ASSUME NEW a \in asked, AskStops(a) PROVE CarriedThrough'
    BY <2>4 DEF AskStops
  <2> QED
    BY <1>5, <2>2, <2>3, <2>4 DEF AskStep
<1>6. ASSUME NEW a \in asked, AskAnswered(a) PROVE CarriedThrough'
  <2>1. /\ a.next = "answer" /\ asked' = asked \ {a} /\ ~disturbed
        /\ UNCHANGED <<members, wanted>>
    BY <1>6 DEF AskAnswered
  <2>2. asked = {a} /\ members = {wanted} \cap Sprints
    BY <2>1 DEF CarriedThrough, Underway
  <2>3. asked' = {} /\ members' = {wanted'} \cap Sprints
    BY <2>1, <2>2
  <2> QED
    BY <2>3 DEF CarriedThrough
<1>7. CASE SetBack
  BY <1>7 DEF SetBack
<1>8. ASSUME NEW c \in closings, CloseServed(c) PROVE CarriedThrough'
  BY <1>2, <1>8 DEF CloseServed, SprintsHold
<1>9. ReadItem => UNCHANGED <<members, asked, wanted, disturbed>>
  BY DEF ReadItem
<1>10. \A col : handleDragEnd(col) => UNCHANGED <<members, asked, wanted, disturbed>>
  BY DEF handleDragEnd
<1>11. \A d : DropServed(d) => UNCHANGED <<members, asked, wanted, disturbed>>
  BY DEF DropServed
<1>12. \A s, t : openCloseModal(s, t) => UNCHANGED <<members, asked, wanted, disturbed>>
  BY DEF openCloseModal
<1>13. cancelClose \/ handleClose => UNCHANGED <<members, asked, wanted, disturbed>>
  BY DEF cancelClose, handleClose
<1>14. \A c : CloseFails(c) => UNCHANGED <<members, asked, wanted, disturbed>>
  BY DEF CloseFails
<1>15. UNCHANGED sprintVars => UNCHANGED <<members, asked, wanted, disturbed>>
  BY DEF sprintVars
<1> QED
  BY <1>2, <1>3, <1>4, <1>5, <1>6, <1>7, <1>8, <1>9, <1>10, <1>11, <1>12, <1>13, <1>14, <1>15
  DEF SprintPagesNext

\* The two requests of a pick leave the item in neither none nor two sprints,
\* unless picks overlapped, were made on an old page, or were cut short.
THEOREM PicksMoveWhole == SprintPagesSpec => []PickMovesWhole
<1>1. SprintPagesInit => CarriedThrough
  BY DEF SprintPagesInit, CarriedThrough
<1>2. CarriedThrough => PickMovesWhole
  BY DEF CarriedThrough, PickMovesWhole
<1> QED
  BY <1>1, <1>2, CarriedStep, SprintsHoldAlways, PTL DEF SprintPagesSpec
=============================================================================
