---------------------------- MODULE Forms_proofs ----------------------------
(***************************************************************************)
(* Proofs about CreateForms, RowActions and RetroVoting, for any number of  *)
(* fillings, requests and votes: what was filled in once becomes one row at *)
(* most, unless a gesture does not wait or an answer was lost, and a        *)
(* request acts on the row the user was asked about.                        *)
(***************************************************************************)
EXTENDS CreateForms, RowActions, RetroVoting, FiniteSetTheorems, TLAPS

------------------------------------------------------------------------------
(* Creation forms: what a POST is *)

Posts == [id : 1..MaxPosts, text : Fillings, guards : BOOLEAN, served : BOOLEAN]

------------------------------------------------------------------------------
(* The forms *)

\* A panel takes its text with it.
FormKnown(f) == f.closes \in {"sending", "answer"} /\ (f.lives = "panel" => f.cancel # "keeps")

LEMMA FormsKnown == \A f \in Forms : FormKnown(f)
<1>1. FormKnown(CreateItemPanel)
  BY DEF FormKnown, CreateItemPanel
<1>2. FormKnown(CreateSprintModal)
  BY DEF FormKnown, CreateSprintModal, CreateItemPanel
<1>3. FormKnown(AddProjectTeam)
  BY DEF FormKnown, AddProjectTeam, CreateSprintModal, CreateItemPanel
<1>4. FormKnown(AddMember)
  BY DEF FormKnown, AddMember, AddProjectTeam, CreateSprintModal, CreateItemPanel
<1>5. FormKnown(CreateTeam)
  BY DEF FormKnown, CreateTeam, CreateItemPanel
<1>6. FormKnown(AddCardForm)
  BY DEF FormKnown, AddCardForm, CreateTeam, CreateItemPanel
<1>7. FormKnown(CreateSkill)
  BY DEF FormKnown, CreateSkill, CreateTeam, CreateItemPanel
<1>8. FormKnown(ItemComposer)
  BY DEF FormKnown, ItemComposer
<1> QED
  BY <1>1, <1>2, <1>3, <1>4, <1>5, <1>6, <1>7, <1>8
  DEF Forms, CreateTaskForm, CreateTestForm, CreateEpicPanel, NodeModal, SubNodeModal,
      CreateUserForm, CreateTokenModal, LinkProject, CreateProject, SprintItemComposer

------------------------------------------------------------------------------
(* Types *)

LEMMA PostForgotten ==
  ASSUME NEW p \in Posts
  PROVE  /\ [p EXCEPT !.guards = FALSE] \in Posts
         /\ [p EXCEPT !.guards = FALSE].id = p.id
         /\ [p EXCEPT !.guards = FALSE].text = p.text
         /\ [p EXCEPT !.guards = FALSE].served = p.served
  BY Zenon DEF Posts

LEMMA PostServed ==
  ASSUME NEW p \in Posts
  PROVE  /\ [p EXCEPT !.served = TRUE] \in Posts
         /\ [p EXCEPT !.served = TRUE].id = p.id
         /\ [p EXCEPT !.served = TRUE].text = p.text
         /\ [p EXCEPT !.served = TRUE].served = TRUE
         /\ [p EXCEPT !.served = TRUE].guards = p.guards
  BY Zenon DEF Posts

LEMMA VanishTyped ==
  ASSUME NEW ps \in SUBSET Posts
  PROVE  Vanish(ps) \in SUBSET Posts
  BY PostForgotten DEF Vanish

\* The type, with the set of POSTs given its name.
FormsHold ==
    /\ form \in Forms
    /\ open \in BOOLEAN
    /\ text \in 0..MaxFillings
    /\ posts \in SUBSET Posts
    /\ made \in [Fillings -> Nat]
    /\ counts \in [fillings : 0..MaxFillings, posts : 0..MaxPosts]
    /\ unsure \in SUBSET Fillings

CountsType == [fillings : 0..MaxFillings, posts : 0..MaxPosts]

LEMMA CountsMove ==
  ASSUME NEW c \in CountsType
  PROVE  /\ c.fillings \in 0..MaxFillings /\ c.posts \in 0..MaxPosts
         /\ \A n \in 0..MaxFillings : /\ [c EXCEPT !.fillings = n] \in CountsType
                                     /\ [c EXCEPT !.fillings = n].fillings = n
                                     /\ [c EXCEPT !.fillings = n].posts = c.posts
         /\ \A n \in 0..MaxPosts : /\ [c EXCEPT !.posts = n] \in CountsType
                                  /\ [c EXCEPT !.posts = n].posts = n
                                  /\ [c EXCEPT !.posts = n].fillings = c.fillings
  BY Zenon DEF CountsType

\* What a step does with text and counts.
LEMMA FillInSteps ==
  ASSUME FormsHold, FillIn
  PROVE  /\ text' = counts.fillings + 1 /\ text' \in 0..MaxFillings /\ text' # 0
         /\ counts' \in CountsType /\ counts'.fillings = text'
         /\ counts'.posts = counts.posts
<1>1. counts \in CountsType /\ counts.fillings \in 0..MaxFillings
  BY CountsMove DEF FormsHold, CountsType
<1> DEFINE n == counts.fillings + 1
<1>2. n \in 0..MaxFillings /\ n # 0
  BY <1>1, CreateFormsAssumption DEF FillIn
<1>3. text' = n /\ counts' = [counts EXCEPT !.fillings = n]
  BY DEF FillIn
<1> HIDE DEF n
<1>4. counts' \in CountsType /\ counts'.fillings = n /\ counts'.posts = counts.posts
  BY <1>1, <1>2, <1>3, CountsMove
<1> QED
  BY <1>2, <1>3, <1>4 DEF n

LEMMA SubmitSteps ==
  ASSUME FormsHold, NEW g, Submit(g)
  PROVE  /\ counts' \in CountsType /\ counts'.fillings = counts.fillings
         /\ text \in Fillings
         /\ \E one \in Posts :
               /\ one.text = text /\ one.guards = TRUE /\ one.served = FALSE
               /\ posts' = {[p EXCEPT !.guards = FALSE] : p \in posts} \cup {one}
<1>1. counts \in CountsType /\ counts.posts \in 0..MaxPosts
  BY CountsMove DEF FormsHold, CountsType
<1> DEFINE n == counts.posts + 1
<1>2. n \in 0..MaxPosts /\ n \in 1..MaxPosts
  BY <1>1, CreateFormsAssumption DEF Submit
<1>3. counts' = [counts EXCEPT !.posts = n]
  BY DEF Submit
<1> DEFINE one == [id |-> n, text |-> text, guards |-> TRUE, served |-> FALSE]
<1>4. text \in Fillings
  BY CreateFormsAssumption DEF FormsHold, Submit, Fillings
<1>5. one \in Posts
  BY <1>2, <1>4 DEF Posts
<1>6. one.text = text /\ one.guards = TRUE /\ one.served = FALSE
  OBVIOUS
<1>7. posts' = {[p EXCEPT !.guards = FALSE] : p \in posts} \cup {one}
  BY DEF Submit
<1> HIDE DEF n, one
<1>8. counts' \in CountsType /\ counts'.fillings = counts.fillings
  BY <1>1, <1>2, <1>3, CountsMove
<1> QED
  BY <1>4, <1>5, <1>6, <1>7, <1>8

LEMMA FormsInitTyped == CreateFormsInit => FormsHold
<1>1. 0 \in 0..MaxFillings /\ 0 \in 0..MaxPosts
  BY CreateFormsAssumption
<1> SUFFICES ASSUME CreateFormsInit PROVE FormsHold
  OBVIOUS
<1>2. made \in [Fillings -> Nat]
  BY DEF CreateFormsInit
<1>3. counts \in [fillings : 0..MaxFillings, posts : 0..MaxPosts]
  BY <1>1 DEF CreateFormsInit
<1> QED
  BY <1>1, <1>2, <1>3 DEF CreateFormsInit, FormsHold

LEMMA FormsNextTyped == FormsHold /\ [CreateFormsNext]_formVars => FormsHold'
<1> SUFFICES ASSUME FormsHold, [CreateFormsNext]_formVars PROVE FormsHold'
  OBVIOUS
<1>0. 0 \in 0..MaxFillings
  BY CreateFormsAssumption
<1>1. CASE OpenForm
  BY <1>1 DEF OpenForm, FormsHold
<1>2. CASE FillIn
  BY <1>2, FillInSteps DEF FillIn, FormsHold, CountsType
<1>3. ASSUME NEW g \in Gestures, Submit(g) PROVE FormsHold'
  <2>1. posts' \in SUBSET Posts
    <3>1. PICK one \in Posts :
             posts' = {[p EXCEPT !.guards = FALSE] : p \in posts} \cup {one}
      BY <1>3, SubmitSteps
    <3>2. \A p \in posts : [p EXCEPT !.guards = FALSE] \in Posts
      BY PostForgotten DEF FormsHold
    <3> QED
      BY <3>1, <3>2
  <2>2. counts' \in CountsType
    BY <1>3, SubmitSteps
  <2>3. open' \in BOOLEAN /\ text' \in 0..MaxFillings
    BY <1>0, <1>3 DEF Submit, FormsHold
  <2> QED
    BY <1>3, <2>1, <2>2, <2>3 DEF Submit, FormsHold, CountsType
<1>4. CASE Cancel
  <2>1. posts' \in SUBSET Posts
    BY <1>4, VanishTyped DEF Cancel, FormsHold
  <2> QED
    BY <1>0, <1>4, <2>1 DEF Cancel, FormsHold
<1>5. ASSUME NEW p \in posts, ServePost(p) PROVE FormsHold'
  <2>1. p \in Posts /\ p.text \in Fillings
    BY DEF FormsHold, Posts
  <2>2. [p EXCEPT !.served = TRUE] \in Posts
    BY <2>1, PostServed
  <2>3. posts' \in SUBSET Posts
    BY <1>5, <2>2 DEF ServePost, FormsHold
  <2>4. made' \in [Fillings -> Nat]
    BY <1>5, <2>1 DEF ServePost, FormsHold
  <2> QED
    BY <1>5, <2>3, <2>4 DEF ServePost, FormsHold
<1>6. ASSUME NEW p \in posts, PostAnswered(p) PROVE FormsHold'
  <2>1. posts \ {p} \in SUBSET Posts
    BY DEF FormsHold
  <2>2. posts' \in SUBSET Posts
    BY <1>6, <2>1, VanishTyped DEF PostAnswered
  <2> QED
    BY <1>0, <1>6, <2>2 DEF PostAnswered, FormsHold
<1>7. ASSUME NEW p \in posts, PostFails(p) PROVE FormsHold'
  <2>1. p.text \in Fillings
    BY DEF FormsHold, Posts
  <2> QED
    BY <1>7, <2>1 DEF PostFails, FormsHold
<1>8. CASE UNCHANGED formVars
  BY <1>8 DEF formVars, FormsHold
<1> QED
  BY <1>1, <1>2, <1>3, <1>4, <1>5, <1>6, <1>7, <1>8 DEF CreateFormsNext

------------------------------------------------------------------------------
(* How many rows POSTs make *)

\* The ids of the POSTs the server has not carried out yet.
UnservedIn(ps) == {p.id : p \in {q \in ps : ~q.served}}

\* Every POST has a number of its own, no greater than the count of POSTs, and
\* each one the server carried out accounts for one row at most.
PostsNumbered(ps, rows, sent) ==
    /\ \A p \in ps : p.id <= sent
    /\ \A p, q \in ps : p.id = q.id => p = q
    /\ \A n \in Fillings : rows[n] + Cardinality(UnservedIn(ps)) <= sent

\* To forget that POSTs are pending changes neither their numbers nor whether
\* they are carried out.
LEMMA ForgettingKeepsNumbers ==
  ASSUME NEW ps \in SUBSET Posts,
         NEW fs \in {ps, {[p EXCEPT !.guards = FALSE] : p \in ps}}
  PROVE  /\ UnservedIn(fs) = UnservedIn(ps)
         /\ \A f \in fs : \E p \in ps : f.id = p.id
         /\ (\A p, q \in ps : p.id = q.id => p = q) => (\A p, q \in fs : p.id = q.id => p = q)
<1>1. CASE fs = ps
  BY <1>1
<1>2. CASE fs = {[p EXCEPT !.guards = FALSE] : p \in ps}
  <2> DEFINE F(p) == [p EXCEPT !.guards = FALSE]
  <2>1. \A p \in ps : F(p).id = p.id /\ F(p).served = p.served
    BY PostForgotten
  <2>2. fs = {F(p) : p \in ps}
    BY <1>2
  <2> HIDE DEF F
  <2>3. UnservedIn(fs) = UnservedIn(ps)
    BY <2>1, <2>2 DEF UnservedIn
  <2> QED
    BY <2>1, <2>2, <2>3
<1> QED
  BY <1>1, <1>2

\* The ids are finitely many, and fewer of them count no more.
LEMMA UnservedFinite ==
  ASSUME NEW ps \in SUBSET Posts
  PROVE  /\ UnservedIn(ps) \subseteq 1..MaxPosts
         /\ IsFiniteSet(UnservedIn(ps)) /\ Cardinality(UnservedIn(ps)) \in Nat
         /\ \A S \in SUBSET UnservedIn(ps) :
               Cardinality(S) \in Nat /\ Cardinality(S) <= Cardinality(UnservedIn(ps))
<1>1. UnservedIn(ps) \subseteq 1..MaxPosts
  BY DEF UnservedIn, Posts
<1>2. IsFiniteSet(UnservedIn(ps))
  <2>1. 1 \in Int /\ MaxPosts \in Int
    BY CreateFormsAssumption
  <2>2. IsFiniteSet(1..MaxPosts)
    BY <2>1, FS_Interval
  <2> QED
    BY <1>1, <2>2, FS_Subset
<1>3. \A S \in SUBSET UnservedIn(ps) :
         IsFiniteSet(S) /\ Cardinality(S) <= Cardinality(UnservedIn(ps))
  BY <1>2, FS_Subset
<1> QED
  BY <1>1, <1>2, <1>3, FS_CardinalityType

\* With fewer POSTs, none of them new, the numbers are as good as before.
LEMMA FewerPostsNumbered ==
  ASSUME FormsHold, NEW ps \in SUBSET posts, NEW fs \in {ps, Vanish(ps)},
         PostsNumbered(posts, made, counts.posts)
  PROVE  PostsNumbered(fs, made, counts.posts)
<1>1. posts \in SUBSET Posts /\ ps \in SUBSET Posts /\ made \in [Fillings -> Nat]
      /\ counts.posts \in Nat
  BY CountsMove, CreateFormsAssumption DEF FormsHold, CountsType
<1>2. fs \in {ps, {[p EXCEPT !.guards = FALSE] : p \in ps}}
  BY DEF Vanish
<1>3. /\ UnservedIn(fs) = UnservedIn(ps)
      /\ \A f \in fs : \E p \in ps : f.id = p.id
      /\ (\A p, q \in ps : p.id = q.id => p = q) => (\A p, q \in fs : p.id = q.id => p = q)
  BY <1>1, <1>2, ForgettingKeepsNumbers, Zenon
<1>4. UnservedIn(ps) \subseteq UnservedIn(posts)
  BY DEF UnservedIn
<1>5. /\ Cardinality(UnservedIn(ps)) \in Nat /\ Cardinality(UnservedIn(posts)) \in Nat
      /\ Cardinality(UnservedIn(ps)) <= Cardinality(UnservedIn(posts))
  BY <1>1, <1>4, UnservedFinite
<1>6. \A n \in Fillings : made[n] + Cardinality(UnservedIn(fs)) <= counts.posts
  BY <1>1, <1>3, <1>5 DEF PostsNumbered
<1> QED
  BY <1>3, <1>6 DEF PostsNumbered

LEMMA PostsNumberedNext ==
  FormsHold /\ PostsNumbered(posts, made, counts.posts) /\ [CreateFormsNext]_formVars =>
      PostsNumbered(posts, made, counts.posts)'
<1> SUFFICES ASSUME FormsHold, PostsNumbered(posts, made, counts.posts),
                    [CreateFormsNext]_formVars
             PROVE  PostsNumbered(posts', made', counts'.posts)
  BY DEF PostsNumbered, UnservedIn
<1>0. /\ posts \in SUBSET Posts /\ made \in [Fillings -> Nat]
      /\ counts \in CountsType /\ counts.posts \in Nat
  BY CountsMove, CreateFormsAssumption DEF FormsHold, CountsType
<1>1. CASE FillIn
  BY <1>0, <1>1, FillInSteps DEF FillIn
<1>2. ASSUME NEW g \in Gestures, Submit(g) PROVE PostsNumbered(posts', made', counts'.posts)
  <2> DEFINE k  == counts.posts + 1
             fs == {[p EXCEPT !.guards = FALSE] : p \in posts}
             one == [id |-> k, text |-> text, guards |-> TRUE, served |-> FALSE]
  <2>1. counts'.posts = k /\ posts' = fs \cup {one} /\ made' = made
    <3>1. k \in 0..MaxPosts
      BY <1>0, <1>2, CreateFormsAssumption DEF Submit
    <3>2. [counts EXCEPT !.posts = k].posts = k
      BY <1>0, <3>1, CountsMove
    <3> QED
      BY <1>2, <3>2 DEF Submit
  <2>2. /\ UnservedIn(fs) = UnservedIn(posts)
        /\ \A f \in fs : \E p \in posts : f.id = p.id
        /\ \A p, q \in fs : p.id = q.id => p = q
    <3>1. fs \in {posts, fs}
      OBVIOUS
    <3> QED
      BY <1>0, <3>1, ForgettingKeepsNumbers DEF PostsNumbered
  <2>3. one.id = k /\ one.served = FALSE
    OBVIOUS
  <2> HIDE DEF fs, one
  <2>4. \A p \in posts : p.id \in Nat /\ p.id <= counts.posts
    BY <1>0 DEF PostsNumbered, Posts
  <2>5. k \in Nat /\ \A f \in fs : f.id < k
    BY <1>0, <2>2, <2>4
  <2>6. (\A p \in posts' : p.id <= k) /\ \A p, q \in posts' : p.id = q.id => p = q
    <3>1. \A f \in fs : f.id <= k /\ f.id # k
      BY <2>2, <2>4, <2>5
    <3> QED
      BY <2>1, <2>2, <2>3, <2>5, <3>1
  <2>7. UnservedIn(posts') = UnservedIn(posts) \cup {k}
    BY <2>1, <2>2, <2>3 DEF UnservedIn
  <2>8. Cardinality(UnservedIn(posts')) <= Cardinality(UnservedIn(posts)) + 1
        /\ Cardinality(UnservedIn(posts')) \in Nat /\ Cardinality(UnservedIn(posts)) \in Nat
    <3>1. IsFiniteSet(UnservedIn(posts)) /\ Cardinality(UnservedIn(posts)) \in Nat
      BY <1>0, UnservedFinite
    <3>2. Cardinality(UnservedIn(posts) \cup {k}) \in
             {Cardinality(UnservedIn(posts)), Cardinality(UnservedIn(posts)) + 1}
      BY <3>1, FS_AddElement
    <3> QED
      BY <2>7, <3>1, <3>2
  <2>9. \A n \in Fillings : made'[n] + Cardinality(UnservedIn(posts')) <= k
    <3> TAKE n \in Fillings
    <3>1. made[n] \in Nat /\ made[n] + Cardinality(UnservedIn(posts)) <= counts.posts
      BY <1>0 DEF PostsNumbered
    <3> QED
      BY <1>0, <2>1, <2>8, <3>1
  <2> QED
    BY <2>1, <2>6, <2>9 DEF PostsNumbered
<1>3. CASE Cancel
  <2>1. posts' \in {posts, Vanish(posts)} /\ made' = made /\ counts' = counts
    BY <1>3 DEF Cancel
  <2> QED
    BY <2>1, FewerPostsNumbered
<1>4. ASSUME NEW p \in posts, ServePost(p) PROVE PostsNumbered(posts', made', counts'.posts)
  <2> DEFINE one == [p EXCEPT !.served = TRUE]
  <2>1. one.id = p.id /\ one.served = TRUE
    BY <1>0, PostServed
  <2>2. posts' = (posts \ {p}) \cup {one} /\ counts' = counts /\ p.served = FALSE
        /\ made' = [made EXCEPT ![p.text] = @ + 1]
    BY <1>0, <1>4 DEF ServePost, Posts
  <2> HIDE DEF one
  <2>3. (\A q \in posts' : q.id <= counts.posts) /\ \A q, r \in posts' : q.id = r.id => q = r
    BY <2>1, <2>2 DEF PostsNumbered
  <2>4. UnservedIn(posts') = UnservedIn(posts) \ {p.id} /\ p.id \in UnservedIn(posts)
    BY <2>1, <2>2 DEF PostsNumbered, UnservedIn
  <2>5. /\ Cardinality(UnservedIn(posts)) \in Nat /\ Cardinality(UnservedIn(posts')) \in Nat
        /\ Cardinality(UnservedIn(posts')) + 1 = Cardinality(UnservedIn(posts))
    <3>1. IsFiniteSet(UnservedIn(posts)) /\ Cardinality(UnservedIn(posts)) \in Nat
          /\ Cardinality(UnservedIn(posts')) \in Nat
      BY <1>0, <2>4, UnservedFinite
    <3>2. Cardinality(UnservedIn(posts) \ {p.id}) = Cardinality(UnservedIn(posts)) - 1
      BY <2>4, <3>1, FS_RemoveElement
    <3> QED
      BY <2>4, <3>1, <3>2
  <2>6. ASSUME NEW n \in Fillings
        PROVE  made'[n] + Cardinality(UnservedIn(posts')) <= counts.posts
    <3>1. made[n] \in Nat /\ made[n] + Cardinality(UnservedIn(posts)) <= counts.posts
      BY <1>0 DEF PostsNumbered
    <3>2. made'[n] \in {made[n], made[n] + 1}
      BY <1>0, <2>2
    <3> QED
      BY <1>0, <2>5, <3>1, <3>2
  <2> QED
    BY <2>2, <2>3, <2>6 DEF PostsNumbered
<1>5. ASSUME NEW p \in posts, PostAnswered(p) PROVE PostsNumbered(posts', made', counts'.posts)
  <2>1. posts' \in {posts \ {p}, Vanish(posts \ {p})} /\ made' = made /\ counts' = counts
    BY <1>5 DEF PostAnswered
  <2> QED
    BY <2>1, FewerPostsNumbered
<1>6. ASSUME NEW p \in posts, PostFails(p) PROVE PostsNumbered(posts', made', counts'.posts)
  <2>1. posts' = posts \ {p} /\ made' = made /\ counts' = counts
    BY <1>6 DEF PostFails
  <2> QED
    BY <2>1, FewerPostsNumbered
<1>7. CASE OpenForm \/ UNCHANGED formVars
  BY <1>7 DEF OpenForm, formVars
<1> QED
  BY <1>1, <1>2, <1>3, <1>4, <1>5, <1>6, <1>7 DEF CreateFormsNext

\* The two together, and what they come to.
FormsInv == FormsHold /\ PostsNumbered(posts, made, counts.posts)

LEMMA FormsInitInv == CreateFormsInit => FormsInv
<1> SUFFICES ASSUME CreateFormsInit PROVE FormsInv
  OBVIOUS
<1>1. UnservedIn(posts) = {} /\ counts.posts = 0 /\ \A n \in Fillings : made[n] = 0
  BY DEF CreateFormsInit, UnservedIn
<1>2. \A n \in Fillings : made[n] + Cardinality(UnservedIn(posts)) <= counts.posts
  BY <1>1, FS_EmptySet
<1> QED
  BY <1>2, FormsInitTyped DEF FormsInv, PostsNumbered, CreateFormsInit

LEMMA FormsNextInv == FormsInv /\ [CreateFormsNext]_formVars => FormsInv'
<1>1. FormsInv => FormsHold /\ PostsNumbered(posts, made, counts.posts)
  BY DEF FormsInv
<1>2. FormsHold' /\ PostsNumbered(posts, made, counts.posts)' => FormsInv'
  BY DEF FormsInv
<1> QED
  BY <1>1, <1>2, FormsNextTyped, PostsNumberedNext

LEMMA FormsInvTyped == FormsInv => CreateFormsTypeOK
<1> SUFFICES ASSUME FormsInv PROVE CreateFormsTypeOK
  OBVIOUS
<1>1. posts \in SUBSET Posts /\ counts.posts \in 0..MaxPosts /\ made \in [Fillings -> Nat]
  BY CountsMove DEF FormsInv, FormsHold, CountsType
<1>2. \A n \in Fillings : made[n] \in 0..MaxPosts
  <2> TAKE n \in Fillings
  <2>1. Cardinality(UnservedIn(posts)) \in Nat
    BY <1>1, UnservedFinite
  <2>2. made[n] \in Nat /\ made[n] + Cardinality(UnservedIn(posts)) <= counts.posts
    BY <1>1 DEF FormsInv, PostsNumbered
  <2> QED
    BY <1>1, <2>1, <2>2, CreateFormsAssumption
<1> QED
  BY <1>1, <1>2 DEF FormsInv, FormsHold, CreateFormsTypeOK, Posts

\* The form, the POSTs in flight and what became of them keep to their sets:
\* no filling makes more rows than there were POSTs.
THEOREM CreateFormsTyped == CreateFormsSpec => []CreateFormsTypeOK
<1> QED
  BY FormsInitInv, FormsNextInv, FormsInvTyped, PTL DEF CreateFormsSpec

------------------------------------------------------------------------------
(* One row for each filling *)

\* Every gesture waits, or gives the text away.
Careful(f) == f.gestures \subseteq f.waits \/ f.closes = "sending"

\* p keeps the form from sending its text once more: it is remembered as
\* pending, or the form does not hold that text any longer.
Covered(p) == text = p.text => form.closes = "answer" /\ p.guards

\* How often a filling is a row, by the POST that is under way for it.
Once(n) ==
    /\ \A p, q \in posts : p.text = n /\ q.text = n => p = q
    /\ \A p \in posts : p.text = n => Covered(p) /\ made[n] = (IF p.served THEN 1 ELSE 0)
    /\ (\A p \in posts : p.text # n) => made[n] \in {0, 1} /\ (made[n] = 1 => text # n)

OnceEach ==
    Careful(form) =>
        /\ text <= counts.fillings
        /\ \A n \in Fillings : n > counts.fillings =>
              made[n] = 0 /\ \A p \in posts : p.text # n
        /\ \A n \in Fillings \ unsure : Once(n)

LEMMA OnceStart == CreateFormsInit => OnceEach
  BY DEF CreateFormsInit, OnceEach, Once

LEMMA OnceStep == FormsHold /\ OnceEach /\ [CreateFormsNext]_formVars => OnceEach'
<1> SUFFICES ASSUME FormsHold, OnceEach, [CreateFormsNext]_formVars PROVE OnceEach'
  OBVIOUS
<1>f. form' = form
  BY DEF CreateFormsNext, formVars, OpenForm, FillIn, Submit, Cancel, ServePost, PostAnswered,
         PostFails
<1> SUFFICES ASSUME Careful(form)
             PROVE  /\ text' <= counts'.fillings
                    /\ \A n \in Fillings : n > counts'.fillings =>
                          made'[n] = 0 /\ \A p \in posts' : p.text # n
                    /\ \A n \in Fillings \ unsure' : Once(n)'
  BY <1>f DEF OnceEach
<1> DEFINE Goal == /\ text' <= counts'.fillings
                   /\ \A n \in Fillings : n > counts'.fillings =>
                         made'[n] = 0 /\ \A p \in posts' : p.text # n
                   /\ \A n \in Fillings \ unsure' : Once(n)'
<1>0. /\ posts \subseteq Posts /\ counts.fillings \in 0..MaxFillings /\ counts.fillings \in Nat
      /\ text \in Nat /\ \A p \in posts : p.text \in Fillings /\ p.served \in BOOLEAN
      /\ Fillings \subseteq Nat \ {0}
  BY CountsMove, CreateFormsAssumption DEF FormsHold, CountsType, Posts, Fillings
<1>a. /\ text <= counts.fillings
      /\ \A n \in Fillings : n > counts.fillings => made[n] = 0 /\ \A p \in posts : p.text # n
      /\ \A n \in Fillings \ unsure : Once(n)
  BY DEF OnceEach
<1>k. form.closes \in {"sending", "answer"} /\ (form.lives = "panel" => form.cancel # "keeps")
  BY FormsKnown DEF FormsHold, FormKnown
\* The text is given up, and what was known of the POSTs may be, too.
<1>1. ASSUME NEW ps \in SUBSET posts, text' = 0, UNCHANGED <<made, counts, unsure>>,
             posts' = ps \/ posts' = {[p EXCEPT !.guards = FALSE] : p \in ps},
             \A n \in Fillings \ unsure : \A p \in posts \ ps : p.text = n => p.served
      PROVE  Goal
  <2>1. \A t \in posts' : \E p \in ps : t.text = p.text /\ t.served = p.served
    <3>1. CASE posts' = ps
      BY <3>1
    <3>2. CASE posts' = {[p EXCEPT !.guards = FALSE] : p \in ps}
      <4>1. \A p \in ps : /\ [p EXCEPT !.guards = FALSE].text = p.text
                          /\ [p EXCEPT !.guards = FALSE].served = p.served
        BY <1>0, PostForgotten
      <4> QED
        BY <3>2, <4>1
    <3> QED
      BY <1>1, <3>1, <3>2
  <2>2. ASSUME NEW p \in ps PROVE \E t \in posts' : t.text = p.text
    <3>1. CASE posts' = ps
      BY <3>1
    <3>2. CASE posts' = {[q EXCEPT !.guards = FALSE] : q \in ps}
      <4>1. [p EXCEPT !.guards = FALSE] \in posts'
        BY <3>2
      <4>2. [p EXCEPT !.guards = FALSE].text = p.text
        BY <1>0, PostForgotten
      <4> QED
        BY <4>1, <4>2
    <3> QED
      BY <1>1, <3>1, <3>2
  <2>3. ASSUME NEW n \in Fillings \ unsure PROVE Once(n)'
    <3>1. ASSUME NEW t \in posts', NEW u \in posts', t.text = n, u.text = n PROVE t = u
      <4>1. CASE posts' = ps
        BY <1>1, <1>a, <3>1, <4>1 DEF Once
      <4>2. CASE posts' = {[q EXCEPT !.guards = FALSE] : q \in ps}
        <5>1. PICK p \in ps : t = [p EXCEPT !.guards = FALSE]
          BY <4>2
        <5>2. PICK q \in ps : u = [q EXCEPT !.guards = FALSE]
          BY <4>2
        <5>3. p.text = n /\ q.text = n
          BY <1>0, <3>1, <5>1, <5>2, PostForgotten
        <5>4. p = q
          BY <1>a, <5>3 DEF Once
        <5> QED
          BY <5>1, <5>2, <5>4, Zenon
      <4> QED
        BY <1>1, <4>1, <4>2
    <3>2. ASSUME NEW t \in posts', t.text = n
          PROVE  Covered(t)' /\ made'[n] = (IF t.served THEN 1 ELSE 0)
      <4>1. PICK p \in ps : t.text = p.text /\ t.served = p.served
        BY <2>1
      <4> QED
        BY <1>0, <1>1, <1>a, <3>2, <4>1 DEF Once, Covered
    <3>3. ASSUME \A t \in posts' : t.text # n
          PROVE  made'[n] \in {0, 1} /\ (made'[n] = 1 => text' # n)
      BY <1>0, <1>1, <1>a, <2>2, <3>3 DEF Once
    <3> QED
      BY <3>1, <3>2, <3>3 DEF Once
  <2>4. ASSUME NEW n \in Fillings, n > counts'.fillings
        PROVE  made'[n] = 0 /\ \A t \in posts' : t.text # n
    BY <1>1, <1>a, <2>1, <2>4
  <2> QED
    BY <1>0, <1>1, <2>3, <2>4
<1>2. ASSUME UNCHANGED <<form, text, posts, made, counts, unsure>> PROVE Goal
  BY <1>2, <1>a DEF Once, Covered
<1>3. ASSUME FillIn PROVE Goal
  <2>1. text' = counts.fillings + 1 /\ counts'.fillings = text' /\ text' \in Fillings
        /\ UNCHANGED <<form, posts, made, unsure>>
    BY <1>3, FillInSteps, CreateFormsAssumption DEF FillIn, Fillings
  <2>2. made[text'] = 0 /\ \A p \in posts : p.text # text'
    BY <1>0, <1>a, <2>1
  <2>3. ASSUME NEW n \in Fillings \ unsure' PROVE Once(n)'
    BY <1>a, <2>1, <2>2, <2>3 DEF Once, Covered
  <2>4. \A n \in Fillings : n > counts'.fillings =>
             made'[n] = 0 /\ \A p \in posts' : p.text # n
    BY <1>0, <1>a, <2>1
  <2> QED
    BY <1>0, <2>1, <2>3, <2>4
<1>4. ASSUME NEW g \in Gestures, Submit(g) PROVE Goal
  <2>1. PICK one \in Posts :
           /\ one.text = text /\ one.guards = TRUE /\ one.served = FALSE
           /\ posts' = {[p EXCEPT !.guards = FALSE] : p \in posts} \cup {one}
    BY <1>4, SubmitSteps
  <2>2. counts'.fillings = counts.fillings /\ text \in Fillings
        /\ UNCHANGED <<form, made, unsure>>
    BY <1>4, SubmitSteps DEF Submit
  <2>3. text \notin unsure => made[text] = 0 /\ \A p \in posts : p.text # text
    <3> SUFFICES ASSUME text \notin unsure
                 PROVE  made[text] = 0 /\ \A p \in posts : p.text # text
      OBVIOUS
    <3>1. Once(text)
      BY <1>a, <2>2
    <3>2. ASSUME NEW p \in posts, p.text = text PROVE FALSE
      <4>1. form.closes = "answer" /\ p.guards
        BY <3>1, <3>2 DEF Once, Covered
      <4>2. g \in form.waits
        BY <1>4, <4>1 DEF Careful, Submit
      <4> QED
        BY <1>4, <4>1, <4>2 DEF Submit
    <3> QED
      BY <3>1, <3>2 DEF Once
  <2>4. \A t \in posts' : t = one \/ \E p \in posts : t.text = p.text /\ t.served = p.served
                                                 /\ t = [p EXCEPT !.guards = FALSE]
    BY <1>0, <2>1, PostForgotten
  <2>5. one \in posts' /\ \A p \in posts : \E t \in posts' : t.text = p.text
    BY <1>0, <2>1, PostForgotten
  <2>6. text' \in {text, 0} /\ (form.closes = "sending" => text' = 0)
    BY <1>4 DEF Submit
  <2>7. ASSUME NEW n \in Fillings \ unsure' PROVE Once(n)'
    <3>1. CASE n = text
      <4>1. made[n] = 0 /\ \A p \in posts : p.text # n
        BY <2>2, <2>3, <2>7, <3>1
      <4>2. \A t \in posts' : t.text = n => t = one
        BY <2>4, <4>1
      <4> QED
        BY <1>0, <1>k, <2>1, <2>2, <2>5, <2>6, <3>1, <4>1, <4>2 DEF Once, Covered
    <3>2. CASE n # text
      <4>0. Once(n) /\ text' # n /\ one.text # n /\ made'[n] = made[n]
        BY <1>0, <1>a, <2>1, <2>2, <2>6, <2>7, <3>2
      <4>1. ASSUME NEW t \in posts', NEW u \in posts', t.text = n, u.text = n PROVE t = u
        BY <2>4, <4>0, <4>1 DEF Once
      <4>2. ASSUME NEW t \in posts', t.text = n
            PROVE  Covered(t)' /\ made'[n] = (IF t.served THEN 1 ELSE 0)
        <5>1. PICK p \in posts : t.text = p.text /\ t.served = p.served
          BY <2>4, <4>0, <4>2
        <5> QED
          BY <4>0, <4>2, <5>1 DEF Once, Covered
      <4>3. ASSUME \A t \in posts' : t.text # n
            PROVE  made'[n] \in {0, 1} /\ (made'[n] = 1 => text' # n)
        BY <2>5, <4>0, <4>3 DEF Once
      <4> QED
        BY <4>1, <4>2, <4>3 DEF Once
    <3> QED
      BY <3>1, <3>2
  <2>8. ASSUME NEW n \in Fillings, n > counts'.fillings
        PROVE  made'[n] = 0 /\ \A t \in posts' : t.text # n
    <3>1. made[n] = 0 /\ (\A p \in posts : p.text # n) /\ n # text
      BY <1>0, <1>a, <2>2, <2>8
    <3> QED
      BY <2>1, <2>2, <2>4, <3>1
  <2>9. text' <= counts'.fillings
    BY <1>0, <1>a, <2>2, <2>6
  <2> QED
    BY <2>7, <2>8, <2>9
<1>5. ASSUME Cancel PROVE Goal
  <2>1. CASE form.cancel = "keeps"
    <3>1. posts' = posts /\ text' = text
      BY <1>5, <1>k, <2>1 DEF Cancel, Vanish
    <3> QED
      BY <1>2, <1>5, <3>1 DEF Cancel
  <2>2. CASE form.cancel # "keeps"
    <3>1. posts' = posts \/ posts' = {[p EXCEPT !.guards = FALSE] : p \in posts}
      BY <1>5 DEF Cancel, Vanish
    <3>2. text' = 0 /\ UNCHANGED <<made, counts, unsure>>
      BY <1>5, <2>2 DEF Cancel
    <3> QED
      BY <1>1, <3>1, <3>2
  <2> QED
    BY <2>1, <2>2
<1>6. ASSUME NEW p \in posts, PostAnswered(p) PROVE Goal
  <2>1. CASE form.closes = "answer"
    <3>1. posts' = posts \ {p} \/ posts' = {[q EXCEPT !.guards = FALSE] : q \in posts \ {p}}
      BY <1>6, <2>1 DEF PostAnswered, Vanish
    <3>2. text' = 0 /\ UNCHANGED <<made, counts, unsure>> /\ p.served
      BY <1>6, <2>1 DEF PostAnswered
    <3>3. posts \ {p} \in SUBSET posts
      OBVIOUS
    <3> QED
      BY <1>1, <3>1, <3>2, <3>3
  <2>2. CASE form.closes = "sending"
    <3>1. posts' = posts \ {p} /\ p.served /\ UNCHANGED <<form, text, made, counts, unsure>>
      BY <1>6, <2>2 DEF PostAnswered
    <3>2. ASSUME NEW n \in Fillings \ unsure PROVE Once(n)'
      BY <1>a, <2>2, <3>1, <3>2 DEF Once, Covered
    <3> QED
      BY <1>a, <3>1, <3>2
  <2> QED
    BY <1>k, <2>1, <2>2
<1>7. ASSUME NEW p \in posts, PostFails(p) PROVE Goal
  <2>1. /\ posts' = posts \ {p} /\ UNCHANGED <<form, text, made, counts>>
        /\ unsure' = IF p.served THEN unsure \cup {p.text} ELSE unsure
    BY <1>7 DEF PostFails
  <2>2. ASSUME NEW n \in Fillings \ unsure' PROVE Once(n)'
    <3>1. Once(n) /\ (p.text = n => ~p.served)
      BY <1>a, <2>1, <2>2
    <3> QED
      BY <1>7, <2>1, <3>1 DEF Once, Covered
  <2> QED
    BY <1>a, <2>1, <2>2
<1>8. ASSUME NEW p \in posts, ServePost(p) PROVE Goal
  <2> DEFINE one == [p EXCEPT !.served = TRUE]
  <2>1. posts' = (posts \ {p}) \cup {one} /\ ~p.served
        /\ UNCHANGED <<form, text, counts, unsure>>
    BY <1>8 DEF ServePost
  <2>2. one.text = p.text /\ one.served = TRUE /\ one.guards = p.guards
    BY <1>0, PostServed
  <2> HIDE DEF one
  <2>3. \A n \in Fillings : made'[n] = IF n = p.text THEN made[n] + 1 ELSE made[n]
    BY <1>8 DEF ServePost, FormsHold
  <2>4. ASSUME NEW n \in Fillings \ unsure' PROVE Once(n)'
    <3>1. Once(n)
      BY <1>a, <2>1, <2>4
    <3>2. CASE n = p.text
      <4>1. made[n] = 0 /\ made'[n] = 1 /\ Covered(p)
        BY <2>1, <2>3, <2>4, <3>1, <3>2 DEF Once
      <4>2. \A t \in posts' : t.text = n => t = one
        BY <2>1, <3>1, <3>2 DEF Once
      <4> QED
        BY <2>1, <2>2, <3>2, <4>1, <4>2 DEF Once, Covered
    <3>3. CASE n # p.text
      <4>1. made'[n] = made[n] /\ \A t \in posts' : t.text = n => t \in posts
        BY <2>1, <2>2, <2>3, <2>4, <3>3
      <4>2. \A q \in posts : q.text = n => q \in posts'
        BY <2>1, <3>3
      <4> QED
        BY <2>1, <3>1, <4>1, <4>2 DEF Once, Covered
    <3> QED
      BY <3>2, <3>3
  <2>5. ASSUME NEW n \in Fillings, n > counts'.fillings
        PROVE  made'[n] = 0 /\ \A t \in posts' : t.text # n
    BY <1>a, <2>1, <2>2, <2>3, <2>5
  <2> QED
    BY <1>a, <2>1, <2>4, <2>5
<1>9. ASSUME OpenForm PROVE Goal
  BY <1>2, <1>9 DEF OpenForm
<1>10. ASSUME UNCHANGED formVars PROVE Goal
  BY <1>2, <1>10 DEF formVars
<1>11. Goal
  <2> HIDE DEF Goal
  <2> QED
    BY <1>3, <1>4, <1>5, <1>6, <1>7, <1>8, <1>9, <1>10 DEF CreateFormsNext
<1> QED
  BY <1>11

\* What was filled in once is one row at most, unless a gesture of the form
\* does not wait for the answer, or a POST was carried out and its answer lost.
THEOREM FormsCreateOnce == CreateFormsSpec => []OneRowPerFilling
<1>1. CreateFormsSpec => []FormsHold
  BY FormsInitTyped, FormsNextTyped, PTL DEF CreateFormsSpec
<1>2. FormsHold /\ OnceEach => OneRowPerFilling
  <2> SUFFICES ASSUME FormsHold, OnceEach, NEW n \in Fillings, made[n] > 1, n \notin unsure
               PROVE  form.gestures \ form.waits # {} /\ form.closes = "answer"
    BY DEF OneRowPerFilling
  <2>1. ~Once(n)
    BY DEF Once
  <2>2. ~Careful(form)
    BY <2>1 DEF OnceEach
  <2> QED
    BY <2>2, FormsKnown DEF Careful, FormsHold, FormKnown
<1> QED
  BY <1>1, <1>2, OnceStart, OnceStep, PTL DEF CreateFormsSpec

------------------------------------------------------------------------------
(* Row actions: what is asked and sent *)

Questions == [row : SomeTarget, step : 0..3, text : SomeTarget]
Requests  == [id : 1..MaxRequests, row : Targets, meant : Targets, text : SomeTarget,
              here : BOOLEAN, newest : BOOLEAN, served : BOOLEAN]

------------------------------------------------------------------------------
(* The buttons *)

\* Only a page of one row asks for whichever row its address names.
ButtonKnown(b) ==
    /\ b.holds \in {"row", "page"}
    /\ b.holds = "page" => ~b.lists
    /\ b.steps \in 0..3

LEMMA ButtonsKnown == \A b \in ActionButtons : ButtonKnown(b)
<1>1. ButtonKnown(deleteSprint)
  BY DEF ButtonKnown, deleteSprint
<1>2. ButtonKnown(removeTeam)
  BY DEF ButtonKnown, removeTeam, deleteSprint
<1>3. ButtonKnown(removeMember)
  BY DEF ButtonKnown, removeMember, deleteSprint
<1>4. ButtonKnown(toggleActive)
  BY DEF ButtonKnown, toggleActive, deleteSprint
<1>5. ButtonKnown(revoke)
  BY DEF ButtonKnown, revoke, deleteSprint
<1>6. ButtonKnown(deleteTaskPage)
  BY DEF ButtonKnown, deleteTaskPage, deleteSprint
<1>7. ButtonKnown(deleteTaskModal)
  BY DEF ButtonKnown, deleteTaskModal, deleteTaskPage, deleteSprint
<1>8. ButtonKnown(deleteItemPage)
  BY DEF ButtonKnown, deleteItemPage, deleteTaskPage, deleteSprint
<1>9. ButtonKnown(deleteSkill)
  BY DEF ButtonKnown, deleteSkill, removeTeam, deleteSprint
<1>10. ButtonKnown(resetPassword)
  BY DEF ButtonKnown, resetPassword, deleteSkill, removeTeam, deleteSprint
<1>11. ButtonKnown(archiveOnOverview)
  BY DEF ButtonKnown, archiveOnOverview, removeTeam, deleteSprint
<1>12. ButtonKnown(archiveTeam)
  BY DEF ButtonKnown, archiveTeam, archiveOnOverview, removeTeam, deleteSprint
<1> QED
  BY <1>1, <1>2, <1>3, <1>4, <1>5, <1>6, <1>7, <1>8, <1>9, <1>10, <1>11, <1>12
  DEF ActionButtons, deleteItem, deleteEpic, deleteMilestone, deleteTask, deleteTest,
      archiveInTree, unlinkProject, setHidden, initCapacity, restoreTeam, restoreProject,
      removeSkill, removeCard, resolveCard, deleteTestPage, deleteTestModal

------------------------------------------------------------------------------
(* Types *)

\* A question changes field by field.
LEMMA TextTyped ==
  ASSUME NEW q \in Questions, NEW t \in SomeTarget
  PROVE  /\ [q EXCEPT !.text = t] \in Questions
         /\ [q EXCEPT !.text = t].row = q.row
         /\ [q EXCEPT !.text = t].step = q.step
         /\ [q EXCEPT !.text = t].text = t
  BY Zenon DEF Questions

LEMMA StepTaken ==
  ASSUME NEW q \in Questions, NEW t \in SomeTarget, NEW n \in 0..3
  PROVE  /\ [q EXCEPT !.step = n, !.text = t] \in Questions
         /\ [q EXCEPT !.step = n, !.text = t].row = q.row
         /\ [q EXCEPT !.step = n, !.text = t].text = t
  BY Zenon DEF Questions

LEMMA QuestionWithdrawn ==
  ASSUME NEW q \in Questions, NEW t \in SomeTarget, NEW n \in 0..3
  PROVE  /\ [q EXCEPT !.row = t, !.step = n] \in Questions
         /\ [q EXCEPT !.row = t, !.step = n].step = n
  BY Zenon DEF Questions

\* What a request asks for does not change on its way.
SameAsk(p, q) == p.row = q.row /\ p.meant = q.meant /\ p.text = q.text

LEMMA RequestMoves ==
  ASSUME NEW q \in Requests
  PROVE  /\ [q EXCEPT !.newest = FALSE] \in Requests /\ SameAsk([q EXCEPT !.newest = FALSE], q)
         /\ [q EXCEPT !.here = FALSE] \in Requests /\ SameAsk([q EXCEPT !.here = FALSE], q)
         /\ [q EXCEPT !.served = TRUE] \in Requests /\ SameAsk([q EXCEPT !.served = TRUE], q)
  BY Zenon DEF Requests, SameAsk

LEMMA NoQuestionFacts ==
  NoQuestion \in Questions /\ NoQuestion.step = 0 /\ NoQuestion.text = Elsewhere
  BY DEF NoQuestion, Questions, SomeTarget

LEMMA ForgetKeeps ==
  ASSUME NEW qs \in SUBSET Requests, NEW p \in Forget(qs)
  PROVE  p \in Requests /\ \E q \in qs : SameAsk(p, q)
  BY RequestMoves DEF Forget

LEMMA WithoutKeeps ==
  ASSUME requests \in SUBSET Requests, NEW q, NEW p \in Without(q)
  PROVE  p \in Requests /\ \E o \in requests : SameAsk(p, o)
<1>1. CASE button.waits = "settled"
  <2>1. PICK o \in requests : p = [o EXCEPT !.newest = FALSE]
    BY <1>1 DEF Without
  <2> QED
    BY <2>1, RequestMoves
<1>2. CASE button.waits # "settled"
  BY <1>2 DEF Without, SameAsk
<1> QED
  BY <1>1, <1>2

\* A question is always about a row.
AboutARow == question.step > 0 => question.row \in Targets

ActionsInv == RowActionsTypeOK /\ AboutARow

\* The one request a last click makes.
LEMMA ActOnMakes ==
  ASSUME ActionsInv, NEW r \in Targets, ActOn(r), NEW p \in requests'
  PROVE  /\ p \in Requests
         /\ \/ \E q \in requests : SameAsk(p, q)
            \/ /\ p.row = r /\ p.text = question.text
               /\ p.meant = (IF button.steps > 0 THEN question.row ELSE r)
<1> DEFINE m == IF button.steps > 0 THEN question.row ELSE r
           one == [id |-> requested + 1, row |-> r, newest |-> TRUE, here |-> TRUE,
                   meant |-> m, text |-> question.text, served |-> FALSE]
<1>1. requests \subseteq Requests /\ question \in Questions
  BY DEF ActionsInv, RowActionsTypeOK, Requests, Questions
<1>2. requested + 1 \in 1..MaxRequests
  BY RowActionsAssumption DEF ActionsInv, RowActionsTypeOK, ActOn
<1>3. question.text \in SomeTarget
  BY <1>1 DEF Questions
<1>4. ASSUME NEW q \in requests, p = [q EXCEPT !.newest = FALSE]
      PROVE  p \in Requests /\ SameAsk(p, q)
  BY <1>1, <1>4, RequestMoves
<1>5. p = one \/ \E q \in requests : p = [q EXCEPT !.newest = FALSE]
  BY DEF ActOn
<1>6. one.row = r /\ one.text = question.text /\ one.meant = m
  OBVIOUS
<1>7. m \in Targets => one \in Requests
  BY <1>2, <1>3 DEF Requests
<1>8. m \in Targets
  <2>1. CASE button.steps > 0
    <3>1. question.step > 0
      BY <2>1 DEF ActOn
    <3> QED
      BY <2>1, <3>1 DEF ActionsInv, AboutARow
  <2>2. CASE ~(button.steps > 0)
    BY <2>2
  <2> QED
    BY <2>1, <2>2
<1> HIDE DEF one, m
<1> QED
  BY <1>4, <1>5, <1>6, <1>7, <1>8 DEF m

LEMMA ActionsInitInv == RowActionsInit => ActionsInv
<1> SUFFICES ASSUME RowActionsInit PROVE ActionsInv
  OBVIOUS
<1>1. RowActionsTypeOK
  <2>1. 0 \in 0..MaxRequests /\ onPage \in SomeTarget
    BY RowActionsAssumption DEF RowActionsInit, SomeTarget
  <2> QED
    BY <2>1, NoQuestionFacts DEF RowActionsInit, RowActionsTypeOK, Questions
<1> QED
  BY <1>1, NoQuestionFacts DEF RowActionsInit, ActionsInv, AboutARow

LEMMA ActionsNextInv == ActionsInv /\ [RowActionsNext]_actionVars => ActionsInv'
<1> SUFFICES ASSUME ActionsInv, [RowActionsNext]_actionVars PROVE ActionsInv'
  OBVIOUS
<1>0. /\ RowActionsTypeOK /\ requests \in SUBSET Requests /\ question \in Questions
      /\ question.step \in 0..3 /\ Elsewhere \in SomeTarget /\ Targets \subseteq SomeTarget
  BY DEF ActionsInv, RowActionsTypeOK, Requests, Questions, SomeTarget
\* A question is put, or withdrawn; the rest stays.
<1>q. ASSUME question' \in Questions, question'.step > 0 => question'.row \in Targets,
             requests' \in SUBSET Requests, onPage' \in SomeTarget, acted' \subseteq Targets,
             requested' \in 0..MaxRequests, wandered' \in BOOLEAN, button' = button
      PROVE  ActionsInv'
  BY <1>0, <1>q DEF ActionsInv, RowActionsTypeOK, AboutARow, Requests, Questions
<1>r. /\ button \in ActionButtons /\ onPage \in SomeTarget /\ acted \subseteq Targets
      /\ requested \in 0..MaxRequests /\ wandered \in BOOLEAN
      /\ question.step > 0 => question.row \in Targets
  BY DEF ActionsInv, RowActionsTypeOK, AboutARow
<1>1. ASSUME NEW r \in Targets, Begin(r) PROVE ActionsInv'
  <2>1. question' \in Questions /\ question'.row = r
    BY <1>0, <1>1 DEF Begin, Questions
  <2> QED
    BY <1>0, <1>1, <1>q, <1>r, <2>1 DEF Begin
<1>2. CASE TypeAnswer
  <2>1. RowAskedFor \in SomeTarget
    BY <1>0, <1>r DEF RowAskedFor, Questions
  <2>2. question' \in Questions /\ question'.step = question.step /\ question'.row = question.row
    BY <1>0, <1>2, <2>1, TextTyped DEF TypeAnswer
  <2> QED
    BY <1>0, <1>2, <1>q, <1>r, <2>2 DEF TypeAnswer
<1>3. CASE Continue
  <2> DEFINE t == IF question.step + 1 = button.types THEN Elsewhere ELSE question.text
             n == question.step + 1
  <2>1. n \in 0..3 /\ t \in SomeTarget /\ question.step > 0
    BY <1>0, <1>3, <1>r, ButtonsKnown DEF Continue, ButtonKnown, Questions
  <2>2. question' = [question EXCEPT !.step = n, !.text = t]
    BY <1>3 DEF Continue
  <2> HIDE DEF n, t
  <2>3. question' \in Questions /\ question'.row = question.row
    <3>1. question \in Questions /\ n \in 0..3 /\ t \in SomeTarget
      BY <1>0, <2>1
    <3>2. question' = [question EXCEPT !.step = n, !.text = t]
      BY <2>2
    <3>3. /\ [question EXCEPT !.step = n, !.text = t] \in Questions
          /\ [question EXCEPT !.step = n, !.text = t].row = question.row
          /\ [question EXCEPT !.step = n, !.text = t].text = t
      BY <3>1, StepTaken, Zenon
    <3> QED
      BY <3>2, <3>3, Zenon
  <2> QED
    BY <1>0, <1>3, <1>q, <1>r, <2>1, <2>3 DEF Continue
<1>4. CASE Withdraw
  <2>1. question' \in Questions /\ question'.step = 0
    <3>1. question' = [question EXCEPT !.row = Elsewhere, !.step = 0] /\ 0 \in 0..3
      BY <1>4 DEF Withdraw
    <3>2. question \in Questions /\ Elsewhere \in SomeTarget
      BY <1>0
    <3>3. /\ [question EXCEPT !.row = Elsewhere, !.step = 0] \in Questions
          /\ [question EXCEPT !.row = Elsewhere, !.step = 0].step = 0
      BY <3>1, <3>2, QuestionWithdrawn, Zenon
    <3> QED
      BY <3>1, <3>3, Zenon
  <2> QED
    BY <1>0, <1>4, <1>q, <1>r, <2>1 DEF Withdraw
<1>5. ASSUME NEW r \in Targets, ActOn(r) PROVE ActionsInv'
  <2>1. requests' \in SUBSET Requests
    BY <1>5, ActOnMakes
  <2>2. requested' \in 0..MaxRequests
    BY <1>5, <1>r, RowActionsAssumption DEF ActOn
  <2>3. question' \in Questions /\ (question'.step > 0 => question'.row \in Targets)
    BY <1>0, <1>5, <1>r, NoQuestionFacts DEF ActOn
  <2> QED
    BY <1>5, <1>q, <1>r, <2>1, <2>2, <2>3 DEF ActOn
<1>6. ASSUME NEW q \in requests, ServeAction(q) PROVE ActionsInv'
  <2>1. q.row \in Targets /\ [q EXCEPT !.served = TRUE] \in Requests
    BY <1>0, RequestMoves DEF Requests
  <2> QED
    BY <1>0, <1>6, <1>q, <1>r, <2>1 DEF ServeAction
<1>7. ASSUME NEW q \in requests, ActionAnswered(q) PROVE ActionsInv'
  <2>1. Forget(requests \ {q}) \in SUBSET Requests /\ Without(q) \in SUBSET Requests
    BY <1>0, ForgetKeeps, WithoutKeeps
  <2>2. requests' \in SUBSET Requests /\ onPage' \in SomeTarget
    BY <1>0, <1>7, <1>r, <2>1 DEF ActionAnswered
  <2>3. question' \in Questions /\ (question'.step > 0 => question'.row \in Targets)
    BY <1>0, <1>7, <1>r, NoQuestionFacts DEF ActionAnswered
  <2> QED
    BY <1>7, <1>q, <1>r, <2>2, <2>3 DEF ActionAnswered
<1>8. ASSUME NEW q \in requests, ActionFails(q) PROVE ActionsInv'
  <2>1. requests' \in SUBSET Requests
    BY <1>0, <1>8, WithoutKeeps DEF ActionFails
  <2> QED
    BY <1>0, <1>8, <1>q, <1>r, <2>1 DEF ActionFails
<1>9. ASSUME NEW r \in Targets, Wander(r) \/ VisitRow(r) PROVE ActionsInv'
  BY <1>0, <1>9, <1>q, <1>r DEF Wander, VisitRow
<1>10. CASE LeaveRow
  <2>1. requests' \in SUBSET Requests
    BY <1>0, <1>10, ForgetKeeps DEF LeaveRow
  <2> QED
    BY <1>0, <1>10, <1>q, <1>r, <2>1, NoQuestionFacts DEF LeaveRow
<1>11. CASE UNCHANGED actionVars
  BY <1>0, <1>11, <1>q, <1>r DEF actionVars
<1> QED
  BY <1>1, <1>2, <1>3, <1>4, <1>5, <1>6, <1>7, <1>8, <1>9, <1>10, <1>11 DEF RowActionsNext

LEMMA ActionsInvAlways == RowActionsSpec => []ActionsInv
  BY ActionsInitInv, ActionsNextInv, PTL DEF RowActionsSpec

\* Every reachable state of a button has its type, for any rows.
THEOREM RowActionsTyped == RowActionsSpec => []RowActionsTypeOK
<1>1. ActionsInv => RowActionsTypeOK
  BY DEF ActionsInv
<1> QED
  BY <1>1, ActionsInvAlways, PTL

------------------------------------------------------------------------------
(* What was meant *)

\* The address did not change under a question that asks for its row.
Steady == button.holds = "row" \/ ~wandered

\* A question under way names the row it would act on, and holds a text
\* typed for that row, if any.  There is none elsewhere, nor of a button
\* that asks nothing.
Sincere ==
    /\ onPage = Elsewhere => question.step = 0
    /\ button.steps = 0 => question = NoQuestion
    /\ Steady /\ question.step > 0 =>
          /\ question.row = RowAskedFor
          /\ question.text \in {Elsewhere, question.row}

Meant == Sincere /\ ActsOnWhatWasMeant

LEMMA MeantStep == ActionsInv /\ Meant /\ [RowActionsNext]_actionVars => Meant'
<1> SUFFICES ASSUME ActionsInv, Meant, [RowActionsNext]_actionVars PROVE Meant'
  OBVIOUS
<1>0. /\ RowActionsTypeOK /\ requests \in SUBSET Requests /\ question \in Questions
      /\ question.step \in 0..3 /\ Elsewhere \in SomeTarget /\ ButtonKnown(button)
      /\ wandered \in BOOLEAN /\ Elsewhere \notin Targets
  BY ButtonsKnown, RowActionsAssumption
  DEF ActionsInv, RowActionsTypeOK, Requests, Questions, SomeTarget
<1>b. button' = button /\ (wandered => wandered')
  BY <1>0 DEF RowActionsNext, actionVars, Begin, TypeAnswer, Continue, Withdraw, ActOn,
              ServeAction, ActionAnswered, ActionFails, Wander, LeaveRow, VisitRow
<1>a. Sincere /\ ActsOnWhatWasMeant
  BY DEF Meant
\* Requests that were there before do not come to mean another row.
<1>s. ASSUME \A p \in requests' : \E q \in requests : SameAsk(p, q)
      PROVE  ActsOnWhatWasMeant'
  BY <1>a, <1>b, <1>s DEF ActsOnWhatWasMeant, SameAsk
<1>u. ASSUME requests' = requests PROVE ActsOnWhatWasMeant'
  BY <1>s, <1>u DEF SameAsk
<1>n. ASSUME question' = NoQuestion PROVE Sincere'
  BY <1>n, NoQuestionFacts DEF Sincere
<1>k. ASSUME UNCHANGED <<question, onPage, wandered>> PROVE Sincere'
  BY <1>a, <1>b, <1>k DEF Sincere, Steady, RowAskedFor
<1>1. ASSUME NEW r \in Targets, Begin(r) PROVE Meant'
  <2>1. /\ question'.row = r /\ question'.text = Elsewhere /\ onPage # Elsewhere
        /\ button.steps > 0 /\ requests' = requests /\ onPage' = onPage
        /\ button.lists \/ r = onPage
    BY <1>1 DEF Begin, InView
  <2>2. question'.row = RowAskedFor'
    BY <1>0, <1>b, <2>1 DEF RowAskedFor, ButtonKnown
  <2>3. button.steps # 0
    BY <1>0, <2>1 DEF ButtonKnown
  <2> QED
    BY <1>b, <1>u, <2>1, <2>2, <2>3 DEF Meant, Sincere
<1>2. CASE TypeAnswer
  <2>1. RowAskedFor \in SomeTarget
    BY <1>0 DEF RowAskedFor, Questions, RowActionsTypeOK
  <2>2. /\ question'.step = question.step /\ question'.row = question.row
        /\ question'.text = RowAskedFor /\ question.step > 0
        /\ UNCHANGED <<requests, onPage, wandered>> /\ onPage # Elsewhere
    BY <1>0, <1>2, <2>1, TextTyped DEF TypeAnswer
  <2>3. button.steps # 0
    BY <1>0, <1>a, <2>2, NoQuestionFacts DEF Sincere
  <2>4. RowAskedFor' = RowAskedFor /\ (Steady' => Steady)
    BY <1>b, <2>2 DEF RowAskedFor, Steady
  <2> QED
    BY <1>a, <1>b, <1>u, <2>2, <2>3, <2>4 DEF Meant, Sincere
<1>3. CASE Continue
  <2> DEFINE t == IF question.step + 1 = button.types THEN Elsewhere ELSE question.text
             n == question.step + 1
  <2>1. /\ n \in 0..3 /\ t \in SomeTarget /\ question.step > 0 /\ button.steps # 0
        /\ t \in {Elsewhere, question.text}
    BY <1>0, <1>3 DEF Continue, ButtonKnown, Questions
  <2>2. question' = [question EXCEPT !.step = n, !.text = t]
        /\ UNCHANGED <<requests, onPage, wandered>> /\ onPage # Elsewhere
    BY <1>3 DEF Continue
  <2> HIDE DEF n, t
  <2>3. question'.row = question.row /\ question'.text = t
    <3>1. question \in Questions /\ n \in 0..3 /\ t \in SomeTarget
      BY <1>0, <2>1
    <3>2. question' = [question EXCEPT !.step = n, !.text = t]
      BY <2>2
    <3>3. /\ [question EXCEPT !.step = n, !.text = t] \in Questions
          /\ [question EXCEPT !.step = n, !.text = t].row = question.row
          /\ [question EXCEPT !.step = n, !.text = t].text = t
      BY <3>1, StepTaken, Zenon
    <3> QED
      BY <3>2, <3>3, Zenon
  <2>4. RowAskedFor' = RowAskedFor /\ (Steady' => Steady)
    BY <1>b, <2>2, <2>3 DEF RowAskedFor, Steady
  <2> QED
    BY <1>a, <1>b, <1>u, <2>1, <2>2, <2>3, <2>4 DEF Meant, Sincere
<1>4. CASE Withdraw
  <2>1. question'.step = 0 /\ question.step > 0
    <3>1. question' = [question EXCEPT !.row = Elsewhere, !.step = 0] /\ 0 \in 0..3
      BY <1>4 DEF Withdraw
    <3>2. question \in Questions /\ Elsewhere \in SomeTarget
      BY <1>0
    <3>3. [question EXCEPT !.row = Elsewhere, !.step = 0].step = 0
      BY <3>1, <3>2, QuestionWithdrawn, Zenon
    <3>4. question'.step = 0
      BY <3>1, <3>3, Zenon
    <3> QED
      BY <1>4, <3>4 DEF Withdraw
  <2>2. button.steps # 0
    BY <1>a, <2>1, NoQuestionFacts DEF Sincere
  <2> QED
    BY <1>4, <1>b, <1>u, <2>1, <2>2 DEF Withdraw, Meant, Sincere
<1>5. ASSUME NEW r \in Targets, ActOn(r) PROVE Meant'
  <2>1. UNCHANGED <<onPage, wandered>> /\ question' \in {question, NoQuestion}
    BY <1>5 DEF ActOn
  <2>2. Sincere'
    BY <1>k, <1>n, <2>1
  <2>3. ASSUME NEW p \in requests', p.row = r, p.text = question.text,
               p.meant = (IF button.steps > 0 THEN question.row ELSE r), Steady
        PROVE  p.row = p.meant /\ p.text \in {Elsewhere, p.row}
    <3>1. CASE button.steps > 0
      <4>1. question.step > 0 /\ r = RowAskedFor
        BY <1>5, <3>1 DEF ActOn
      <4> QED
        BY <1>a, <2>3, <3>1, <4>1 DEF Sincere
    <3>2. CASE ~(button.steps > 0)
      <4>1. button.steps = 0
        BY <1>0, <3>2 DEF ButtonKnown
      <4> QED
        BY <1>a, <2>3, <3>2, <4>1, NoQuestionFacts DEF Sincere
    <3> QED
      BY <3>1, <3>2
  <2>4. ~Steady => button'.holds = "page" /\ wandered'
    BY <1>0, <1>b DEF Steady, ButtonKnown
  <2>5. ASSUME NEW p \in requests'
        PROVE  \/ p.row = p.meant /\ p.text \in {Elsewhere, p.row}
               \/ button'.holds = "page" /\ wandered'
    <3>1. ASSUME NEW q \in requests, SameAsk(p, q)
          PROVE  \/ p.row = p.meant /\ p.text \in {Elsewhere, p.row}
                 \/ button'.holds = "page" /\ wandered'
      BY <1>a, <1>b, <3>1 DEF ActsOnWhatWasMeant, SameAsk
    <3>2. CASE /\ p.row = r /\ p.text = question.text
               /\ p.meant = (IF button.steps > 0 THEN question.row ELSE r)
      BY <2>3, <2>4, <3>2
    <3> QED
      BY <1>5, <3>1, <3>2, ActOnMakes
  <2> QED
    BY <2>2, <2>5 DEF Meant, ActsOnWhatWasMeant
<1>6. ASSUME NEW q \in requests, ServeAction(q) PROVE Meant'
  <2>1. SameAsk([q EXCEPT !.served = TRUE], q)
    BY <1>0, RequestMoves
  <2>2. ActsOnWhatWasMeant'
    BY <1>6, <1>s, <2>1 DEF ServeAction, SameAsk
  <2> QED
    BY <1>6, <1>k, <2>2 DEF ServeAction, Meant
<1>7. ASSUME NEW q \in requests, ActionAnswered(q) PROVE Meant'
  <2>1. requests' = Forget(requests \ {q}) \/ requests' = Without(q)
    BY <1>7 DEF ActionAnswered
  <2>2. \A p \in requests' : \E o \in requests : SameAsk(p, o)
    BY <1>0, <2>1, ForgetKeeps, WithoutKeeps
  <2>3. question' = NoQuestion \/ UNCHANGED <<question, onPage, wandered>>
    BY <1>7 DEF ActionAnswered
  <2> QED
    BY <1>k, <1>n, <1>s, <2>2, <2>3 DEF Meant
<1>8. ASSUME NEW q \in requests, ActionFails(q) PROVE Meant'
  <2>1. \A p \in requests' : \E o \in requests : SameAsk(p, o)
    BY <1>0, <1>8, WithoutKeeps DEF ActionFails
  <2> QED
    BY <1>8, <1>k, <1>s, <2>1 DEF ActionFails, Meant
<1>9. ASSUME NEW r \in Targets, Wander(r) PROVE Meant'
  <2>1. /\ onPage # Elsewhere /\ onPage' # Elsewhere /\ wandered' = TRUE
        /\ UNCHANGED <<question, requests>>
    BY <1>0, <1>9 DEF Wander
  <2>2. Steady' => Steady /\ RowAskedFor' = RowAskedFor
    BY <1>b, <2>1 DEF Steady, RowAskedFor
  <2> QED
    BY <1>a, <1>b, <1>u, <2>1, <2>2 DEF Meant, Sincere
<1>10. ASSUME NEW r \in Targets, VisitRow(r) PROVE Meant'
  <2>1. question.step = 0 /\ UNCHANGED <<question, requests>>
    BY <1>10, <1>a DEF VisitRow, Sincere
  <2> QED
    BY <1>a, <1>b, <1>u, <2>1 DEF Meant, Sincere
<1>11. CASE LeaveRow
  <2>1. \A p \in requests' : \E o \in requests : SameAsk(p, o)
    BY <1>0, <1>11, ForgetKeeps DEF LeaveRow
  <2> QED
    BY <1>11, <1>n, <1>s, <2>1 DEF LeaveRow, Meant
<1>12. CASE UNCHANGED actionVars
  BY <1>12, <1>k, <1>u DEF actionVars, Meant
<1> QED
  BY <1>1, <1>2, <1>3, <1>4, <1>5, <1>6, <1>7, <1>8, <1>9, <1>10, <1>11, <1>12 DEF RowActionsNext

\* A request acts on the row the user was asked about, with the text typed for
\* that row, unless it is of a page whose address came to name another row.
THEOREM ActsAreMeant == RowActionsSpec => []ActsOnWhatWasMeant
<1>1. RowActionsInit => Meant
  BY NoQuestionFacts DEF RowActionsInit, Meant, Sincere, ActsOnWhatWasMeant
<1>2. Meant => ActsOnWhatWasMeant
  BY DEF Meant
<1> QED
  BY <1>1, <1>2, MeantStep, ActionsInvAlways, PTL DEF RowActionsSpec

------------------------------------------------------------------------------
(* Voting *)

Votings == [page : Pages, card : Cards, asks : {"vote", "unvote"},
            at : {"sent", "counted", "served"}]

\* A request that gets further is the same request.
LEMMA ReachTyped ==
  ASSUME NEW v \in Votings, NEW step \in {"sent", "counted", "served"}
  PROVE  [v EXCEPT !.at = step] \in Votings
  BY Zenon DEF Votings

LEMMA VotingInitTyped == RetroVotingInit => RetroVotingTypeOK
<1> SUFFICES ASSUME RetroVotingInit PROVE RetroVotingTypeOK
  OBVIOUS
<1>1. votes = {} /\ my_vote \in [Pages -> SUBSET Cards] /\ voting = {}
  BY DEF RetroVotingInit
<1>2. votings \in 0..MaxVotings
  BY RetroVotingAssumption DEF RetroVotingInit
<1> QED
  BY <1>1, <1>2 DEF RetroVotingTypeOK

LEMMA VotingNextTyped == RetroVotingTypeOK /\ [RetroVotingNext]_voteVars => RetroVotingTypeOK'
<1> SUFFICES ASSUME RetroVotingTypeOK, [RetroVotingNext]_voteVars PROVE RetroVotingTypeOK'
  OBVIOUS
<1>0. /\ votes \subseteq Cards /\ my_vote \in [Pages -> SUBSET Cards]
      /\ voting \subseteq Votings /\ votings \in 0..MaxVotings
  BY DEF RetroVotingTypeOK, Votings
<1> SUFFICES /\ votes' \subseteq Cards /\ my_vote' \in [Pages -> SUBSET Cards]
             /\ voting' \subseteq Votings /\ votings' \in 0..MaxVotings
  BY DEF RetroVotingTypeOK, Votings
<1>1. ASSUME NEW v \in Votings, NEW step \in {"sent", "counted", "served"}, Reach(v, step)
      PROVE  voting' \subseteq Votings
  BY <1>0, <1>1, ReachTyped DEF Reach
<1>2. ASSUME NEW p \in Pages, NEW c \in Cards, clickVote(p, c)
      PROVE  voting' \subseteq Votings /\ votings' \in 0..MaxVotings
  BY <1>0, <1>2, RetroVotingAssumption DEF clickVote, Votings
<1>3. ASSUME NEW v \in voting, CountUserRetroVotes(v)
      PROVE  voting' \subseteq Votings
  BY <1>0, <1>1, <1>3 DEF CountUserRetroVotes
<1>4. ASSUME NEW v \in voting, CastRetroVote(v)
      PROVE  voting' \subseteq Votings /\ votes' \subseteq Cards
  <2>1. v.card \in Cards
    BY <1>0 DEF Votings
  <2> QED
    BY <1>0, <1>1, <1>4, <2>1 DEF CastRetroVote
<1>5. ASSUME NEW v \in voting, RetractRetroVote(v)
      PROVE  voting' \subseteq Votings /\ votes' \subseteq Cards
  BY <1>0, <1>1, <1>5 DEF RetractRetroVote
<1>6. ASSUME NEW v \in voting, VoteAnswered(v)
      PROVE  voting' \subseteq Votings /\ my_vote' \in [Pages -> SUBSET Cards]
  BY <1>0, <1>6 DEF VoteAnswered, Votings
<1> QED
  BY <1>0, <1>2, <1>3, <1>4, <1>5, <1>6
  DEF RetroVotingNext, voteVars, clickVote, CountUserRetroVotes, CastRetroVote,
      RetractRetroVote, VoteAnswered

\* Votes, what the pages show of them and the requests keep to their sets.
THEOREM RetroVotingTyped == RetroVotingSpec => []RetroVotingTypeOK
<1> QED
  BY VotingInitTyped, VotingNextTyped, PTL DEF RetroVotingSpec

------------------------------------------------------------------------------
(* The limit, one vote at a time *)

\* No two votes are between the server's count and its INSERT.
OneCountAtATime == \A v, w \in voting : v.at = "counted" /\ w.at = "counted" => v = w

\* There is room for a vote that has been counted.
RoomForCounted ==
    /\ IsFiniteSet(votes) /\ Cardinality(votes) <= MAX_VOTES
    /\ (\E v \in voting : v.at = "counted") => Cardinality(votes) < MAX_VOTES

LEMMA RoomForCountedNext ==
  RetroVotingTypeOK /\ RoomForCounted /\ OneCountAtATime /\ [RetroVotingNext]_voteVars
      => RoomForCounted'
<1> SUFFICES ASSUME RetroVotingTypeOK, RoomForCounted, OneCountAtATime,
                    [RetroVotingNext]_voteVars
             PROVE  RoomForCounted'
  OBVIOUS
<1>0. voting \subseteq Votings /\ MAX_VOTES \in Nat /\ Cardinality(votes) \in Nat
  BY RetroVotingAssumption, FS_CardinalityType DEF RetroVotingTypeOK, Votings, RoomForCounted
<1>r. ASSUME NEW v \in voting, NEW step \in {"counted", "served"}, Reach(v, step)
      PROVE  /\ [v EXCEPT !.at = step].at = step
             /\ \A w \in voting' : w.at = "counted" =>
                   w \in voting \ {v} \/ step = "counted"
  <2>1. [v EXCEPT !.at = step].at = step
    BY <1>0 DEF Votings
  <2> QED
    BY <1>r, <2>1 DEF Reach
<1>1. ASSUME NEW p \in Pages, NEW c \in Cards, clickVote(p, c) PROVE RoomForCounted'
  BY <1>1 DEF clickVote, RoomForCounted
<1>2. ASSUME NEW v \in voting, CountUserRetroVotes(v) PROVE RoomForCounted'
  <2>1. CASE Cardinality(votes) >= MAX_VOTES
    BY <1>0, <1>2, <1>r, <2>1 DEF CountUserRetroVotes, RoomForCounted
  <2>2. CASE Cardinality(votes) < MAX_VOTES
    BY <1>2, <2>2 DEF CountUserRetroVotes, RoomForCounted
  <2> QED
    BY <1>0, <2>1, <2>2
<1>3. ASSUME NEW v \in voting, CastRetroVote(v) PROVE RoomForCounted'
  <2>1. IsFiniteSet(votes') /\ Cardinality(votes') <= Cardinality(votes) + 1
    <3>1. /\ IsFiniteSet(votes \cup {v.card})
          /\ Cardinality(votes \cup {v.card}) \in {Cardinality(votes), Cardinality(votes) + 1}
      BY FS_AddElement DEF RoomForCounted
    <3> QED
      BY <1>0, <1>3, <3>1 DEF CastRetroVote
  <2>2. \A w \in voting' : w.at # "counted"
    BY <1>3, <1>r DEF CastRetroVote, OneCountAtATime
  <2>3. Cardinality(votes) < MAX_VOTES /\ Cardinality(votes') \in Nat
    BY <1>3, <2>1, FS_CardinalityType DEF CastRetroVote, RoomForCounted
  <2> QED
    BY <1>0, <2>1, <2>2, <2>3, <1>3 DEF RoomForCounted, CastRetroVote
<1>4. ASSUME NEW v \in voting, RetractRetroVote(v) PROVE RoomForCounted'
  <2>1. /\ IsFiniteSet(votes \ {v.card}) /\ Cardinality(votes \ {v.card}) \in Nat
        /\ Cardinality(votes \ {v.card}) <= Cardinality(votes)
    BY FS_Subset, FS_CardinalityType DEF RoomForCounted
  <2> QED
    BY <1>0, <1>4, <1>r, <2>1 DEF RetractRetroVote, RoomForCounted
<1>5. ASSUME NEW v \in voting, VoteAnswered(v) PROVE RoomForCounted'
  BY <1>5 DEF VoteAnswered, RoomForCounted
<1>6. CASE UNCHANGED voteVars
  BY <1>6 DEF voteVars, RoomForCounted
<1> QED
  BY <1>1, <1>2, <1>3, <1>4, <1>5, <1>6 DEF RetroVotingNext

\* The server's count and its INSERT overlapping those of another vote is the
\* only way past the limit: where it does not happen, VotesWithinLimit holds
\* for any number of cards and clicks, whatever the pages show.
THEOREM OneVoteAtATimeKeepsTheLimit ==
  RetroVotingSpec /\ []OneCountAtATime => []VotesWithinLimit
<1>1. RetroVotingInit => RoomForCounted
  <2> SUFFICES ASSUME RetroVotingInit PROVE RoomForCounted
    OBVIOUS
  <2>1. votes = {} /\ voting = {}
    BY DEF RetroVotingInit
  <2> QED
    BY <2>1, RetroVotingAssumption, FS_EmptySet DEF RoomForCounted
<1>2. RoomForCounted => VotesWithinLimit
  BY DEF RoomForCounted, VotesWithinLimit
<1> QED
  BY <1>1, <1>2, VotingInitTyped, VotingNextTyped, RoomForCountedNext, PTL DEF RetroVotingSpec
=============================================================================
