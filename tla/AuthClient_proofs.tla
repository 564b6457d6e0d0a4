-------------------------- MODULE AuthClient_proofs --------------------------
(***************************************************************************)
(* Proofs about AuthClient, for any number of tabs, slots and tokens: one   *)
(* refresh at a time per tab, nobody waits without one, and the cookie jar  *)
(* agrees with the server in whatever order answers arrive.                 *)
(***************************************************************************)
EXTENDS AuthClient, TLAPS

AllKinds == PageKinds \cup {"refresh"}
Cookies == {NoCookie} \cup Tokens

------------------------------------------------------------------------------
(* The records of calls *)

\* What each constructor returns, field by field.
LEMMA SentFields ==
    ASSUME NEW k, NEW r, NEW token, NEW c
    PROVE  /\ Sent(k, r, token, c).kind = k
           /\ Sent(k, r, token, c).phase = "sent"
           /\ Sent(k, r, token, c).retried = r
           /\ Sent(k, r, token, c).cookie \in {c, NoCookie}
BY DEF Sent

\* The same of an answer.
LEMMA AnsweredFields ==
    ASSUME NEW k, NEW r, NEW c, NEW st, NEW set
    PROVE  /\ Answered(k, r, c, st, set).kind = k
           /\ Answered(k, r, c, st, set).phase = "answered"
           /\ Answered(k, r, c, st, set).set = set
           /\ Answered(k, r, c, st, set).cookie = IF set = Keep THEN NoCookie ELSE c
BY DEF Answered

\* The request's constructor builds calls.
LEMMA SentIntro ==
    ASSUME NEW k \in AllKinds, NEW r \in BOOLEAN, NEW token, NEW c \in Cookies
    PROVE  Sent(k, r, token, c) \in Call
BY DEF Sent, Call, AllKinds, Cookies

\* So does the answer's.
LEMMA AnsweredIntro ==
    ASSUME NEW k \in AllKinds, NEW r \in BOOLEAN, NEW c \in Cookies,
           NEW st \in {"ok", "401", "failed"}, NEW set \in {Keep} \cup Cookies
    PROVE  Answered(k, r, c, st, set) \in Call
BY DEF Answered, Call, AllKinds, Cookies

\* And the waiting call's.
LEMMA WaitingIntro ==
    ASSUME NEW k \in AllKinds
    PROVE  Waiting(k) \in Call /\ Waiting(k).kind = k /\ Waiting(k).phase = "waiting"
BY DEF Waiting, Call, AllKinds

\* The empty slot is a call without kind.
LEMMA NoneFacts == None \in Call /\ None.kind = "none" /\ None.phase = "none"
BY DEF None, Call

\* What the phase of a call says of its other fields.
LEMMA CallElim ==
    ASSUME NEW c \in Call
    PROVE  /\ c.phase \in {"none", "sent", "answered", "waiting"}
           /\ c.phase = "none" => c = None
           /\ c.phase # "none" => c.kind \in AllKinds
           /\ c.phase \in {"sent", "answered"} => c.retried \in BOOLEAN /\ c.cookie \in Cookies
           /\ c.phase = "answered" => c.set \in {Keep} \cup Cookies
<1>1. CASE c = None
  BY <1>1 DEF None
<1>2. CASE c \in [kind : PageKinds \cup {"refresh"}, phase : {"sent"}, retried : BOOLEAN,
                  bearer : BOOLEAN, cookie : {NoCookie} \cup Tokens]
  BY <1>2 DEF AllKinds, Cookies
<1>3. CASE c \in [kind : PageKinds \cup {"refresh"}, phase : {"answered"}, retried : BOOLEAN,
                  cookie : {NoCookie} \cup Tokens, status : {"ok", "401", "failed"},
                  set : {Keep, NoCookie} \cup Tokens]
  BY <1>3 DEF AllKinds, Cookies
<1>4. CASE c \in [kind : PageKinds \cup {"refresh"}, phase : {"waiting"}]
  BY <1>4 DEF AllKinds
<1> QED BY <1>1, <1>2, <1>3, <1>4 DEF Call

\* Waking resends waiting calls, or drops them, and touches no other.
LEMMA WakeFacts ==
    ASSUME NEW calls \in [Slots -> Call], NEW t \in Tabs, NEW token, NEW c \in Cookies,
           NEW s \in Slots
    PROVE  /\ Wake(calls, t, token, c) \in [Slots -> Call]
           /\ TabOf[s] = t /\ calls[s].phase = "waiting" =>
                \/ Wake(calls, t, token, c)[s] = Sent(calls[s].kind, TRUE, token, c)
                \/ Wake(calls, t, token, c)[s] = None
           /\ ~(TabOf[s] = t /\ calls[s].phase = "waiting") =>
                Wake(calls, t, token, c)[s] = calls[s]
<1>1. \A r \in Slots : calls[r].phase = "waiting" =>
        Sent(calls[r].kind, TRUE, token, c) \in Call
  BY CallElim, SentIntro
<1> QED BY <1>1, NoneFacts DEF Wake

------------------------------------------------------------------------------
(* Types *)

\* The jar after an answer holds a token or nothing.
LEMMA NewJarType ==
    ASSUME TypeOK, NEW s \in Slots, Arrived(s)
    PROVE  NewJar(s) \in Cookies
BY CallElim DEF TypeOK, Arrived, NewJar, Cookies

\* A server's answer to a call that is on its way is well formed.
LEMMA AnswerType ==
    ASSUME TypeOK, NEW s \in Slots, call[s].phase \in {"sent", "answered"},
           NEW st \in {"ok", "401", "failed"}, NEW set \in {Keep} \cup Cookies,
           NEW A \in SUBSET Tokens, NEW L \in SUBSET Tokens,
           Answer(s, st, set), Server(A, L), ClientUnchanged
    PROVE  TypeOK'
<1>1. Answered(call[s].kind, call[s].retried, call[s].cookie, st, set) \in Call
  BY CallElim, AnsweredIntro DEF TypeOK
<1>2. call' \in [Slots -> Call]
  BY <1>1 DEF Answer, TypeOK
<1>3. live' \subseteq Tokens /\ excused' \subseteq Tokens
  BY DEF Server
<1> QED BY <1>2, <1>3 DEF TypeOK, ClientUnchanged

\* A step of the server, or the loss of an answer: a new token is fresh and
\* accepted, and no token but the presented one leaves the server's sets; that
\* one is replaced, or lost, or stays.
Served(s, st, set, A, L) ==
    /\ Answer(s, st, set) /\ Server(A, L) /\ ClientUnchanged
    /\ call[s].phase \in {"sent", "answered"}
    /\ set \in Tokens => Fresh(set) /\ set \in A /\ call[s].phase = "sent"
    /\ \A x \in live \cup excused : x # call[s].cookie => x \in A \cup L
    /\ set = Keep /\ call[s].cookie \in Tokens =>
          \/ call[s].cookie \in A \cup L
          \/ call[s].phase = "sent" /\ call[s].cookie \notin live \cup excused

\* Every answer of the server, and its loss, has this shape.
LEMMA ServeShape ==
    ASSUME TypeOK, NEW s \in Slots, Serve(s) \/ Lose(s)
    PROVE  \E st \in {"ok", "401", "failed"}, set \in {Keep} \cup Cookies :
           \E A \in SUBSET Tokens, L \in SUBSET Tokens : Served(s, st, set, A, L)
<1> USE DEF Serving
<1>1. /\ live \in SUBSET Tokens /\ excused \in SUBSET Tokens
      /\ Keep \notin Tokens /\ NoCookie \notin Tokens /\ Keep # NoCookie
      /\ Keep \in {Keep} \cup Cookies /\ NoCookie \in {Keep} \cup Cookies
  BY DEF TypeOK, Tokens, Keep, Cookies, NoCookie
<1>2. ASSUME NEW st, NEW set \in {Keep, NoCookie},
             Answer(s, st, set), ServerUnchanged, ClientUnchanged, call[s].phase = "sent"
      PROVE  Served(s, st, set, live, excused)
  <2>1. set \notin Tokens
    BY <1>1, <1>2
  <2> QED BY <1>2, <2>1 DEF Served, ServerUnchanged
<1>3. CASE RefreshInactive(s) \/ ServeFails(s)
  <2>1. Served(s, "failed", NoCookie, live, excused) \/ Served(s, "failed", Keep, live, excused)
    BY <1>2, <1>3 DEF RefreshInactive, ServeFails
  <2> QED BY <1>1, <2>1
<1>31. CASE RefreshExpired(s)
  <2>1. Served(s, "401", NoCookie, live, excused)
    BY <1>2, <1>31 DEF RefreshExpired
  <2> QED BY <1>1, <2>1
<1>32. CASE ServeUnauthorized(s) \/ WrongPassword(s) \/ RefreshMissing(s)
  <2>1. Served(s, "401", Keep, live, excused)
    BY <1>2, <1>32 DEF ServeUnauthorized, WrongPassword, RefreshMissing
  <2> QED BY <1>1, <2>1
<1>33. CASE ServePage(s)
  <2>1. Served(s, "ok", Keep, live, excused)
    BY <1>2, <1>33 DEF ServePage
  <2> QED BY <1>1, <2>1
<1>4. CASE ServeLogout(s)
  <2>1. Served(s, "ok", NoCookie, live \ {call[s].cookie}, excused)
    BY <1>1, <1>4 DEF ServeLogout, Served
  <2>2. live \ {call[s].cookie} \in SUBSET Tokens
    BY <1>1
  <2> QED BY <1>1, <2>1, <2>2
<1>5. CASE \E n \in Tokens : ServeLogin(s, n)
  <2>1. PICK n \in Tokens : ServeLogin(s, n)
    BY <1>5
  <2>2. Served(s, "ok", n, live \cup {n}, excused)
    BY <1>1, <2>1 DEF ServeLogin, Served
  <2>3. n \in {Keep} \cup Cookies /\ live \cup {n} \in SUBSET Tokens
    BY <1>1 DEF Cookies
  <2> QED BY <1>1, <2>2, <2>3
<1>6. CASE \E n \in Tokens : ServeRefresh(s, n)
  <2>1. PICK n \in Tokens : ServeRefresh(s, n)
    BY <1>6
  <2>2. Served(s, "ok", n, (live \ {call[s].cookie}) \cup {n}, excused)
    BY <1>1, <2>1 DEF ServeRefresh, Served
  <2>3. n \in {Keep} \cup Cookies
    BY DEF Cookies
  <2>4. (live \ {call[s].cookie}) \cup {n} \in SUBSET Tokens
    BY <1>1
  <2> QED BY <1>1, <2>2, <2>3, <2>4
<1>7. CASE RefreshReused(s)
  <2>1. Served(s, "401", NoCookie, {}, Tokens)
    BY <1>1, <1>7 DEF RefreshReused, Served
  <2>2. {} \in SUBSET Tokens
    OBVIOUS
  <2>3. Tokens \in SUBSET Tokens
    OBVIOUS
  <2> QED BY <1>1, <2>1, <2>2, <2>3
<1>8. CASE RefreshHalf(s)
  <2>1. Served(s, "failed", Keep, live \ {call[s].cookie}, excused \cup {call[s].cookie})
    BY <1>1, <1>8 DEF RefreshHalf, Served
  <2>2. /\ live \ {call[s].cookie} \in SUBSET Tokens
        /\ excused \cup {call[s].cookie} \in SUBSET Tokens
    BY <1>1, <1>8 DEF RefreshHalf
  <2> QED BY <1>1, <2>1, <2>2
<1>9. CASE Lose(s)
  <2>1. Served(s, "failed", Keep, live, excused \cup ({call[s].cookie} \cap Tokens))
    BY <1>1, <1>9 DEF Lose, Arrived, Served
  <2>2. excused \cup ({call[s].cookie} \cap Tokens) \in SUBSET Tokens
    BY <1>1
  <2> QED BY <1>1, <2>1, <2>2
<1> QED BY <1>3, <1>31, <1>32, <1>33, <1>4, <1>5, <1>6, <1>7, <1>8, <1>9 DEF Serve

\* The initial state is well typed.
LEMMA InitType == Init => TypeOK
<1>1. 1 \in Tokens
  BY ClientAssumption DEF Tokens
<1> QED BY <1>1, NoneFacts DEF Init, TypeOK, Access

\* Every step keeps the types.
LEMMA NextType == TypeOK /\ [Next]_vars => TypeOK'
<1> SUFFICES ASSUME TypeOK, [Next]_vars PROVE TypeOK'
  OBVIOUS
<1>1. jar \in Cookies /\ TabOf \in [Slots -> Tabs] /\ call \in [Slots -> Call]
  BY ClientAssumption DEF TypeOK, Cookies
<1>2. ASSUME NEW s \in Slots, NEW k \in Kinds, Start(s, k) PROVE TypeOK'
  <2>1. Sent(k, FALSE, access[TabOf[s]], jar) \in Call
    BY <1>1, SentIntro, ClientAssumption DEF AllKinds
  <2> QED BY <1>2, <2>1 DEF Start, TypeOK
<1>3. ASSUME NEW t \in Tabs, Expire(t) PROVE TypeOK'
  <2>1. \A s \in Slots : call[s].phase = "sent" =>
          Sent(call[s].kind, call[s].retried, "stale", call[s].cookie) \in Call
    BY <1>1, CallElim, SentIntro
  <2>2. call' \in [Slots -> Call]
    BY <1>1, <1>3, <2>1 DEF Expire
  <2> QED BY <1>3, <2>2 DEF Expire, TypeOK, Access
<1>4. ASSUME NEW s \in Slots, Serve(s) \/ Lose(s) PROVE TypeOK'
  <2>1. PICK st \in {"ok", "401", "failed"}, set \in {Keep} \cup Cookies :
        \E A \in SUBSET Tokens, L \in SUBSET Tokens : Served(s, st, set, A, L)
    BY <1>4, ServeShape
  <2>2. PICK A \in SUBSET Tokens, L \in SUBSET Tokens : Served(s, st, set, A, L)
    BY <2>1
  <2> QED BY <2>2, AnswerType DEF Served
<1>5. ASSUME NEW s \in Slots, Arrive(s) PROVE TypeOK'
  <2>1. Arrived(s)
    BY <1>5 DEF Arrive, Succeed, Unauthorized, Reject, RefreshSucceeds, RefreshFails, Rejected
  <2>2. NewJar(s) \in Cookies /\ call[s].kind \in AllKinds /\ TabOf[s] \in Tabs
    BY <1>1, <2>1, NewJarType, CallElim DEF Arrived
  <2>3. live' \subseteq Tokens /\ excused' \subseteq Tokens /\ jar' \in Cookies
    BY <1>5, <2>2 DEF Arrive, Succeed, Unauthorized, Reject, RefreshSucceeds, RefreshFails,
                      ServerUnchanged, Server, TypeOK
  <2>4. access' \in [Tabs -> Access] /\ promise' \in [Tabs -> BOOLEAN]
    BY <1>5, <2>2 DEF Arrive, Succeed, Unauthorized, Reject, RefreshSucceeds, RefreshFails,
                      TypeOK, Access
  <2>5. call' \in [Slots -> Call]
    <3>1. CASE Succeed(s) \/ Reject(s)
      BY <1>1, <3>1, NoneFacts DEF Succeed, Reject
    <3>2. CASE Unauthorized(s)
      <4>1. Sent("refresh", FALSE, access[TabOf[s]], NewJar(s)) \in Call
        BY <2>2, SentIntro DEF AllKinds
      <4>2. Waiting(call[s].kind) \in Call
        BY <2>2, WaitingIntro
      <4> QED BY <1>1, <3>2, <4>1, <4>2 DEF Unauthorized, SlotsOf
    <3>3. CASE RefreshSucceeds(s)
      <4>1. [call EXCEPT ![s] = None] \in [Slots -> Call]
        BY <1>1, NoneFacts
      <4> QED BY <2>2, <3>3, <4>1, WakeFacts DEF RefreshSucceeds
    <3>4. CASE RefreshFails(s)
      <4>1. [call EXCEPT ![s] = Sent("logout", FALSE, access[TabOf[s]], NewJar(s))]
              \in [Slots -> Call]
        BY <1>1, <2>2, SentIntro DEF AllKinds, PageKinds
      <4> QED BY <2>2, <3>4, <4>1, WakeFacts DEF RefreshFails
    <3> QED BY <1>5, <3>1, <3>2, <3>3, <3>4 DEF Arrive
  <2> QED BY <2>3, <2>4, <2>5 DEF TypeOK, Cookies
<1>6. CASE UNCHANGED vars
  BY <1>6 DEF vars, TypeOK
<1> QED BY <1>2, <1>3, <1>4, <1>5, <1>6 DEF Next

\* Tokens, calls and the jar always have their types.
THEOREM TypeCorrect == Spec => []TypeOK
BY InitType, NextType, PTL DEF Spec

------------------------------------------------------------------------------
(* One refresh at a time *)

SingleFlightInv == OneRefreshPerTab /\ WaitersHaveARefresh

\* A step that neither starts nor ends a refresh, and makes no call wait.
LEMMA SameFlight ==
    ASSUME SingleFlightInv, promise' = promise,
           \A s \in Slots : /\ call'[s].kind = "refresh" <=> call[s].kind = "refresh"
                            /\ call'[s].phase = "waiting" => call[s].phase = "waiting"
    PROVE  SingleFlightInv'
BY DEF SingleFlightInv, OneRefreshPerTab, WaitersHaveARefresh, SlotsOf

\* The answer of a refresh ends the only refresh of its tab and wakes all that
\* wait for it.
LEMMA EndOfFlight ==
    ASSUME TypeOK, SingleFlightInv,
           NEW s \in Slots, call[s].kind = "refresh", Arrived(s),
           NEW c \in Call, c.kind # "refresh", c.phase # "waiting",
           NEW token, NEW cookie \in Cookies,
           call' = Wake([call EXCEPT ![s] = c], TabOf[s], token, cookie),
           promise' = [promise EXCEPT ![TabOf[s]] = FALSE]
    PROVE  SingleFlightInv'
<1>1. TabOf \in [Slots -> Tabs] /\ call \in [Slots -> Call] /\ promise \in [Tabs -> BOOLEAN]
  BY ClientAssumption DEF TypeOK
<1> DEFINE calls == [call EXCEPT ![s] = c]
<1>2. calls[s] = c /\ \A r \in Slots \ {s} : calls[r] = call[r]
  BY <1>1
<1>3. ASSUME NEW r \in Slots
       PROVE  /\ TabOf[r] = TabOf[s] /\ calls[r].phase = "waiting" =>
                   \/ call'[r] = Sent(calls[r].kind, TRUE, token, cookie)
                   \/ call'[r] = None
              /\ ~(TabOf[r] = TabOf[s] /\ calls[r].phase = "waiting") => call'[r] = calls[r]
  BY DEF Wake
<1> HIDE DEF calls
<1>4. ASSUME NEW r \in Slots, TabOf[r] = TabOf[s]
      PROVE  call'[r].kind # "refresh" /\ call'[r].phase # "waiting"
  <2>1. CASE r = s
    <3>1. call'[r] = c
      BY <1>2, <1>3, <2>1
    <3> QED BY <3>1
  <2>2. CASE r # s
    <3>1. calls[r] = call[r]
      BY <1>2, <2>2
    <3>2. call[r].kind # "refresh"
      BY <1>4, <2>2 DEF SingleFlightInv, OneRefreshPerTab
    <3>3. CASE call[r].phase = "waiting"
      <4>1. call'[r] \in {Sent(call[r].kind, TRUE, token, cookie), None}
        BY <1>4, <1>3, <3>1, <3>3
      <4> QED BY <3>2, <4>1, NoneFacts DEF Sent
    <3>4. CASE call[r].phase # "waiting"
      <4>1. call'[r] = call[r]
        BY <1>3, <3>1, <3>4
      <4> QED BY <3>2, <3>4, <4>1
    <3> QED BY <3>3, <3>4
  <2> QED BY <2>1, <2>2
<1>5. ASSUME NEW r \in Slots, TabOf[r] # TabOf[s]
      PROVE  call'[r] = call[r]
  <2>1. calls[r] = call[r]
    BY <1>2, <1>5
  <2> QED BY <1>5, <1>3, <2>1
<1>6. promise'[TabOf[s]] = FALSE /\ \A t \in Tabs \ {TabOf[s]} : promise'[t] = promise[t]
  BY <1>1
<1>7. OneRefreshPerTab'
  BY <1>4, <1>5 DEF SingleFlightInv, OneRefreshPerTab
<1>8. ASSUME NEW t \in Tabs
      PROVE  /\ promise'[t] <=> \E r \in SlotsOf(t) : call'[r].kind = "refresh"
             /\ \A r \in SlotsOf(t) : call'[r].phase = "waiting" => promise'[t]
  <2>1. CASE t = TabOf[s]
    BY <1>4, <1>6, <2>1 DEF SlotsOf
  <2>2. CASE t # TabOf[s]
    <3>1. \A r \in SlotsOf(t) : call'[r] = call[r]
      BY <1>5, <2>2 DEF SlotsOf
    <3> QED BY <1>6, <2>2, <3>1 DEF SingleFlightInv, WaitersHaveARefresh
  <2> QED BY <2>1, <2>2
<1>9. WaitersHaveARefresh'
  BY <1>8 DEF WaitersHaveARefresh, SlotsOf
<1> QED BY <1>7, <1>9 DEF SingleFlightInv

\* A 401 joins the refresh of its tab, or starts it where there is none.
LEMMA UnauthorizedFlight ==
    ASSUME TypeOK, SingleFlightInv, NEW s \in Slots, Unauthorized(s)
    PROVE  SingleFlightInv'
<1>1. TabOf \in [Slots -> Tabs] /\ call \in [Slots -> Call] /\ promise \in [Tabs -> BOOLEAN]
  BY ClientAssumption DEF TypeOK
<1>2. call[s].kind \in AllKinds /\ call[s].phase = "answered"
  BY <1>1, CallElim DEF Unauthorized, Arrived
<1>3. Waiting(call[s].kind).kind = call[s].kind
  BY <1>2, WaitingIntro
<1>4. promise'[TabOf[s]] /\ \A t \in Tabs \ {TabOf[s]} : promise'[t] = promise[t]
  BY <1>1 DEF Unauthorized
<1>5. CASE promise[TabOf[s]] /\ call' = [call EXCEPT ![s] = Waiting(call[s].kind)]
  <2>1. \A r \in Slots : /\ call'[r].kind = call[r].kind
                         /\ r # s => call'[r] = call[r]
    BY <1>1, <1>3, <1>5
  <2>2. \A t \in Tabs : promise'[t] = promise[t]
    BY <1>1, <1>4, <1>5
  <2>3. OneRefreshPerTab'
    BY <2>1 DEF SingleFlightInv, OneRefreshPerTab
  <2>4. ASSUME NEW t \in Tabs
        PROVE  /\ promise'[t] <=> \E r \in SlotsOf(t) : call'[r].kind = "refresh"
               /\ \A r \in SlotsOf(t) : call'[r].phase = "waiting" => promise'[t]
    <3>1. promise'[t] <=> \E r \in SlotsOf(t) : call'[r].kind = "refresh"
      BY <2>1, <2>2 DEF SingleFlightInv, WaitersHaveARefresh, SlotsOf
    <3>2. ASSUME NEW r \in SlotsOf(t), call'[r].phase = "waiting"
          PROVE  promise'[t]
      <4>1. CASE r = s
        BY <1>4, <3>2, <4>1 DEF SlotsOf
      <4>2. CASE r # s
        BY <2>1, <2>2, <3>2, <4>2 DEF SingleFlightInv, WaitersHaveARefresh, SlotsOf
      <4> QED BY <4>1, <4>2
    <3> QED BY <3>1, <3>2
  <2>5. WaitersHaveARefresh'
    BY <2>4 DEF WaitersHaveARefresh, SlotsOf
  <2> QED BY <2>3, <2>5 DEF SingleFlightInv
<1>6. ASSUME ~promise[TabOf[s]], NEW q \in SlotsOf(TabOf[s]), Free(q),
             call' = [call EXCEPT
                        ![s] = Waiting(call[s].kind),
                        ![q] = Sent("refresh", FALSE, access[TabOf[s]], NewJar(s))]
      PROVE  SingleFlightInv'
  <2>1. q \in Slots /\ TabOf[q] = TabOf[s] /\ q # s
    BY <1>2, <1>6, NoneFacts DEF SlotsOf, Free
  <2>2. call'[q] = Sent("refresh", FALSE, access[TabOf[s]], NewJar(s))
    BY <1>1, <1>6, <2>1
  <2>3. call'[q].kind = "refresh" /\ call'[q].phase = "sent"
    BY <2>2 DEF Sent
  <2>4. call'[s] = Waiting(call[s].kind)
    BY <1>1, <1>6, <2>1
  <2>5. \A r \in Slots \ {s, q} : call'[r] = call[r]
    BY <1>1, <1>6
  <2>6. \A r \in Slots : TabOf[r] = TabOf[s] => call[r].kind # "refresh"
    BY <1>1, <1>6 DEF SingleFlightInv, WaitersHaveARefresh, SlotsOf
  <2>7. call'[s].kind # "refresh"
    BY <1>3, <2>4, <2>6
  <2>8. ASSUME NEW r \in Slots, NEW u \in Slots, call'[r].kind = "refresh",
               call'[u].kind = "refresh", TabOf[r] = TabOf[u]
        PROVE  r = u
    <3>1. r # s /\ u # s
      BY <2>7, <2>8
    <3>2. CASE TabOf[r] = TabOf[s]
      BY <2>5, <2>6, <2>8, <3>1, <3>2
    <3>3. CASE TabOf[r] # TabOf[s]
      <4>1. call'[r] = call[r] /\ call'[u] = call[u]
        BY <2>1, <2>5, <2>8, <3>1, <3>3
      <4> QED BY <2>8, <4>1 DEF SingleFlightInv, OneRefreshPerTab
    <3> QED BY <3>2, <3>3
  <2>9. OneRefreshPerTab'
    BY <2>8 DEF OneRefreshPerTab
  <2>10. ASSUME NEW t \in Tabs
         PROVE  /\ promise'[t] <=> \E r \in SlotsOf(t) : call'[r].kind = "refresh"
                /\ \A r \in SlotsOf(t) : call'[r].phase = "waiting" => promise'[t]
    <3>1. CASE t = TabOf[s]
      BY <1>4, <2>1, <2>3, <3>1 DEF SlotsOf
    <3>2. CASE t # TabOf[s]
      <4>1. \A r \in SlotsOf(t) : call'[r] = call[r]
        BY <2>1, <2>5, <3>2 DEF SlotsOf
      <4> QED BY <1>4, <3>2, <4>1 DEF SingleFlightInv, WaitersHaveARefresh
    <3> QED BY <3>1, <3>2
  <2>11. WaitersHaveARefresh'
    BY <2>10 DEF WaitersHaveARefresh, SlotsOf
  <2> QED BY <2>9, <2>11 DEF SingleFlightInv
<1> QED BY <1>5, <1>6 DEF Unauthorized

\* Every step keeps the flight of each tab single.
LEMMA NextFlight == TypeOK /\ SingleFlightInv /\ [Next]_vars => SingleFlightInv'
<1> SUFFICES ASSUME TypeOK, SingleFlightInv, [Next]_vars PROVE SingleFlightInv'
  OBVIOUS
<1>1. call \in [Slots -> Call]
  BY DEF TypeOK
<1>2. ASSUME NEW s \in Slots, NEW k \in Kinds, Start(s, k) PROVE SingleFlightInv'
  <2>1. k # "refresh" /\ call[s].kind # "refresh"
    BY <1>2, ClientAssumption, NoneFacts DEF PageKinds, Start, Free
  <2>2. \A r \in Slots \ {s} : call'[r] = call[r]
    BY <1>1, <1>2 DEF Start
  <2>3. call'[s].kind = k /\ call'[s].phase = "sent"
    BY <1>1, <1>2 DEF Start, Sent
  <2> QED BY <1>2, <2>1, <2>2, <2>3, SameFlight DEF Start
<1>3. ASSUME NEW t \in Tabs, Expire(t) PROVE SingleFlightInv'
  <2>1. ASSUME NEW s \in Slots
        PROVE  call'[s].kind = call[s].kind /\ call'[s].phase = call[s].phase
    <3>1. \/ call'[s] = call[s]
          \/ /\ call[s].phase = "sent"
             /\ call'[s] = Sent(call[s].kind, call[s].retried, "stale", call[s].cookie)
      BY <1>3 DEF Expire
    <3> QED BY <3>1, SentFields
  <2> QED BY <1>3, <2>1, SameFlight DEF Expire
<1>4. ASSUME NEW s \in Slots, Serve(s) \/ Lose(s) PROVE SingleFlightInv'
  <2>1. PICK st \in {"ok", "401", "failed"}, set \in {Keep} \cup Cookies :
        \E A \in SUBSET Tokens, L \in SUBSET Tokens : Served(s, st, set, A, L)
    BY <1>4, ServeShape
  <2>2. \A r \in Slots \ {s} : call'[r] = call[r]
    BY <1>1, <2>1 DEF Served, Answer
  <2>3. call'[s] = Answered(call[s].kind, call[s].retried, call[s].cookie, st, set)
    BY <1>1, <2>1 DEF Served, Answer
  <2>4. call'[s].kind = call[s].kind /\ call'[s].phase = "answered"
    BY <2>3, AnsweredFields
  <2>5. promise' = promise
    BY <2>1 DEF Served, ClientUnchanged
  <2> QED BY <2>2, <2>4, <2>5, SameFlight
<1>5. ASSUME NEW s \in Slots, Succeed(s) \/ Reject(s) PROVE SingleFlightInv'
  <2>1. \A r \in Slots \ {s} : call'[r] = call[r]
    BY <1>1, <1>5 DEF Succeed, Reject
  <2>2. call'[s].kind # "refresh" /\ call[s].kind # "refresh" /\ call'[s].phase # "waiting"
    BY <1>1, <1>5, NoneFacts DEF Succeed, Reject
  <2>3. promise' = promise
    BY <1>5 DEF Succeed, Reject
  <2> QED BY <2>1, <2>2, <2>3, SameFlight
<1>6. ASSUME NEW s \in Slots, RefreshSucceeds(s) PROVE SingleFlightInv'
  <2>1. Arrived(s) /\ call[s].kind = "refresh" /\ NewJar(s) \in Cookies
    BY <1>6, NewJarType DEF RefreshSucceeds
  <2> QED BY <1>6, <2>1, NoneFacts, EndOfFlight DEF RefreshSucceeds
<1>7. ASSUME NEW s \in Slots, RefreshFails(s) PROVE SingleFlightInv'
  <2>1. Arrived(s) /\ call[s].kind = "refresh" /\ NewJar(s) \in Cookies
    BY <1>7, NewJarType DEF RefreshFails, Rejected
  <2>2. Sent("logout", FALSE, access[TabOf[s]], NewJar(s)) \in Call
    BY <2>1, SentIntro DEF AllKinds, PageKinds
  <2>3. /\ Sent("logout", FALSE, access[TabOf[s]], NewJar(s)).kind # "refresh"
        /\ Sent("logout", FALSE, access[TabOf[s]], NewJar(s)).phase # "waiting"
    BY DEF Sent
  <2> QED BY <1>7, <2>1, <2>2, <2>3, EndOfFlight DEF RefreshFails
<1>8. CASE UNCHANGED vars
  <2>1. call' = call /\ promise' = promise
    BY <1>8 DEF vars
  <2> QED BY <2>1, SameFlight
<1> QED BY <1>2, <1>3, <1>4, <1>5, <1>6, <1>7, <1>8, UnauthorizedFlight DEF Next, Arrive

\* The single-flight refresh of client.ts: at most one refresh per tab, and a
\* call waits only while there is one to wake it.
THEOREM SingleFlight == Spec => [](OneRefreshPerTab /\ WaitersHaveARefresh)
<1>1. Init => SingleFlightInv
  <2>1. Init => \A s \in Slots : call[s].kind # "refresh" /\ call[s].phase # "waiting"
    BY NoneFacts DEF Init
  <2> QED BY <2>1 DEF Init, SingleFlightInv, OneRefreshPerTab, WaitersHaveARefresh, SlotsOf
<1>2. SingleFlightInv => OneRefreshPerTab /\ WaitersHaveARefresh
  BY DEF SingleFlightInv
<1> QED BY <1>1, <1>2, InitType, NextType, NextFlight, PTL DEF Spec

\* So a call that waits is never left without a refresh whose end wakes it.
COROLLARY WaitersAreWoken == Spec => []WaitersHaveARefresh
BY SingleFlight, PTL

------------------------------------------------------------------------------
(* The jar and the server *)

\* JarFollowsServer alone is not inductive: the answer that brings a new token
\* must bring one that the server accepts and that nobody else can spend, for no
\* other request may take it out of the server's sets on its way.
SetsAreFresh ==
    \A s \in Slots : Arrived(s) /\ call[s].set \in Tokens =>
        /\ call[s].set \in live \cup excused
        /\ call[s].set # jar
        /\ \A r \in Slots : call[r].phase \in {"sent", "answered"} =>
              call[r].cookie # call[s].set
        /\ \A r \in Slots \ {s} : Arrived(r) => call[r].set # call[s].set

JarInv == JarFollowsServer /\ SetsAreFresh

\* What can be presented is what the jar, a request or an answer holds.
LEMMA HeldIntro ==
    /\ jar \in Held
    /\ \A s \in Slots : call[s].phase \in {"sent", "answered"} => call[s].cookie \in Held
    /\ \A s \in Slots : call[s].phase = "answered" => call[s].set \in Held
BY DEF Held

\* The server's sets keep what is still held.
LEMMA ServerKeeps ==
    ASSUME NEW A, NEW L, Server(A, L)
    PROVE  /\ jar' \in A \cup L => jar' \in live' \cup excused'
           /\ \A s \in Slots : Arrived(s)' /\ call'[s].set \in A \cup L =>
                call'[s].set \in live' \cup excused'
<1>1. /\ jar' \in Held'
      /\ \A s \in Slots : call'[s].phase = "answered" => call'[s].set \in Held'
  BY DEF Held
<1> QED BY <1>1 DEF Server, Arrived

\* The server's steps and lost answers.
LEMMA ServeJar ==
    ASSUME TypeOK, JarInv, NEW s \in Slots, Serve(s) \/ Lose(s)
    PROVE  JarInv'
<1>1. PICK st \in {"ok", "401", "failed"}, set \in {Keep} \cup Cookies :
      \E A \in SUBSET Tokens, L \in SUBSET Tokens : Served(s, st, set, A, L)
  BY ServeShape
<1>2. PICK A \in SUBSET Tokens, L \in SUBSET Tokens : Served(s, st, set, A, L)
  BY <1>1
<1>3. /\ Answer(s, st, set) /\ Server(A, L) /\ jar' = jar
      /\ call[s].phase \in {"sent", "answered"}
      /\ set \in Tokens => Fresh(set) /\ set \in A /\ call[s].phase = "sent"
      /\ \A x \in live \cup excused : x # call[s].cookie => x \in A \cup L
      /\ set = Keep /\ call[s].cookie \in Tokens =>
            \/ call[s].cookie \in A \cup L
            \/ call[s].phase = "sent" /\ call[s].cookie \notin live \cup excused
  BY <1>2 DEF Served, ClientUnchanged
<1>4. call \in [Slots -> Call] /\ Keep \notin Tokens /\ NoCookie \notin Tokens
  BY DEF TypeOK, Tokens, Keep, NoCookie
<1>5. \A r \in Slots \ {s} : call'[r] = call[r]
  BY <1>3, <1>4 DEF Answer
<1>6. call'[s] = Answered(call[s].kind, call[s].retried, call[s].cookie, st, set)
  BY <1>3, <1>4 DEF Answer
<1>7. /\ call'[s].phase = "answered" /\ call'[s].set = set
      /\ call'[s].cookie = IF set = Keep THEN NoCookie ELSE call[s].cookie
  BY <1>6, AnsweredFields
<1>8. JarFollowsServer'
  <2>1. SUFFICES ASSUME jar \in Tokens, jar' \notin live' \cup excused'
                 PROVE  \E r \in Slots :
                          /\ call'[r].phase = "answered"
                          /\ call'[r].cookie = jar /\ call'[r].set # Keep
    BY <1>3 DEF JarFollowsServer, Arrived
  <2>2. jar \notin A \cup L
    BY <1>3, <2>1, ServerKeeps
  <2>3. CASE jar \in live \cup excused
    <3>1. jar = call[s].cookie
      BY <1>3, <2>2, <2>3
    <3>2. set # Keep
      BY <1>3, <2>1, <2>2, <2>3, <3>1
    <3> QED BY <1>7, <3>1, <3>2
  <2>4. CASE jar \notin live \cup excused
    <3>1. PICK r \in Slots : Arrived(r) /\ call[r].cookie = jar /\ call[r].set # Keep
      BY <2>1, <2>4 DEF JarInv, JarFollowsServer
    <3>2. CASE r = s
      <4>1. set # Keep
        BY <1>3, <2>1, <2>2, <3>1, <3>2 DEF Arrived
      <4> QED BY <1>7, <3>1, <3>2, <4>1
    <3>3. CASE r # s
      BY <1>5, <3>1, <3>3 DEF Arrived
    <3> QED BY <3>2, <3>3
  <2> QED BY <2>3, <2>4
<1>9. SetsAreFresh'
  <2>1. ASSUME NEW r \in Slots, call'[r].phase = "answered", call'[r].set \in Tokens
        PROVE  /\ call'[r].set \in live' \cup excused'
               /\ call'[r].set # jar'
               /\ \A u \in Slots : call'[u].phase \in {"sent", "answered"} =>
                     call'[u].cookie # call'[r].set
               /\ \A u \in Slots \ {r} : call'[u].phase = "answered" =>
                     call'[u].set # call'[r].set
    <3>1. CASE r = s
      <4>1. set \in Tokens /\ set \in A /\ set \notin Held
        BY <1>3, <1>7, <2>1, <3>1 DEF Fresh
      <4>2. call'[r].set \in live' \cup excused'
        BY <1>3, <1>7, <2>1, <3>1, <4>1, ServerKeeps DEF Arrived
      <4>3. set # jar'
        BY <1>3, <4>1, HeldIntro
      <4>4. \A u \in Slots : call'[u].phase \in {"sent", "answered"} => call'[u].cookie # set
        BY <1>3, <1>4, <1>5, <1>7, <4>1, HeldIntro
      <4>5. \A u \in Slots \ {s} : call'[u].phase = "answered" => call'[u].set # set
        BY <1>5, <4>1, HeldIntro
      <4> QED BY <1>7, <3>1, <4>2, <4>3, <4>4, <4>5
    <3>2. CASE r # s
      <4>1. call'[r] = call[r] /\ Arrived(r) /\ call[r].set \in Tokens
        BY <1>5, <2>1, <3>2 DEF Arrived
      <4>2. /\ call[r].set \in live \cup excused
            /\ call[r].set # jar
            /\ \A u \in Slots : call[u].phase \in {"sent", "answered"} =>
                  call[u].cookie # call[r].set
            /\ \A u \in Slots \ {r} : Arrived(u) => call[u].set # call[r].set
        BY <4>1 DEF JarInv, SetsAreFresh
      <4>3. call[r].set \in A \cup L
        BY <1>3, <4>2
      <4>4. call'[r].set \in live' \cup excused'
        BY <1>3, <2>1, <4>1, <4>3, ServerKeeps DEF Arrived
      <4>5. \A u \in Slots : call'[u].phase \in {"sent", "answered"} =>
              call'[u].cookie # call[r].set
        BY <1>3, <1>4, <1>5, <1>7, <4>1, <4>2
      <4>6. set \in Tokens => set # call[r].set
        BY <1>3, <4>1, HeldIntro DEF Fresh, Arrived
      <4>7. \A u \in Slots \ {r} : call'[u].phase = "answered" => call'[u].set # call[r].set
        BY <1>5, <1>7, <4>1, <4>2, <4>6 DEF Arrived
      <4> QED BY <1>3, <4>1, <4>2, <4>4, <4>5, <4>7
    <3> QED BY <3>1, <3>2
  <2> QED BY <2>1 DEF SetsAreFresh, Arrived
<1> QED BY <1>8, <1>9 DEF JarInv

\* A step of the client: no answer appears, and a request is sent with the
\* cookie that the jar holds after the step, or was under way.  The jar stays,
\* as long as no answer that changes it is consumed, or it takes what the
\* consumed answer sets.
ClientStep ==
    /\ \A r \in Slots : call'[r].phase = "answered" => call'[r] = call[r]
    /\ \A r \in Slots : call'[r].phase = "sent" =>
          \/ call'[r].cookie \in {jar', NoCookie}
          \/ /\ call[r].phase = "sent" /\ call'[r].cookie \in {call[r].cookie, NoCookie}
    /\ \/ /\ jar' = jar
          /\ \A r \in Slots : Arrived(r) /\ call[r].set # Keep => call'[r] = call[r]
       \/ \E s \in Slots : /\ Arrived(s) /\ call[s].set # Keep
                           /\ jar' = call[s].set
                           /\ call'[s].phase # "answered"

\* The steps of the client keep the jar in line with the server.
LEMMA ClientJar ==
    ASSUME TypeOK, JarInv, ClientStep, Server(live, excused) \/ UNCHANGED <<live, excused>>
    PROVE  JarInv'
<1>1. NoCookie \notin Tokens
  BY DEF Tokens, NoCookie
<1>2. /\ jar' \in live \cup excused => jar' \in live' \cup excused'
      /\ \A s \in Slots : call'[s].phase = "answered" /\ call'[s].set \in live \cup excused =>
           call'[s].set \in live' \cup excused'
  <2>1. CASE Server(live, excused)
    BY <2>1, ServerKeeps DEF Arrived
  <2>2. CASE UNCHANGED <<live, excused>>
    BY <2>2
  <2> QED BY <2>1, <2>2
<1>3. JarFollowsServer'
  <2>1. SUFFICES ASSUME jar' \in Tokens, jar' \notin live' \cup excused'
                 PROVE  \E r \in Slots :
                          /\ call'[r].phase = "answered"
                          /\ call'[r].cookie = jar' /\ call'[r].set # Keep
    BY DEF JarFollowsServer, Arrived
  <2>2. jar' \notin live \cup excused
    BY <1>2, <2>1
  <2>3. ASSUME NEW s \in Slots, Arrived(s), jar' = call[s].set
        PROVE  FALSE
    BY <2>1, <2>2, <2>3 DEF JarInv, SetsAreFresh
  <2>4. /\ jar' = jar
        /\ \A r \in Slots : Arrived(r) /\ call[r].set # Keep => call'[r] = call[r]
    BY <2>3 DEF ClientStep
  <2>5. PICK r \in Slots : Arrived(r) /\ call[r].cookie = jar /\ call[r].set # Keep
    BY <2>1, <2>2, <2>4 DEF JarInv, JarFollowsServer
  <2> QED BY <2>4, <2>5 DEF Arrived
<1>4. SetsAreFresh'
  <2>1. ASSUME NEW r \in Slots, call'[r].phase = "answered", call'[r].set \in Tokens
        PROVE  /\ call'[r].set \in live' \cup excused'
               /\ call'[r].set # jar'
               /\ \A u \in Slots : call'[u].phase \in {"sent", "answered"} =>
                     call'[u].cookie # call'[r].set
               /\ \A u \in Slots \ {r} : call'[u].phase = "answered" =>
                     call'[u].set # call'[r].set
    <3>1. call'[r] = call[r] /\ Arrived(r) /\ call[r].set \in Tokens
      BY <2>1 DEF ClientStep, Arrived
    <3>2. /\ call[r].set \in live \cup excused
          /\ call[r].set # jar
          /\ \A u \in Slots : call[u].phase \in {"sent", "answered"} =>
                call[u].cookie # call[r].set
          /\ \A u \in Slots \ {r} : Arrived(u) => call[u].set # call[r].set
      BY <3>1 DEF JarInv, SetsAreFresh
    <3>3. call'[r].set \in live' \cup excused'
      BY <1>2, <2>1, <3>1, <3>2
    <3>4. call'[r].set # jar'
      <4>1. ASSUME NEW s \in Slots, Arrived(s), jar' = call[s].set,
                   call'[s].phase # "answered"
            PROVE  call[r].set # jar'
        BY <2>1, <3>2, <4>1
      <4> QED BY <3>1, <3>2, <4>1 DEF ClientStep
    <3>5. ASSUME NEW u \in Slots, call'[u].phase \in {"sent", "answered"}
          PROVE  call'[u].cookie # call'[r].set
      <4>1. CASE call'[u].phase = "answered"
        <5>1. call'[u] = call[u]
          BY <4>1 DEF ClientStep
        <5> QED BY <3>1, <3>2, <4>1, <5>1
      <4>2. CASE call'[u].phase = "sent"
        <5>1. \/ call'[u].cookie \in {jar', NoCookie}
              \/ call[u].phase = "sent" /\ call'[u].cookie \in {call[u].cookie, NoCookie}
          BY <4>2 DEF ClientStep
        <5> QED BY <1>1, <3>1, <3>2, <3>4, <5>1
      <4> QED BY <3>5, <4>1, <4>2
    <3>6. ASSUME NEW u \in Slots \ {r}, call'[u].phase = "answered"
          PROVE  call'[u].set # call'[r].set
      <4>1. call'[u] = call[u]
        BY <3>6 DEF ClientStep
      <4> QED BY <3>1, <3>2, <3>6, <4>1 DEF Arrived
    <3> QED BY <3>3, <3>4, <3>5, <3>6
  <2> QED BY <2>1 DEF SetsAreFresh, Arrived
<1> QED BY <1>3, <1>4 DEF JarInv

\* The answer in slot s is consumed; calls that it sends carry the new jar.
LEMMA ArriveStep ==
    ASSUME NEW s \in Slots, Arrived(s), jar' = NewJar(s), call'[s].phase # "answered",
           \A r \in Slots :
              \/ r # s /\ call'[r] = call[r]
              \/ /\ r # s => call[r].phase # "answered"
                 /\ call'[r].phase # "answered"
                 /\ call'[r].phase = "sent" => call'[r].cookie \in {jar', NoCookie}
    PROVE  ClientStep
BY DEF ClientStep, Arrived, NewJar

\* What the client does is a step of that shape.
LEMMA ArriveJar ==
    ASSUME TypeOK, NEW s \in Slots, Arrive(s)
    PROVE  ClientStep /\ Server(live, excused)
<1>1. call \in [Slots -> Call]
  BY DEF TypeOK
<1>2. Arrived(s) /\ jar' = NewJar(s) /\ Server(live, excused)
  BY DEF Arrive, Succeed, Unauthorized, Reject, RefreshSucceeds, RefreshFails, Rejected,
         ServerUnchanged
<1>3. CASE Succeed(s) \/ Reject(s)
  <2>1. \A r \in Slots \ {s} : call'[r] = call[r]
    BY <1>1, <1>3 DEF Succeed, Reject
  <2>2. call'[s].phase = "none"
    BY <1>1, <1>3, NoneFacts DEF Succeed, Reject
  <2> QED BY <1>2, <2>1, <2>2, ArriveStep
<1>4. CASE Unauthorized(s)
  <2>1. Waiting(call[s].kind).phase = "waiting"
    BY DEF Waiting
  <2>2. CASE call' = [call EXCEPT ![s] = Waiting(call[s].kind)]
    <3>1. \A r \in Slots \ {s} : call'[r] = call[r]
      BY <1>1, <2>2
    <3>2. call'[s].phase = "waiting"
      BY <1>1, <2>1, <2>2
    <3> QED BY <1>2, <3>1, <3>2, ArriveStep
  <2>3. ASSUME NEW q \in SlotsOf(TabOf[s]), Free(q),
               call' = [call EXCEPT
                          ![s] = Waiting(call[s].kind),
                          ![q] = Sent("refresh", FALSE, access[TabOf[s]], NewJar(s))]
        PROVE  ClientStep
    <3>1. q \in Slots /\ q # s /\ call[q].phase = "none"
      BY <1>2, <2>3, NoneFacts DEF SlotsOf, Free, Arrived
    <3>2. call'[s].phase = "waiting"
      BY <1>1, <2>1, <2>3, <3>1
    <3>3. call'[q] = Sent("refresh", FALSE, access[TabOf[s]], NewJar(s))
      BY <1>1, <2>3, <3>1
    <3>4. call'[q].phase = "sent" /\ call'[q].cookie = NewJar(s)
      BY <3>3 DEF Sent
    <3>5. \A r \in Slots \ {s, q} : call'[r] = call[r]
      BY <1>1, <2>3
    <3> QED BY <1>2, <3>1, <3>2, <3>4, <3>5, ArriveStep
  <2> QED BY <1>2, <1>4, <2>2, <2>3 DEF Unauthorized
<1>5. ASSUME NEW c, c.phase # "answered", c.phase # "waiting",
             c.phase = "sent" => c.cookie \in {NewJar(s), NoCookie}, NEW token,
             call' = Wake([call EXCEPT ![s] = c], TabOf[s], token, NewJar(s))
      PROVE  ClientStep
  <2> DEFINE calls == [call EXCEPT ![s] = c]
  <2>1. calls[s] = c /\ \A r \in Slots \ {s} : calls[r] = call[r]
    BY <1>1
  <2>2. ASSUME NEW r \in Slots
        PROVE  \/ call'[r] = calls[r]
               \/ /\ calls[r].phase = "waiting"
                  /\ call'[r] \in {None, Sent(calls[r].kind, TRUE, token, NewJar(s))}
    BY <1>5 DEF Wake
  <2> HIDE DEF calls
  <2>3. call'[s] = c
    BY <1>5, <2>1, <2>2
  <2>4. ASSUME NEW r \in Slots \ {s}
        PROVE  \/ call'[r] = call[r]
               \/ /\ call[r].phase # "answered"
                  /\ call'[r].phase # "answered"
                  /\ call'[r].phase = "sent" => call'[r].cookie \in {NewJar(s), NoCookie}
    <3>1. calls[r] = call[r]
      BY <2>1
    <3>2. \/ call'[r] = call[r]
          \/ /\ call[r].phase = "waiting"
             /\ call'[r] = None \/ call'[r] = Sent(call[r].kind, TRUE, token, NewJar(s))
      BY <2>2, <3>1
    <3>3. None.phase = "none"
      BY NoneFacts
    <3>4. /\ Sent(call[r].kind, TRUE, token, NewJar(s)).phase = "sent"
          /\ Sent(call[r].kind, TRUE, token, NewJar(s)).cookie \in {NewJar(s), NoCookie}
      BY DEF Sent
    <3> QED BY <3>2, <3>3, <3>4
  <2> QED BY <1>2, <1>5, <2>3, <2>4, ArriveStep
<1>6. CASE RefreshSucceeds(s)
  BY <1>2, <1>5, <1>6, NoneFacts DEF RefreshSucceeds
<1>7. CASE RefreshFails(s)
  <2>1. /\ Sent("logout", FALSE, access[TabOf[s]], NewJar(s)).phase = "sent"
        /\ Sent("logout", FALSE, access[TabOf[s]], NewJar(s)).cookie = NewJar(s)
    BY DEF Sent
  <2>2. call' = Wake([call EXCEPT ![s] = Sent("logout", FALSE, access[TabOf[s]], NewJar(s))],
                     TabOf[s], access[TabOf[s]], NewJar(s))
    BY <1>7 DEF RefreshFails
  <2> QED BY <1>2, <1>5, <2>1, <2>2
<1> QED BY <1>2, <1>3, <1>4, <1>6, <1>7 DEF Arrive

\* Every step keeps the jar in line with the server.
LEMMA NextJar == TypeOK /\ JarInv /\ [Next]_vars => JarInv'
<1> SUFFICES ASSUME TypeOK, JarInv, [Next]_vars PROVE JarInv'
  OBVIOUS
<1>1. call \in [Slots -> Call]
  BY DEF TypeOK
<1>2. ASSUME NEW s \in Slots, NEW k \in Kinds, Start(s, k) PROVE JarInv'
  <2>1. call[s].phase = "none" /\ \A r \in Slots \ {s} : call'[r] = call[r]
    BY <1>1, <1>2, NoneFacts DEF Start, Free
  <2>2. call'[s].phase = "sent" /\ call'[s].cookie \in {jar, NoCookie}
    BY <1>1, <1>2 DEF Start, Sent
  <2>3. jar' = jar /\ UNCHANGED <<live, excused>>
    BY <1>2 DEF Start
  <2>4. ClientStep
    BY <2>1, <2>2, <2>3, CallElim, <1>1 DEF ClientStep, Arrived
  <2> QED BY <2>3, <2>4, ClientJar
<1>3. ASSUME NEW t \in Tabs, Expire(t) PROVE JarInv'
  <2>1. ASSUME NEW r \in Slots
        PROVE  \/ call'[r] = call[r]
               \/ /\ call[r].phase = "sent" /\ call'[r].phase = "sent"
                  /\ call'[r].cookie \in {call[r].cookie, NoCookie}
    <3>1. \/ call'[r] = call[r]
          \/ /\ call[r].phase = "sent"
             /\ call'[r] = Sent(call[r].kind, call[r].retried, "stale", call[r].cookie)
      BY <1>3 DEF Expire
    <3> QED BY <3>1, SentFields
  <2>2. jar' = jar /\ UNCHANGED <<live, excused>>
    BY <1>3 DEF Expire
  <2>3. ClientStep
    BY <2>1, <2>2 DEF ClientStep, Arrived
  <2> QED BY <2>2, <2>3, ClientJar
<1>4. ASSUME NEW s \in Slots, Arrive(s) PROVE JarInv'
  BY <1>4, ArriveJar, ClientJar
<1>5. CASE UNCHANGED vars
  BY <1>5 DEF vars, JarInv, JarFollowsServer, SetsAreFresh, Arrived
<1> QED BY <1>2, <1>3, <1>4, <1>5, ServeJar DEF Next

\* In whatever order the answers of several tabs arrive, the jar holds a token
\* the server no longer accepts only while the answer that replaces it is on its
\* way, or after an alarm, a failure or a lost answer took it.
THEOREM JarInLine == Spec => []JarFollowsServer
<1>1. Init => JarInv
  <2>1. Init => \A s \in Slots : ~Arrived(s)
    BY NoneFacts DEF Init, Arrived
  <2> QED BY <2>1 DEF Init, JarInv, JarFollowsServer, SetsAreFresh
<1>2. JarInv => JarFollowsServer
  BY DEF JarInv
<1> QED BY <1>1, <1>2, InitType, NextType, NextJar, PTL DEF Spec
==============================================================================
