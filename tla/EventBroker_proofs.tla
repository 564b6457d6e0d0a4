------------------------- MODULE EventBroker_proofs --------------------------
(***************************************************************************)
(* Theorems about EventBroker for any number of streams, publishers and     *)
(* events and any buffer size.                                              *)
(***************************************************************************)
EXTENDS EventBroker, TLAPS

\* The records a publisher goes through are publisher states.
LEMMA StateIntro ==
    /\ Resting \in PublisherStates
    /\ \A e \in Events : [stage |-> "calling", event |-> e] \in PublisherStates
    /\ \A e \in Events, l \in SUBSET Streams : Sending(e, l) \in PublisherStates
BY DEF PublisherStates, Resting, Sending

\* What the stage of a publisher says of its other fields.
LEMMA StateElim ==
    ASSUME NEW r \in PublisherStates
    PROVE  /\ r.stage \in {"idle", "calling", "sending"}
           /\ r.stage = "idle" => r = Resting
           /\ r.stage = "calling" => r.event \in Events
           /\ r.stage = "sending" =>
                r.event \in Events /\ r.left \in SUBSET Streams
<1>1. CASE r = Resting
  BY <1>1 DEF Resting
<1>2. CASE r \in [stage : {"calling"}, event : Events]
  BY <1>2
<1>3. CASE r \in [stage : {"sending"}, event : Events, left : SUBSET Streams]
  BY <1>3
<1> QED BY <1>1, <1>2, <1>3 DEF PublisherStates

\* Putting an event into a channel keeps everything before it in its place.
LEMMA AppendFacts ==
    ASSUME NEW q \in Seq(Events), NEW e \in Events
    PROVE  /\ Append(q, e) \in Seq(Events)
           /\ Len(Append(q, e)) = Len(q) + 1
           /\ \A k \in 1..Len(q) : Append(q, e)[k] = q[k]
           /\ Append(q, e)[Len(q) + 1] = e
OBVIOUS

\* Moving one publisher on keeps the table of publishers well formed.
LEMMA DoType ==
    ASSUME TypeOK, NEW w \in Publishers, NEW r \in PublisherStates, Do(w, r)
    PROVE  /\ pub' \in [Publishers -> PublisherStates]
           /\ pub'[w] = r
           /\ \A v \in Publishers : v # w => pub'[v] = pub[v]
BY DEF TypeOK, Do

\* The broker starts well formed.
LEMMA InitType == Init => TypeOK
<1> SUFFICES ASSUME Init PROVE TypeOK
  OBVIOUS
<1> USE BrokerAssumption
<1>1. Resting \in PublisherStates
  BY StateIntro
<1>2. <<>> \in Seq(Events) /\ Len(<<>>) = 0
  OBVIOUS
<1>3. sent \in [Streams -> Seq(Events)] /\ taken \in [Streams -> Nat]
  BY <1>2 DEF Init
<1>4. \A s \in Streams : taken[s] <= Len(sent[s]) /\ Len(sent[s]) <= taken[s] + BufferSize
  <2> SUFFICES ASSUME NEW s \in Streams
               PROVE  taken[s] <= Len(sent[s]) /\ Len(sent[s]) <= taken[s] + BufferSize
    OBVIOUS
  <2>1. sent[s] = <<>> /\ taken[s] = 0
    BY DEF Init
  <2> QED BY <1>2, <2>1
<1>5. called \in 0..MaxEvents
  BY DEF Init
<1> QED BY <1>1, <1>3, <1>4, <1>5 DEF Init, TypeOK, Phases

\* One turn of Publish's loop: the only step that puts something into a channel.
LEMMA SendType ==
    ASSUME TypeOK, NEW w \in Publishers, NEW s \in Streams, Send(w, s)
    PROVE  /\ TypeOK'
           /\ pub[w].event \in Events
           /\ pub[w].left \in SUBSET Streams
           /\ pub'[w] = Sending(pub[w].event, pub[w].left \ {s})
           /\ \A v \in Publishers : v # w => pub'[v] = pub[v]
<1> USE BrokerAssumption
<1> DEFINE e == pub[w].event
<1>1. e \in Events /\ pub[w].left \in SUBSET Streams
  BY StateElim DEF Send, TypeOK
<1>3. /\ pub' \in [Publishers -> PublisherStates]
      /\ pub'[w] = Sending(e, pub[w].left \ {s})
      /\ \A v \in Publishers : v # w => pub'[v] = pub[v]
  BY <1>1, StateIntro, DoType DEF Send
<1>4. ASSUME Lag(s) < BufferSize PROVE TypeOK'
  <2>1. sent' = [sent EXCEPT ![s] = Append(@, e)] /\ UNCHANGED <<taken, dropped>>
    BY <1>4 DEF Send, streamVars
  <2>2. sent' \in [Streams -> Seq(Events)]
    BY <1>1, <2>1 DEF TypeOK
  <2>3. ASSUME NEW r \in Streams
        PROVE  taken'[r] <= Len(sent'[r]) /\ Len(sent'[r]) <= taken'[r] + BufferSize
    <3>1. CASE r = s
      <4>1. Len(sent'[s]) = Len(sent[s]) + 1
        BY <1>1, <2>1, AppendFacts DEF TypeOK
      <4>2. Len(sent[s]) \in Nat /\ taken[s] \in Nat
        BY DEF TypeOK
      <4> QED BY <1>4, <2>1, <3>1, <4>1, <4>2 DEF TypeOK, Lag
    <3>2. CASE r # s
      BY <2>1, <3>2 DEF TypeOK
    <3> QED BY <3>1, <3>2
  <2>4. UNCHANGED <<subs, closed, phase, client, called, returned, before, heard>>
    BY DEF Send, streamVars
  <2> QED BY <1>3, <2>1, <2>2, <2>3, <2>4 DEF TypeOK
<1>5. ASSUME ~(Lag(s) < BufferSize) PROVE TypeOK'
  <2>1. dropped' = [dropped EXCEPT ![s] = @ \cup {e}] /\ UNCHANGED sent
    BY <1>5 DEF Send
  <2>2. dropped' \in [Streams -> SUBSET Events]
    BY <1>1, <2>1 DEF TypeOK
  <2>3. UNCHANGED <<subs, closed, phase, client, taken, called, returned, before, heard>>
    BY DEF Send, streamVars
  <2> QED BY <1>3, <2>1, <2>2, <2>3 DEF TypeOK
<1> QED BY <1>1, <1>3, <1>4, <1>5

\* Every step of every stream and publisher keeps the broker well formed.
LEMMA NextType == TypeOK /\ [Next]_vars => TypeOK'
<1> SUFFICES ASSUME TypeOK, [Next]_vars PROVE TypeOK'
  OBVIOUS
<1> USE BrokerAssumption DEF historyVars, streamVars
<1>1. ASSUME NEW s \in Streams, Connect(s) PROVE TypeOK'
  BY <1>1 DEF Connect, Go, TypeOK, Phases
<1>2. ASSUME NEW s \in Streams, Subscribe(s) PROVE TypeOK'
  BY <1>2 DEF Subscribe, Go, TypeOK, Phases
<1>3. ASSUME NEW s \in Streams, WriteDone(s) \/ WriteFails(s) \/ Ping(s) \/ Return(s)
      PROVE  TypeOK'
  BY <1>3 DEF WriteDone, WriteFails, Ping, Return, Go, TypeOK, Phases
<1>4. ASSUME NEW s \in Streams, Take(s) PROVE TypeOK'
  <2>1. \A r \in Streams : Len(sent[r]) \in Nat /\ taken[r] \in Nat
    BY DEF TypeOK
  <2>2. taken[s] < Len(sent[s])
    BY <1>4, <2>1 DEF Take, Lag
  <2>3. \A r \in Streams :
          taken'[r] <= Len(sent[r]) /\ Len(sent[r]) <= taken'[r] + BufferSize
    BY <1>4, <2>1, <2>2 DEF Take, TypeOK
  <2> QED BY <1>4, <2>3 DEF Take, Go, TypeOK, Phases
<1>5. ASSUME NEW s \in Streams, Leave(s) PROVE TypeOK'
  <2>1. <<>> \in Seq(Events) /\ Len(<<>>) = 0
    OBVIOUS
  <2>2. \A r \in Streams :
          taken'[r] <= Len(sent'[r]) /\ Len(sent'[r]) <= taken'[r] + BufferSize
    BY <1>5, <2>1 DEF Leave, Discard, TypeOK
  <2> QED BY <1>5, <2>1, <2>2 DEF Leave, Discard, Go, TypeOK, Phases
<1>6. ASSUME NEW s \in Streams, ClientStalls(s) \/ ClientResumes(s) \/ ClientLeaves(s)
      PROVE  TypeOK'
  BY <1>6 DEF ClientStalls, ClientResumes, ClientLeaves, TypeOK
<1>7. ASSUME NEW w \in Publishers, Publish(w) PROVE TypeOK'
  <2>1. called + 1 \in Events /\ called + 1 \in 0..MaxEvents
    BY <1>7 DEF Publish, TypeOK, Events
  <2>2. pub' \in [Publishers -> PublisherStates]
    BY <1>7, <2>1, StateIntro, DoType DEF Publish
  <2> QED BY <1>7, <2>1, <2>2 DEF Publish, TypeOK
<1>8. ASSUME NEW w \in Publishers, RLock(w) PROVE TypeOK'
  <2>1. pub[w].event \in Events
    BY <1>8, StateElim DEF RLock, TypeOK
  <2>2. subs \in SUBSET Streams
    BY DEF TypeOK
  <2>3. pub' \in [Publishers -> PublisherStates]
    BY <1>8, <2>1, <2>2, StateIntro, DoType DEF RLock
  <2>4. heard' \in [Streams -> SUBSET Events]
    BY <1>8, <2>1 DEF RLock, TypeOK
  <2> QED BY <1>8, <2>3, <2>4 DEF RLock, TypeOK
<1>9. ASSUME NEW w \in Publishers, NEW s \in Streams, Send(w, s) PROVE TypeOK'
  BY <1>9, SendType
<1>10. ASSUME NEW w \in Publishers, PublishReturns(w) PROVE TypeOK'
  <2>1. pub[w].event \in Events
    BY <1>10, StateElim DEF PublishReturns, TypeOK
  <2>2. pub' \in [Publishers -> PublisherStates]
    BY <1>10, StateIntro, DoType DEF PublishReturns
  <2> QED BY <1>10, <2>1, <2>2 DEF PublishReturns, TypeOK
<1>11. CASE Close
  BY <1>11 DEF Close, TypeOK
<1>12. CASE UNCHANGED vars
  BY <1>12 DEF vars, TypeOK
<1> QED
  BY <1>1, <1>2, <1>3, <1>4, <1>5, <1>6, <1>7, <1>8, <1>9, <1>10, <1>11, <1>12 DEF Next

\* Type correctness; in particular no buffer ever holds more than BufferSize
\* events and no stream takes an event that was not put in.
THEOREM TypeCorrect == Spec => []TypeOK
BY InitType, NextType, PTL DEF Spec

------------------------------------------------------------------------------
(* The inductive invariant *)

\* Publisher w has called Publish for event e and not returned.
Busy(w, e) == pub[w].stage \in {"calling", "sending"} /\ pub[w].event = e

\* Publisher w holds the read lock and has yet to offer its event e to s.
Owes(w, e, s) == pub[w].stage = "sending" /\ pub[w].event = e /\ s \in pub[w].left

InChannel(s, e) == \E k \in 1..Len(sent[s]) : sent[s][k] = e

\* Event numbers are handed out once: a returned event has no publisher left, and
\* two publishers never publish the same one.
Numbering ==
    /\ \A e \in returned : e <= called
    /\ \A w \in Publishers, e \in Events : Busy(w, e) => e <= called /\ e \notin returned
    /\ \A v, w \in Publishers, e \in Events : Busy(v, e) /\ Busy(w, e) => v = w
    /\ \A e \in Events : before[e] \subseteq returned

\* What a stream has heard of was called, and is being sent or has returned.
Hearing ==
    \A s \in Streams : \A e \in heard[s] :
        /\ e <= called
        /\ e \in returned \/ \E w \in Publishers : pub[w].stage = "sending" /\ pub[w].event = e

\* Whoever is owed an event has heard of it and does not have it yet.
Owing ==
    \A w \in Publishers, e \in Events, s \in Streams :
        Owes(w, e, s) => e \in heard[s] /\ ~InChannel(s, e)

\* Only events a stream has heard of are in its channel.
Delivering == \A s \in Streams, e \in Events : InChannel(s, e) => e \in heard[s]

\* An event a stream has heard of is in its channel, dropped, or still owed.
Serving ==
    \A s \in Streams : \A e \in heard[s] :
        \/ e \in dropped[s]
        \/ InChannel(s, e)
        \/ \E w \in Publishers : Owes(w, e, s)

BrokerInv ==
    /\ SendsMeetOpenChannels
    /\ Numbering
    /\ Hearing
    /\ Owing
    /\ Delivering
    /\ Serving
    /\ OrderRespectsTime

------------------------------------------------------------------------------

\* At the start nothing is published and nobody is subscribed.
LEMMA InitInv == Init => BrokerInv
<1> SUFFICES ASSUME Init PROVE BrokerInv
  OBVIOUS
<1>1. \A s \in Streams : Len(sent[s]) = 0
  BY DEF Init
<1>2. \A w \in Publishers : pub[w].stage = "idle"
  BY DEF Init, Resting
<1>3. SendsMeetOpenChannels /\ Owing
  BY <1>2 DEF SendsMeetOpenChannels, Owing, Owes
<1>4. Numbering
  BY <1>2 DEF Init, Numbering, Busy
<1>5. Hearing /\ Serving
  BY DEF Init, Hearing, Serving
<1>6. Delivering
  BY <1>1 DEF Delivering, InChannel
<1>7. OrderRespectsTime
  BY <1>1 DEF OrderRespectsTime
<1> QED BY <1>3, <1>4, <1>5, <1>6, <1>7 DEF BrokerInv

\* Steps of a stream or its client that touch no channel and no subscription.
LEMMA OtherSteps ==
    ASSUME BrokerInv, subs \subseteq subs', UNCHANGED <<sent, pub, called, historyVars>>
    PROVE  BrokerInv'
<1>1. UNCHANGED <<returned, before, heard, dropped>>
  BY DEF historyVars
<1>2. SendsMeetOpenChannels'
  BY DEF BrokerInv, SendsMeetOpenChannels
<1>3. Numbering' /\ Hearing'
  BY <1>1 DEF BrokerInv, Numbering, Hearing, Busy
<1>4. Owing' /\ Delivering' /\ Serving'
  BY <1>1 DEF BrokerInv, Owing, Delivering, Serving, Owes, InChannel
<1>5. OrderRespectsTime'
  BY <1>1 DEF BrokerInv, OrderRespectsTime
<1> QED BY <1>2, <1>3, <1>4, <1>5 DEF BrokerInv

\* Unsubscribing needs the write lock, so no publisher owes anything then.
LEMMA LeaveStep ==
    ASSUME TypeOK, BrokerInv, NEW s \in Streams, Leave(s)
    PROVE  BrokerInv'
<1> USE DEF Leave, Discard
<1>1. \A w \in Publishers : pub[w].stage # "sending" /\ pub'[w] = pub[w]
  BY DEF NoReader
<1>2. sent'[s] = <<>> /\ Len(sent'[s]) = 0 /\ heard'[s] = {}
  BY DEF TypeOK
<1>3. \A r \in Streams : r # s =>
        sent'[r] = sent[r] /\ heard'[r] = heard[r] /\ dropped'[r] = dropped[r]
  BY DEF TypeOK
<1>4. SendsMeetOpenChannels' /\ Owing'
  BY <1>1 DEF SendsMeetOpenChannels, Owing, Owes
<1>5. Numbering'
  BY DEF BrokerInv, Numbering, Busy
<1>6. Hearing'
  BY <1>2, <1>3 DEF BrokerInv, Hearing
<1>7. Delivering'
  BY <1>2, <1>3 DEF BrokerInv, Delivering, InChannel
<1>8. Serving'
  BY <1>1, <1>2, <1>3 DEF BrokerInv, Serving, InChannel, Owes
<1>9. OrderRespectsTime'
  <2> SUFFICES ASSUME NEW r \in Streams,
                      NEW j \in 1..Len(sent'[r]), NEW k \in 1..Len(sent'[r]), j < k
               PROVE  sent'[r][j] # sent'[r][k] /\ sent'[r][k] \notin before'[sent'[r][j]]
    BY DEF OrderRespectsTime
  <2>1. r # s
    BY <1>2
  <2> QED BY <1>3, <2>1 DEF BrokerInv, OrderRespectsTime
<1> QED BY <1>4, <1>5, <1>6, <1>7, <1>8, <1>9 DEF BrokerInv

\* A call of Publish takes a number that no channel and no publisher has seen.
LEMMA PublishStep ==
    ASSUME TypeOK, BrokerInv, NEW w \in Publishers, Publish(w)
    PROVE  BrokerInv'
<1> USE DEF Publish, streamVars
<1> DEFINE e == called + 1
<1>1. e \in Events /\ called \in Nat
  BY BrokerAssumption DEF TypeOK, Events
<1>2. /\ pub'[w] = [stage |-> "calling", event |-> e]
      /\ \A v \in Publishers : v # w => pub'[v] = pub[v]
  BY DEF Do, TypeOK
<1>3. \A v \in Publishers : pub'[v].stage = "sending" => v # w /\ pub'[v] = pub[v]
  BY <1>2
<1>4. before'[e] = returned /\ \A f \in Events : f # e => before'[f] = before[f]
  BY <1>1 DEF TypeOK
<1>5. pub[w].stage = "idle"
  BY DEF Resting
<1>6. SendsMeetOpenChannels' /\ Owing'
  BY <1>3 DEF BrokerInv, SendsMeetOpenChannels, Owing, Owes, InChannel
<1>7. Numbering'
  <2>1. \A f \in returned' : f <= called'
    BY <1>1 DEF BrokerInv, Numbering, TypeOK, Events
  <2>2. \A v \in Publishers, f \in Events : Busy(v, f)' => f <= called' /\ f \notin returned'
    <3> SUFFICES ASSUME NEW v \in Publishers, NEW f \in Events, Busy(v, f)'
                 PROVE  f <= called' /\ f \notin returned'
      OBVIOUS
    <3>1. CASE v = w
      BY <1>1, <1>2, <3>1 DEF BrokerInv, Numbering, Busy
    <3>2. CASE v # w
      BY <1>1, <1>2, <3>2 DEF BrokerInv, Numbering, Busy, Events
    <3> QED BY <3>1, <3>2
  <2>3. \A u, v \in Publishers, f \in Events : Busy(u, f)' /\ Busy(v, f)' => u = v
    <3>1. \A v \in Publishers, f \in Events : v # w /\ Busy(v, f)' => f # e
      BY <1>1, <1>2 DEF BrokerInv, Numbering, Busy
    <3>2. \A f \in Events : Busy(w, f)' => f = e
      BY <1>2 DEF Busy
    <3> QED BY <1>2, <3>1, <3>2 DEF BrokerInv, Numbering, Busy
  <2>4. \A f \in Events : before'[f] \subseteq returned'
    BY <1>4 DEF BrokerInv, Numbering
  <2> QED BY <2>1, <2>2, <2>3, <2>4 DEF Numbering
<1>8. Hearing'
  <2> SUFFICES ASSUME NEW s \in Streams, NEW f \in heard[s]
               PROVE  /\ f <= called + 1
                      /\ \/ f \in returned
                         \/ \E v \in Publishers : pub'[v].stage = "sending" /\ pub'[v].event = f
    BY DEF Hearing
  <2>1. f <= called + 1
    BY <1>1 DEF BrokerInv, Hearing, TypeOK, Events
  <2> QED BY <1>2, <1>5, <2>1 DEF BrokerInv, Hearing
<1>9. Delivering'
  BY DEF BrokerInv, Delivering, InChannel
<1>10. Serving'
  BY <1>2, <1>5 DEF BrokerInv, Serving, InChannel, Owes
<1>11. OrderRespectsTime'
  <2> SUFFICES ASSUME NEW s \in Streams,
                      NEW j \in 1..Len(sent[s]), NEW k \in 1..Len(sent[s]), j < k
               PROVE  sent[s][j] # sent[s][k] /\ sent[s][k] \notin before'[sent[s][j]]
    BY DEF OrderRespectsTime
  <2>1. sent[s][j] \in Events /\ InChannel(s, sent[s][j])
    BY DEF TypeOK, InChannel
  <2>2. sent[s][j] <= called
    BY <2>1 DEF BrokerInv, Delivering, Hearing
  <2>3. sent[s][j] # e
    BY <1>1, <2>1, <2>2 DEF Events
  <2> QED BY <1>4, <2>1, <2>3 DEF BrokerInv, OrderRespectsTime
<1> QED BY <1>6, <1>7, <1>8, <1>9, <1>10, <1>11 DEF BrokerInv

\* Under the read lock a publisher owes its event to every subscriber, and none of
\* them can have it yet.
LEMMA RLockStep ==
    ASSUME TypeOK, BrokerInv, NEW w \in Publishers, RLock(w)
    PROVE  BrokerInv'
<1> USE DEF RLock, streamVars
<1> DEFINE e == pub[w].event
<1>1. e \in Events /\ Busy(w, e)
  BY StateElim DEF TypeOK, Busy
<1>2. /\ pub'[w] = Sending(e, subs)
      /\ \A v \in Publishers : v # w => pub'[v] = pub[v]
  BY DEF Do, TypeOK
<1>3. pub'[w].stage = "sending" /\ pub'[w].event = e /\ pub'[w].left = subs
  BY <1>2 DEF Sending
<1>4. e <= called /\ e \notin returned
  BY <1>1 DEF BrokerInv, Numbering
<1>5. \A s \in Streams : e \notin heard[s]
  BY <1>1, <1>4 DEF BrokerInv, Hearing, Numbering, Busy
<1>6. \A s \in Streams : heard'[s] = IF s \in subs THEN heard[s] \cup {e} ELSE heard[s]
  OBVIOUS
<1>7. SendsMeetOpenChannels'
  BY <1>2, <1>3 DEF BrokerInv, SendsMeetOpenChannels
<1>8. Numbering'
  <2>1. \A v \in Publishers, f \in Events : Busy(v, f)' => Busy(v, f)
    BY <1>1, <1>2, <1>3 DEF Busy
  <2> QED BY <2>1 DEF BrokerInv, Numbering
<1>9. Hearing'
  <2> SUFFICES ASSUME NEW s \in Streams, NEW f \in heard'[s]
               PROVE  /\ f <= called
                      /\ \/ f \in returned
                         \/ \E v \in Publishers : pub'[v].stage = "sending" /\ pub'[v].event = f
    BY DEF Hearing
  <2>1. CASE f = e
    BY <1>3, <1>4, <2>1
  <2>2. CASE f # e
    <3>1. f \in heard[s]
      BY <1>6, <2>2
    <3> QED BY <1>2, <3>1 DEF BrokerInv, Hearing
  <2> QED BY <2>1, <2>2
<1>10. Owing'
  <2> SUFFICES ASSUME NEW v \in Publishers, NEW f \in Events, NEW s \in Streams, Owes(v, f, s)'
               PROVE  f \in heard'[s] /\ ~InChannel(s, f)'
    BY DEF Owing
  <2>1. CASE v = w
    BY <1>3, <1>5, <1>6, <2>1 DEF BrokerInv, Delivering, Owes, InChannel
  <2>2. CASE v # w
    BY <1>2, <1>6, <2>2 DEF BrokerInv, Owing, Owes, InChannel
  <2> QED BY <2>1, <2>2
<1>11. Delivering'
  BY <1>6 DEF BrokerInv, Delivering, InChannel
<1>12. Serving'
  <2> SUFFICES ASSUME NEW s \in Streams, NEW f \in heard'[s]
               PROVE  \/ f \in dropped[s]
                      \/ InChannel(s, f)
                      \/ \E v \in Publishers : Owes(v, f, s)'
    BY DEF Serving, InChannel
  <2>1. CASE f = e
    BY <1>3, <1>5, <1>6, <2>1 DEF Owes
  <2>2. CASE f # e
    <3>1. f \in heard[s]
      BY <1>6, <2>2
    <3>2. \A v \in Publishers : Owes(v, f, s) => v # w
      BY DEF Owes
    <3> QED BY <1>2, <3>1, <3>2 DEF BrokerInv, Serving, Owes
  <2> QED BY <2>1, <2>2
<1>13. OrderRespectsTime'
  BY DEF BrokerInv, OrderRespectsTime
<1> QED BY <1>7, <1>8, <1>9, <1>10, <1>11, <1>12, <1>13 DEF BrokerInv

\* One turn of the loop: the event goes to the end of a channel that does not hold
\* it, behind events none of which was called after it returned, as it has not.
LEMMA SendStep ==
    ASSUME TypeOK, BrokerInv, NEW w \in Publishers, NEW s \in Streams, Send(w, s)
    PROVE  BrokerInv'
<1> DEFINE e == pub[w].event
<1>1. /\ e \in Events
      /\ pub'[w] = Sending(e, pub[w].left \ {s})
      /\ \A v \in Publishers : v # w => pub'[v] = pub[v]
  BY SendType
<1>2. /\ pub[w].stage = "sending" /\ s \in pub[w].left
      /\ UNCHANGED <<subs, called, returned, before, heard>>
  BY DEF Send, streamVars
<1>3. pub'[w].stage = "sending" /\ pub'[w].event = e /\ pub'[w].left = pub[w].left \ {s}
  BY <1>1 DEF Sending
<1>4. Busy(w, e) /\ Owes(w, e, s)
  BY <1>2 DEF Busy, Owes
<1>5. e \notin returned /\ e \in heard[s] /\ ~InChannel(s, e)
  BY <1>1, <1>4 DEF BrokerInv, Numbering, Owing
<1>6. \A r \in Streams : r # s => sent'[r] = sent[r] /\ dropped'[r] = dropped[r]
  BY DEF Send, TypeOK
<1>7. \/ sent'[s] = Append(sent[s], e) /\ dropped'[s] = dropped[s]
      \/ sent'[s] = sent[s] /\ dropped'[s] = dropped[s] \cup {e}
  BY DEF Send, TypeOK
<1>8. sent[s] \in Seq(Events) /\ Len(sent[s]) \in Nat
  BY DEF TypeOK
<1>9. \/ /\ sent'[s] = sent[s]
         /\ dropped'[s] = dropped[s] \cup {e}
      \/ /\ dropped'[s] = dropped[s]
         /\ Len(sent'[s]) = Len(sent[s]) + 1
         /\ \A k \in 1..Len(sent[s]) : sent'[s][k] = sent[s][k]
         /\ sent'[s][Len(sent[s]) + 1] = e
  BY <1>1, <1>7, <1>8, AppendFacts
<1>10. \A r \in Streams, f \in Events : InChannel(r, f) => InChannel(r, f)'
  BY <1>6, <1>8, <1>9 DEF InChannel
<1>11. \A r \in Streams, f \in Events : InChannel(r, f)' => InChannel(r, f) \/ (r = s /\ f = e)
  <2> SUFFICES ASSUME NEW f \in Events, InChannel(s, f)', f # e PROVE InChannel(s, f)
    BY <1>6 DEF InChannel
  <2> QED BY <1>8, <1>9 DEF InChannel
<1>12. \A f \in Events : f = e => f \in dropped'[s] \/ InChannel(s, f)'
  <2> SUFFICES ASSUME NEW f \in Events, f = e PROVE f \in dropped'[s] \/ InChannel(s, f)'
    OBVIOUS
  <2>1. CASE dropped'[s] = dropped[s] \cup {e}
    BY <2>1
  <2>2. CASE Len(sent'[s]) = Len(sent[s]) + 1 /\ sent'[s][Len(sent[s]) + 1] = e
    <3>1. Len(sent[s]) + 1 \in 1..Len(sent'[s])
      BY <1>8, <2>2
    <3> QED BY <2>2, <3>1 DEF InChannel
  <2> QED BY <1>9, <2>1, <2>2
<1>13. SendsMeetOpenChannels'
  BY <1>1, <1>2, <1>3 DEF BrokerInv, SendsMeetOpenChannels
<1>14. Numbering'
  <2>1. \A v \in Publishers, f \in Events : Busy(v, f)' => Busy(v, f)
    BY <1>1, <1>3, <1>4 DEF Busy
  <2> QED BY <1>2, <2>1 DEF BrokerInv, Numbering
<1>15. Hearing'
  <2>1. \A v \in Publishers, f \in Events :
          pub[v].stage = "sending" /\ pub[v].event = f
            => pub'[v].stage = "sending" /\ pub'[v].event = f
    BY <1>1, <1>3
  <2>2. \A r \in Streams : heard[r] \subseteq Events
    BY DEF TypeOK
  <2> QED BY <1>2, <2>1, <2>2 DEF BrokerInv, Hearing
<1>16. Owing'
  <2> SUFFICES ASSUME NEW v \in Publishers, NEW f \in Events, NEW r \in Streams, Owes(v, f, r)'
               PROVE  f \in heard'[r] /\ ~InChannel(r, f)'
    BY DEF Owing
  <2>1. Owes(v, f, r)
    BY <1>1, <1>2, <1>3 DEF Owes
  <2>2. ~(r = s /\ f = e)
    <3>1. CASE v = w
      BY <1>3, <3>1 DEF Owes
    <3>2. CASE v # w
      <4>1. Busy(v, f)
        BY <2>1 DEF Owes, Busy
      <4> QED BY <1>1, <1>4, <3>2, <4>1 DEF BrokerInv, Numbering
    <3> QED BY <3>1, <3>2
  <2> QED BY <1>2, <1>11, <2>1, <2>2 DEF BrokerInv, Owing
<1>17. Delivering'
  BY <1>2, <1>5, <1>11 DEF BrokerInv, Delivering
<1>18. Serving'
  <2> SUFFICES ASSUME NEW r \in Streams, NEW f \in heard[r]
               PROVE  \/ f \in dropped'[r]
                      \/ InChannel(r, f)'
                      \/ \E v \in Publishers : Owes(v, f, r)'
    BY <1>2 DEF Serving
  <2>1. f \in Events /\ dropped[r] \subseteq dropped'[r]
    BY <1>6, <1>7 DEF TypeOK
  <2>2. CASE r = s /\ f = e
    BY <1>12, <2>1, <2>2
  <2>3. CASE ~(r = s /\ f = e)
    <3>1. \A v \in Publishers : Owes(v, f, r) => Owes(v, f, r)'
      BY <1>1, <1>2, <1>3, <2>3 DEF Owes
    <3> QED BY <1>10, <2>1, <3>1 DEF BrokerInv, Serving
  <2> QED BY <2>2, <2>3
<1>19. OrderRespectsTime'
  <2> SUFFICES ASSUME NEW r \in Streams,
                      NEW j \in 1..Len(sent'[r]), NEW k \in 1..Len(sent'[r]), j < k
               PROVE  sent'[r][j] # sent'[r][k] /\ sent'[r][k] \notin before[sent'[r][j]]
    BY <1>2 DEF OrderRespectsTime
  <2>1. CASE sent'[r] = sent[r]
    BY <2>1 DEF BrokerInv, OrderRespectsTime
  <2>2. CASE sent'[r] # sent[r]
    <3>1. /\ r = s
          /\ Len(sent'[s]) = Len(sent[s]) + 1
          /\ \A i \in 1..Len(sent[s]) : sent'[s][i] = sent[s][i]
          /\ sent'[s][Len(sent[s]) + 1] = e
      BY <1>6, <1>9, <2>2
    <3>2. j \in 1..Len(sent[s]) /\ (k \in 1..Len(sent[s]) \/ k = Len(sent[s]) + 1)
      BY <1>8, <3>1
    <3>3. CASE k \in 1..Len(sent[s])
      BY <3>1, <3>2, <3>3 DEF BrokerInv, OrderRespectsTime
    <3>4. CASE k = Len(sent[s]) + 1
      <4>1. sent'[r][k] = e /\ sent'[r][j] = sent[s][j] /\ sent[s][j] \in Events
        BY <1>8, <3>1, <3>2, <3>4
      <4>2. sent[s][j] # e
        BY <1>5, <3>2 DEF InChannel
      <4>3. e \notin before[sent[s][j]]
        BY <1>5, <4>1 DEF BrokerInv, Numbering
      <4> QED BY <4>1, <4>2, <4>3
    <3> QED BY <3>2, <3>3, <3>4
  <2> QED BY <2>1, <2>2
<1> QED BY <1>13, <1>14, <1>15, <1>16, <1>17, <1>18, <1>19 DEF BrokerInv

\* Publish returns when it owes nothing any more.
LEMMA ReturnStep ==
    ASSUME TypeOK, BrokerInv, NEW w \in Publishers, PublishReturns(w)
    PROVE  BrokerInv'
<1> USE DEF PublishReturns, streamVars
<1> DEFINE e == pub[w].event
<1>1. e \in Events /\ Busy(w, e)
  BY StateElim DEF TypeOK, Busy
<1>2. pub'[w].stage = "idle" /\ \A v \in Publishers : v # w => pub'[v] = pub[v]
  BY DEF Do, TypeOK, Resting
<1>3. \A v \in Publishers, f \in Events : Busy(v, f)' => v # w /\ Busy(v, f)
  BY <1>2 DEF Busy
<1>4. \A v \in Publishers, f \in Events, s \in Streams : Owes(v, f, s)' <=> Owes(v, f, s)
  BY <1>2 DEF Owes
<1>5. SendsMeetOpenChannels'
  BY <1>2 DEF BrokerInv, SendsMeetOpenChannels
<1>6. Numbering'
  BY <1>1, <1>3 DEF BrokerInv, Numbering
<1>7. Hearing'
  BY <1>2 DEF BrokerInv, Hearing
<1>8. Owing' /\ Delivering'
  BY <1>4 DEF BrokerInv, Owing, Delivering, InChannel
<1>9. Serving'
  <2>1. \A s \in Streams : heard[s] \subseteq Events
    BY DEF TypeOK
  <2> QED BY <1>4, <2>1 DEF BrokerInv, Serving, InChannel
<1>10. OrderRespectsTime'
  BY DEF BrokerInv, OrderRespectsTime
<1> QED BY <1>5, <1>6, <1>7, <1>8, <1>9, <1>10 DEF BrokerInv

\* Every step keeps the invariant.
LEMMA NextInv == TypeOK /\ BrokerInv /\ [Next]_vars => BrokerInv'
<1> SUFFICES ASSUME TypeOK, BrokerInv, [Next]_vars PROVE BrokerInv'
  OBVIOUS
<1>1. ASSUME NEW s \in Streams,
             \/ Connect(s) \/ Subscribe(s) \/ WriteDone(s) \/ WriteFails(s) \/ Take(s)
             \/ Ping(s) \/ Return(s) \/ ClientStalls(s) \/ ClientResumes(s) \/ ClientLeaves(s)
      PROVE  BrokerInv'
  <2>1. subs \subseteq subs' /\ UNCHANGED <<sent, pub, called, historyVars>>
    BY <1>1 DEF Connect, Subscribe, WriteDone, WriteFails, Take, Ping, Return,
                ClientStalls, ClientResumes, ClientLeaves
  <2> QED BY <2>1, OtherSteps
<1>2. CASE Close
  BY <1>2, OtherSteps DEF Close, streamVars
<1>3. CASE UNCHANGED vars
  BY <1>3, OtherSteps DEF vars
<1> QED
  BY <1>1, <1>2, <1>3, LeaveStep, PublishStep, RLockStep, SendStep, ReturnStep DEF Next

\* The inductive invariant, for any number of streams, publishers and events.
THEOREM BrokerInvariant == Spec => []BrokerInv
<1>1. Spec => [](TypeOK /\ BrokerInv)
  BY InitType, InitInv, NextType, NextInv, PTL DEF Spec
<1> QED BY <1>1, PTL

\* "A send can never race a close": however streams come and go, a Publish that
\* runs only meets channels that are open.
THEOREM NoSendOnClosed == Spec => []SendsMeetOpenChannels
BY BrokerInvariant, PTL DEF BrokerInv

\* Slow clients lose events only to their own full buffer: a Publish that has
\* returned offered its event to everybody it found subscribed.
THEOREM NobodyIsSkipped == Spec => []OnlyFullBuffersMiss
<1>1. TypeOK /\ BrokerInv => OnlyFullBuffersMiss
  <2> SUFFICES ASSUME TypeOK, BrokerInv, NEW s \in Streams, NEW e \in Events,
                      e \in heard[s] \cap returned
               PROVE  e \in dropped[s] \/ InChannel(s, e)
    BY DEF OnlyFullBuffersMiss, InChannel
  <2>1. \A w \in Publishers : ~Owes(w, e, s)
    BY DEF BrokerInv, Numbering, Busy, Owes
  <2> QED BY <2>1 DEF BrokerInv, Serving
<1> QED BY <1>1, TypeCorrect, BrokerInvariant, PTL

\* No stream sees an event twice, or before one that had been published in full
\* when it was called.
THEOREM StreamsAreInOrder == Spec => []OrderRespectsTime
BY BrokerInvariant, PTL DEF BrokerInv
==============================================================================
