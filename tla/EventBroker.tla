---------------------------- MODULE EventBroker ------------------------------
(***************************************************************************)
(* The Server-Sent Events hub and its streams.  Handlers call Publish,      *)
(* which holds the read lock while it offers the event to one subscriber    *)
(* after the other and never waits for any of them; Subscribe and the       *)
(* unsubscribe function take the write lock.  A stream is one HTTP handler: *)
(* it subscribes, then alternates between a select and a write to its       *)
(* client until the client leaves or the broker is closed.                  *)
(*                                                                          *)
(* A channel is the sequence of everything that was ever put into it and    *)
(* the number of events taken out; the rest is its buffer.  Events are      *)
(* numbered in the order in which their Publish was called.                 *)
(***************************************************************************)
EXTENDS Naturals, Sequences, FiniteSets

CONSTANTS
    Streams,     \* stream handlers, one per GET /events
    Publishers,  \* request handlers that publish, one event at a time
    MaxEvents,   \* bound: events published
    BufferSize,  \* subBuffer
    Stalls       \* may a client stop reading without closing its connection?

ASSUME BrokerAssumption ==
    /\ MaxEvents \in Nat
    /\ BufferSize \in Nat \ {0}
    /\ Stalls \in BOOLEAN

VARIABLES
    subs,     \* Broker.subs
    closed,   \* Broker.done is closed
    phase,    \* where each stream handler is
    client,   \* what the client at the other end does
    sent,     \* what went into each stream's channel
    taken,    \* how many of them the stream took out
    pub,      \* what each publisher is doing
    called,   \* number of events published so far
    \* History, read by no action:
    returned, \* the events whose Publish has returned
    before,   \* for each event, the events whose Publish had returned before its call
    heard,    \* the events whose Publish found the stream subscribed
    dropped   \* the events the stream lost to a full buffer

streamVars == <<subs, phase, client, taken>>
historyVars == <<returned, before, heard, dropped>>
vars == <<subs, closed, phase, client, sent, taken, pub, called, historyVars>>

Events == 1..MaxEvents

Phases == {"none", "joining", "selecting", "writing", "leaving", "gone"}

\* Waiting for the write lock.
LockPhases == {"joining", "leaving"}

Resting == [stage |-> "idle"]

\* Holding the read lock, with the subscribers still to be served.
Sending(e, left) == [stage |-> "sending", event |-> e, left |-> left]

PublisherStates ==
    {Resting}
    \cup [stage : {"calling"}, event : Events]
    \cup [stage : {"sending"}, event : Events, left : SUBSET Streams]

TypeOK ==
    /\ subs \subseteq Streams
    /\ closed \in BOOLEAN
    /\ phase \in [Streams -> Phases]
    /\ client \in [Streams -> {"reading", "stalled", "left"}]
    /\ sent \in [Streams -> Seq(Events)]
    /\ taken \in [Streams -> Nat]
    /\ pub \in [Publishers -> PublisherStates]
    /\ called \in 0..MaxEvents
    /\ returned \subseteq Events
    /\ before \in [Events -> SUBSET Events]
    /\ heard \in [Streams -> SUBSET Events]
    /\ dropped \in [Streams -> SUBSET Events]
    /\ \A s \in Streams : taken[s] <= Len(sent[s]) /\ Len(sent[s]) <= taken[s] + BufferSize

Init ==
    /\ subs = {}
    /\ closed = FALSE
    /\ phase = [s \in Streams |-> "none"]
    /\ client = [s \in Streams |-> "reading"]
    /\ sent = [s \in Streams |-> <<>>]
    /\ taken = [s \in Streams |-> 0]
    /\ pub = [w \in Publishers |-> Resting]
    /\ called = 0
    /\ returned = {}
    /\ before = [e \in Events |-> {}]
    /\ heard = [s \in Streams |-> {}]
    /\ dropped = [s \in Streams |-> {}]

------------------------------------------------------------------------------
(* The RWMutex: the critical sections under the write lock contain nothing    *)
(* that blocks, so each is one step; the one under the read lock is not.      *)

NoReader == \A w \in Publishers : pub[w].stage # "sending"

\* A goroutine that waits for the write lock keeps new readers out.
NoWriterWaiting == \A s \in Streams : phase[s] \notin LockPhases

Lag(s) == Len(sent[s]) - taken[s]

Go(s, p) == phase' = [phase EXCEPT ![s] = p]
Do(w, r) == pub' = [pub EXCEPT ![w] = r]

\* The handler has returned: its connection is closed, its channel is garbage.
Discard(s) ==
    /\ client' = [client EXCEPT ![s] = "left"]
    /\ sent' = [sent EXCEPT ![s] = <<>>]
    /\ taken' = [taken EXCEPT ![s] = 0]
    /\ heard' = [heard EXCEPT ![s] = {}]
    /\ dropped' = [dropped EXCEPT ![s] = {}]

------------------------------------------------------------------------------
(* Mutants: plausible slips, each put in the place of the action it is named   *)
(* after to see that a property notices.  No action uses them.                 *)

\* Unsubscribe deletes and closes without the lock.
LeaveUnlocked(s) ==
    /\ phase[s] = "leaving"
    /\ subs' = subs \ {s}
    /\ Go(s, "gone")
    /\ Discard(s)
    /\ UNCHANGED <<closed, pub, called, returned, before>>

\* A full buffer ends the loop ("return" for "skip").
SendGivesUp(w, s) ==
    /\ pub[w].stage = "sending"
    /\ s \in pub[w].left
    /\ IF Lag(s) < BufferSize
       THEN /\ sent' = [sent EXCEPT ![s] = Append(@, pub[w].event)]
            /\ Do(w, Sending(pub[w].event, pub[w].left \ {s}))
            /\ UNCHANGED dropped
       ELSE /\ dropped' = [dropped EXCEPT ![s] = @ \cup {pub[w].event}]
            /\ Do(w, Sending(pub[w].event, {}))
            /\ UNCHANGED sent
    /\ UNCHANGED <<streamVars, closed, called, returned, before, heard>>

\* Publish waits for room in the buffer (no default case).
SendBlocks(w, s) ==
    /\ pub[w].stage = "sending"
    /\ s \in pub[w].left
    /\ Lag(s) < BufferSize
    /\ sent' = [sent EXCEPT ![s] = Append(@, pub[w].event)]
    /\ Do(w, Sending(pub[w].event, pub[w].left \ {s}))
    /\ UNCHANGED <<streamVars, closed, called, returned, before, heard, dropped>>

\* The buffer check is off by one.
SendOverfills(w, s) ==
    /\ pub[w].stage = "sending"
    /\ s \in pub[w].left
    /\ IF Lag(s) <= BufferSize
       THEN sent' = [sent EXCEPT ![s] = Append(@, pub[w].event)] /\ UNCHANGED dropped
       ELSE dropped' = [dropped EXCEPT ![s] = @ \cup {pub[w].event}] /\ UNCHANGED sent
    /\ Do(w, Sending(pub[w].event, pub[w].left \ {s}))
    /\ UNCHANGED <<streamVars, closed, called, returned, before, heard>>

\* The loop runs in a goroutine of its own and Publish returns at once.
PublishReturnsEarly(w) ==
    /\ pub[w].stage = "sending"
    /\ Do(w, IF pub[w].left = {} THEN Resting ELSE pub[w])
    /\ returned' = returned \cup {pub[w].event}
    /\ UNCHANGED <<streamVars, closed, sent, called, before, heard, dropped>>

\* The select lacks the case of the broker's Done.
ReturnOnHangUp(s) ==
    /\ phase[s] = "selecting"
    /\ client[s] = "left"
    /\ Go(s, "leaving")
    /\ UNCHANGED <<subs, closed, client, sent, taken, pub, called, historyVars>>

\* The select lacks the case of the request's context.
ReturnOnShutdown(s) ==
    /\ phase[s] = "selecting"
    /\ closed
    /\ Go(s, "leaving")
    /\ UNCHANGED <<subs, closed, client, sent, taken, pub, called, historyVars>>

------------------------------------------------------------------------------
(* Stream: the handler of GET /api/v1/events *)

\* The token is valid; the handler calls Subscribe.
Connect(s) ==
    /\ phase[s] = "none"
    /\ Go(s, "joining")
    /\ UNCHANGED <<subs, closed, client, sent, taken, pub, called, historyVars>>

\* Subscribe gets the lock; the handler goes on to write ": connected".
Subscribe(s) ==
    /\ phase[s] = "joining"
    /\ NoReader
    /\ subs' = subs \cup {s}
    /\ Go(s, "writing")
    /\ UNCHANGED <<closed, client, sent, taken, pub, called, historyVars>>

\* Write and Flush return; the write deadline is off, so they wait for as long
\* as the client does not read.
WriteDone(s) ==
    /\ phase[s] = "writing"
    /\ client[s] # "stalled"
    /\ Go(s, "selecting")
    /\ UNCHANGED <<subs, closed, client, sent, taken, pub, called, historyVars>>

WriteFails(s) ==
    /\ phase[s] = "writing"
    /\ client[s] = "left"
    /\ Go(s, "leaving")
    /\ UNCHANGED <<subs, closed, client, sent, taken, pub, called, historyVars>>

Take(s) ==
    /\ phase[s] = "selecting"
    /\ Lag(s) > 0
    /\ taken' = [taken EXCEPT ![s] = @ + 1]
    /\ Go(s, "writing")
    /\ UNCHANGED <<subs, closed, client, sent, pub, called, historyVars>>

\* The heartbeat writes ": ping".
Ping(s) ==
    /\ phase[s] = "selecting"
    /\ Go(s, "writing")
    /\ UNCHANGED <<subs, closed, client, sent, taken, pub, called, historyVars>>

\* The client's context is done or the broker is; the deferred unsub is called.
Return(s) ==
    /\ phase[s] = "selecting"
    /\ client[s] = "left" \/ closed
    /\ Go(s, "leaving")
    /\ UNCHANGED <<subs, closed, client, sent, taken, pub, called, historyVars>>

\* Unsubscribe gets the lock: delete from the map and close the channel.
Leave(s) ==
    /\ phase[s] = "leaving"
    /\ NoReader
    /\ subs' = subs \ {s}
    /\ Go(s, "gone")
    /\ Discard(s)
    /\ UNCHANGED <<closed, pub, called, returned, before>>

\* What the client does is up to it.
ClientStalls(s) ==
    /\ Stalls
    /\ phase[s] \notin {"none", "gone"}
    /\ client[s] = "reading"
    /\ client' = [client EXCEPT ![s] = "stalled"]
    /\ UNCHANGED <<subs, closed, phase, sent, taken, pub, called, historyVars>>

ClientResumes(s) ==
    /\ client[s] = "stalled"
    /\ client' = [client EXCEPT ![s] = "reading"]
    /\ UNCHANGED <<subs, closed, phase, sent, taken, pub, called, historyVars>>

ClientLeaves(s) ==
    /\ phase[s] \notin {"none", "gone"}
    /\ client[s] # "left"
    /\ client' = [client EXCEPT ![s] = "left"]
    /\ UNCHANGED <<subs, closed, phase, sent, taken, pub, called, historyVars>>

------------------------------------------------------------------------------
(* Publish *)

Publish(w) ==
    /\ pub[w] = Resting
    /\ called < MaxEvents
    /\ called' = called + 1
    /\ Do(w, [stage |-> "calling", event |-> called + 1])
    /\ before' = [before EXCEPT ![called + 1] = returned]
    /\ UNCHANGED <<streamVars, closed, sent, returned, heard, dropped>>

RLock(w) ==
    /\ pub[w].stage = "calling"
    /\ NoWriterWaiting
    /\ Do(w, Sending(pub[w].event, subs))
    /\ heard' = [s \in Streams |-> IF s \in subs THEN heard[s] \cup {pub[w].event} ELSE heard[s]]
    /\ UNCHANGED <<streamVars, closed, sent, called, returned, before, dropped>>

\* One turn of the loop over the map: the event goes into the buffer, or is
\* dropped for this subscriber when the buffer is full.
Send(w, s) ==
    /\ pub[w].stage = "sending"
    /\ s \in pub[w].left
    /\ IF Lag(s) < BufferSize
       THEN sent' = [sent EXCEPT ![s] = Append(@, pub[w].event)] /\ UNCHANGED dropped
       ELSE dropped' = [dropped EXCEPT ![s] = @ \cup {pub[w].event}] /\ UNCHANGED sent
    /\ Do(w, Sending(pub[w].event, pub[w].left \ {s}))
    /\ UNCHANGED <<streamVars, closed, called, returned, before, heard>>

\* The deferred RUnlock.
PublishReturns(w) ==
    /\ pub[w].stage = "sending"
    /\ pub[w].left = {}
    /\ Do(w, Resting)
    /\ returned' = returned \cup {pub[w].event}
    /\ UNCHANGED <<streamVars, closed, sent, called, before, heard, dropped>>

\* Broker.Close, called first thing at shutdown.
Close ==
    /\ ~closed
    /\ closed' = TRUE
    /\ UNCHANGED <<streamVars, sent, pub, called, historyVars>>

------------------------------------------------------------------------------

Next ==
    \/ \E s \in Streams : Connect(s)
    \/ \E s \in Streams : Subscribe(s)
    \/ \E s \in Streams : WriteDone(s)
    \/ \E s \in Streams : WriteFails(s)
    \/ \E s \in Streams : Take(s)
    \/ \E s \in Streams : Ping(s)
    \/ \E s \in Streams : Return(s)
    \/ \E s \in Streams : Leave(s)
    \/ \E s \in Streams : ClientStalls(s)
    \/ \E s \in Streams : ClientResumes(s)
    \/ \E s \in Streams : ClientLeaves(s)
    \/ \E w \in Publishers : Publish(w)
    \/ \E w \in Publishers : RLock(w)
    \/ \E w \in Publishers, s \in Streams : Send(w, s)
    \/ \E w \in Publishers : PublishReturns(w)
    \/ Close

Spec == Init /\ [][Next]_vars

\* A goroutine that can run does run.  A select chooses at random among its
\* ready cases, so Return, once it stays ready at every select, is chosen in the
\* end: strong fairness.  Nothing is assumed of clients.
Fairness ==
    /\ \A s \in Streams :
         /\ WF_vars(Subscribe(s) \/ WriteDone(s) \/ WriteFails(s) \/ Leave(s))
         /\ SF_vars(Return(s))
    /\ \A w \in Publishers :
         WF_vars(RLock(w) \/ (\E s \in Streams : Send(w, s)) \/ PublishReturns(w))

FairSpec == Spec /\ Fairness

------------------------------------------------------------------------------
(* Properties that hold *)

\* No send on a closed channel: whomever a running Publish still has to serve
\* is subscribed, however streams come and go meanwhile.
SendsMeetOpenChannels ==
    \A w \in Publishers : pub[w].stage = "sending" => pub[w].left \subseteq subs

\* A slow client loses events of its own and nobody else's: an event whose
\* Publish found the stream subscribed and has returned went into its channel
\* unless that very buffer was full.
OnlyFullBuffersMiss ==
    \A s \in Streams, e \in Events :
        e \in heard[s] \cap returned =>
            e \in dropped[s] \/ \E k \in 1..Len(sent[s]) : sent[s][k] = e

\* Every stream sees events in an order that respects real time, and none of
\* them twice: of two events in a channel the later one's Publish had not
\* returned when the earlier one's was called.
OrderRespectsTime ==
    \A s \in Streams : \A j, k \in 1..Len(sent[s]) :
        j < k => /\ sent[s][j] # sent[s][k]
                 /\ sent[s][k] \notin before[sent[s][j]]

\* "A slow reader must never stall a writer": Publish returns whatever the
\* clients do, and although subscribers that come and go keep readers waiting.
PublishAlwaysReturns ==
    \A w \in Publishers : (pub[w].stage = "calling") ~> (pub[w].stage = "idle")

\* A client that leaves is unsubscribed: the map of subscribers does not leak.
LeaversUnsubscribe ==
    \A s \in Streams : (client[s] = "left") ~> (phase[s] = "gone" /\ s \notin subs)

\* Closing the broker ends every stream whose client keeps reading or leaves,
\* also one that connects afterwards.
CloseEndsReadStreams ==
    \A s \in Streams :
        (closed /\ phase[s] # "none") ~> (phase[s] = "gone" \/ client[s] = "stalled")

------------------------------------------------------------------------------
(* What a document says of the code, and the code does not do *)

\* "The API closes the broker, which unblocks every open stream so they
\* terminate cleanly before the process exits."
CloseEndsStreams ==
    \A s \in Streams : (closed /\ phase[s] # "none") ~> (phase[s] = "gone")
==============================================================================
