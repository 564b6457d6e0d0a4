----------------------------- MODULE RetroVoting -----------------------------
(***************************************************************************)
(* Voting for the cards of a sprint's retrospective, seen for one voter: on *)
(* his own page and on that of a facilitator who votes for him.  Each card  *)
(* has a button of its own that is off while its request is under way; the  *)
(* server counts the voter's votes and then casts one more.                 *)
(***************************************************************************)
EXTENDS Naturals, FiniteSets

CONSTANTS
    Cards,     \* the sprint's cards
    MAX_VOTES, \* votes per voter and sprint
    MaxVotings \* bound: clicks

ASSUME RetroVotingAssumption == {MAX_VOTES, MaxVotings} \subseteq Nat

\* Whose page a click is made on.
Pages == {"self", "facilitator"}

VARIABLES
    votes,   \* the cards the voter has a vote on
    my_vote, \* the same, as each page shows it
    voting,  \* requests: page, card, what is asked, how far it got
    votings

voteVars == <<votes, my_vote, voting, votings>>

RetroVotingTypeOK ==
    /\ votes \subseteq Cards
    /\ my_vote \in [Pages -> SUBSET Cards]
    /\ voting \subseteq [page : Pages, card : Cards, asks : {"vote", "unvote"},
                         at : {"sent", "counted", "served"}]
    /\ votings \in 0..MaxVotings

RetroVotingInit ==
    /\ votes = {}
    /\ my_vote = [p \in Pages |-> {}]
    /\ voting = {}
    /\ votings = 0

voteDisabled(p, c) == c \notin my_vote[p] /\ Cardinality(my_vote[p]) >= MAX_VOTES

clickVote(p, c) ==
    /\ votings < MaxVotings
    /\ ~\E v \in voting : v.page = p /\ v.card = c
    /\ ~voteDisabled(p, c)
    /\ voting' = voting \cup {[page |-> p, card |-> c, at |-> "sent",
                               asks |-> IF c \in my_vote[p] THEN "unvote" ELSE "vote"]}
    /\ votings' = votings + 1
    /\ UNCHANGED <<votes, my_vote>>

Reach(v, step) == voting' = (voting \ {v}) \cup {[v EXCEPT !.at = step]}

\* The server counts: at the limit the vote is refused.
CountUserRetroVotes(v) ==
    /\ v.asks = "vote" /\ v.at = "sent"
    /\ Reach(v, IF Cardinality(votes) >= MAX_VOTES THEN "served" ELSE "counted")
    /\ UNCHANGED <<votes, my_vote, votings>>

\* Then it casts: a second vote on one card is no vote.
CastRetroVote(v) ==
    /\ v.at = "counted"
    /\ votes' = votes \cup {v.card}
    /\ Reach(v, "served")
    /\ UNCHANGED <<my_vote, votings>>

RetractRetroVote(v) ==
    /\ v.asks = "unvote" /\ v.at = "sent"
    /\ votes' = votes \ {v.card}
    /\ Reach(v, "served")
    /\ UNCHANGED <<my_vote, votings>>

\* The page reads the cards again after its request; others are not told.
VoteAnswered(v) ==
    /\ v.at = "served"
    /\ voting' = voting \ {v}
    /\ my_vote' = [my_vote EXCEPT ![v.page] = votes]
    /\ UNCHANGED <<votes, votings>>

RetroVotingNext ==
    \/ \E p \in Pages, c \in Cards : clickVote(p, c)
    \/ \E v \in voting : CountUserRetroVotes(v) \/ CastRetroVote(v) \/ RetractRetroVote(v)
                         \/ VoteAnswered(v)

RetroVotingSpec == RetroVotingInit /\ [][RetroVotingNext]_voteVars

-----------------------------------------------------------------------------
\* The server keeps a voter within the limit, as the handler's comment and its
\* answer "all 5 votes for this sprint are used" say.
VotesWithinLimit == Cardinality(votes) <= MAX_VOTES
=============================================================================
