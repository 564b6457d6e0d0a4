SPECIFICATION RetroVotingSpec
CONSTANTS
    Cards = {c1, c2, c3}
    MAX_VOTES = 2
    MaxVotings = 4
INVARIANT VotesWithinLimit
CHECK_DEADLOCK FALSE
