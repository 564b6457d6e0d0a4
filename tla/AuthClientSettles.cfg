\* One tab, two calls that share a refresh; requests fail and answers are lost.
SPECIFICATION FairSpec
CONSTANTS
    tA = tA
    tB = tB
    c1 = c1
    c2 = c2
    c3 = c3
    c4 = c4
    Tabs = {tA}
    Slots = {c1, c2, c3}
    TabOf <- OneTab
    MaxToken = 3
    Kinds = {"app"}
    Failures = TRUE
INVARIANTS OneRefreshPerTab WaitersHaveARefresh
PROPERTIES CallsSettleUnlessRefused
CHECK_DEADLOCK FALSE
