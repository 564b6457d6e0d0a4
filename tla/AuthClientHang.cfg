\* One tab; nothing fails, but the refresh token may have expired.
SPECIFICATION FairSpec
CONSTANTS
    tA = tA
    tB = tB
    c1 = c1
    c2 = c2
    c3 = c3
    c4 = c4
    Tabs = {tA}
    Slots = {c1, c2, c3}
    TabOf <- OneTab
    MaxToken = 3
    Kinds = {"app"}
    Failures = FALSE
PROPERTIES CallsSettle
CHECK_DEADLOCK FALSE
