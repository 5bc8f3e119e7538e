CONSTANTS
    Rows = {r1, r2, r3}
    Limits <- SmallLimits
    MaxTime = 2
    Age = 1
SPECIFICATION FairListingSpec
INVARIANTS ListingTypeOK SurvivorsAreListed RepeatsHaveACause
PROPERTIES WalksEnd
CHECK_DEADLOCK FALSE
