SPECIFICATION FairSpec
CONSTANTS
    MinTime = 5000
    MaxTime = 80000
    Factor = 2
    HitsToInc = 5
    HitsToDec = 20
    MaxHits = 25
PROPERTIES
    OnlyBelowIncreases
