\* Edits, SIGHUPs, failing services and restarts of a process with both roles.
CONSTANTS
    mild = mild
    strict = strict
    Refused = Refused
    Texts <- Edits
    MaxWrites = 2
SPECIFICATION FairSpec
INVARIANT ReportedUnlessRemoded
PROPERTIES NeverBackwards EditsTakeEffect StopsForGood
CHECK_DEADLOCK FALSE
