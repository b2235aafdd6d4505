\* Edits that change the mode.
CONSTANTS
    mild = mild
    strict = strict
    Refused = Refused
    Texts <- EditsOfMode
    MaxWrites = 2
SPECIFICATION Spec
INVARIANT ReportedIsInForce
CHECK_DEADLOCK FALSE
