\* A query and a refresh while records, cache and configuration change.
CONSTANTS
    Queries = {q1}
    Jobs = {j1}
    clean = clean
    poisoned = poisoned
    Answers = {clean, poisoned}
    Local = Local
    NoAnswer = NoAnswer
    Configs <- BothConfigs
SPECIFICATION FairSpec
INVARIANTS TypeOK  LocalAnswerHasRecords FailsOnlyAfterAll LocalNamesStayLocal
CHECK_DEADLOCK FALSE
PROPERTIES EveryQueryAnswered
