SPECIFICATION ServicesSpec
CONSTANTS
    w1 = w1  w2 = w2  t1 = t1  s1 = s1  s2 = s2
    Pollers = {w1, w2}  Targets = {t1}  Messages <- MCMessages  BatchLimit = 2  MaxBreaks = 2
    Projects = {1, 2}  Schedulers = {s1, s2}  Intervals = {1, 2}  LastMinute = 2  MaxChoices = 3
INVARIANTS
    CommandsAppliedOnce
    OperatorChoiceStands
PROPERTIES
    CommandsHandled
    DueProjectsSettle
CHECK_DEADLOCK FALSE
