SPECIFICATION Spec
CONSTANTS
    t1 = t1
    t2 = t2
    Tasks = {t1}
CHECK_DEADLOCK FALSE
PROPERTIES
    ResultNotDiscarded
