SPECIFICATION Spec
CONSTANTS
    Tasks = {t1, t2}
    Processes = {api}
    Day = 2
    Keep = 4
    Limit = 1
    Horizon = 3
    MaxFaults = 2
INVARIANTS TypeOK NeverEarly
PROPERTIES DueIsReminded
