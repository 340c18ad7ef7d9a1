SPECIFICATION Spec
CONSTANTS
    m1 = m1
    m2 = m2
    Msgs = {m1, m2}
    Illustrated = {m2}
    Sections = {"image", "tour"}
    MaxConcurrency = 2
    TTL <- Days
    MaxReceive = 2
    MaxFaults = 1
PROPERTIES GoodSurvives ErrorsHeal
