SPECIFICATION Spec
CONSTANTS
    c1 = c1
    c2 = c2
    Events = {1, 2, 3}
    Slots = {1, 2}
    Unclassified = "none"
    Filter = "music"
    Other = "sports"
    calendarPageSize = 1
    searchResultLimit = 2
    searchCandidateLimit = 3
    MaxChanges = 2
    Horizon = 2
    Calls = {c1, c2}
    Still <- InTab
    MaxClicks = 2
    MaxFaults = 1
SYMMETRY Symmetry
INVARIANTS SteadyShownOnce SearchListsTheBest QuietListsAgree
CHECK_DEADLOCK FALSE
