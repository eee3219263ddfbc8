CONSTANTS
    PersonaChoices = {p1}
    SwitchRequests = {}
    MaxSessions = 1
    Turns = {c1, c2}
    ConsentPosts = {c3}
    MaxRestarts = 0
SPECIFICATION ChatSpec
CHECK_DEADLOCK FALSE
INVARIANTS
    OnlyAllowedLeaves
