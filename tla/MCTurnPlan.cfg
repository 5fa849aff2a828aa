SPECIFICATION PlanSpec
CONSTANTS
    Turn = {t1}
    AgentId = {"o", "c", "v", "n", "a"}
    Called <- MCCalled
    Default = "o"
    Message <- MCMessage
    Recent = 2
INVARIANT SelectionStands
