SPECIFICATION FairSpec
CONSTANTS
    Handlers = {h1, h2}
    Rules = {1, 2, 3}
    RuleTrigger <- MCTrigger
    RuleWhen <- MCWhen
    RuleSet <- MCSet
    Statuses = {"open", "waiting"}
    Messages = {1, 2}
    MaxReplies = 1
    MaxFaults = 1
    MaxEdits = 1
INVARIANTS
    TypeOK
    
    
PROPERTIES
    NeverOutranksAuthor
    Decided
    
CHECK_DEADLOCK FALSE
