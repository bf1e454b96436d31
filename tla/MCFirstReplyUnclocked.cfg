SPECIFICATION Spec
CONSTANTS
    Handlers = {h1}
    Rules = {1, 2, 3}
    RuleTrigger <- MCTrigger
    RuleWhen <- MCWhen
    RuleSet <- MCSet
    Statuses = {"open", "waiting"}
    Messages = {1}
    MaxReplies = 1
    MaxFaults = 0
    MaxEdits = 0
INVARIANT MessageStartsClock
CHECK_DEADLOCK FALSE
