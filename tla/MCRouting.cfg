SPECIFICATION Spec
CONSTANTS
    Conversations = {1, 2}
    Operators = {1, 2}
    d1 = d1
    d2 = d2
    Desks = {d1, d2}
    NoDesk = NoDesk
    Handlers = {h1}
    Drains = {r1}
    Handovers = {o1}
    MembersOf <- MCMembersOf
    ChannelDesk <- MCChannelDesk
    Exclusive = {}
    Budget <- MCBudget
    MaxBudget = 1
    Offers <- MCOffers
    DeskLeads <- MCDeskLeads
    Limit = 2
    MaxActs = 3
    MaxNow = 1
    Unpushed = Unpushed
INVARIANTS
    TypeOK
    BudgetHeld
    DeskTookIt
PROPERTIES
    JoinsUnowned
    
CHECK_DEADLOCK FALSE
