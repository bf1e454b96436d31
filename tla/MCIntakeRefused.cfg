SPECIFICATION Spec
CONSTANTS
    mail = mail
    api = api
    i1 = i1
    i2 = i2
    i3 = i3
    NoId = NoId
    NoTicket = 0
    Passes = {p1, p2}
    Copies = {1, 2, 3}
    Channels = {mail, api}
    ApiChannels = {api}
    PushRouted = {mail}
    Ids = {i1, i2, i3}
    ChannelOf <- MCChannelOf
    IdOf <- MCIdOf
    AnswersTo <- MCAnswersTo
    Tickets = {1, 2, 3, 4}
    MaxFaults = 1
    MaxActs = 1
INVARIANT RefusalCostsNothing
CHECK_DEADLOCK FALSE
