CONSTANTS
    i1 = i1
    i2 = i2
    n1 = n1
    Unset = Unset
    Interactions <- MCInteractions
    Notices <- MCNotices
    MaxFaults = 2
SPECIFICATION BotSpec
INVARIANTS AnswersHonest NobodyForgotten NoticesHonest
PROPERTIES EveryoneTold
