SPECIFICATION Spec
CONSTANTS
    Event = {timer, trigger, sock}
    Oneshot = {trigger}
    Timer = {timer}
    Trigger = {trigger}
    RenewsFirst = TRUE
    ForksDrained = TRUE
INVARIANTS
    TypeOK
    ArmedInBoth
    NoneOfTheOther
