SPECIFICATION Spec
CONSTANTS
    Channels = {gui, core}
    Gui = gui
    StaleAfter = 3
    Interval = 2
    Duration = 1
    BeatPeriod = 1
    PollPeriod = 1
    PollDelay = 1
    MaxClock = 5
    MaxUpsets = 2
INVARIANT TypeOK
PROPERTIES
    NoFalseAlarm
    StallNoticed
    RecoveryNeedsBeat
