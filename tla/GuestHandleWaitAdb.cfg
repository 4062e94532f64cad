\* wait-adb on a started, healthy guest: the exit watcher is in wait().
SPECIFICATION FairSpec
CONSTANTS
    Watchers = {w1}
    Terminators = {}
    Pollers = {p1}
    Statuses = {ok, failed}
    NoStatus = NoStatus
    NoThread = NoThread
    ObeysTerm = TRUE
PROPERTY PollersReturn
CHECK_DEADLOCK FALSE
