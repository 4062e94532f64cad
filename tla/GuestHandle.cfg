\* One watcher, two terminators and a wait_for_adb loop on a guest that obeys SIGTERM.
SPECIFICATION FairSpec
CONSTANTS
    Watchers = {w1}
    Terminators = {t1, t2}
    Pollers = {p1}
    Statuses = {ok, failed}
    NoStatus = NoStatus
    NoThread = NoThread
    ObeysTerm = TRUE
INVARIANT TypeOK
INVARIANT ExitIsTrue
INVARIANT AnswersAgree
INVARIANT NeverAlreadyAwaited
INVARIANT NoStaleWaitpid
PROPERTY ImplementsExitCell
PROPERTY TerminatorsReturn
PROPERTY WatchersLearn
CHECK_DEADLOCK FALSE
