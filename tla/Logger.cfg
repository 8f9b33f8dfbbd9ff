\* A thread that logs while another sets the logger.
SPECIFICATION Spec
CONSTANTS
    Threads = {t1, t2}
    Loggers = {l1, l2}
    Default = l1
    Levels = {0, 1}
INVARIANT LogsToLiveLogger
