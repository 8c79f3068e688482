SPECIFICATION Spec
CONSTANTS
    QueueCap = 1
    MaxEvents = 1
    MaxHistory = 2
    Window = 2
    s1 = s1
    Subs = {s1}
    SubCap = 2
    MaxEmits = 2
    MaxResets = 1
    MaxAfter = 1
INVARIANTS NothingLostSilently SubscriberOrder VerdictIsLatest
PROPERTIES IsEventStream GoroutinesEnd
CHECK_DEADLOCK FALSE
