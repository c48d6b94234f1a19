\* The same parts: nobody is bound to ask for the end of a queued registration.
SPECIFICATION FairSpec
PROPERTY QueuedIsTold
CHECK_DEADLOCK FALSE
