\* Two producers with three batches each, two of which fail.  When all is
\* delivered, everything stops.
SPECIFICATION FairSpec
CONSTANTS
    Producer = {p1, p2}
    Batches = 3
    MaxFailures = 2
CHECK_DEADLOCK FALSE
INVARIANTS TypeOK AllButOneSettled InOrderOnce CompleteOnReturn
PROPERTIES PushReturns FollowerEnds ImplementsBatchStream
