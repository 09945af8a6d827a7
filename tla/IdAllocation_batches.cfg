\* Up to three batches at once, and two restarts.  The ids run out.
SPECIFICATION Spec
CONSTANTS
    Batch = {b1, b2, b3}
    MaxID = 4
    MaxRestarts = 2
INVARIANTS IdsUnique CountExact
