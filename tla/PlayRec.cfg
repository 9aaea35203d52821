SPECIFICATION Spec
CONSTANTS
    Lens <- MCLens
    Tails <- MCTails
    Delays <- MCDelays
    Travels <- MCTravels
    Blocks <- MCBlocks
    NoFrame = NoFrame
INVARIANTS
    PlaysFileOnce
    SavedIsResponse
    InterruptedNeverSaved
CHECK_DEADLOCK FALSE
