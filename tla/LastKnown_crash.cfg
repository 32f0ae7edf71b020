\* Two announced versions, with a crash possible during either write.
CONSTANTS
    Current <- MCCurrent
    Announced <- MCAnnounced
    MaxPatch = 10
SPECIFICATION Spec
INVARIANT LastKnownNotBelowStored
