SPECIFICATION FairSpec
CHECK_DEADLOCK FALSE
INVARIANT NothingLeftRunning
PROPERTIES
    DrainSurvivesSignals
    SignalEndsProcess
