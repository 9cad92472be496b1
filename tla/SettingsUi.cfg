SPECIFICATION Spec
CONSTANTS
    Candidates <- MCCandidates
    Readings = {"r1"}
    InitialRtc <- MCInitialRtc
    EditableItems = {0}
    TickSecs = 60
    APP_EVENT_CHANNEL_DEPTH = 1
    APP_COMMAND_CHANNEL_DEPTH = 1
    Times = {"none", "t0"}
    Faults <- MCFaults
    MaxUses = 2
    MaxIncidents = 1
INVARIANTS
    TypeOK
    GlassShowsController
    SettledSettingsAgree
    StoredSettingsSurvive
PROPERTY
    NoSleepWhileUsed
CHECK_DEADLOCK FALSE
