SPECIFICATION FairProfilesSpec
CONSTANTS
    Writers = {w1, w2}
    Events = {e1, e2}
    e1 = e1
    e2 = e2
    MaxAttempts = 3
    MaxCalls = 3
    MaxFaults = 3
    Null = Null
    TimeOf <- Timestamps
    BytesOf <- Volumes
    BuildTimes = {1, 31, 260}
    WindowHours <- HourDayWeek
    ProfileHours = 240
INVARIANTS StoredAsTold RecentEventsCounted IdleProfileStands
PROPERTIES CallsEnd
CHECK_DEADLOCK FALSE
