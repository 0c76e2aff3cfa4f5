SPECIFICATION DataSpec
CONSTANTS
    MaxChannels <- MCChannels
    MaxFrames <- MCFrames
    Second = 100
    Half = 32768
    TimeBases <- MCTimeBases
    Timestamps <- MCTimestamps
    Durations <- MCDurations
    Rates <- MCRates
INVARIANTS TypeOK SamplesKept Mixed ChannelsAgree SeeksBack CacheLasts
CHECK_DEADLOCK FALSE
