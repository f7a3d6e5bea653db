CONSTANTS
    Reports <- HostReports
    Tunings <- Tables
    Rules = {r1}
    Watches <- AllWatches
    Rewrites <- SomeWatches
    Channels = {c1, c2, c3}
    Stored = {c1, c2}
    Imported = {c2}
    Editors = {e1}
    NoRule = NoRule
    NoChannel = NoChannel
    MaxEdits = 2
SPECIFICATION Spec
INVARIANTS TypeOK AnnouncedOnce EveryChannelIsTried DeletedIsGone WorstMentionCounts ScoreFollowsExposure
