SPECIFICATION FairSpec
CONSTANTS
    s1 = s1
    s2 = s2
    s3 = s3
    Stream = {s1, s2, s3}
    MaxStreams = 2
INVARIANT StreamsLimited
INVARIANT PollingFollowsStreams
INVARIANT PollingIsOwned
PROPERTY StreamsEnd
