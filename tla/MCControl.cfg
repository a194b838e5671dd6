\* Two viewers of any kind, one whose socket takes parts of lines.
SPECIFICATION FairSpec
CONSTANTS
    v1 = v1
    v2 = v2
    Viewers <- TwoViewers
    Slow <- SlowOne
    Levels <- TwoLevels
    currentLevel = 1
    MaxLines = 2
INVARIANT OnlyTheLiving
INVARIANT LinesAccounted
PROPERTY LeftSessionsEnd
CHECK_DEADLOCK FALSE
