\* Keys none of which is the beginning of another; files of three lines.
SPECIFICATION FileSpec
CONSTANTS
    Names <- MCNames
    Keys <- MCKeys
    Default <- MCDefault
    Values <- MCValues
    NoValue = NoValue
    Files <- MCFiles
    Setting <- MCSetting
INVARIANTS GetAnswersLastSet SearchTrees NodesCounted RefusedIfMalformed RoundTrip
CHECK_DEADLOCK FALSE
