\* A key that is the beginning of another one.
SPECIFICATION FileSpec
CONSTANTS
    Names <- MCPrefixNames
    Keys <- MCPrefixKeys
    Default <- MCDefault
    Values <- MCValues
    NoValue = NoValue
    Files = {}
    Setting <- MCSetting
INVARIANT GetAnswersLastSet
