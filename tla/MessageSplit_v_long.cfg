SPECIFICATION SplitSpec
CONSTANTS
    Messages <- MCLong
    Limits = {60}
CHECK_DEADLOCK FALSE
PROPERTY SplitAdvances
