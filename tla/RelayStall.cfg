SPECIFICATION RelayFairSpec
CONSTANTS
    Limit <- Long
    Cap = 1
PROPERTIES
    KeepsMoving
