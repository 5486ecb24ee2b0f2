SPECIFICATION RelayFairSpec
CONSTANTS
    Limit <- Long
    Cap = 2
PROPERTIES
    ImplementsDuplex
    SerialDelivers
