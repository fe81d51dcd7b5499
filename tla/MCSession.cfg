\* Builds with and without overflow checks; every pair of statements of each kind.
SPECIFICATION SessionSpec
CONSTANTS
    IntMax = 15
    MaxTtl = 5
    MaxAhead = 2
    J2000 = 4
    Claims <- MCClaims
    Ttls <- MCTtls
    Clock <- MCClock
    Header <- MCHeader
    Deliveries <- MCDeliveries
    Registrations <- MCRegistrations
    Envelopes <- MCEnvelopes
INVARIANTS
    AcceptedOnTime
    PastAccepted
    EnvelopeOpens
PROPERTY
    BytesDecide
