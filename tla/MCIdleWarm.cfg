CONSTANTS
    Ttl = 10
    Margins = {8, None}
    Grace = 3
    RoundTrip = 2
    None = None
SPECIFICATION FairSpec
INVARIANT TypeOK
INVARIANT OffersAreCold
INVARIANT GuardedOfferSeesRefresh
PROPERTY DeferralEnds
