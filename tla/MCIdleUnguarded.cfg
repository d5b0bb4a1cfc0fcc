CONSTANTS
    Ttl = 10
    Margins = {None}
    Grace = 3
    RoundTrip = 2
    None = None
SPECIFICATION Spec
INVARIANT OfferSeesRefresh
