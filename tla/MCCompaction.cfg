CONSTANTS
    Sessions = {s1, s2}
    Slots = {r1, r2}
    MaxLate = 1
    MaxRows = 2
    CooldownTurns = 2
    None = None
SPECIFICATION FairSpec
INVARIANT TypeOK
INVARIANT AtMostOneInFlight
INVARIANT WindowsCompactOnce
INVARIANT NoOrphanClaim
PROPERTY AutomaticSpacing
PROPERTY GateRefined
PROPERTY DeferredPromptGoesOn
PROPERTY ExplicitRequestResolved
