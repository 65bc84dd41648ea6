CONSTANTS
    p1 = p1
    f1 = f1
    Preview = {p1}
    Owner <- OwnerOf
    Founder = {f1}
    NoFounder = NoFounder
    NoPayload = 0
    SignId = {s1}
    Request = {r1, r2}
    MaxIssuances = 2
    MaxMints = 3
    MaxKills = 1
    MaxErrors = 1
SYMMETRY Symmetry
SPECIFICATION Spec
INVARIANTS
    OneMarketPerPreview
    LiveIsTradable
    UsedForSomething
    CompletedIsLive
PROPERTY LiveStays
