CONSTANTS
    Bundles = {app}
    v1 = v1
    Versions = {v1, v2}
    None = None
    Metas <- AllResponses
    Builtin <- ShippedFirst
    Tasks = {t1, t2}
    Responses <- OneFault
    Sound <- SoundResponses
    Signed <- SignedTexts
    o1 = o1
    Orders = {o1, o2}
    Configs <- Verifying
    MaxEvents = 2
SPECIFICATION FairSpec
INVARIANTS StrictContentMatches RunsSignedContent
PROPERTY UpdateSettles
