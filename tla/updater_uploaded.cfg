CONSTANTS
    Bundles = {app}
    v1 = v1
    Versions = {v1, v2}
    None = None
    Metas <- AllResponses
    Builtin <- ShippedFirst
    Tasks = {t1}
    Responses <- UploadedResponses
    Sound <- UploadedResponses
    Signed <- SignedTexts
    o1 = o1
    Orders = {o1, o2}
    Configs <- DefaultConfig
    MaxEvents = 1
SPECIFICATION FairSpec
PROPERTY UpdateSettles
