\* Requests and downloads while nobody switches the version, and fetches fail.
SPECIFICATION SpecInstalled
CONSTANTS
    app = app
    v1 = v1
    v2 = v2
    Bundles = {app}
    Versions = {v1, v2}
    Metas = {e1}
    None = None
    Tasks = {t1, t2}
    Cells = {c1, c2, c3}
    Jobs = {"get", "fetch", "write", "unload"}
    Faults = {"read"}
    Shipped <- ShippedFirst
INVARIANTS InstalledFileWhole AnswerOfOneVersion
PROPERTY CallsReturn
