\* An answer given after the version was switched.
SPECIFICATION Spec
CONSTANTS
    app = app
    v1 = v1
    v2 = v2
    Bundles = {app}
    Versions = {v1, v2}
    Metas = {e1}
    None = None
    Tasks = {t1, t2}
    Cells = {c1, c2, c3}
    Jobs = {"get", "fetch", "write", "update", "unload"}
    Faults = {}
    Shipped <- ShippedFirst
INVARIANT AnswerOfOneVersion
