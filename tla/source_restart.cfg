\* The application is restarted after an install.
SPECIFICATION Spec
CONSTANTS
    app = app
    v1 = v1
    v2 = v2
    Bundles = {app}
    Versions = {v1, v2}
    Metas = {e1}
    None = None
    Tasks = {t1, t2}
    Cells = {c1}
    Jobs = {"write"}
    Faults = {"crash"}
    Shipped <- ShippedFirst
PROPERTY InstalledStaysInstalled
