\* Every operation of the manifest, against lazy loads, I/O errors and crashes.
SPECIFICATION FairSpec
CONSTANTS
    Bundles = {app}
    Versions = {v1, v2}
    Metas = {m1}
    None = None
    Tasks = {t1, t2}
    Ops <- AllOps
    Faults = {"crash", "io"}
INVARIANT ManifestWellFormed
PROPERTIES OnlyRemoveDelists CallsReturn
