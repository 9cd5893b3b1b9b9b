\* The key the uploader builds when no other is configured.
CONSTANTS
    Studied = {"aws"}
    app = app
    appx = appx
    Names = {app, appx}
    v1 = v1
    v2 = v2
    v3 = v3
    Versions = {v1, v2, v3}
    beta = beta
    Channels = {beta}
    None = None
    Deployers = {d1}
    AskedChannels <- DefaultOnly
    UploadLayout = "flat"
    Malformed = Malformed
    JsonOf <- JsonValue
    KeyOrder <- KeysInOrder
    MAX_LIMIT = 2
    Expiring = FALSE
    AllowOther = FALSE
    Invalidates = TRUE
    MaxAnswers = 1
    MaxUploads = 1
    MaxDeploys = 1
    MaxChanges = 1
    MaxEdits = 0
    MaxFailures = 0
    Tasks = {t1}
    Hosts = {h1}
    Unmapped = other
    Paths = {index}
    Methods = {"GET"}
    MaxContentEdits = 0
    Nothing = Nothing
    index = index
    encoded = encoded
    Server <- ServerOf
    Resource <- Decoded
SPECIFICATION RemotesSpec
INVARIANT DeployedDownloads
