\* AWS: two deploys at a time.  Cloudflare: keys that pages of two keys split.  Local: two requests, two hosts.
CONSTANTS
    Studied = {"aws", "cloudflare", "provisioning", "local"}
    app = app
    appx = appx
    Names = {app, appx}
    v1 = v1
    v2 = v2
    v3 = v3
    Versions = {v1, v2, v3}
    beta = beta
    Channels = {beta}
    None = None
    Deployers = {d1, d2}
    AskedChannels <- DefaultAndBeta
    UploadLayout = "nested"
    Malformed = Malformed
    JsonOf <- JsonValue
    KeyOrder <- KeysInOrder
    MAX_LIMIT = 2
    Expiring = TRUE
    AllowOther = FALSE
    Invalidates = TRUE
    MaxAnswers = 1
    MaxUploads = 1
    MaxDeploys = 2
    MaxChanges = 3
    MaxEdits = 1
    MaxFailures = 1
    Tasks = {t1, t2}
    Hosts = {h1, h2}
    Unmapped = other
    Paths = {index, encoded}
    Methods = {"GET", "HEAD"}
    MaxContentEdits = 1
    Nothing = Nothing
    index = index
    encoded = encoded
    Server <- ServerOf
    Resource <- Decoded
SYMMETRY Perms
SPECIFICATION RemotesSpec
INVARIANTS DeploysKept CacheFresh DeployedDownloads OnlyDeployedServed AnswersCarryMetadata ListShowsDeployed ChannelServesItsOwn RouteIsReady AnswerOfItsUrl UnsharedAnswerIsCurrent
