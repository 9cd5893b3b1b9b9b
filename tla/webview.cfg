\* Assets of up to 3 bytes, 2 to an answer; two schemes, and two calls on one thread.
CONSTANTS
    Studied = {"stream", "electron"}
    MAX_LEN = 2
    WORD = 64
    MaxSize = 3
    MaxHeader = 2
    Calls = {a, b}
    Workers = 1
    MaxChunks = 1
    MaxQueue = 2
    Schemes = {wvb, dev}
SPECIFICATION WebviewSpec
INVARIANTS BytesInPlace PartsMatchHeaders RegisteredMeansServed
PROPERTIES StreamCompletes CallsSettle
