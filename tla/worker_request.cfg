CONSTANTS
    a = a
    Jobs = {a}
    Writers = {a}
    Codes = {200, 404, 409, 429, 507}
    Afters = {0, 1, 3}
    Inner = {"none", "bare", "full"}
    RateLimitStatuses = {429}
    FatalStatuses = {404}
    RetryStatuses = {409, 503}
    StatusClassifier <- NoClassifier
    IgnoreStatuses = {429, 503}
    DefaultTtl = 2
    MaxRetries = 1
    LocalRetries = 1
    TimeoutIsTransient = FALSE
    Authorisations <- Declarations
    MaxLimited = 1
    MaxFaults = 2
    MaxReruns = 1
SPECIFICATION FairSpec
INVARIANTS TransientIsFresh ServerPaceKept CategoryAgrees OutputsKept
PROPERTIES RateLimitIsFree ForeignKept EveryJobSettled
CHECK_DEADLOCK FALSE
