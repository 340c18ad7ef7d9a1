SPECIFICATION Spec
CONSTANTS
    m1 = m1
    w1 = w1
    e1 = e1
    s1 = s1
    None = None
    Job = Job
    Rescore = Rescore
    NeverEmbedded = NeverEmbedded
    NoEmbedding = NeverEmbedded
    Msgs = {m1}
    Workers = {w1}
    Matchers <- Runs
    Scrapers = {s1}
    Payloads <- Scraped
    Events = {e1}
    Performers <- Billed
    Genres <- Filed
    Tags = {"rock"}
    Thresholds = {450}
    MaxReceive = 2
    MaxDeliveries = 2
    MaxChanges = 2
INVARIANTS TypeOK LoneReplaceRepairs DisconnectHolds LoneRunMatches EmbeddingCurrent
CHECK_DEADLOCK FALSE
