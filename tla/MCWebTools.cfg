\* Two runs of a server that may go down search and fetch the same page.
SPECIFICATION Spec
CONSTANTS
    r1 = r1
    r2 = r2
    page = page
    host = host
    ddg = ddg
    text = text
    blank = blank
    One = 4
    PenaltyTicks = 3
    Runs <- TwoRuns
    Urls <- OnePage
    HostOf <- HostOfPage
    Engines <- JustDdg
    Endpoints <- TwoEndpoints
    Rate <- Rates
    Burst <- Bursts
    Pages = {text, blank}
    Blank = blank
    None = None
    Torn = Torn
    MaxTime = 4
    MaxCalls = 3
    MaxCrashes = 1
SYMMETRY RunSymmetry
INVARIANTS
    TypeOK
    RateKept
    ReferencesKept
CHECK_DEADLOCK FALSE
