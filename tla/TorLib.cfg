\* Versions, protocols and addresses.
CONSTANTS
    IntMax = 15
    DigitRuns <- MCDigitRuns
    StatusTags <- MCStatusTags
    SvnRevisions <- MCSvnRevisions
    GitTags <- MCGitTags
    BadGitTags <- MCBadGitTags
    TmpTokens = 16
    MaxSummaries = 2
    Texts <- MCTexts
    MaxList = 3
    Announced <- MCAnnounced
    Protocols <- MCProtocols
    Releases <- MCReleases
    Series <- MCSeries
    WordValues <- MCWordValues
    OctetRuns <- MCOctetRuns
    BufferSizes = {8, 40}
SPECIFICATION LibSpec
INVARIANTS RecommendedStatus ListsSorted SummariesRight AddressesRead
