SPECIFICATION FairSpec
CONSTANTS
    Calls <- MCCalls
    Items <- MCItems
    IntegrationOf <- MCIntegrationOf
    RoutesByLabel = {"grafana"}
    DefaultService <- MCDefaultService
    Slugs = {"web"}
    MaxFaults = 1
INVARIANTS
    BatchAccounted
    SilentOnlyByFailure
    DeadlockNeedsBatch
PROPERTY CallsAnswered
