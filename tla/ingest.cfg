SPECIFICATION RetryingSpec
CONSTANTS
    Requests <- MCRequests
    Keys <- MCKeys
    Dedups <- MCDedups
    Integrations <- MCIntegrations
    KeyOf <- MCKeyOf
    DedupOf <- MCDedupOf
    IntegrationOf <- MCIntegrationOf
    TestRequests <- MCTestRequests
    GrafanaDedups <- MCGrafanaDedups
    MaxFaults = 1
INVARIANTS
    NumbersDense
    CountNeverInflated
    NothingLostOrStray
PROPERTIES
    Idempotent
    RetriedEventRecorded
