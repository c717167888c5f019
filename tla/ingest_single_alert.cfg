SPECIFICATION Spec
CONSTANTS
    Requests <- MCRequests
    Keys <- MCKeys
    Dedups <- MCDedups
    Integrations <- MCIntegrations
    KeyOf <- MCKeyOf
    DedupOf <- MCDedupOf
    IntegrationOf <- MCIntegrationOf
    TestRequests <- MCTestRequests
    GrafanaDedups <- MCGrafanaDedups
    MaxFaults = 0
INVARIANT SingleOpenAlert
