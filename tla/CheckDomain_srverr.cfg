\* SRVConf's report for a LookupSRV that failed.
CONSTANTS
    MXHosts <- MCNoHosts
    RevIPs = {}
    SRVNames = {s1}
    SimpleChecks = {}
    IsUnspecifiedNAT = FALSE
    BadAddress = {FALSE}
SPECIFICATION Spec
INVARIANT SRVLookupErrorReported
