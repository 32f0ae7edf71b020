\* Concurrent appends to r.MX.Errors by the MX and STARTTLS checks.
CONSTANTS
    MXHosts <- MCMXHosts
    RevIPs = {}
    SRVNames = {}
    SimpleChecks = {}
    IsUnspecifiedNAT = FALSE
    BadAddress = {FALSE, TRUE}
SPECIFICATION Spec
INVARIANT NoLostMXError
