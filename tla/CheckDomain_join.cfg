\* All fourteen check goroutines launched; the DNS data kept trivial so the
\* interleavings of the goroutines with the main goroutine's wg.Wait() are
\* what is explored.
CONSTANTS
    MXHosts <- MCNoHosts
    RevIPs = {}
    SRVNames = {}
    SimpleChecks <- MCAllSimple
    IsUnspecifiedNAT = FALSE
    BadAddress = {FALSE}
SPECIFICATION Spec
PROPERTY CheckDomainRefinesJoin
