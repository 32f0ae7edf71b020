\* The checks with inner goroutines: IPRev's per-IP lookups over the
\* unbuffered results channel, SRVConf's lookups joined by srvwg, and the MX
\* and STARTTLS checks appending for one MX host.
CONSTANTS
    MXHosts <- MCOneHost
    RevIPs = {i1, i2}
    SRVNames = {s1}
    SimpleChecks = {}
    IsUnspecifiedNAT = FALSE
    BadAddress = {FALSE}
SPECIFICATION Spec
INVARIANT TypeOK
INVARIANT JoinedBeforeRead
INVARIANT IPRevReportsEveryLookup
PROPERTY CheckCompletes
PROPERTY CheckDomainImplementsJoin
