\* One request, routed by handle, and one call of each view over up to two TLS reports (two spellings of one
\* domain and another, two instants in two locations) or up to two DMARC
\* reports (two domains, two ends).
CONSTANTS
    DomainTexts <- MCDomainTexts
    DomainName <- MCDomainName
    Instants = {1, 2}
    Zones = {"UTC", "+02:00"}
    ResultTypes = {"starttls-not-supported"}
    Overrides = {"forwarded"}
    ApiFunctions <- MCApiFunctions
    TLSRecords <- MCTLSReport
    DMARCRecords <- MCDMARCReport
    TLSDB <- MCTLSDB
    DMARCDB <- MCDMARCDB
SPECIFICATION Spec
INVARIANT TLSSummariesMatchReports
INVARIANT DMARCSummariesMatchReports
INVARIANT ApiCallsAuthenticated
