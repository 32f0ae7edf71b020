\* Two TLS reports ending at the same instant, written in different zones.
CONSTANTS
    DomainTexts <- MCDomainTexts
    DomainName <- MCDomainName
    Instants = {1, 2}
    Zones = {"UTC", "+02:00"}
    ResultTypes = {"starttls-not-supported"}
    Overrides = {"forwarded"}
    ApiFunctions <- MCApiFunctions
    TLSRecords <- MCTLSReport
    DMARCRecords <- MCDMARCReport
    TLSDB <- MCTLSDB
    DMARCDB <- MCDMARCDB
SPECIFICATION Spec
INVARIANT TLSReportsOrdered
