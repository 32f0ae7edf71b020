\* Every input of up to two DKIM results over three domains.
CONSTANTS
    Domains <- MCDomains
    OrgDomain <- MCOrgDomain
    MaxSigs = 2
SPECIFICATION Spec
INVARIANT AlignmentMatchesSpec
