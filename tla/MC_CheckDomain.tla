--------------------------- MODULE MC_CheckDomain ---------------------------
(* Model-checking instance of CheckDomain.                                 *)
EXTENDS CheckDomain

\* Two MX hosts, so both goroutines can append for the same and for
\* different hosts.
MCMXHosts == <<"mx1", "mx2">>
\* One MX host: keeps the runs with every check launched small.
MCOneHost == <<"mx1">>
\* No MX host: LookupMX yields nothing to iterate over.
MCNoHosts == << >>
\* Every check whose section only it writes.
MCAllSimple == {"dnssec", "dane", "spf", "dkim", "dmarc", "hosttlsrpt",
                "domaintlsrpt", "mtasts", "autoconf", "autodiscover"}
=============================================================================
