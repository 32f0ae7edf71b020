----------------------------- MODULE MC_ReportViews -----------------------------
(* Model-checking instance of ReportViews.                                 *)
EXTENDS ReportViews

\* The API functions this model has calls for.
MCApiFunctions == {"LoginPrep", "Login", "Logout", "TLSReports", "TLSRPTSummaries",
                   "DMARCReports", "DMARCSummaries", "TLSReportID", "DMARCReportID"}

\* Two spellings of one domain and another domain, in byte order.
MCDomainTexts == <<"Example.com", "a.example", "example.com">>
MCDomainName == [t \in ToSet(MCDomainTexts) |->
                    IF t = "a.example" THEN "a.example" ELSE "example.com"]

\* One or two policies per report, failing or not, with or without a
\* failure detail.
MCPolicy == [success : {1}, failure : {0, 1},
             details : {<<>>, <<[type |-> "starttls-not-supported", count |-> 1]>>}]
MCTLSReport == [domain : ToSet(MCDomainTexts), end : Time,
                policies : {p \in BoundedSeq(MCPolicy, 2) : p # <<>>}]
MCTLSDB == BoundedSeq(MCTLSReport, 2)

\* One or two rows, with one or two messages, every disposition and DKIM
\* and SPF result, and at most one override reason.
MCRow == [count : {1, 2}, disposition : {"none", "quarantine", "reject"},
          dkim : {"pass", "fail"}, spf : {"pass", "fail"},
          reasons : BoundedSeq({"forwarded"}, 1)]
MCDMARCReport == [domain : {"a.example", "example.com"}, end : {1, 2},
                  rows : {<<r>> : r \in MCRow}]
MCDMARCDB == BoundedSeq(MCDMARCReport, 2)
====
