------------------------------ MODULE ReportViews ------------------------------
(***************************************************************************)
(* The admin report views of webadmin/admin.go: TLSReports and             *)
(* TLSRPTSummaries over the TLS reports, DMARCReports and DMARCSummaries   *)
(* over the DMARC aggregate reports.  The records are what                 *)
(* RecordsPeriodDomain returned for the call (the databases are not under  *)
(* src/); each call is an action from those records to its reply, and a    *)
(* behaviour is one call, since the calls share no state of their own.     *)
(* sort.Slice is not stable: it may return any order in which no element   *)
(* is less than one before it.  Every call arrives as a request that      *)
(* handle (AdminHandle) routes; the call also fails the way its code does  *)
(* (xcheckf, xcheckuserf).  TLSReportID and DMARCReportID fetch one record *)
(* by id for a domain.                                                     *)
(***************************************************************************)
EXTENDS Naturals, FiniteSets, Sequences, SequencesExt, Functions, AdminHandle

CONSTANTS
    DomainTexts,   \* report domains as stored, a sequence in byte order
    DomainName,    \* DomainName[t]: dns.ParseDomain(t).Name()
    Instants,      \* instants, ordered as numbers
    Zones,         \* locations a parsed time.Time can carry
    ResultTypes,   \* tlsrpt.ResultType
    Overrides,     \* dmarcrpt.PolicyOverride
    TLSRecords,    \* the TLS report records that may be stored
    DMARCRecords,  \* the DMARC report records that may be stored
    TLSDB,         \* what RecordsPeriodDomain may return, TLS
    DMARCDB        \* and DMARC

\* Strings compare bytewise: by their position in DomainTexts.
Rank(t) == CHOOSE i \in 1..Len(DomainTexts) : DomainTexts[i] = t
Texts == ToSet(DomainTexts)

\* A time.Time of a TLS report: the instant and the location; == compares
\* both, After only the instant.
Time == [at : Instants, zone : Zones]

\* Every order sort.Slice(s, less) may leave s in.
SortSlice(s, less(_, _)) ==
    {p \in {[i \in 1..Len(s) |-> s[f[i]]] : f \in Bijection(1..Len(s), 1..Len(s))} :
        \A i, j \in 1..Len(s) : i < j => ~less(p[j], p[i])}

\* Map iteration order is unspecified: every sequence of the values.
MapValues(m) == {p \in [1..Cardinality(DOMAIN m) -> Range(m)] :
                     Range(p) = Range(m) /\ IsInjective(p)}

Sum(s) == FoldSeq(+, 0, s)

VARIABLES
    req,       \* the HTTP request
    call,      \* the API call served ("none" before it, "refused" if none)
    asked,     \* the domain a call by id asked for ("" for the others)
    records,   \* the records the database returned to it
    reply,     \* its reply
    status     \* "ok", the sherpa error code it failed with, or the HTTP answer

vars == <<req, call, asked, records, reply, status>>

Init ==
    /\ req \in Requests
    /\ call = "none"
    /\ asked = ""
    /\ records = <<>>
    /\ reply = <<>>
    /\ status = "none"

\* handle passes the request to the sherpa handler, which calls f.
Calls(f) == call = "none" /\ Route(req) = "api" /\ FunctionOf(req) = f

\* A call that returns normally.
Returns(f) == call' = f /\ status' = "ok" /\ UNCHANGED <<req, asked>>

-----------------------------------------------------------------------------
(* TLS reports.  A record: [domain, end, policies]; a policy:             *)
(* [success, failure, details], a detail: [type, count].                  *)

\* The comparator of TLSReports: most recent end first, then by domain.
TLSReportsLess(a, b) ==
    IF a.end = b.end THEN Rank(a.domain) < Rank(b.domain)
    ELSE a.end.at > b.end.at

\* TLSReports: the records sorted by the comparator.
TLSReports ==
    /\ Calls("TLSReports")
    /\ \E rs \in TLSDB : \E v \in SortSlice(rs, TLSReportsLess) :
         Returns("TLSReports") /\ records' = rs /\ reply' = v

TLSZero(d) == [policyDomain |-> d, success |-> 0, failure |-> 0,
               counts |-> [t \in ResultTypes |-> 0]]

\* One result of r.Report.Policies added to sum.
AddPolicy(sum, p) ==
    [sum EXCEPT !.success = @ + p.success, !.failure = @ + p.failure,
                !.counts = [t \in ResultTypes |->
                               @[t] + Sum([i \in 1..Len(p.details) |->
                                    IF p.details[i].type = t
                                    THEN p.details[i].count ELSE 0])]]

\* Variant: each report starts a fresh summary for its domain.
TLSAddReportFresh(summaries, r) ==
    LET dom == DomainName[r.domain]
    IN (dom :> FoldSeq(LAMBDA p, acc : AddPolicy(acc, p), TLSZero(dom), r.policies))
       @@ summaries

\* The loop body of TLSRPTSummaries: sum := summaries[dom], the policies
\* added, summaries[dom] = sum.
TLSAddReport(summaries, r) ==
    LET dom == DomainName[r.domain]
        sum == IF dom \in DOMAIN summaries THEN summaries[dom] ELSE TLSZero(dom)
    IN (dom :> FoldSeq(LAMBDA p, acc : AddPolicy(acc, p), sum, r.policies))
       @@ summaries

\* TLSRPTSummaries: the per-domain map, its values, sorted by domain name.
TLSRPTSummaries ==
    /\ Calls("TLSRPTSummaries")
    /\ \E rs \in TLSDB :
         LET summaries == FoldLeft(TLSAddReport, <<>>, rs) IN
         \E vals \in MapValues(summaries) :
           \E v \in SortSlice(vals, LAMBDA a, b : Rank(a.policyDomain) < Rank(b.policyDomain)) :
             Returns("TLSRPTSummaries") /\ records' = rs /\ reply' = v

-----------------------------------------------------------------------------
(* DMARC aggregate reports.  A record: [domain, end, rows]; end is the     *)
(* int64 of DateRange.End; a row: [count, disposition, dkim, spf,          *)
(* reasons].                                                               *)

\* The comparator of DMARCReports: most recent end first, then by domain.
DMARCReportsLess(a, b) ==
    IF a.end = b.end THEN Rank(a.domain) < Rank(b.domain)
    ELSE a.end > b.end

\* DMARCReports: the records sorted by the comparator.
DMARCReports ==
    /\ Calls("DMARCReports")
    /\ \E rs \in DMARCDB : \E v \in SortSlice(rs, DMARCReportsLess) :
         Returns("DMARCReports") /\ records' = rs /\ reply' = v

DMARCZero(d) == [domain |-> d, total |-> 0, none |-> 0, quarantine |-> 0,
                 reject |-> 0, dkimFail |-> 0, spfFail |-> 0,
                 overrides |-> [o \in Overrides |-> 0]]

\* Variant: a failed DKIM evaluation counts one message instead of n.
AddRowDKIMOnce(sum, row) ==
    LET n == row.count IN
    [sum EXCEPT !.total = @ + n,
                !.none = @ + (IF row.disposition = "none" THEN n ELSE 0),
                !.quarantine = @ + (IF row.disposition = "quarantine" THEN n ELSE 0),
                !.reject = @ + (IF row.disposition = "reject" THEN n ELSE 0),
                !.dkimFail = @ + (IF row.dkim = "fail" THEN 1 ELSE 0),
                !.spfFail = @ + (IF row.spf = "fail" THEN n ELSE 0),
                !.overrides = [o \in Overrides |->
                    @[o] + n * Len(SelectSeq(row.reasons, LAMBDA x : x = o))]]

\* One record of r.Records added to sum: n := record.Row.Count to the
\* total, to its disposition's count, to the DKIM and SPF failures, and to
\* each reason's override count.
AddRow(sum, row) ==
    LET n == row.count IN
    [sum EXCEPT !.total = @ + n,
                !.none = @ + (IF row.disposition = "none" THEN n ELSE 0),
                !.quarantine = @ + (IF row.disposition = "quarantine" THEN n ELSE 0),
                !.reject = @ + (IF row.disposition = "reject" THEN n ELSE 0),
                !.dkimFail = @ + (IF row.dkim = "fail" THEN n ELSE 0),
                !.spfFail = @ + (IF row.spf = "fail" THEN n ELSE 0),
                !.overrides = [o \in Overrides |->
                    @[o] + n * Len(SelectSeq(row.reasons, LAMBDA x : x = o))]]

\* The loop body of DMARCSummaries, keyed by the domain text as stored.
DMARCAddReport(summaries, r) ==
    LET sum == IF r.domain \in DOMAIN summaries THEN summaries[r.domain]
               ELSE DMARCZero(r.domain)
    IN (r.domain :> FoldSeq(LAMBDA row, acc : AddRow(acc, row), sum, r.rows))
       @@ summaries

\* DMARCSummaries: the per-domain map, its values, sorted by domain.
DMARCSummaries ==
    /\ Calls("DMARCSummaries")
    /\ \E rs \in DMARCDB :
         LET summaries == FoldLeft(DMARCAddReport, <<>>, rs) IN
         \E vals \in MapValues(summaries) :
           \E v \in SortSlice(vals, LAMBDA a, b : Rank(a.domain) < Rank(b.domain)) :
             Returns("DMARCSummaries") /\ records' = rs /\ reply' = v

-----------------------------------------------------------------------------
(* Failures, the report by id, and the other routes.                       *)

\* A call fails before it has a reply: the policy domain argument of the
\* TLS views does not parse (xcheckuserf), or RecordsPeriodDomain fails
\* (xcheckf).
ViewFails ==
    /\ \E f \in {"TLSReports", "TLSRPTSummaries", "DMARCReports", "DMARCSummaries"} :
         /\ Calls(f)
         /\ call' = f
         /\ \/ f \in {"TLSReports", "TLSRPTSummaries"} /\ status' = Xcheckuserf("parse")
            \/ \E err \in Errors \ {"nil", "absent"} : status' = Xcheckf(err)
    /\ UNCHANGED <<req, asked, records, reply>>

\* TLSReportID and DMARCReportID: RecordID(reportID), then a record of
\* another domain than the one asked is treated as absent, and absent is
\* the caller's error (xcheckuserf); any other error goes to xcheckf.
ReportIDOf(f, recs) ==
    /\ Calls(f)
    /\ call' = f /\ UNCHANGED req
    /\ \E d \in Texts :
         /\ asked' = d
         /\ \/ \E rec \in recs :
                 LET err == IF rec.domain # d THEN "absent" ELSE "nil" IN
                 /\ records' = <<rec>>
                 /\ reply' = IF err = "nil" THEN <<rec>> ELSE <<>>
                 /\ status' = IF err = "nil" THEN "ok" ELSE Xcheckuserf(err)
            \/ \E err \in Errors \ {"nil"} :
                 /\ records' = <<>> /\ reply' = <<>>
                 /\ status' = IF err = "absent" THEN Xcheckuserf(err) ELSE Xcheckf(err)

TLSReportID == ReportIDOf("TLSReportID", TLSRecords)
DMARCReportID == ReportIDOf("DMARCReportID", DMARCRecords)

\* LoginPrep (a random token: xcheckf on its error), Login (webauth.Login:
\* its sherpa errors, such as a bad password, pass through; others go to
\* xcheckf) and Logout (xcheckf).  The sessions are webauth's, not under
\* src/: only the outcome is modelled.
Session ==
    /\ \E f \in {"LoginPrep", "Login", "Logout"} :
         /\ Calls(f)
         /\ call' = f
         /\ \E err \in Errors \cup {"sherpa"} :
              /\ err = "sherpa" => f = "Login"
              /\ status' = CASE err = "nil"    -> "ok"
                              [] err = "sherpa" -> "user:badLogin"
                              [] OTHER          -> Xcheckf(err)
    /\ UNCHANGED <<req, asked, records, reply>>

\* The sherpa handler answers /api/ with the API's documentation.
Doc == Calls("doc") /\ Returns("doc") /\ UNCHANGED <<records, reply>>

\* handle answers without calling the API: the page, or an early return.
Refused ==
    /\ call = "none"
    /\ Route(req) # "api"
    /\ call' = "refused" /\ status' = Route(req)
    /\ UNCHANGED <<req, asked, records, reply>>

Replied == call # "none" /\ UNCHANGED vars

Next ==
    \/ TLSReports \/ TLSRPTSummaries \/ DMARCReports \/ DMARCSummaries
    \/ ViewFails \/ TLSReportID \/ DMARCReportID \/ Session \/ Doc \/ Refused
    \/ Replied

Spec == Init /\ [][Next]_vars

-----------------------------------------------------------------------------
(* The references.                                                         *)

\* Position i of a view is a record of the database, once each.
IsPermutationOf(v, s) ==
    /\ Len(v) = Len(s)
    /\ \E f \in Bijection(1..Len(s), 1..Len(s)) : \A i \in 1..Len(s) : v[i] = s[f[i]]

\* The sum of F over every element of a sequence of sequences.
SumOver(ss, F(_)) ==
    Sum([i \in 1..Len(ss) |-> Sum([j \in 1..Len(ss[i]) |-> F(ss[i][j])])])

\* The policies of the TLS reports whose domain names d.
PoliciesOf(d) == LET rs == SelectSeq(records, LAMBDA r : DomainName[r.domain] = d)
                 IN [i \in 1..Len(rs) |-> rs[i].policies]
RowsOf(t) == LET rs == SelectSeq(records, LAMBDA r : r.domain = t)
             IN [i \in 1..Len(rs) |-> rs[i].rows]

\* The domains in increasing name order, as a sequence.
ByName(S) == [i \in 1..Cardinality(S) |->
                CHOOSE d \in S : Cardinality({e \in S : Rank(e) < Rank(d)}) = i - 1]

-----------------------------------------------------------------------------

\* handle lets no API function other than LoginPrep and Login, and not the
\* API documentation, run without a session webauth.Check accepted, and
\* calls a function only for a POST: reports and sessions are reached only
\* through an authenticated POST.
ApiCallsAuthenticated ==
    /\ call \in (ApiFunctions \ LoginFunctions) \cup {"doc"} => req.authOK
    /\ call \in ApiFunctions => req.method = "POST"

\* TLSReports returns every record once, most recent period end first and,
\* as its comment says, by policy domain among reports ending at the same
\* time, whatever location each end time was parsed with.
TLSReportsOrdered ==
    call = "TLSReports" /\ status = "ok" =>
        LET tlsView == reply IN
        /\ IsPermutationOf(tlsView, records)
        /\ \A i, j \in 1..Len(tlsView) : i < j =>
              \/ tlsView[i].end.at > tlsView[j].end.at
              \/ /\ tlsView[i].end.at = tlsView[j].end.at
                 /\ Rank(tlsView[i].domain) <= Rank(tlsView[j].domain)

\* TLSRPTSummaries has one summary per policy domain name, in name order,
\* holding the totals over every report and policy for that domain
\* (reports whose stored domains differ in case included).
TLSSummariesMatchReports ==
    call = "TLSRPTSummaries" /\ status = "ok" =>
        LET tlsSums == reply
            names == {DomainName[records[i].domain] : i \in 1..Len(records)} IN
        /\ Len(tlsSums) = Cardinality(names)
        /\ \A i \in 1..Len(tlsSums) :
             LET s == tlsSums[i] IN
             /\ s.policyDomain = ByName(names)[i]
             /\ s.success = SumOver(PoliciesOf(s.policyDomain), LAMBDA p : p.success)
             /\ s.failure = SumOver(PoliciesOf(s.policyDomain), LAMBDA p : p.failure)
             /\ \A t \in ResultTypes :
                  s.counts[t] = SumOver(PoliciesOf(s.policyDomain),
                      LAMBDA p : SumOver(<<p.details>>,
                                         LAMBDA x : IF x.type = t THEN x.count ELSE 0))

\* DMARCSummaries has one summary per domain, in order, whose counts are the
\* message counts of its rows: in total, per disposition (which add up to
\* the total), with DKIM and with SPF failing, and per override reason.
DMARCSummariesMatchReports ==
    call = "DMARCSummaries" /\ status = "ok" =>
        LET dmarcSums == reply
            doms == {records[i].domain : i \in 1..Len(records)} IN
        /\ Len(dmarcSums) = Cardinality(doms)
        /\ \A i \in 1..Len(dmarcSums) :
             LET s == dmarcSums[i]
                 Count(P(_)) == SumOver(RowsOf(s.domain),
                                        LAMBDA row : IF P(row) THEN row.count ELSE 0)
             IN /\ s.domain = ByName(doms)[i]
                /\ s.total = Count(LAMBDA row : TRUE)
                /\ s.total = s.none + s.quarantine + s.reject
                /\ s.dkimFail = Count(LAMBDA row : row.dkim = "fail")
                /\ s.spfFail = Count(LAMBDA row : row.spf = "fail")
                /\ \A o \in Overrides :
                     s.overrides[o] = SumOver(RowsOf(s.domain),
                         LAMBDA row : SumOver(<<row.reasons>>,
                                              LAMBDA x : IF x = o THEN row.count ELSE 0))
====
