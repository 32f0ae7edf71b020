---------------------------- MODULE CheckDomain ----------------------------
(***************************************************************************)
(* The admin "check domain" operation, webadmin/admin.go checkDomain.      *)
(*                                                                         *)
(* The main goroutine launches one goroutine per check (wg.Add(1); go      *)
(* func(){...}()) and then blocks in wg.Wait().  Each check writes its own *)
(* section of the shared result r, except that the MX check and the        *)
(* STARTTLS check both append to r.MX.Errors (the TLS check passes         *)
(* &r.MX.Errors to lookupIPs).  An append through addf is a read of the    *)
(* slice header followed by a write of the new header, so it is modelled   *)
(* as two steps.  The IPRev check fans out one goroutine per (host, IP)    *)
(* over an unbuffered channel and receives exactly n results; the SRVConf  *)
(* check fans out one goroutine per SRV name and joins them with a second  *)
(* WaitGroup.  The checks whose section nobody else touches are single     *)
(* steps: their DNS results are data no property here tells apart.         *)
(***************************************************************************)
EXTENDS Naturals, Sequences, FiniteSets, SequencesExt

CONSTANTS
    MXHosts,          \* sequence of MX host names returned by LookupMX
    RevIPs,           \* IPs that IPRev may reverse-resolve
    SRVNames,         \* SRV names looked up by SRVConf
    SimpleChecks,     \* checks that only touch their own section
    IsUnspecifiedNAT, \* a listener with SMTP has IPsNATed set
    BadAddress        \* whether LookupHost may return an address that
                      \* net.ParseIP rejects: a subset of BOOLEAN

NoHost == "none"

\* The goroutines launched by checkDomain, in the order of the code.
CodeOrder == <<"dnssec", "iprev", "mx", "tls", "dane", "spf", "dkim", "dmarc",
               "hosttlsrpt", "domaintlsrpt", "mtasts", "srvconf", "autoconf",
               "autodiscover">>
Complex == {"iprev", "mx", "tls", "srvconf"}
Checks == SimpleChecks \cup Complex
LaunchOrder == SelectSeq(CodeOrder, LAMBDA g : g \in Checks)

\* The two goroutines that append to r.MX.Errors.
Appenders == {"mx", "tls"}
Hosts == ToSet(MXHosts)
MXErr == [by : Appenders, host : Hosts \cup {NoHost}, kind : STRING]

ASSUME SimpleChecks \subseteq ToSet(CodeOrder) \ Complex
ASSUME IsUnspecifiedNAT \in BOOLEAN

VARIABLES
    mainPc,      \* main goroutine of checkDomain
    launched,    \* number of checks launched so far (index in LaunchOrder)
    wg,          \* counter of the WaitGroup wg
    pc,          \* pc[g]: control state of check goroutine g
    \* r.MX.Errors and the MX/TLS goroutines that append to it
    mxErrors, pend, tmp, nhosts, hi, stopAfter,
    everAppended, \* history: every error an addf call was made with
    \* IPRev fan-in over the unbuffered results channel
    spc, res, n, recvd, recorded,
    \* SRVConf fan-out joined by srvwg
    srvwg, reqs, srvReport

mxVars == <<mxErrors, pend, tmp, nhosts, hi, stopAfter, everAppended>>
ipVars == <<spc, res, n, recvd, recorded>>
srvVars == <<srvwg, reqs, srvReport>>
vars == <<mainPc, launched, wg, pc, mxVars, ipVars, srvVars>>

LookupMXResult == {"err", "null", "hosts"}
\* What lookupIPs finds for a host, seen from the MX check.
HostIPsResult == {"fail", "ours", "mixed", "notours"}
RevResult == {"err", "match", "nomatch"}
SRVResult == {"err", "empty", "match", "mismatch"}

TypeOK ==
    /\ mainPc \in {"start", "launch", "wait", "returned", "failed"}
    /\ launched \in 0..Len(LaunchOrder)
    /\ wg \in 0..Cardinality(Checks)
    /\ pc \in [Checks -> {"idle", "run", "lookupmx", "host", "read", "write",
                          "finish", "spawn", "recv", "wait", "done"}]
    /\ mxErrors \in Seq(MXErr)
    /\ pend \in [Appenders -> Seq(MXErr)]
    /\ tmp \in [Appenders -> Seq(MXErr)]
    /\ nhosts \in [Appenders -> 0..Len(MXHosts)]
    /\ hi \in [Appenders -> 0..Len(MXHosts)]
    /\ stopAfter \in [Appenders -> BOOLEAN]
    /\ everAppended \subseteq MXErr
    /\ spc \in [RevIPs -> {"none", "lookup", "send", "done"}]
    /\ res \in [RevIPs -> RevResult \cup {"none"}]
    /\ n \in 0..Cardinality(RevIPs)
    /\ recvd \in 0..Cardinality(RevIPs)
    /\ recorded \subseteq RevIPs
    /\ srvwg \in 0..Cardinality(SRVNames)
    /\ reqs \in [SRVNames -> SRVResult \cup {"none"}]
    /\ srvReport \in [SRVNames -> {"lookuperror", "missing", "unexpected", "ok", "none"}]

Init ==
    /\ mainPc = "start"
    /\ launched = 0
    /\ wg = 0
    /\ pc = [g \in Checks |-> "idle"]
    /\ mxErrors = <<>>
    /\ pend = [p \in Appenders |-> <<>>]
    /\ tmp = [p \in Appenders |-> <<>>]
    /\ nhosts = [p \in Appenders |-> 0]
    /\ hi = [p \in Appenders |-> 0]
    /\ stopAfter = [p \in Appenders |-> FALSE]
    /\ everAppended = {}
    /\ spc = [i \in RevIPs |-> "none"]
    /\ res = [i \in RevIPs |-> "none"]
    /\ n = 0
    /\ recvd = 0
    /\ recorded = {}
    /\ srvwg = 0
    /\ reqs = [s \in SRVNames |-> "none"]
    /\ srvReport = [s \in SRVNames |-> "none"]

-----------------------------------------------------------------------------
(* Main goroutine.                                                         *)

\* dns.ParseDomain and beacon.Conf.Domain: a bad or unknown domain panics
\* with a sherpa error before any goroutine is started.
StartCheck ==
    /\ mainPc = "start"
    /\ \E ok \in BOOLEAN : mainPc' = IF ok THEN "launch" ELSE "failed"
    /\ UNCHANGED <<launched, wg, pc, mxVars, ipVars, srvVars>>

\* wg.Add(1) followed by go func(){...}() for the next check.
LaunchCheck ==
    /\ mainPc = "launch"
    /\ launched < Len(LaunchOrder)
    /\ LET g == LaunchOrder[launched + 1] IN
         /\ wg' = wg + 1
         /\ pc' = [pc EXCEPT ![g] = IF g \in Appenders THEN "lookupmx"
                                    ELSE IF g \in {"iprev", "srvconf"} THEN "spawn"
                                    ELSE "run"]
    /\ launched' = launched + 1
    /\ mainPc' = IF launched + 1 = Len(LaunchOrder) THEN "wait" ELSE "launch"
    /\ UNCHANGED <<mxVars, ipVars, srvVars>>

\* Variant: return without waiting for the WaitGroup.
WaitChecksNoJoin ==
    /\ mainPc = "wait"
    /\ mainPc' = "returned"
    /\ UNCHANGED <<launched, wg, pc, mxVars, ipVars, srvVars>>

\* wg.Wait(); return r.
WaitChecks ==
    /\ mainPc = "wait"
    /\ wg = 0
    /\ mainPc' = "returned"
    /\ UNCHANGED <<launched, wg, pc, mxVars, ipVars, srvVars>>

\* The deferred wg.Done() of a check goroutine (run after logPanic is set up,
\* so it also runs when the goroutine panics).
Exit(g) ==
    /\ pc' = [pc EXCEPT ![g] = "done"]
    /\ wg' = wg - 1

-----------------------------------------------------------------------------
(* Checks that only write their own section of r (DNSSEC, DANE, SPF, DKIM, *)
(* DMARC, host and domain TLSRPT, MTA-STS, autoconfig, autodiscover).  The *)
(* lookups they do and the messages they add are abstracted away.          *)

SimpleCheck(g) ==
    /\ g \in SimpleChecks
    /\ pc[g] = "run"
    /\ Exit(g)
    /\ UNCHANGED <<mainPc, launched, mxVars, ipVars, srvVars>>

DNSSECCheck == SimpleCheck("dnssec")
DANECheck == SimpleCheck("dane")
SPFCheck == SimpleCheck("spf")
DKIMCheck == SimpleCheck("dkim")
DMARCCheck == SimpleCheck("dmarc")
HostTLSRPTCheck == SimpleCheck("hosttlsrpt")
DomainTLSRPTCheck == SimpleCheck("domaintlsrpt")
MTASTSCheck == SimpleCheck("mtasts")
AutoconfCheck == SimpleCheck("autoconf")
AutodiscoverCheck == SimpleCheck("autodiscover")

-----------------------------------------------------------------------------
(* r.MX.Errors: the MX and TLS goroutines.                                 *)

E(p, h, k) == [by |-> p, host |-> h, kind |-> k]

\* Where an appender continues once its pending addf calls are done.
AfterAppends(p) ==
    IF stopAfter[p] \/ hi[p] = nhosts[p] THEN "finish" ELSE "host"

\* Continue with the addf calls queued in errs, or skip them if none.
Appending(p, errs) ==
    /\ pend' = [pend EXCEPT ![p] = errs]
    /\ everAppended' = everAppended \cup ToSet(errs)

\* addf, first half: evaluate append(*l, ...) from the current slice header.
AddfRead(p) ==
    /\ pc[p] = "read"
    /\ tmp' = [tmp EXCEPT ![p] = mxErrors]
    /\ pc' = [pc EXCEPT ![p] = "write"]
    /\ UNCHANGED <<mainPc, launched, wg, mxErrors, pend, nhosts, hi, stopAfter,
                   everAppended, ipVars, srvVars>>

\* addf, second half: store the new slice header in *l.
AddfWrite(p) ==
    /\ pc[p] = "write"
    /\ mxErrors' = Append(tmp[p], Head(pend[p]))
    /\ pend' = [pend EXCEPT ![p] = Tail(@)]
    /\ pc' = [pc EXCEPT ![p] = IF Tail(pend[p]) # <<>> THEN "read"
                               ELSE AfterAppends(p)]
    /\ UNCHANGED <<mainPc, launched, wg, tmp, nhosts, hi, stopAfter,
                   everAppended, ipVars, srvVars>>

\* Next pc once the addf calls errs are queued.
Then(p, errs, cont) == IF errs # <<>> THEN "read" ELSE cont

\* MX goroutine: LookupMX; an error is reported and the loop sees no hosts; a
\* single null MX is reported and the goroutine returns.
MXLookup ==
    /\ pc["mx"] = "lookupmx"
    /\ \E r \in LookupMXResult :
         LET errs == CASE r = "err"  -> <<E("mx", NoHost, "lookupmx")>>
                       [] r = "null" -> <<E("mx", NoHost, "nullmx")>>
                       [] OTHER      -> <<>>
             cnt == IF r = "hosts" THEN Len(MXHosts) ELSE 0
         IN /\ nhosts' = [nhosts EXCEPT !["mx"] = cnt]
            /\ stopAfter' = [stopAfter EXCEPT !["mx"] = (r = "null")]
            /\ Appending("mx", errs)
            /\ pc' = [pc EXCEPT !["mx"] =
                        Then("mx", errs, IF r = "null" \/ cnt = 0 THEN "finish"
                                         ELSE "host")]
    /\ UNCHANGED <<mainPc, launched, wg, mxErrors, tmp, hi, ipVars, srvVars>>

\* lookupIPs(&r.MX.Errors, host), by goroutine p: "Looking up" when
\* LookupHost fails, otherwise "Bad IP" for an address net.ParseIP rejects
\* (the resolver is not under src/; at most one such address here).
LookupIPsErrors(p, h, fail, bad) ==
    IF fail THEN <<E(p, h, "lookuphost")>>
    ELSE IF bad THEN <<E(p, h, "badip")>> ELSE <<>>

\* Errors lookupIPs (called with &r.MX.Errors) and the MX loop body add for a
\* host whose address lookup had result o (and a rejected address when bad).
MXHostErrors(h, o, bad) ==
    LookupIPsErrors("mx", h, o = "fail", bad)
    \o (IF o = "fail" THEN <<E("mx", h, "lookupips")>> ELSE <<>>)
    \o (IF IsUnspecifiedNAT THEN <<>>
        ELSE CASE o \in {"fail", "notours"} -> <<E("mx", h, "notours")>>
               [] o = "mixed"              -> <<E("mx", h, "someours")>>
               [] OTHER                    -> <<>>)

MXHost ==
    /\ pc["mx"] = "host"
    /\ LET h == MXHosts[hi["mx"] + 1] IN
       \E o \in HostIPsResult, bad \in BadAddress :
         /\ Appending("mx", MXHostErrors(h, o, bad))
         /\ hi' = [hi EXCEPT !["mx"] = @ + 1]
         /\ pc' = [pc EXCEPT !["mx"] =
                     Then("mx", MXHostErrors(h, o, bad),
                          IF hi["mx"] + 1 = nhosts["mx"] THEN "finish" ELSE "host")]
    /\ UNCHANGED <<mainPc, launched, wg, mxErrors, tmp, nhosts, stopAfter,
                   ipVars, srvVars>>

\* r.MX.Instructions is set; the goroutine returns.
MXFinish ==
    /\ pc["mx"] = "finish"
    /\ Exit("mx")
    /\ UNCHANGED <<mainPc, launched, mxVars, ipVars, srvVars>>

\* TLS goroutine, checkSMTPSTARTTLS: its own LookupMX; on error or a null MX
\* it returns without reporting ("will already have been warned about").
TLSLookup ==
    /\ pc["tls"] = "lookupmx"
    /\ \E r \in LookupMXResult :
         /\ nhosts' = [nhosts EXCEPT !["tls"] = IF r = "hosts" THEN Len(MXHosts) ELSE 0]
         /\ pc' = [pc EXCEPT !["tls"] =
                     IF r = "hosts" /\ Len(MXHosts) > 0 THEN "host" ELSE "finish"]
    /\ UNCHANGED <<mainPc, launched, wg, mxErrors, pend, tmp, hi, stopAfter,
                   everAppended, ipVars, srvVars>>

\* lookupIPs(&r.MX.Errors, mx.Host): a failed lookup appends to r.MX.Errors and
\* the host is skipped; otherwise dialSMTPSTARTTLS per IP reports into
\* r.TLS.Errors, which only this goroutine writes.
TLSHost ==
    /\ pc["tls"] = "host"
    /\ LET h == MXHosts[hi["tls"] + 1]
           last == hi["tls"] + 1 = nhosts["tls"]
       IN \E fail \in BOOLEAN, bad \in BadAddress :
            LET errs == LookupIPsErrors("tls", h, fail, bad) IN
            /\ Appending("tls", errs)
            /\ hi' = [hi EXCEPT !["tls"] = @ + 1]
            /\ pc' = [pc EXCEPT !["tls"] =
                        Then("tls", errs, IF last THEN "finish" ELSE "host")]
    /\ UNCHANGED <<mainPc, launched, wg, mxErrors, tmp, nhosts, stopAfter,
                   ipVars, srvVars>>

TLSFinish ==
    /\ pc["tls"] = "finish"
    /\ Exit("tls")
    /\ UNCHANGED <<mainPc, launched, mxVars, ipVars, srvVars>>

-----------------------------------------------------------------------------
(* IPRev: LookupIP of the host name plus listener, NAT and SOCKS IPs; one   *)
(* goroutine per IP does LookupAddr and sends on the unbuffered results     *)
(* channel; the check receives n results.                                  *)

IPRevSpawn ==
    /\ pc["iprev"] = "spawn"
    /\ \E ips \in SUBSET RevIPs :
         /\ n' = Cardinality(ips)
         /\ spc' = [i \in RevIPs |-> IF i \in ips THEN "lookup" ELSE "none"]
    /\ pc' = [pc EXCEPT !["iprev"] = "recv"]
    /\ UNCHANGED <<mainPc, launched, wg, mxVars, res, recvd, recorded, srvVars>>

\* resolver.LookupAddr in the per-IP goroutine.
RevLookup(i) ==
    /\ spc[i] = "lookup"
    /\ \E r \in RevResult : res' = [res EXCEPT ![i] = r]
    /\ spc' = [spc EXCEPT ![i] = "send"]
    /\ UNCHANGED <<mainPc, launched, wg, pc, mxVars, n, recvd, recorded, srvVars>>

\* results <- result{...} meets lr := <-results (unbuffered: one step).  An
\* error goes to r.IPRev.Errors, a name to r.IPRev.IPNames.
IPRevRecv(i) ==
    /\ pc["iprev"] = "recv"
    /\ recvd < n
    /\ spc[i] = "send"
    /\ spc' = [spc EXCEPT ![i] = "done"]
    /\ recvd' = recvd + 1
    /\ recorded' = recorded \cup {i}
    /\ UNCHANGED <<mainPc, launched, wg, pc, mxVars, res, n, srvVars>>

\* Variant: the receive loop stops one result short (i < n-1).
IPRevFinishShort ==
    /\ pc["iprev"] = "recv"
    /\ recvd + 1 >= n
    /\ Exit("iprev")
    /\ UNCHANGED <<mainPc, launched, mxVars, ipVars, srvVars>>

\* After the receive loop: the loopback check, then return.
IPRevFinish ==
    /\ pc["iprev"] = "recv"
    /\ recvd >= n
    /\ Exit("iprev")
    /\ UNCHANGED <<mainPc, launched, mxVars, ipVars, srvVars>>

-----------------------------------------------------------------------------
(* SRVConf: srvwg.Add(len(reqs)), one LookupSRV goroutine per request,     *)
(* srvwg.Wait(), then one report per request.                              *)

SRVSpawn ==
    /\ pc["srvconf"] = "spawn"
    /\ srvwg' = Cardinality(SRVNames)
    /\ pc' = [pc EXCEPT !["srvconf"] = "wait"]
    /\ UNCHANGED <<mainPc, launched, wg, mxVars, ipVars, reqs, srvReport>>

\* Variant: a lookup goroutine may run (and call srvwg.Done()) twice.
SRVLookupTwice(s) ==
    /\ pc["srvconf"] \in {"wait", "done"}
    /\ \E r \in SRVResult : reqs' = [reqs EXCEPT ![s] = r]
    /\ srvwg' = srvwg - 1
    /\ UNCHANGED <<mainPc, launched, wg, pc, mxVars, ipVars, srvReport>>

\* The goroutine writes reqs[i].srvs and reqs[i].err, then srvwg.Done().
SRVLookup(s) ==
    /\ pc["srvconf"] \in {"wait", "done"}
    /\ reqs[s] = "none"
    /\ \E r \in SRVResult : reqs' = [reqs EXCEPT ![s] = r]
    /\ srvwg' = srvwg - 1
    /\ UNCHANGED <<mainPc, launched, wg, pc, mxVars, ipVars, srvReport>>

\* The report loop tests `err`, which is the err of checkDomain's own
\* dns.ParseDomain (nil here), not req.err.  A failed lookup has no records.
CheckDomainErr == FALSE

SRVReportOf(r) ==
    CASE CheckDomainErr            -> "lookuperror"
      [] r \in {"err", "empty"}    -> "missing"
      [] r = "mismatch"            -> "unexpected"
      [] OTHER                     -> "ok"

\* Variant: report without srvwg.Wait().
SRVReportNoWait ==
    /\ pc["srvconf"] = "wait"
    /\ srvReport' = [s \in SRVNames |-> SRVReportOf(reqs[s])]
    /\ Exit("srvconf")
    /\ UNCHANGED <<mainPc, launched, mxVars, ipVars, srvwg, reqs>>

SRVReport ==
    /\ pc["srvconf"] = "wait"
    /\ srvwg = 0
    /\ srvReport' = [s \in SRVNames |-> SRVReportOf(reqs[s])]
    /\ Exit("srvconf")
    /\ UNCHANGED <<mainPc, launched, mxVars, ipVars, srvwg, reqs>>

-----------------------------------------------------------------------------

\* checkDomain has returned (or panicked) and every check goroutine has
\* finished; the HTTP handler carries on, so nothing else happens here.  A
\* per-IP goroutine still blocked on the results channel is not waited for.
Finished ==
    /\ mainPc \in {"returned", "failed"}
    /\ \A g \in Checks : pc[g] \in {"idle", "done"}

Terminated == Finished /\ UNCHANGED vars

Next ==
    \/ StartCheck \/ LaunchCheck \/ WaitChecks
    \/ DNSSECCheck \/ DANECheck \/ SPFCheck \/ DKIMCheck \/ DMARCCheck
    \/ HostTLSRPTCheck \/ DomainTLSRPTCheck \/ MTASTSCheck
    \/ AutoconfCheck \/ AutodiscoverCheck
    \/ \E p \in Appenders : AddfRead(p) \/ AddfWrite(p)
    \/ MXLookup \/ MXHost \/ MXFinish
    \/ TLSLookup \/ TLSHost \/ TLSFinish
    \/ IPRevSpawn \/ IPRevFinish
    \/ \E i \in RevIPs : RevLookup(i) \/ IPRevRecv(i)
    \/ SRVSpawn \/ SRVReport
    \/ \E s \in SRVNames : SRVLookup(s)
    \/ Terminated

\* Every goroutine is runnable until it finishes, and each blocking call is
\* bounded by the 30 s context of CheckDomain, so some step is always taken.
Spec == Init /\ [][Next]_vars /\ WF_vars(Next)

-----------------------------------------------------------------------------
(* Properties.                                                             *)

\* Every error the MX and STARTTLS checks add to r.MX.Errors through addf is
\* in the result checkDomain returns (concurrent appends in the MX and TLS
\* goroutines).
NoLostMXError ==
    mainPc = "returned" => everAppended \subseteq ToSet(mxErrors)

\* A WaitGroup wait returns only once every goroutine it joins is finished:
\* checkDomain returns r only after every check has written its section, and
\* SRVConf reads reqs only after every LookupSRV goroutine has written its entry.
JoinedBeforeRead ==
    /\ mainPc = "returned" => \A g \in Checks : pc[g] = "done"
    /\ srvReport # [s \in SRVNames |-> "none"] => \A s \in SRVNames : reqs[s] # "none"

\* Every reverse lookup the IPRev check starts is received and reported in
\* r.IPRev (as a name or an error) before the check finishes.
IPRevReportsEveryLookup ==
    pc["iprev"] = "done" => {i \in RevIPs : spc[i] # "none"} = recorded

\* A failed SRV lookup is reported as a lookup error ("Looking up SRV record").
SRVLookupErrorReported ==
    \A s \in SRVNames : reqs[s] = "err" /\ srvReport[s] # "none"
                          => srvReport[s] = "lookuperror"

\* checkDomain eventually returns, and no per-IP lookup goroutine is left
\* blocked on the results channel.
CheckCompletes ==
    <>(/\ mainPc \in {"returned", "failed"}
       /\ \A i \in RevIPs : spc[i] \in {"none", "done"})

-----------------------------------------------------------------------------
(* Refinement of the barrier CheckDomainJoin.  The main goroutine's start  *)
(* is the abstract start; launching and waiting are "running"; a check is  *)
(* finished once its deferred wg.Done() has run.                           *)

JoinPhase == CASE mainPc = "start"                -> "start"
               [] mainPc \in {"launch", "wait"}   -> "running"
               [] OTHER                           -> mainPc

Join == INSTANCE CheckDomainJoin
            WITH phase <- JoinPhase, done <- {g \in Checks : pc[g] = "done"}

\* checkDomain implements the barrier's steps: each check goroutine
\* finishes once and stays finished, and wg.Wait lets the result be
\* returned only after all of them have.
CheckDomainRefinesJoin == Join!Safety

\* checkDomain implements the whole barrier: in addition, the result is
\* returned (every goroutine being bounded by the 30 s context).
CheckDomainImplementsJoin == Join!Spec
=============================================================================
