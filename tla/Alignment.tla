------------------------------ MODULE Alignment ------------------------------
(***************************************************************************)
(* DMARC identifier alignment, smtpserver/alignment.go alignment: the      *)
(* message From domain against the DKIM results and the SPF result,        *)
(* giving Strict, Relaxed or None.  The DKIM loop, with its early break on *)
(* a strict match, is a recursive operator; the spec's definition (section *)
(* 4.D, step 4) is the reference it is checked against on every input      *)
(* built from a few domains.  publicsuffix.Lookup is the function          *)
(* OrgDomain.                                                              *)
(***************************************************************************)
EXTENDS Naturals, Sequences, SequencesExt

CONSTANTS
    Domains,     \* domain names
    OrgDomain,   \* publicsuffix.Lookup: Domains -> Domains
    MaxSigs      \* most DKIM results considered

Nil == "nil"

DKIMStatus == {"pass", "fail", "temperror"}
SPFStatus == {"pass", "fail", "softfail", "none", "temperror"}
DKIMResult == [status : DKIMStatus, sig : Domains \cup {Nil}]
\* spf reports the identity it evaluated (MAIL FROM or HELO) for a pass.
Input == {i \in [from : Domains, dkim : BoundedSeq(DKIMResult, MaxSigs),
                 spf : SPFStatus, spfId : Domains \cup {Nil}] :
             i.spf = "pass" => i.spfId # Nil}

ASSUME OrgDomain \in [Domains -> Domains]

VARIABLES input, result

vars == <<input, result>>

Validation == {"Strict", "Relaxed", "None"}

TypeOK ==
    /\ input \in Input
    /\ result \in Validation \cup {"unset"}

-----------------------------------------------------------------------------

\* A DKIM result the loop looks at: `dr.Status != dkim.StatusPass ||
\* dr.Sig == nil` continues.
Usable(dr) == dr.status = "pass" /\ dr.sig # Nil

\* The DKIM loop over drs: [strict, relaxed] after it, breaking on the first
\* signature domain equal to the From domain.
RECURSIVE DKIMLoop(_, _, _)
DKIMLoop(from, drs, relaxed) ==
    IF drs = <<>> THEN [strict |-> FALSE, relaxed |-> relaxed]
    ELSE LET dr == Head(drs) IN
         IF ~Usable(dr) THEN DKIMLoop(from, Tail(drs), relaxed)
         ELSE IF dr.sig = from THEN [strict |-> TRUE, relaxed |-> relaxed]
         ELSE DKIMLoop(from, Tail(drs),
                       relaxed \/ OrgDomain[from] = OrgDomain[dr.sig])

\* Variant: the SPF identity is compared even after a strict DKIM match.
SPFStepAlways(from, d, spf, spfId) ==
    IF spf = "pass"
    THEN [strict |-> from = spfId,
          relaxed |-> d.relaxed \/ OrgDomain[from] = OrgDomain[spfId]]
    ELSE d

\* `if !strict && spfStatus == spf.StatusPass`: the SPF identity, for a
\* pass, when DKIM gave no strict match.
SPFStep(from, d, spf, spfId) ==
    IF ~d.strict /\ spf = "pass"
    THEN [strict |-> from = spfId,
          relaxed |-> d.relaxed \/ OrgDomain[from] = OrgDomain[spfId]]
    ELSE d

\* alignment(): Strict over Relaxed over None.
AlignmentOf(i) ==
    LET a == SPFStep(i.from, DKIMLoop(i.from, i.dkim, FALSE), i.spf, i.spfId)
    IN IF a.strict THEN "Strict" ELSE IF a.relaxed THEN "Relaxed" ELSE "None"

\* The spec's definition: the authenticated identities are the passing DKIM
\* signature domains and the passing SPF identity.
AuthIds(i) ==
    {r.sig : r \in {r \in ToSet(i.dkim) : r.status = "pass" /\ r.sig # Nil}}
    \cup (IF i.spf = "pass" THEN {i.spfId} ELSE {})

SpecAlignment(i) ==
    IF i.from \in AuthIds(i) THEN "Strict"
    ELSE IF \E d \in AuthIds(i) : OrgDomain[d] = OrgDomain[i.from] THEN "Relaxed"
    ELSE "None"

-----------------------------------------------------------------------------

Init ==
    /\ input \in Input
    /\ result = "unset"

\* One call of alignment for the message being delivered.
Evaluate ==
    /\ result = "unset"
    /\ result' = AlignmentOf(input)
    /\ UNCHANGED input

Done == result # "unset" /\ UNCHANGED vars

Next == Evaluate \/ Done

Spec == Init /\ [][Next]_vars

\* alignment() returns what the spec defines for every combination of DKIM
\* results (in any order, passing or not, with or without a signature) and
\* SPF result: Strict iff an authenticated identity is the From domain,
\* Relaxed iff one shares its organizational domain.
AlignmentMatchesSpec ==
    result # "unset" => result = SpecAlignment(input)
=============================================================================
