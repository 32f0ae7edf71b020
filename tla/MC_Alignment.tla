----------------------------- MODULE MC_Alignment -----------------------------
(* Model-checking instance of Alignment.                                   *)
EXTENDS Alignment

\* A subdomain and its organizational domain, and an unrelated domain.
MCDomains == {"mail.a.example", "a.example", "b.example"}
MCOrgDomain == [d \in MCDomains |-> IF d = "b.example" THEN "b.example"
                                    ELSE "a.example"]
=============================================================================
