---------------------------- MODULE CheckDomainJoin ----------------------------
(***************************************************************************)
(* What checkDomain promises its caller, as a barrier: once the domain is   *)
(* accepted, every check runs to its end, each exactly once and in any      *)
(* order, and the result is returned only after the last one has finished. *)
(* A domain that does not parse or is not configured fails before any      *)
(* check starts.                                                           *)
(***************************************************************************)
CONSTANT Checks

VARIABLES
    phase,  \* "start", "running", "returned" or "failed"
    done    \* the checks that have finished

vars == <<phase, done>>

Init == phase = "start" /\ done = {}

Accept == phase = "start" /\ phase' = "running" /\ UNCHANGED done

Reject == phase = "start" /\ phase' = "failed" /\ UNCHANGED done

Finish(g) ==
    /\ phase = "running"
    /\ g \notin done
    /\ done' = done \cup {g}
    /\ UNCHANGED phase

Return ==
    /\ phase = "running"
    /\ done = Checks
    /\ phase' = "returned"
    /\ UNCHANGED done

Next == Accept \/ Reject \/ Return \/ \E g \in Checks : Finish(g)

\* The barrier's steps, whatever the scheduling.
Safety == Init /\ [][Next]_vars

\* Every check is bounded by the request's context, and the caller waits.
Spec == Safety /\ WF_vars(Next)
=============================================================================
