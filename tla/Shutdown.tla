------------------------------- MODULE Shutdown -------------------------------
(***************************************************************************)
(* Graceful shutdown of the server (serve.go shutdown) against the         *)
(* connections it drains, with the connection ids of beacon.Cid and the    *)
(* client throttling of beacon.Sleep.                                      *)
(*                                                                         *)
(* Time is a discrete clock `now` counting whole seconds since shutdown    *)
(* started; the tickers of serve.go are compared against it.  Before       *)
(* shutdown the clock does not run: nothing observes it.  The connection   *)
(* registry beacon.Connections and the connection handlers are not under   *)
(* src/; their behaviour (refuse new connections and new commands after    *)
(* ShutdownCancel, close on a socket deadline) is taken from the spec,     *)
(* section 4.H.                                                            *)
(***************************************************************************)
EXTENDS Naturals, FiniteSets

CONSTANTS
    Conns,      \* connection slots that may be accepted
    CidStart    \* cid.Store(time.Now().UnixMilli()) at init

\* time.Tick(3 * time.Second) and time.Tick(time.Second) in shutdown.
Grace == 3
Second == 1
\* The last moment shutdown can still be waiting: the forced path's second.
Horizon == Grace + Second

VARIABLES
    spc,          \* control state of the shutdown function
    now,          \* seconds since beacon.ShutdownCancel()
    forcedAt,     \* now at which the 3 s branch was taken (second ticker)
    shutdownCtx,  \* beacon.ShutdownCancel() called
    ctxCanceled,  \* beacon.ContextCancel() called
    deadline,     \* beacon.Connections.Shutdown() set immediate deadlines
    conn,         \* conn[c]: state of connection slot c
    cid,          \* the atomic counter of Cid
    cidOf         \* cidOf[c]: id handed to connection c (0: none yet)

vars == <<spc, now, forcedAt, shutdownCtx, ctxCanceled, deadline, conn, cid,
          cidOf>>
connVars == <<conn, cid, cidOf>>

ConnState == {"none", "idle", "cmd", "sleep", "closed"}
Open == {c \in Conns : conn[c] \in {"idle", "cmd", "sleep"}}

TypeOK ==
    /\ spc \in {"serving", "wait", "second", "forcewait", "second2", "exited"}
    /\ now \in 0..Horizon
    /\ forcedAt \in 0..Horizon
    /\ shutdownCtx \in BOOLEAN /\ ctxCanceled \in BOOLEAN /\ deadline \in BOOLEAN
    /\ conn \in [Conns -> ConnState]
    /\ cid \in CidStart..(CidStart + Cardinality(Conns))
    /\ cidOf \in [Conns -> {0} \cup (CidStart + 1)..(CidStart + Cardinality(Conns))]

Init ==
    /\ spc = "serving"
    /\ now = 0
    /\ forcedAt = 0
    /\ shutdownCtx = FALSE
    /\ ctxCanceled = FALSE
    /\ deadline = FALSE
    /\ conn = [c \in Conns |-> "none"]
    /\ cid = CidStart
    /\ cidOf = [c \in Conns |-> 0]

-----------------------------------------------------------------------------
(* Connections (spec 4.H).                                                 *)

\* The process still runs: shutdown returns and main exits.
Running == spc # "exited"

\* A listener accepts a connection and gives it the id Cid() = cid.Add(1);
\* after ShutdownCancel new connections are refused.
Accept(c) ==
    /\ Running
    /\ ~shutdownCtx
    /\ conn[c] = "none"
    /\ conn' = [conn EXCEPT ![c] = "idle"]
    /\ cid' = cid + 1
    /\ cidOf' = [cidOf EXCEPT ![c] = cid + 1]
    /\ UNCHANGED <<spc, now, forcedAt, shutdownCtx, ctxCanceled, deadline>>

\* The client sends a command; after ShutdownCancel it is refused instead.
StartCommand(c) ==
    /\ Running
    /\ ~shutdownCtx
    /\ conn[c] = "idle"
    /\ conn' = [conn EXCEPT ![c] = "cmd"]
    /\ UNCHANGED <<spc, now, forcedAt, shutdownCtx, ctxCanceled, deadline, cid, cidOf>>

\* The command completes (it may wait on a slow peer for long).
FinishCommand(c) ==
    /\ Running
    /\ conn[c] = "cmd"
    /\ conn' = [conn EXCEPT ![c] = "idle"]
    /\ UNCHANGED <<spc, now, forcedAt, shutdownCtx, ctxCanceled, deadline, cid, cidOf>>

\* The client closes, or the server closes an idle connection once it is
\* shutting down.
Close(c) ==
    /\ Running
    /\ conn[c] = "idle"
    /\ conn' = [conn EXCEPT ![c] = "closed"]
    /\ UNCHANGED <<spc, now, forcedAt, shutdownCtx, ctxCanceled, deadline, cid, cidOf>>

\* The immediate socket deadline makes the pending read or write fail.
Abort(c) ==
    /\ Running
    /\ deadline
    /\ conn[c] = "cmd"
    /\ conn' = [conn EXCEPT ![c] = "closed"]
    /\ UNCHANGED <<spc, now, forcedAt, shutdownCtx, ctxCanceled, deadline, cid, cidOf>>

\* A command pushes back on the client with beacon.Sleep(ctx, d).
StartSleep(c) ==
    /\ Running
    /\ conn[c] = "cmd"
    /\ conn' = [conn EXCEPT ![c] = "sleep"]
    /\ UNCHANGED <<spc, now, forcedAt, shutdownCtx, ctxCanceled, deadline, cid, cidOf>>

\* Sleep: the select returns on <-t.C or on <-ctx.Done(), whichever is ready.
SleepReturn(c) ==
    /\ Running
    /\ conn[c] = "sleep"
    /\ \E ready \in {"ticker", "ctx"} :
         ready = "ctx" => ctxCanceled
    /\ conn' = [conn EXCEPT ![c] = "cmd"]
    /\ UNCHANGED <<spc, now, forcedAt, shutdownCtx, ctxCanceled, deadline, cid, cidOf>>

-----------------------------------------------------------------------------
(* The shutdown function.                                                  *)

\* Connections.Done(): closed once no connection is registered.
ConnectionsDone == Open = {}

\* beacon.ShutdownCancel(); done := Connections.Done(); the first ticker starts.
StartShutdown ==
    /\ spc = "serving"
    /\ spc' = "wait"
    /\ shutdownCtx' = TRUE
    /\ UNCHANGED <<now, forcedAt, ctxCanceled, deadline, connVars>>

\* select: case <-done.
WaitDone ==
    /\ spc = "wait"
    /\ ConnectionsDone
    /\ spc' = "second"
    /\ UNCHANGED <<now, forcedAt, shutdownCtx, ctxCanceled, deadline, connVars>>

\* Variant: the select has no timeout case.
WaitTimeoutMissing == FALSE

\* select: case <-time.Tick(3 * time.Second): ContextCancel() and
\* Connections.Shutdown(), then a new one-second ticker.
WaitTimeout ==
    /\ spc = "wait"
    /\ now >= Grace
    /\ spc' = "forcewait"
    /\ ctxCanceled' = TRUE
    /\ deadline' = TRUE
    /\ forcedAt' = now
    /\ UNCHANGED <<now, shutdownCtx, connVars>>

\* Second select: case <-done, then <-second.
ForcedDone ==
    /\ spc = "forcewait"
    /\ ConnectionsDone
    /\ spc' = "second2"
    /\ UNCHANGED <<now, forcedAt, shutdownCtx, ctxCanceled, deadline, connVars>>

\* Variant: no <-second after the connections are done.
SecondThenRemoveNoWait ==
    /\ spc = "second"
    /\ spc' = "exited"
    /\ UNCHANGED <<now, forcedAt, shutdownCtx, ctxCanceled, deadline, connVars>>

\* <-second of the first ticker, then os.Remove of the ctl socket and return.
SecondThenRemove ==
    /\ spc = "second"
    /\ now >= Second
    /\ spc' = "exited"
    /\ UNCHANGED <<now, forcedAt, shutdownCtx, ctxCanceled, deadline, connVars>>

\* <-second of the forced path's ticker (in either case of the second
\* select), then os.Remove of the ctl socket and return.
ForcedSecondThenRemove ==
    /\ spc \in {"forcewait", "second2"}
    /\ now >= forcedAt + Second
    /\ spc' = "exited"
    /\ UNCHANGED <<now, forcedAt, shutdownCtx, ctxCanceled, deadline, connVars>>

\* A timer of the select shutdown is blocked in has fired; the goroutine
\* then runs within the second.
TimerDue ==
    \/ spc = "wait" /\ now >= Grace
    \/ spc = "second" /\ now >= Second
    \/ spc \in {"forcewait", "second2"} /\ now >= forcedAt + Second

\* A second passes while shutdown is in progress.
Tick ==
    /\ spc \notin {"serving", "exited"}
    /\ ~TimerDue
    /\ now < Horizon
    /\ now' = now + 1
    /\ UNCHANGED <<spc, forcedAt, shutdownCtx, ctxCanceled, deadline, connVars>>

Terminated == spc = "exited" /\ UNCHANGED vars

Next ==
    \/ StartShutdown \/ WaitDone \/ WaitTimeout \/ ForcedDone
    \/ SecondThenRemove \/ ForcedSecondThenRemove \/ Tick
    \/ \E c \in Conns :
         \/ Accept(c) \/ StartCommand(c) \/ FinishCommand(c) \/ Close(c)
         \/ Abort(c) \/ StartSleep(c) \/ SleepReturn(c)
    \/ Terminated

\* Shutdown is a goroutine that is scheduled when runnable and the clock
\* advances.  After ShutdownCancel the server closes idle connections, a
\* socket deadline fails the pending I/O, and a sleep's ticker fires.  A
\* client may hold a command (and the signal may never come): no fairness.
Fairness ==
    /\ WF_vars(WaitDone \/ WaitTimeout \/ ForcedDone \/ SecondThenRemove
               \/ ForcedSecondThenRemove)
    /\ WF_vars(Tick)
    /\ \A c \in Conns : /\ WF_vars(shutdownCtx /\ Close(c))
                        /\ WF_vars(Abort(c))
                        /\ WF_vars(SleepReturn(c))

Spec == Init /\ [][Next]_vars /\ Fairness

-----------------------------------------------------------------------------
(* Properties.                                                             *)

\* The process leaves shutdown (removes the ctl socket and exits) no sooner
\* than a second after ShutdownCancel, and with connections still open only
\* after they were given the full grace period, cancelled and cut off by a
\* deadline, and one more second passed.
ExitOnlyDrainedOrCut ==
    spc = "exited" =>
        /\ now >= Second
        /\ (Open # {} => deadline /\ ctxCanceled /\ now >= Grace + Second)
=============================================================================
