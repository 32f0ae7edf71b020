--------------------------- MODULE LocalserveProcess ---------------------------
(***************************************************************************)
(* `beacon localserve` as a whole: the configuration directory and the     *)
(* processes that set it up and serve from it (Localserve), composed with  *)
(* the connections and the graceful shutdown of each serving process       *)
(* (Shutdown).                                                             *)
(*                                                                         *)
(* The two meet where cmdLocalserve meets serve.go.  Mail reaches the      *)
(* account at the end of an SMTP command on one of the connections.  The   *)
(* signal handler calls shutdown(log) and then os.Exit, and only then does *)
(* the process end.  A crash ends it at any point.  Each new process starts *)
(* with no connections, a fresh counter for Cid and no shutdown in         *)
(* progress.                                                               *)
(***************************************************************************)
CONSTANTS Conns, CidStart

VARIABLES
    dir, files, account, mail, pc, step, initOnly, swallowed, \* Localserve
    spc, now, forcedAt, shutdownCtx, ctxCanceled, deadline,  \* Shutdown
    conn, cid, cidOf

LS == INSTANCE Localserve
SD == INSTANCE Shutdown

lsVars == <<dir, files, account, mail, pc, step, initOnly, swallowed>>
sdVars == <<spc, now, forcedAt, shutdownCtx, ctxCanceled, deadline,
            conn, cid, cidOf>>
vars == <<lsVars, sdVars>>

TypeOK == LS!TypeOK /\ SD!TypeOK

Init == LS!Init /\ SD!Init

\* The process ends: whatever it held in memory is gone, and the next one
\* starts as in SD!Init.
ProcessEnds ==
    /\ spc' = "serving" /\ now' = 0 /\ forcedAt' = 0
    /\ shutdownCtx' = FALSE /\ ctxCanceled' = FALSE /\ deadline' = FALSE
    /\ conn' = [c \in Conns |-> "none"]
    /\ cid' = CidStart /\ cidOf' = [c \in Conns |-> 0]

-----------------------------------------------------------------------------
(* Steps before serving: no connection exists yet.                         *)

Setup ==
    /\ \/ LS!InvokeInitOnly \/ LS!Invoke \/ LS!LoadedConfig
       \/ LS!WriteStepOK \/ LS!WriteStepFails
    /\ UNCHANGED sdVars

-----------------------------------------------------------------------------
(* Serving: connection steps happen only in a serving process.            *)

ConnStep(c) ==
    /\ pc = "serve"
    /\ \/ SD!Accept(c) \/ SD!StartCommand(c) \/ SD!FinishCommand(c)
       \/ SD!Close(c) \/ SD!Abort(c) \/ SD!StartSleep(c) \/ SD!SleepReturn(c)
    /\ UNCHANGED lsVars

\* The DATA command of an SMTP session ends with the message delivered to
\* account "beacon" (smtpserver in Localserve mode).
DeliverOn(c) ==
    /\ pc = "serve"
    /\ SD!FinishCommand(c)
    /\ LS!Deliver

\* SIGINT or SIGTERM reaches the signal handler: shutdown(log) starts.
Signal ==
    /\ pc = "serve"
    /\ SD!StartShutdown
    /\ UNCHANGED lsVars

\* shutdown's selects, tickers and the removal of the ctl socket.
ShutdownStep ==
    /\ pc = "serve"
    /\ \/ SD!WaitDone \/ SD!WaitTimeout \/ SD!ForcedDone
       \/ SD!SecondThenRemove \/ SD!ForcedSecondThenRemove
    /\ UNCHANGED lsVars

ShutdownTick == pc = "serve" /\ SD!Tick /\ UNCHANGED lsVars

\* shutdown(log) has returned: os.Exit with the signal's number.
Exit ==
    /\ spc = "exited"
    /\ LS!Signal
    /\ ProcessEnds

\* The process is killed or the machine stops, at any step.
Crash == LS!Crash /\ ProcessEnds

Next ==
    \/ Setup \/ Signal \/ ShutdownStep \/ ShutdownTick \/ Exit \/ Crash
    \/ \E c \in Conns : ConnStep(c) \/ DeliverOn(c)

\* Shutdown's fairness (SD!Fairness), for the steps of the serving process,
\* and os.Exit once shutdown returned.  Nothing forces a start, a step of
\* the setup, a signal or a crash.
Fairness ==
    /\ WF_vars(ShutdownStep)
    /\ WF_vars(ShutdownTick)
    /\ WF_vars(Exit)
    /\ \A c \in Conns :
         /\ WF_vars(pc = "serve" /\ shutdownCtx /\ SD!Close(c) /\ UNCHANGED lsVars)
         /\ WF_vars(pc = "serve" /\ SD!Abort(c) /\ UNCHANGED lsVars)
         /\ WF_vars(pc = "serve" /\ SD!SleepReturn(c) /\ UNCHANGED lsVars)

Spec == Init /\ [][Next]_vars /\ Fairness

-----------------------------------------------------------------------------
(* Properties.                                                             *)

\* Shutdown of each serving process: exit only after the connections are
\* drained, or after the grace period, the deadline and one more second.
ExitOnlyDrainedOrCut == SD!ExitOnlyDrainedOrCut

\* A process serves only from a directory that beacon.LoadConfig accepts,
\* unless its own writeLocalConfig swallowed a panic that was not an error
\* (localserve.go:218, where the code has no defence).  This holds even
\* when an earlier process crashed while writeLocalConfig rewrote a file
\* and left it truncated, or swallowed a panic and left the directory half
\* written: cmdLocalserve loads an existing directory before it serves from
\* it, and writeLocalConfig loads the config it has just written.
ServesFromLoadableConfig ==
    pc = "serve" /\ ~swallowed => dir /\ LS!LoadConfigOK(files)

\* Once the signal handler has started shutdown(log), the process ends,
\* however long a client holds a command.
SignalLeadsToExit == shutdownCtx ~> pc = "idle"
=============================================================================
