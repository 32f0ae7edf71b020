------------------------------ MODULE Localserve ------------------------------
(***************************************************************************)
(* `beacon localserve` (localserve.go): the configuration directory that   *)
(* outlives each invocation, and the process that creates, loads and       *)
(* serves from it.                                                          *)
(*                                                                         *)
(* The disk state is the directory, the complete files in it, the state of *)
(* the account "beacon" and whether mail was delivered to it.  One process  *)
(* runs at a time; it may crash at any step, and a crash while os.WriteFile *)
(* rewrites a file leaves that file truncated.  A truncated or missing file *)
(* is not in `files`.  Keys, certificates and config text are left out: no  *)
(* property tells their contents apart.                                    *)
(***************************************************************************)
EXTENDS Naturals, Sequences, FiniteSets

\* The files writeLocalConfig writes, in the order it writes them.
ConfigFiles == {"key", "crt", "adminpasswd", "conf", "domains", "recvid"}

\* writeLocalConfig, one entry per step that can fail, after os.MkdirAll.
WriteSteps == <<"mkdir", "key", "crt", "adminpasswd", "conf", "domains",
                "recvid", "load", "open", "setpw", "close">>

\* The files beacon.LoadConfig reads: beacon.conf, domains.conf, and the
\* listener's KeyCerts and the TLS CA CertFiles named in beacon.conf.
LoadNeeds == {"key", "crt", "conf", "domains"}

VARIABLES
    dir,        \* the configuration directory exists
    files,      \* the complete files in it
    account,    \* account "beacon": "none", "nopw" (no password), "pw"
    mail,       \* mail was delivered to the account
    pc,         \* "idle" (no process), "write", "config", "serve"
    step,       \* index in WriteSteps of writeLocalConfig's next step
    initOnly,   \* the process runs with -initonly
    swallowed   \* history: this process's writeLocalConfig recovered a
                \* panic value that is not an error and returned nil

vars == <<dir, files, account, mail, pc, step, initOnly, swallowed>>
disk == <<dir, files, account, mail>>

TypeOK ==
    /\ dir \in BOOLEAN /\ files \subseteq ConfigFiles
    /\ account \in {"none", "nopw", "pw"} /\ mail \in BOOLEAN
    /\ pc \in {"idle", "write", "config", "serve"}
    /\ step \in 1..Len(WriteSteps)
    /\ initOnly \in BOOLEAN /\ swallowed \in BOOLEAN

Init ==
    /\ dir = FALSE /\ files = {} /\ account = "none" /\ mail = FALSE
    /\ pc = "idle" /\ step = 1 /\ initOnly = FALSE
    /\ swallowed = FALSE

\* localLoadConfig: beacon.LoadConfig on beacon.conf and domains.conf
\* returns no error exactly when the files it reads are complete.
LoadConfigOK(fs) == LoadNeeds \subseteq fs

-----------------------------------------------------------------------------
(* cmdLocalserve.                                                          *)

\* A start with -initonly: the os.Stat only logs a warning, then
\* writeLocalConfig.
InvokeInitOnly ==
    /\ pc = "idle"
    /\ pc' = "write" /\ step' = 1 /\ initOnly' = TRUE /\ swallowed' = FALSE
    /\ UNCHANGED disk

\* Variant: the error of localLoadConfig for an existing directory is
\* ignored.
InvokeNoLoadCheck ==
    /\ pc = "idle"
    /\ initOnly' = FALSE /\ step' = 1
    /\ IF ~dir
         THEN pc' = "write"
         ELSE \E statOK, ipGiven \in BOOLEAN :
                pc' = IF statOK /\ ~ipGiven THEN "config" ELSE "idle"
    /\ swallowed' = FALSE
    /\ UNCHANGED disk

\* A start without -initonly.  A missing directory is initialised.  For an
\* existing one, os.Stat may fail, localLoadConfig may fail, and -ip is
\* refused: each is log.Fatalx.  The -loglevel check comes later, in
\* LoadedConfig.
Invoke ==
    /\ pc = "idle"
    /\ initOnly' = FALSE /\ step' = 1
    /\ IF ~dir
         THEN pc' = "write"
         ELSE \E statOK, ipGiven \in BOOLEAN :
                pc' = IF statOK /\ LoadConfigOK(files) /\ ~ipGiven
                        THEN "config" ELSE "idle"
    /\ swallowed' = FALSE
    /\ UNCHANGED disk

\* start() (serve.go) returns an error from mtastsdb.Init, tlsrptdb.Init,
\* queue.Start or dmarcdb.Init, in that order, or nil.
StartResults == {"mtastsdb", "tlsrptdb", "queue", "dmarcdb", "nil"}

\* The -loglevel check (an unknown level is fatal), receivedid.key read (a
\* missing or short file gives a random key that is not saved), start() and
\* listening on the ctl socket.  Each failure is log.Fatalx.
LoadedConfig ==
    /\ pc = "config"
    /\ \E levelOK, ctlOK \in BOOLEAN, started \in StartResults :
         pc' = IF levelOK /\ started = "nil" /\ ctlOK THEN "serve" ELSE "idle"
    /\ UNCHANGED <<disk, step, initOnly, swallowed>>

\* smtpserver in Localserve mode delivers every message to account "beacon";
\* store.OpenAccount creates the account database if it does not exist.
Deliver ==
    /\ pc = "serve"
    /\ mail' = TRUE
    /\ account' = IF account = "none" THEN "nopw" ELSE account
    /\ UNCHANGED <<dir, files, pc, step, initOnly, swallowed>>

\* SIGINT or SIGTERM: shutdown(log), then os.Exit.
Signal ==
    /\ pc = "serve"
    /\ pc' = "idle"
    /\ UNCHANGED <<disk, step, initOnly, swallowed>>

\* The process is killed or the machine stops.  A file os.WriteFile was
\* writing may be left truncated.
Crash ==
    /\ pc # "idle"
    /\ pc' = "idle"
    /\ \E cut \in BOOLEAN :
         files' = IF cut /\ pc = "write" THEN files \ {WriteSteps[step]}
                  ELSE files
    /\ UNCHANGED <<dir, account, mail, step, initOnly, swallowed>>

-----------------------------------------------------------------------------
(* writeLocalConfig.                                                       *)

\* After the last step: return nil.  With -initonly the command returns;
\* otherwise the config was loaded by the "load" step.
AfterStep(s) == IF s < Len(WriteSteps) THEN "write"
            ELSE IF initOnly THEN "idle" ELSE "config"

\* The step succeeds: its file is complete, the account opened (and created
\* if needed), or its password set.
WriteStepOK ==
    /\ pc = "write"
    /\ LET s == WriteSteps[step] IN
         /\ s = "load" => LoadConfigOK(files)
         /\ dir' = TRUE
         /\ files' = IF s \in ConfigFiles THEN files \cup {s} ELSE files
         /\ account' = CASE s = "open" /\ account = "none" -> "nopw"
                         [] s = "setpw"                    -> "pw"
                         [] OTHER                          -> account
    /\ pc' = AfterStep(step)
    /\ step' = IF step < Len(WriteSteps) THEN step + 1 ELSE step
    /\ UNCHANGED <<mail, initOnly, swallowed>>

\* A step after os.MkdirAll (whose error is ignored) fails and panics; the
\* deferred recover keeps the panic value in rerr only if it is an error.
\* - An error (every xcheck panics with one): os.RemoveAll(dir) removes
\*   the whole directory and the caller calls log.Fatalx.
\* - Any other value: rerr stays nil, nothing is removed, and
\*   writeLocalConfig returns nil; cmdLocalserve returns (-initonly) or goes
\*   on as if the config were written and loaded.
WriteStepFails ==
    /\ pc = "write"
    /\ WriteSteps[step] # "mkdir"
    /\ \/ /\ dir' = FALSE /\ files' = {} /\ account' = "none" /\ mail' = FALSE
          /\ pc' = "idle"
          /\ UNCHANGED swallowed
       \/ /\ pc' = IF initOnly THEN "idle" ELSE "config"
          /\ swallowed' = TRUE
          /\ UNCHANGED disk
    /\ UNCHANGED <<step, initOnly>>

Next ==
    \/ InvokeInitOnly \/ Invoke \/ LoadedConfig \/ Deliver \/ Signal \/ Crash
    \/ WriteStepOK \/ WriteStepFails

\* No fairness: every step may fail or be cut short by a crash.
Spec == Init /\ [][Next]_vars

-----------------------------------------------------------------------------
(* Properties.                                                             *)

\* Mail delivered to the local account is never removed by localserve
\* itself: writeLocalConfig's cleanup removes only a directory it created.
DeliveredMailKept == [][mail => mail']_vars
=============================================================================
