--------------------------- MODULE WebserverConfig ---------------------------
(***************************************************************************)
(* webadmin/admin.go WebserverConfig and WebserverConfigSave: admins load  *)
(* the web server configuration, edit it, and save it with the config      *)
(* they loaded as oldConf.  The save compares oldConf with the current     *)
(* config and then, in a later step, stores the new one with               *)
(* beacon.WebserverConfigSet (not under src/: it replaces the dynamic      *)
(* config).  Each admin request is served on its own goroutine.  A config  *)
(* is a model value: its redirects and handlers are what the comparison    *)
(* tells apart.                                                            *)
(***************************************************************************)
EXTENDS Naturals

CONSTANTS
    Admins,    \* concurrent admin sessions
    Configs,   \* web server configurations
    Initial    \* the configuration at start

ASSUME Initial \in Configs

VARIABLES
    config,    \* beacon.Conf's dynamic web server configuration
    apc,       \* apc[a]: where admin a's session is
    old,       \* old[a]: the config admin a loaded (oldConf)
    new,       \* new[a]: the config admin a wants (newConf)
    overwrote  \* history: a save replaced another admin's config with its own

vars == <<config, apc, old, new, overwrote>>

TypeOK ==
    /\ config \in Configs
    /\ apc \in [Admins -> {"idle", "edit", "checked", "set"}]
    /\ old \in [Admins -> Configs]
    /\ new \in [Admins -> Configs]
    /\ overwrote \in BOOLEAN

Init ==
    /\ config = Initial
    /\ apc = [a \in Admins |-> "idle"]
    /\ old = [a \in Admins |-> Initial]
    /\ new = [a \in Admins |-> Initial]
    /\ overwrote = FALSE

\* WebserverConfig(): the page loads webserverConfig(); the admin edits it.
Load(a) ==
    /\ apc[a] = "idle"
    /\ \E c \in Configs \ {config} :
         /\ old' = [old EXCEPT ![a] = config]
         /\ new' = [new EXCEPT ![a] = c]
    /\ apc' = [apc EXCEPT ![a] = "edit"]
    /\ UNCHANGED <<config, overwrote>>

\* WebserverConfigSave, first part: current := webserverConfig(); oldConf
\* must equal it ("config has changed" otherwise), and newConf's domain
\* redirects must have no duplicate ("already present" otherwise).  An
\* error goes back to the admin, who may load the page again.
SaveCheck(a) ==
    /\ apc[a] = "edit"
    /\ \E dupRedirect \in BOOLEAN :
         apc' = [apc EXCEPT ![a] = IF old[a] = config /\ ~dupRedirect
                                   THEN "checked" ELSE "idle"]
    /\ UNCHANGED <<config, old, new, overwrote>>

\* beacon.WebserverConfigSet(ctx, domainRedirects, newConf.WebHandlers).
\* It fails when the new dynamic config does not parse or cannot be written;
\* xcheckf then answers with the error and the config stays as it was.  A
\* save that replaces a config which is neither the one the admin loaded
\* nor the one it writes has replaced another admin's change.
SaveSet(a) ==
    /\ apc[a] = "checked"
    /\ \/ /\ config' = new[a]
          /\ overwrote' = (overwrote \/ config \notin {old[a], new[a]})
          /\ apc' = [apc EXCEPT ![a] = "set"]
       \/ /\ apc' = [apc EXCEPT ![a] = "idle"]
          /\ UNCHANGED <<config, overwrote>>
    /\ UNCHANGED <<old, new>>

\* savedConf = webserverConfig(): the reply shows the config after the save.
SaveReturn(a) ==
    /\ apc[a] = "set"
    /\ apc' = [apc EXCEPT ![a] = "idle"]
    /\ UNCHANGED <<config, old, new, overwrote>>

Next == \E a \in Admins : Load(a) \/ SaveCheck(a) \/ SaveSet(a) \/ SaveReturn(a)

Spec == Init /\ [][Next]_vars

\* "If oldConf is not equal to the current config, an error is returned":
\* no save replaces a configuration that the saving admin never saw, so a
\* concurrent admin's change is never silently lost.
NoLostUpdate == ~overwrote
=============================================================================
