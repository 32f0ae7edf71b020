\* Two admins saving concurrently.
CONSTANTS
    Admins = {a1, a2}
    Configs = {cfg0, cfg1, cfg2}
    Initial = cfg0
SPECIFICATION Spec
INVARIANT NoLostUpdate
