------------------------- MODULE MC_WebserverConfig -------------------------
(* Model-checking instance of WebserverConfig.                             *)
EXTENDS WebserverConfig
=============================================================================
