-------------------------- MODULE MCSignalIngestion --------------------------
(***************************************************************************)
(* Small instances of SignalIngestion: one watched chat, to which every    *)
(* ingestor gives the same name (its username).                            *)
(***************************************************************************)
EXTENDS SignalIngestion

CONSTANTS chan

OneName == [p \in Ingestors |-> chan]
=============================================================================
