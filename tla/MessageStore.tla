----------------------------- MODULE MessageStore -----------------------------
(***************************************************************************)
(* What the ingestors promise about data/signals.json, with their files,   *)
(* copies, polls and failures left out.                                    *)
(*                                                                         *)
(* Messages are posted.  One that is worth it may be stored, under the     *)
(* name of a source and its own number, if it is not there yet; what is    *)
(* stored stays, in its order.  Only what is stored is ever announced, and *)
(* nothing that was announced is taken back.  SignalIngestion is shown to  *)
(* implement this while one ingestor runs at a time.                       *)
(***************************************************************************)
EXTENDS Sequences

CONSTANTS
  Sources   \* the names under which messages are stored

VARIABLES
  posted,     \* the messages that are worth to be stored
  stored,     \* the ids of the stored signals: [source, message] pairs
  announced   \* the ids of the SIGNAL_RECEIVED events

vars == <<posted, stored, announced>>

Init ==
  /\ posted = {}
  /\ stored = <<>>
  /\ announced = {}

Post ==
  /\ posted \subseteq posted'
  /\ UNCHANGED <<stored, announced>>

Store ==
  /\ \E id \in Sources \X posted :
       /\ \A i \in DOMAIN stored : stored[i] # id
       /\ stored' = Append(stored, id)
  /\ UNCHANGED <<posted, announced>>

Announce ==
  /\ \E i \in DOMAIN stored : announced' = announced \cup {stored[i]}
  /\ UNCHANGED <<posted, stored>>

Next == Post \/ Store \/ Announce

Spec == Init /\ [][Next]_vars
=============================================================================
