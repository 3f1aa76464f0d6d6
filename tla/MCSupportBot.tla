---- MODULE MCSupportBot ----
(***************************************************************************)
(* Instance of SupportBot for TLC: every script of up to four turns.  The  *)
(* infos are displayed alike, so they may be permuted, but a symmetry set  *)
(* is not sound for the liveness property and none is used.                *)
(***************************************************************************)
EXTENDS SupportBot

(* The script that the bot's main plays. *)
ASSUME MainScript ==
    \A info \in Infos :
        <<[state |-> Greeting, event |-> UserAskedRefund],
          [state |-> CollectingInfo, event |-> [name |-> "InfoProvided", info |-> info]],
          [state |-> Resolving, event |-> RefundRequested]>>
            \in UpTo(MaxTurns, Turns)
====
