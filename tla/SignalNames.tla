---------------------------- MODULE SignalNames ----------------------------
(***************************************************************************)
(* The names both halves of SignalEngineSubscriberService share: SignalFeed*)
(* subscribes to signals for the rooms of these engines, and SignalRouting *)
(* hands each signal to one of them.                                       *)
(***************************************************************************)
CONSTANT Engines    \* engine ids
=============================================================================
