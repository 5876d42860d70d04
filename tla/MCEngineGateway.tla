-------------------------- MODULE MCEngineGateway --------------------------
(***************************************************************************)
(* Instances of EngineGateway for TLC.                                     *)
(***************************************************************************)
EXTENDS EngineGateway, TLC

\* Handlers, sessions and the sockets that keep to one engine id are
\* interchangeable; the two engines are not, one being a manager.
Symmetry ==
    Permutations(Handlers) \cup Permutations(Sessions)
        \cup Permutations(Sockets \ Roamers)
=============================================================================
