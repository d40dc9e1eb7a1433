------------------------- MODULE MC_LocalModelSetup -------------------------
(* LocalModelSetup with one model and a backend of two archives (cuda).     *)
EXTENDS LocalModelSetup

CONSTANTS cudart, cuda
TwoArchives == [b \in Backends |-> <<cudart, cuda>>]
=============================================================================
