------------------------- MODULE MC_McpDispatcher -------------------------
\* A small instance of McpDispatcher for TLC.
EXTENDS McpDispatcher

CONSTANTS w1, w2

TwoWorkers == {w1, w2}
=============================================================================
