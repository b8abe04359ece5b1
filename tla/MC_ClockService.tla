------------------------- MODULE MC_ClockService -------------------------
EXTENDS ClockService, TLC

\* Requests are alike.
MCCalls == Permutations(Call)
=============================================================================
