---------------------------- MODULE MCYieldManager ----------------------------
(* YieldManager over one tenant of one vault that earns.                    *)
EXTENDS YieldManager

MCRates == {2, 3}
MCAmounts == {2}
===============================================================================
