---------------------------- MODULE MCTinkSystem ----------------------------
EXTENDS TinkSystem, TLC
CONSTANTS a1, a2, w1

\* Two Tasks for two agents.
HandoverWorker == w1 :> <<a1, a2>>
HandoverTaskOf == w1 :> <<1, 2>>

\* One Task, two Actions, one agent.
SingleWorker == w1 :> <<a1>>
SingleTaskOf == w1 :> <<1, 1>>
=============================================================================
