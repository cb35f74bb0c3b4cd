---- MODULE MCMachineSget ----
(* MachineSget with cycles small enough that scripts run out of them.      *)
EXTENDS MachineSget

MCDepth == 4
MCMax == 12
MCEcall == 2
MCCosts == {1, 2}
MCWord == 32
====
