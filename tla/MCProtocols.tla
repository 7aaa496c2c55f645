----------------------------- MODULE MCProtocols -----------------------------
(* Instances of Protocols for TLC: distinct durations, and the keys in the  *)
(* order of the captures and in another one.                                *)
EXTENDS Protocols

MCMinutes == [waterTim |-> 1, quickTim |-> 2, smartTim |-> 3, deepTim |-> 5,
              customTim |-> 4, firstSmartTim |-> 6]

MCOrders == {<<"waterTim", "quickTim", "smartTim", "deepTim", "customTim", "firstSmartTim">>,
             <<"firstSmartTim", "customTim", "deepTim", "smartTim", "quickTim", "waterTim">>}
=============================================================================
