------------------------ MODULE MCRPKIBundleResource ------------------------
(* A small instance of RPKIBundleResource for TLC, in which a ROA moves    *)
(* from one label to another.                                              *)
EXTENDS RPKIBundleResource, TLC

CONSTANTS h1, h2, o1, l1, l2, c1, p1

OneKey == [o \in Objects |-> 1]
Config(first, second) ==
  [roas |-> [l \in Labels |-> IF l = l1 THEN first ELSE second],
   aspas |-> [c \in Customers |-> p1]]
MovedConfigs == {Config(o1, None), Config(None, o1)}
=============================================================================
