---------------------------- MODULE MCLifecycle ----------------------------
(* Lifecycle for TLC. *)
EXTENDS Lifecycle

(* Either the capture is closed and opened a second time, or the output serves
   two packets, and others that are not followed, while it is called. *)
MCLimits == {[opens |-> 2, packets |-> 0, calls |-> "capture"],
             [opens |-> 1, packets |-> 2, calls |-> "output"]}
MCSettings == {[showPkg |-> TRUE, writePkg |-> TRUE],
               [showPkg |-> FALSE, writePkg |-> FALSE]}

(* What the output does with a packet is no matter to the capture. *)
MCLifeInit == LifeInit /\ (limit.calls = "capture" => ~setting.writePkg)
MCLifeSpec == MCLifeInit /\ [][LifeNext]_lifeVars /\ LifeFairness
=============================================================================
