---------------------------- MODULE MCBeaconing -----------------------------
(* Small instances for TLC: four vehicles with slots, a leader whom a      *)
(* vehicle joins, a leader with slots whom two vehicles join, and the      *)
(* interval of the autolanechange example, at which nobody sends.          *)
EXTENDS Beaconing

CONSTANTS a, b, c, d

SlottedPlatoon == [protocol |-> "slotted", interval |-> 8, second |-> 80, delay |-> 1,
                   radios |-> 1, platoon |-> <<a, b, c, d>>, joining |-> <<>>]
SimpleJoin     == [protocol |-> "simple", interval |-> 2, second |-> 20, delay |-> 3,
                   radios |-> 2, platoon |-> <<a>>, joining |-> <<b>>]
SlottedJoin    == [protocol |-> "slotted", interval |-> 1, second |-> 1, delay |-> 0,
                   radios |-> 1, platoon |-> <<a>>, joining |-> <<b, c>>]
NoBeacons      == [protocol |-> "simple", interval |-> -1, second |-> 1, delay |-> 1,
                   radios |-> 1, platoon |-> <<a, b>>, joining |-> <<c>>]

(* The second beacon of c becomes due but is not sent.                     *)
FewBeacons == [v \in {a, b, c, d} |-> IF v = c THEN 1 ELSE 2]

AllSetups == {SlottedPlatoon, SimpleJoin, SlottedJoin, NoBeacons}

=============================================================================
