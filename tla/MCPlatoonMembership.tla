------------------------- MODULE MCPlatoonMembership -------------------------
(* Small instances for TLC: platoons of one or two, and vehicles that      *)
(* belong to none.                                                         *)
EXTENDS PlatoonMembership

CONSTANTS a1, a2, b1, b2, c, d

OnePlatoon    == {<<a1, a2>>}
TwoPlatoons   == {<<a1, a2>>, <<b1, b2>>}
ThreePlatoons == {<<a1>>, <<b1, b2>>, <<c, d>>}

=============================================================================
