---------------------------- MODULE MCStatistics ------------------------------
(* Two articles of one directory, of which a later template lists only one, *)
(* and a template without scopes; one visitor comes by SSH with a mapped     *)
(* address and to the web pages with the plain one.                          *)
EXTENDS Statistics

CONSTANTS s1, s2, a1, a2, dir, plain, mapped

MCTarget == [a \in {a1, a2} |-> dir]
MCTemplates == {[targets |-> {dir}, articles |-> {a1, a2}],
                [targets |-> {dir}, articles |-> {a1}],
                [targets |-> {}, articles |-> {}]}
MCPeer   == [s \in Sessions |-> IF s = s1 THEN mapped ELSE plain]
MCCanon  == [x \in {plain, mapped} |-> plain]
================================================================================
