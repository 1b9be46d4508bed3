--------------------------- MODULE MCExperiments ---------------------------
(***************************************************************************)
(* Every script alone; a script begun twice, with two directories or with  *)
(* one; two different scripts with one directory.                          *)
(***************************************************************************)
EXTENDS Experiments

MCPlans ==
    {<<r>> : r \in OneNode \cup AllNodes}
    \cup {<<Isolated, [Isolated EXCEPT !.dir = d]>> : d \in Dirs}
    \cup {<<Isolated, Compared>>}
=============================================================================
