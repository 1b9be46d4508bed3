-------------------------- MODULE MCRdmaLifecycle --------------------------
(* A small instance of RdmaLifecycle. *)
EXTENDS RdmaLifecycle

Three == {0, 1, 2}
\* A group of three, and a worker of an earlier run that is still about.
ThreeAndStale == {"new"} \X Three \union {<<"old", 1>>}
=============================================================================
