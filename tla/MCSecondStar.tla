---------------------------- MODULE MCSecondStar ----------------------------
(* Sessions for the console of one machine, and one for a machine whose    *)
(* name two Machine objects have.                                          *)
EXTENDS SecondStar

MCUser(s) == IF s = "x" THEN "n" ELSE "m"
MCKey(s) == "k"
MCConsoles ==
  [u \in {"m", "n"} |-> [hardware |-> 1, keys |-> <<"bad", "k">>,
                         machines |-> IF u = "m" THEN 1 ELSE 2,
                         secret |-> {"username", "password"}, options |-> TRUE, port |-> 0]]
=============================================================================
