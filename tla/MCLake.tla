------------------------------- MODULE MCLake -------------------------------
(* Events for model checking Lake: two of one day (of distinct ids a and b), *)
(* one of a on the next day.  Merges are limited to three files.            *)
EXTENDS Lake

MCPart == [e \in Events |-> IF e = "e3" THEN <<"p", 2>> ELSE <<"p", 1>>]
MCWho == [e \in Events |-> IF e = "e2" THEN "b" ELSE "a"]
=============================================================================
