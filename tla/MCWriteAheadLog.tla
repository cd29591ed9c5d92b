-------------------------- MODULE MCWriteAheadLog --------------------------
(* Sizes for model checking WriteAheadLog: segments hold three small records,*)
(* one record is larger than a publication window and fills a segment.      *)
EXTENDS WriteAheadLog

MCSize == [r \in Records |-> CASE r = 4 -> 3 [] r = 5 -> 4 [] OTHER -> 1]
=============================================================================
