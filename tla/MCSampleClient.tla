--------------------------- MODULE MCSampleClient ---------------------------
(***************************************************************************)
(* Instances of the clients of the map-reduce framework for TLC.           *)
(***************************************************************************)
EXTENDS SampleClient

\* The first string has every letter, and one of them twice; the others have
\* only that one.
MCContent ==
  [ i \in Items |-> IF i = 1 THEN << 1 >> \o [ k \in 1 .. NumKeys |-> k ]
                    ELSE << 1 >> ]
MCEmits == [ i \in Items |-> MapEmits(i) ]
=============================================================================
