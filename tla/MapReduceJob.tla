---------------------------- MODULE MapReduceJob ----------------------------
(***************************************************************************)
(* What a map-reduce job promises its client, whatever the threads do:     *)
(* map is called once for each input item, and then reduce once for each   *)
(* key that some item has, with all the items that have it.                *)
(***************************************************************************)
EXTENDS Naturals, Sequences

CONSTANTS
  Items,
  Keys,
  Emits       \* Emits[i], the keys that map(i) emits

VARIABLES
  mapped,     \* mapped[i], how often map was called for the item
  given       \* given[k], the arguments that reduce was called with for k

vars == << mapped, given >>

Sources(k) == { i \in Items : k \in Emits[i] }
Group(k) == { << k, i >> : i \in Sources(k) }

Init ==
  /\ mapped = [ i \in Items |-> 0 ]
  /\ given = [ k \in Keys |-> << >> ]

Map(i) ==
  /\ mapped[i] = 0
  /\ mapped' = [ mapped EXCEPT ![i] = 1 ]
  /\ UNCHANGED given

Reduce(k) ==
  /\ \A i \in Items : mapped[i] = 1
  /\ Sources(k) # {}
  /\ given[k] = << >>
  /\ given' = [ given EXCEPT ![k] = << Group(k) >> ]
  /\ UNCHANGED mapped

Next == (\E i \in Items : Map(i)) \/ (\E k \in Keys : Reduce(k))

Spec == Init /\ [][Next]_vars
=============================================================================
