------------------------------ MODULE HeaderMap ------------------------------
(***************************************************************************)
(* What include/http_parser.h says of SetResponseProperty: "Assigns a      *)
(* string to an empty body[n], if the key [...] already exists in one of   *)
(* the buffers, then it will overwrite whole body[n]".  A header is a map  *)
(* from keys to the value set last; a key it has is always overwritten,    *)
(* and a new one is taken while there is an empty place.                   *)
(*                                                                         *)
(* A key is given with the set of its values, so that a header that holds  *)
(* one twice is no such map.                                               *)
(***************************************************************************)
EXTENDS Naturals, FiniteSets

CONSTANTS Keys, Lengths,
          Limit,      \* places for a property
          NoProperty  \* what was set last when nothing was set yet

VARIABLES fields,  \* the map
          called   \* the property that was set last

MapInit == fields = [key \in {} |-> {}] /\ called = NoProperty

HasPlaceFor(key) == key \in DOMAIN fields \/ Cardinality(DOMAIN fields) < Limit

SetField(key, length) ==
    /\ called' = [key |-> key, length |-> length]
    /\ fields' = IF HasPlaceFor(key)
                 THEN [k \in DOMAIN fields \cup {key} |-> IF k = key THEN {length} ELSE fields[k]]
                 ELSE fields

MapNext == \E key \in Keys, length \in Lengths : SetField(key, length)

MapSpec == MapInit /\ [][MapNext]_<<fields, called>>

=============================================================================
