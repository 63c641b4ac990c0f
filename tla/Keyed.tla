-------------------------------- MODULE Keyed --------------------------------
(***************************************************************************)
(* The code's ordered maps as functions: insert, remove and look up.        *)
(***************************************************************************)
EXTENDS TLC

Put(map, key, value) == [k \in DOMAIN map \cup {key} |-> IF k = key THEN value ELSE map[k]]
Drop(map, key)       == [k \in DOMAIN map \ {key} |-> map[k]]
Join(map, more)      == [k \in DOMAIN map \cup DOMAIN more |-> IF k \in DOMAIN map THEN map[k] ELSE more[k]]
Get(map, key, else)  == IF key \in DOMAIN map THEN map[key] ELSE else
=============================================================================
