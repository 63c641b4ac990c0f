----------------------------- MODULE MCCrossing -----------------------------
(***************************************************************************)
(* A field and a hut, joined by a gate and a door.  The gate names the     *)
(* hut's door as its entry, so arrivals land on the door tile; the hut's   *)
(* door names none, so arrivals land in the field's spawn zone.            *)
(***************************************************************************)
EXTENDS Crossing, TLC

CONSTANTS ann, bob, ogre, rat, field, hut, path, gate, door, rug

MCDoorsOf == (field :> {gate}) @@ (hut :> {door})
MCTargetOf   == (field :> (gate :> hut)) @@ (hut :> (door :> field))
MCLandingsOf == (field :> (gate :> <<door, rug>>)) @@ (hut :> (door :> <<path, gate>>))

At(w, i, tile) == [who |-> w, id |-> i, at |-> tile]

\* The ogre in the hut has ann's token id; so has, among the two residents, the
\* rat bob's.
OneResident == (field :> {At(ann, 1, path), At(bob, 2, path)}) @@ (hut :> {At(ogre, 1, rug)})
TwoResidents ==
  (field :> {At(ann, 1, path), At(bob, 2, path)}) @@ (hut :> {At(ogre, 1, rug), At(rat, 2, rug)})

MCRequest == {[kind |-> "Activate", map |-> hut], [kind |-> "Elapse"], [kind |-> "Travel", map |-> hut]}
=============================================================================
