---------------------------- MODULE MCGovernance ----------------------------
(* Governance for TLC: two peers, two members of one Moot, one of another. *)
EXTENDS Governance, TLC

CONSTANTS north, south, ann, bob, cat, M1, M2, b1, b2, b3, map, adopt, part, blur

MCHome     == (ann :> north) @@ (bob :> south) @@ (cat :> south)
MCFounders == (M1 :> {ann, bob}) @@ (M2 :> {cat})

AnyOne       == [name |-> "AnyEligible", required |-> 1]
Two       == [name |-> "Threshold", required |-> 2]
Unanimous == [name |-> "Unanimous", required |-> 1]

MCAdmission == (M1 :> AnyOne) @@ (M2 :> Unanimous)

MCBody ==
  (b1 :> [kind |-> "binding", moot |-> M1, policy |-> Two]) @@
  (b2 :> [kind |-> "binding", moot |-> M2, policy |-> AnyOne]) @@
  (b3 :> [kind |-> "binding", moot |-> M1, policy |-> Unanimous]) @@
  (map  :> [kind |-> "content", complete |-> TRUE]) @@
  (adopt :> [kind |-> "resolution", candidates |-> {b1, b3}, outcome |-> "Adopt",
             selected |-> b3]) @@
  (part  :> [kind |-> "resolution", candidates |-> {b1, b3}, outcome |-> "Branch",
             branches |-> (b1 :> "left") @@ (b3 :> "right")]) @@
  (blur  :> [kind |-> "resolution", candidates |-> {b1, b3}, outcome |-> "Branch",
             branches |-> (b1 :> "left") @@ (b3 :> "left")])

Errand(by, kind, on) == [by |-> by, kind |-> kind, on |-> on, head |-> "h1"]

Proposes(by, on) == Errand(by, "Propose", on)
Endorses(by, on) == Errand(by, "Endorse", on)
ClaimsIt(by, on)   == Errand(by, "Claim", on)

Admitting(by, on) == {Proposes(by, on), Endorses(by, on), ClaimsIt(by, on)}

Joins(by, moot)  == Errand(by, "Join", moot)
Leaves(by, moot) == Errand(by, "Leave", moot)

\* Content under a binding, with two heads claimed for it; a takeover; a
\* conflict settled for all; and one that branches, after which one writes.
MCAgendas ==
  { Admitting(ann, b1) \cup {Proposes(bob, map), Endorses(ann, map), Endorses(bob, map),
                             ClaimsIt(bob, map), [ClaimsIt(ann, map) EXCEPT !.head = "h2"],
                             Leaves(bob, M1)},
    Admitting(ann, b1) \cup {Proposes(ann, map), Endorses(ann, map), Endorses(cat, map),
                             ClaimsIt(ann, map), Joins(cat, M1)},
    Admitting(ann, b1) \cup Admitting(cat, b2) \cup {Endorses(ann, b2), Endorses(bob, b2)},
    Admitting(ann, b1) \cup Admitting(bob, b3) \cup Admitting(ann, adopt) }
  \cup
  { Admitting(ann, b1) \cup Admitting(ann, b3) \cup Admitting(ann, r)
      \cup {Proposes(bob, map)} : r \in {part, blur} }
=============================================================================
