------------------------------ MODULE MCJourney ------------------------------
EXTENDS Journey

\* Four places round a bay; the short way to the cape is not the direct one.
bay == <<1>>  mill == <<2>>  cape == <<3>>  isle == <<4>>

Seat(mode, leads, viewer, hasOrigin) == [net |-> mode, host |-> leads, viewer |-> viewer, origin |-> hasOrigin]
Alone(viewer)   == Seat("solo", FALSE, viewer, TRUE)
Undated(viewer) == Seat("solo", FALSE, viewer, FALSE)
Hosting(viewer) == Seat("remote", TRUE, viewer, TRUE)
Joined(viewer)  == Seat("remote", FALSE, viewer, FALSE)

Member(id, who, pose) == [id |-> id, owner |-> who, stance |-> pose, tired |-> 0]

Shore(known) ==
  [tokens |-> <<Member(1, "ann", ""), Member(2, "ben", "scout"), Member(3, "ann", "forage"), Member(4, "", "")>>,
   world |-> [EmptyWorld EXCEPT
     !.places = (bay :> [map |-> NoId]) @@ (mill :> [map |-> <<7>>])
                  @@ (cape :> [map |-> <<8>>]) @@ (isle :> [map |-> NoId]),
     !.routes = (<<1>> :> [from |-> cape, to |-> isle, weight |-> 0])
                  @@ (<<2>> :> [from |-> bay, to |-> mill, weight |-> 2])
                  @@ (<<3>> :> [from |-> mill, to |-> cape, weight |-> 3])
                  @@ (<<4>> :> [from |-> bay, to |-> cape, weight |-> 9]),
     !.known = known, !.at = "ann" :> bay, !.pace = "ben" :> 50],
   clocks |-> <<>>, active |-> <<9>>, sites |-> {<<8>>, <<9>>},
   charts |-> 3 :> {isle, <<5>>}]

MCGames == {Shore(("ann" :> {bay, mill}) @@ ("ben" :> {mill}) @@ ("dm" :> {bay, mill, cape}))}

MCMarches == {[nav |-> 100, tired |-> 0, peril |-> FALSE, forage |-> 0],
              [nav |-> 150, tired |-> 1, peril |-> TRUE, forage |-> 2]}

\* What the rest of the table finds: a rumour, and a new place with its road.
MCNews == {[kind |-> "revealed", party |-> "ann", place |-> isle],
           [kind |-> "places", id |-> <<0>>, value |-> [map |-> NoId]],
           [kind |-> "routes", id |-> <<0>>, value |-> [from |-> bay, to |-> mill, weight |-> 1]]}

Errand(seat, acts, count) == [seat |-> seat, acts |-> {"look"} \cup acts, steps |-> count]

MCErrands ==
  {Errand(Alone("ann"), {"travel", "drag", "scrub"}, 6),
   Errand(Alone("ann"), {"travel", "pace", "read"}, 6),
   Errand(Alone("ann"), {"travel", "scrub", "news"}, 5),
   Errand(Alone(NoOne), {"viewer", "pace", "select", "stance"}, 6),
   Errand(Undated("ann"), {"relation", "read", "news"}, 6),
   Errand(Hosting("ann"), {"travel", "pace", "viewer"}, 4),
   Errand(Hosting(NoOne), {"read", "stance"}, 6),
   Errand(Hosting(NoOne), {"scrub", "news"}, 7),
   Errand(Joined("ben"), {"travel", "pace", "read", "news"}, 4)}
=============================================================================
