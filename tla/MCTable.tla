------------------------------- MODULE MCTable -------------------------------
(* Two small boards and four seats: a dm at a table of one, a player's preview  *)
(* of a solo campaign, a host, and a player who has joined.                   *)
EXTENDS Table

Grass(width, height) ==
  [NewMap(width, height) EXCEPT
     !.kinds = <<"empty", "grass", "water", "wall">>,
     !.ground = [c \in DOMAIN @ |-> 1]]

Piece(n, where, whose) == [Fresh(n, where, "knight") EXCEPT !.owner = whose]

\* A lookout with sight 1 and two others, behind a wall and on a rise.
Yard ==
  [Grass(3, 2) EXCEPT
     !.props[<<1, 0>>] = 3, !.elevation[<<2, 1>>] = 2,
     !.tokens = <<Piece(1, <<0, 0>>, "ana"), Piece(2, <<2, 0>>, Unowned), Piece(4, <<2, 1>>, "bea")>>,
     !.sheets = 1 :> [speed |-> 1, sight |-> 1] @@ 2 :> [speed |-> 2, sight |-> 2],
     !.conditions = 2 :> ("prone" :> 1)]

\* A strip with a stranger on a ledge at its end.
Strip ==
  [Grass(3, 1) EXCEPT !.elevation[<<2, 0>>] = 3,
     !.tokens = <<Piece(1, <<0, 0>>, "ana"), Piece(2, <<2, 0>>, Unowned)>>,
     !.sheets = 1 :> [speed |-> 1, sight |-> 2]]

BothBoards == {Yard, Strip}

\* Token 2 has an inventory, and 5 stands on a stored map.
Seat(link, maker, who, where) ==
  [net |-> link, author |-> maker, viewer |-> who, place |-> where, held |-> {2, 5}]
Solo    == Seat("Local", TRUE, "", "")
Preview == Seat("Local", TRUE, "ana", "cave")
Hosting == Seat("Remote", TRUE, "", "cave")
Joined  == Seat("Remote", FALSE, "ana", "cave")

Entry(key, words, sprite, rank, level) ==
  [key |-> key, name |-> key, words |-> words, inKey |-> {}, sprite |-> sprite,
   stats |-> [speed |-> 1, sight |-> 1], rank |-> rank, level |-> level]
SmallBook ==
  [monsters |-> <<Entry("ogre", {"ogre", "big"}, "goblin", 2, 1), Entry("imp", {"imp"}, "goblin", 1, 1)>>,
   items |-> <<Entry("axe", {"axe", "big"}, "none", 1, 1)>>,
   spells |-> <<Entry("aid", {"aid"}, "none", 1, 1)>>]

Visits(places, names, count) == {[seat |-> p, acts |-> names, steps |-> count] : p \in places}
SomeErrands ==
  Visits({Preview, Joined}, {"token", "tile", "mode", "undo"}, 3) \cup
  Visits({Preview, Hosting}, {"tile", "mode", "brush", "undo"}, 3) \cup
  Visits({Solo, Preview, Joined}, {"token", "mode", "sheet", "fog"}, 3) \cup
  Visits({Solo, Preview, Joined}, {"menu", "turns", "undo"}, 2) \cup
  Visits({Preview, Joined}, {"token", "drag", "fog", "rotate", "undo"}, 4) \cup
  Visits({Hosting, Joined}, {"menu", "others"}, 3) \cup
  Visits({Preview}, {"menu", "turns"}, 3) \cup
  Visits({Joined}, {"token", "tile", "mode", "others"}, 3) \cup
  Visits({Solo, Hosting}, {"init"}, 2) \cup
  Visits({Preview}, {"tile", "mode", "measure", "hover"}, 3) \cup
  Visits({Preview, Joined}, {"token", "mode", "hover"}, 3) \cup
  Visits({Solo, Hosting}, {"book", "sheet"}, 3) \cup
  Visits({Hosting, Joined}, {"whisper"}, 4) \cup
  Visits({Solo, Hosting}, {"command"}, 5) \cup
  Visits({Solo, Preview, Hosting}, {"command", "time", "dice", "undo"}, 2) \cup
  Visits({Preview, Joined}, {"load", "menu", "drag"}, 3)

AnyFace == {1, 2}
AnyWord == {"spawn", "ogre", "find", "big", "roll", "time", "1"}
ByOthers ==
  {MapEvent(Move(2, <<1, 0>>)), MapEvent(Leave(2)), [kind |-> "TurnAdvance"], [kind |-> "TurnRemove", id |-> 1],
   [kind |-> "Emoted", id |-> 2, beat |-> "cheer"]}
Integers2 == {"speed", "sight"}
=============================================================================
