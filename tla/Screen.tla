-------------------------------- MODULE Screen --------------------------------
(***************************************************************************)
(* What board_root puts on the screen for a view state, as facts about the  *)
(* elements: which are emitted, what marks them, and which controls act.    *)
(***************************************************************************)
EXTENDS View

CONSTANT SheetFields   \* the schema's integer fields, the steppers of a sheet

-----------------------------------------------------------------------------
(* The pane: camera and size in pixels *)

MarginX == 32  MarginAbove == 24  MarginBelow == 176

TileW == 32  TileH == 16  ElevStep == 8

\* The centre of a tile's top face, from the board's origin.
Centre(at, elevation) ==
  LET p == TileToScreen(at, elevation) IN <<p[1] * (TileW \div 2), p[2] * ElevStep>>

\* A tile is culled when neither its column nor what stands on it can show.
InView(pane, at) ==
  LET x == Centre(at, 0)[1] + pane.camera[1]
      y == Centre(at, 0)[2] + pane.camera[2]
  IN  \/ pane.size[1] <= 0 \/ pane.size[2] <= 0
      \/ /\ -MarginX <= x /\ x <= pane.size[1] + MarginX
         /\ -MarginAbove <= y /\ y <= pane.size[2] + MarginBelow

\* The board tile under a point of the window, as if all ground were flat.
PanelWidth == 228
TileAtCursor(m, pane, cursor) ==
  LET x  == cursor[1] - PanelWidth - pane.camera[1]
      y  == cursor[2] - pane.camera[2]
      at == ScreenToTile(<<x \div (TileW \div 2), y \div (TileH \div 2)>>)
  IN  IF InBounds(m, at) THEN at ELSE NoTile

-----------------------------------------------------------------------------
(* The board *)

\* The ground tiles of the portable scene: one cell per non-empty tile.
BoardCells(m) == {c \in Cells(m) : m.ground[c] # 0}

DrawnGround(u, pane) == {c \in BoardCells(u.map) : InView(pane, c) /\ FogLevel(u, c) # "hidden"}

DoorTiles(u, doors) == IF u.place = NoOne THEN {} ELSE doors

\* The marks of a ground tile's class.
TileMarks(u, at, doors) ==
  LET path == IF u.mode = "Play" /\ u.hover \in DOMAIN u.reach THEN Range(PathTo(u.reach, u.hover)) ELSE {}
  IN  {mark \in {"alt", "selected", "path", "reach", "template", "door", "shroud"} :
         \/ mark = "alt" /\ (at[1] + at[2]) % 2 = 1
         \/ mark = "selected" /\ u.tile = at
         \/ mark = "path" /\ at \in path
         \/ mark = "reach" /\ u.mode = "Play" /\ at \in DOMAIN u.reach \ path
         \/ mark = "template" /\ at \in TemplatePreview(u)
         \/ mark = "door" /\ at \in DoorTiles(u, doors)
         \/ mark = "shroud" /\ FogLevel(u, at) = "dim"}

\* One filler per step of height under the top diamond.
Column(u, at) == [h \in 0..u.map.elevation[at] |-> DepthKey(at, h)]

DrawnProps(u, pane) ==
  {c \in Cells(u.map) : u.map.props[c] # 0 /\ InView(pane, c) /\ FogLevel(u, c) # "hidden"}

DrawnTokens(u) == {t \in Range(u.map.tokens) : TokenVisible(u, t)}

\* Facing, beat and conditions of a token's two boxes; a graded condition
\* carries its magnitude.
TokenMarks(u, t) ==
  [flip  |-> t.facing \in {"east", "north"},
   beat  |-> Get(u.beats, t.id, ""),
   down  |-> t.id \in u.map.defeated,
   conds |-> Get(u.map.conditions, t.id, <<>>),
   depth |-> DepthKey(t.at, u.map.elevation[t.at]) + 2]

\* The selected and the active token, where the viewer sees them.
Markers(u) == {id \in {u.token, Active(u.turns)} \cap Ids(u.map) : TokenVisible(u, TokenOf(u.map, id))}

\* board_root: what the board shows.
Picture(u, pane, doors) ==
  [tiles   |-> [c \in DrawnGround(u, pane) |-> <<Column(u, c), TileMarks(u, c, doors)>>],
   props   |-> DrawnProps(u, pane),
   tokens  |-> {<<t, TokenMarks(u, t)>> : t \in DrawnTokens(u)},
   markers |-> Markers(u)]

-----------------------------------------------------------------------------
(* Controls *)

Emotes == <<"cheer">>

\* The rows of a token's menu: what each does, and whether it may.
MenuRows(u, id) ==
  LET row(act, arg, on) == [act |-> act, arg |-> arg, on |-> on]
      held == SetToSeq(DOMAIN Get(u.map.conditions, id, <<>>))
  IN  <<row("sheet", "", TRUE), row("endTurn", "", Active(u.turns) = id)>>
        \o [n \in DOMAIN Emotes |-> row("emote", Emotes[n], TRUE)]
        \o [n \in DOMAIN held |-> row("clear", held[n], TRUE)]
        \o <<row("remove", "", TRUE), row("close", "", TRUE)>>

\* The menu is drawn while its token is on the board.
MenuDrawn(u) == u.menu \in Ids(u.map)

TurnRows(u) ==
  [n \in DOMAIN u.map.tokens |->
     LET id == u.map.tokens[n].id
     IN  [id |-> id, listed |-> id \in Range(u.turns.order), active |-> Active(u.turns) = id,
          selected |-> u.token = id]]

TemplateKinds == <<"burst", "line", "cone">>
NextShape(u) ==
  LET at == CHOOSE n \in DOMAIN TemplateKinds : TemplateKinds[n] = u.shape[1]
  IN  [u EXCEPT !.shape[1] = TemplateKinds[(at % Len(TemplateKinds)) + 1]]
Resized(u, by) == [u EXCEPT !.shape[2] = Max({1, Min({12, @ + by})})]

\* The open sheet: steppers and item controls only for whoever may commit
\* them, actions for all.
SheetDrawn(u)    == u.sheet # NoToken /\ u.sheet \in DOMAIN u.map.sheets
SheetSteppers(u) == IF SheetDrawn(u) /\ u.author THEN SheetFields ELSE {}

\* A tab's index: the entries whose name has every typed word, by the sorted
\* column (names, then numbers), reversed as a whole.
IndexRows(u, tab) ==
  LET rows == SelectSeq(Book[tab], LAMBDA m : Range(u.search.draft) \subseteq m.words)
      key(m) == IF u.sort[1] = 0 THEN m.rank ELSE m.level
      before(a, b) == LET x == key(rows[a])
                          y == key(rows[b])
                      IN  IF x = y THEN a < b ELSE (x < y) # u.sort[2]
      order == SetToSortSeq(DOMAIN rows, before)
  IN  [n \in DOMAIN order |-> rows[order[n]].key]

\* A page whose entry is not in this tab shows the index instead.
CompendiumBody(u) ==
  IF SelectSeq(Book[u.tab], LAMBDA m : m.key = u.page) # <<>> THEN <<u.page>> ELSE IndexRows(u, u.tab)
=============================================================================
