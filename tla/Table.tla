-------------------------------- MODULE Table --------------------------------
(***************************************************************************)
(* One app at the table: the winit events it takes, in the order input.rs   *)
(* and host.rs try them, the requests it pumps after each, and, in a        *)
(* session, the host that rules its events while others play too.           *)
(*                                                                          *)
(* Doors, verdicts and the campaign world have modules of their own: here   *)
(* the board has no doors, and nothing is swung at.                         *)
(***************************************************************************)
EXTENDS Screen

CONSTANTS
  Documents,   \* the boards a sitting may open
  Errands,     \* sittings: [seat, acts, steps], where the app sits (a record of
               \* net, author, viewer, place and held), which actions its user
               \* has a mind to, and how many of them
  DieFaces,    \* what a die may show
  Words,       \* what may be typed
  Foreign      \* events of the others at the table

\* What goes over the wire, as far as it has a shape to keep.
IsGameEvent(e) ==
  \/ e.kind = "Map" /\ IsEvent(e.event)
  \/ e.kind = "TurnSetOrder" /\ IsOrder(e.order)
  \/ e.kind = "SheetSet" /\ IsSheet(e.sheet)
  \/ e.kind \in {"TurnAdd", "TurnRemove", "TurnAdvance", "Rolled", "TimeAdvanced", "Emoted", "ConditionSet"}

ASSUME DocumentsAssumption == \A doc \in Documents : IsDocument(doc)
ASSUME ErrandsAssumption ==
  \A e \in Errands : IsFiniteSet(e.seat.held) /\ e.seat.held \subseteq Nat
ASSUME ForeignAssumption == \A e \in Foreign : IsGameEvent(e)
ASSUME FacesAssumption == DieFaces \subseteq Int
ASSUME BookAssumption ==
  /\ IsList(Book.monsters)
  /\ \A n \in DOMAIN Book.monsters : IsSheet(Book.monsters[n].stats)

VARIABLES
  ui,          \* UiState
  mouse,       \* [down, last, grab]: lmb_down, last_drag, drag_token
  game,        \* the session's snapshot
  wire,        \* events on their way to the session
  fresh,       \* the bridge's version is not the one last mirrored
  opened,      \* [doc, fog, reach]: the board last opened, and whether fog or
               \* reach have been left old by something neither follows
  errand, steps

vars == <<ui, mouse, game, wire, fresh, opened, errand, steps>>

\* The board of a document as the history sees it: what undoing brings back.
Laid(m) == [ground |-> m.ground, props |-> m.props, elevation |-> m.elevation, tokens |-> Range(m.tokens)]

-----------------------------------------------------------------------------
(* The session *)

Kept(u) == [map |-> u.map, turns |-> u.turns, rolls |-> <<>>, held |-> u.held, place |-> u.place,
            clock |-> u.clock, beats |-> <<>>, seq |-> 0]

\* apply_game for what a table without doors and verdicts sends: what it
\* refuses, and what it does with the rest.
Accepts(g, e) ==
  CASE e.kind = "Map" -> ~Rejects(g.map, e.event)
    [] e.kind \in {"TurnAdd", "Emoted", "ConditionSet"} -> e.id \in Ids(g.map)
    [] e.kind = "TimeAdvanced" -> g.place # NoOne
    [] OTHER -> TRUE

Ruled(g, e) ==
  CASE e.kind = "Map"          -> [g EXCEPT !.map = AppliedTo(@, e.event)]
    [] e.kind = "TurnAdd"      -> [g EXCEPT !.turns = TurnAdd(@, e.id)]
    [] e.kind = "TurnRemove"   -> [g EXCEPT !.turns = TurnRemove(@, e.id)]
    [] e.kind = "TurnAdvance"  ->
         LET turns == AdvanceSkipping(g.turns, g.map.defeated)
         IN  [g EXCEPT !.turns = turns,
                       !.clock = IF g.place = NoOne THEN @ ELSE @ + turns.round - g.turns.round,
                       !.map = IF Active(turns) = NoToken THEN @ ELSE ClearCounters(@, Active(turns))]
    [] e.kind = "TurnSetOrder" -> [g EXCEPT !.turns = SetOrder(e.order)]
    [] e.kind = "Rolled"       -> [g EXCEPT !.rolls = PushRoll(@, e.roll)]
    [] e.kind = "TimeAdvanced" -> [g EXCEPT !.clock = @ + e.ticks]
    [] e.kind = "Emoted"       -> [g EXCEPT !.beats = e.id :> e.beat, !.seq = @ + 1]
    [] e.kind = "SheetSet"     -> [g EXCEPT !.map.sheets = Put(@, e.id, e.sheet)]
    [] e.kind = "ConditionSet" ->
         [g EXCEPT !.map = SetMobility(SetCondition(@, e.id, e.name, 0), e.id, <<>>)]

\* An event committed: whoever mirrors the session has something to fetch.
Commits(e) ==
  /\ game' = IF Accepts(game, e) THEN Ruled(game, e) ELSE game
  /\ fresh' = (fresh \/ (Sends(ui) /\ Accepts(game, e)))

-----------------------------------------------------------------------------
(* after_dispatch: the sheet pump, then the outbox *)

Told(u, e) == IF Sends(u) THEN Send(u, e) ELSE u

FreshSheet == [hp |-> 1]
StatBlock(key) == Monster(key).stats

BoundSheet(u) ==
  IF u.asks.bind = NoToken THEN u
  ELSE Told([u EXCEPT !.map.sheets = Put(@, u.asks.bind, FreshSheet)],
            [kind |-> "SheetSet", id |-> u.asks.bind, sheet |-> FreshSheet])

\* Clamped at zero; the whole sheet goes out, not the difference.
EditedSheet(u) ==
  IF u.asks.edit = <<>> \/ u.asks.edit[1] \notin DOMAIN u.map.sheets THEN u
  ELSE LET id  == u.asks.edit[1]
           key == u.asks.edit[2]
           new == Put(u.map.sheets[id], key, Max({0, Get(u.map.sheets[id], key, 0) + u.asks.edit[3]}))
       IN  Told([u EXCEPT !.map.sheets[id] = new], [kind |-> "SheetSet", id |-> id, sheet |-> new])

SpawnedSheet(u) ==
  IF u.asks.spawn = <<>> THEN u
  ELSE LET id == u.asks.spawn[1]
           sheet == StatBlock(u.asks.spawn[2])
       IN  Told([u EXCEPT !.map.sheets = Put(@, id, sheet)], [kind |-> "SheetSet", id |-> id, sheet |-> sheet])

\* With one condition per token, the last one cleared lifts the ruling on
\* mobility too.
ClearedCondition(u) ==
  IF u.asks.clear = <<>> THEN u
  ELSE LET id == u.asks.clear[1]
           name == u.asks.clear[2]
       IN  IF Sends(u) THEN Send(u, [kind |-> "ConditionSet", id |-> id, name |-> name])
           ELSE Reached(Fogged([u EXCEPT !.map = SetMobility(SetCondition(@, id, name, 0), id, <<>>)]))

Pumped(u) ==
  LET v == ClearedCondition(SpawnedSheet(EditedSheet(BoundSheet(u))))
  IN  [v EXCEPT !.asks = NoAsks]

\* Both outboxes are taken.
Emptied(u) == [u EXCEPT !.outbox = <<>>, !.letters = <<>>]

-----------------------------------------------------------------------------
(* What may have made the highlighted reach or the fog old *)

\* Sheets and rulings change under a fog that is not computed again; so do
\* the ground, who is on the board, and in a session the turn list, under a
\* reach that is kept for the selected token.
Numbers(m) == <<m.sheets, m.mobility>>
Ground(m)  == <<m.ground, m.elevation, Ids(m)>>
Drift(u, v) ==
  LET sees == Numbers(v.map) # Numbers(u.map)
      goes == sees \/ Ground(v.map) # Ground(u.map) \/ (Sends(v) /\ v.turns # u.turns)
  IN  [doc   |-> opened.doc,
       fog   |-> (opened.fog \/ sees) /\ v.visible # Sees(v),
       reach |-> (opened.reach \/ goes) /\ v.reach # ReachOf(v, v.token)]

Did(name) == name \in errand.acts /\ steps < errand.steps /\ steps' = steps + 1 /\ UNCHANGED errand

\* What is in the outbox goes out.
Posts(u) ==
  /\ ui' = Emptied(u)
  /\ wire' = wire \o u.outbox
  /\ opened' = Drift(ui, Emptied(u))
  /\ UNCHANGED <<game, fresh>>

\* The app takes the state v a handler left: everything in it is pumped before
\* the next event.
Takes(v) == Posts(Pumped(v))

-----------------------------------------------------------------------------
(* The mouse *)

AllShown == [camera |-> <<0, 0>>, size |-> <<0, 0>>]

\* The tile under a pointer on the middle of a tile's top face: a raised one
\* is taken for the tile behind it.
Flat(u, at) ==
  LET face == Centre(at, u.map.elevation[at])
  IN  TileAtCursor(u.map, AllShown, <<face[1] + PanelWidth, face[2]>>)

\* The token a press there would start dragging.
GrabAt(u, under) == IF u.mode = "Select" /\ under # NoTile THEN TokenAt(u, under) ELSE NoToken

\* A left press: the control's handler, then any menu still open closes, then
\* a drag may start.  hit is what last_drag remembers, under the tile the
\* pointer is over.
Pressed(v, hit, under) ==
  /\ ~mouse.down
  /\ Takes([v EXCEPT !.menu = NoToken])
  /\ mouse' = [down |-> TRUE, last |-> hit, grab |-> GrabAt(ui', under)]

ClickOnToken ==
  /\ Did("token")
  /\ \E t \in DrawnTokens(ui) : Pressed(ClickToken(ui, t.id), t.at, Flat(ui, t.at))

ClickOnTile ==
  /\ Did("tile")
  /\ \E at \in DrawnGround(ui, AllShown) : Pressed(ClickTile(ui, at), at, Flat(ui, at))

\* The pointer, held down in a painting mode, comes over another tile.
PaintOn ==
  /\ Did("tile") /\ mouse.down /\ ui.mode \in {"PaintGround", "PaintProp"}
  /\ \E at \in DrawnGround(ui, AllShown) \ {mouse.last} :
       /\ Takes(ClickTile(ui, at))
       /\ mouse' = [mouse EXCEPT !.last = at]

\* The grabbed token is dropped on the tile below, if there is one.
ReleaseMouse ==
  /\ mouse.down
  /\ mouse' = [down |-> FALSE, last |-> NoTile, grab |-> NoToken]
  /\ \/ UNCHANGED <<ui, game, wire, fresh, opened, steps, errand>>
     \/ /\ mouse.grab # NoToken /\ Did("drag")
        /\ \E to \in Cells(ui.map) : Takes(DragMove(ui, mouse.grab, to))

\* A right press finds the token on the tile under the pointer, drawn or not.
RightPress ==
  /\ Did("menu")
  /\ \E at \in Cells(ui.map) :
       /\ TokenAt(ui, at) # NoToken
       /\ Takes(OpenMenu(ui, TokenAt(ui, at)))
  /\ UNCHANGED mouse

MovePointer ==
  /\ Did("hover")
  /\ \E at \in Cells(ui.map) : ui' = Hover(ui, at)
  /\ UNCHANGED <<mouse, game, wire, fresh, opened>>

\* A row of the menu that is not dimmed.
Chosen(u, row) ==
  CASE row.act = "sheet"   -> OpenSheet(u)
    [] row.act = "endTurn" -> EndTurn(u)
    [] row.act = "emote"   -> Emote(u, u.menu, row.arg)
    [] row.act = "clear"   -> [u EXCEPT !.asks.clear = <<u.menu, row.arg>>]
    [] row.act = "remove"  -> RemoveToken(u, u.menu)
    [] OTHER               -> u

ClickMenuRow ==
  /\ Did("menu") /\ MenuDrawn(ui)
  /\ \E row \in Range(MenuRows(ui, ui.menu)) : row.on /\ Pressed(Chosen(ui, row), NoTile, NoTile)

-----------------------------------------------------------------------------
(* The side panel and the overlays: every control acts, dim or not *)

Click(v) == Pressed(v, NoTile, NoTile)

Modes == {"Select", "Play", "PaintGround", "PaintProp", "Fill", "Raise", "Lower", "Token", "Measure"}
Sprites == {"knight", "goblin"}

ClickMode    == Did("mode") /\ \E m \in Modes \ {ui.mode} : Click([ui EXCEPT !.mode = m])
ClickBrush   == Did("brush") /\ \E b \in 0..(Len(ui.map.kinds) - 1) : Click([ui EXCEPT !.brush = b])
ClickSprite  == Did("brush") /\ \E s \in Sprites : Click([ui EXCEPT !.sprite = s])
ClickUndo    == Did("undo") /\ Click(Undo(ui))
ClickRedo    == Did("undo") /\ Click(Redo(ui))

ClickTurnRow == Did("turns") /\ \E row \in Range(TurnRows(ui)) : Click(SelectToken(ui, row.id))
ClickInOut   == Did("turns") /\ \E row \in Range(TurnRows(ui)) : Click(ToggleTurn(ui, row.id))
ClickEndTurn == Did("turns") /\ Click(EndTurn(ui))
ClickInit    == Did("init") /\ Click([ui EXCEPT !.init = IF @ = "side" THEN "individual" ELSE "side"])
ClickRoll    == Did("init") /\ \E faces \in [Rollers(ui) -> DieFaces] : Click(RollInitiative(ui, faces))
ClickTime    == Did("time") /\ \E n \in Range(Ticks) : Click(PassTime(ui, n))
ClickDie     == Did("dice") /\ \E n \in DieFaces : Click(RollDice(ui, "1d20", n))

ClickShape   == Did("measure") /\ Click(NextShape(ui))
ClickSize    == Did("measure") /\ \E by \in {-1, 1} : Click(Resized(ui, by))

ClickWhisper == Did("whisper") /\ (Click(StartCompose(ui)) \/ Click(CycleTarget(ui)))

ClickSheet   == Did("sheet") /\ Click(OpenSheet(ui))
CloseSheet   == Did("sheet") /\ SheetDrawn(ui) /\ Click([ui EXCEPT !.sheet = NoToken])
ClickStepper ==
  /\ Did("sheet")
  /\ \E key \in SheetSteppers(ui), by \in {-1, 1} : Click(RequestEdit(ui, key, by))

ClickBestiary == Did("book") /\ Click([ui EXCEPT !.search.open = TRUE])
ClickBook ==
  /\ Did("book") /\ ui.search.open
  /\ \/ Click(CloseCompendium(ui))
     \/ ui.page # "" /\ Click([ui EXCEPT !.page = ""])
     \/ \E tab \in DOMAIN Book \ {ui.tab} : Click(SetTab(ui, tab))
     \/ \E col \in {0, 1} : CompendiumBody(ui) # <<ui.page>> /\ Click(SortBy(ui, col))
     \/ \E n \in DOMAIN CompendiumBody(ui) : Click([ui EXCEPT !.page = CompendiumBody(ui)[n]])

\* The document's file, as it was when it was first saved.
ClickLoad ==
  /\ Did("load") /\ ~mouse.down
  /\ \E doc \in Documents :
       /\ ui' = ReplaceMap(ui, doc)
       /\ opened' = [doc |-> doc, fog |-> FALSE, reach |-> FALSE]
  /\ UNCHANGED <<mouse, game, wire, fresh>>

-----------------------------------------------------------------------------
(* The keyboard: the open lane that comes first takes the key *)

Key(v) == Takes(v) /\ UNCHANGED mouse

KeyInCommand ==
  /\ Did("command") /\ ui.command.open
  /\ \/ Key(CommandCancel(ui))
     \/ \E n \in DieFaces : Key(CommandSubmit(ui, n))
     \/ \E w \in Words : Len(ui.command.draft) < 2 /\ Key(Typed(ui, "command", w))
     \/ Key(Rubbed(ui, "command"))

KeyInWhisper ==
  /\ Did("whisper") /\ ~ui.command.open /\ ui.whisper.open
  /\ \/ Key(ComposeCancel(ui))
     \/ Key(ComposeSend(ui))
     \/ \E w \in Words : Len(ui.whisper.draft) < 2 /\ Key(Typed(ui, "whisper", w))
     \/ Key(Rubbed(ui, "whisper"))

KeyInBook ==
  /\ Did("book") /\ ~ui.command.open /\ ~ui.whisper.open /\ ui.search.open
  /\ \/ Key(CompendiumEscape(ui))
     \/ \E w \in Words : Len(ui.search.draft) < 2 /\ Key(Typed(ui, "search", w))
     \/ Key(Rubbed(ui, "search"))

NoLane == ~ui.command.open /\ ~ui.whisper.open /\ ~ui.search.open

PressCommandKey == Did("command") /\ NoLane /\ Key(StartCommand(ui))
PressWhisperKey == Did("whisper") /\ NoLane /\ Key(StartCompose(ui))
PressRotateKey  == Did("rotate") /\ NoLane /\ Key(RotateSelected(ui))
PressFogKey     == Did("fog") /\ NoLane /\ Key(CycleViewer(ui))
PressEnter      == Did("turns") /\ NoLane /\ Key(EndTurn(ui))
PressUndoKey    == Did("undo") /\ NoLane /\ Key(Undo(ui))
PressRedoKey    == Did("undo") /\ NoLane /\ Key(Redo(ui))

-----------------------------------------------------------------------------
(* The session, and the end of an animation *)

\* The host rules the next of the app's events, or someone else's.
Rules ==
  /\ wire # <<>>
  /\ Commits(Head(wire)) /\ wire' = Tail(wire)
  /\ UNCHANGED <<ui, mouse, opened, errand, steps>>

OthersPlay ==
  /\ Sends(ui) /\ Did("others")
  /\ \E e \in Foreign : Commits(e)
  /\ UNCHANGED <<ui, mouse, wire, opened>>

\* pump_net: the latest snapshot, when there is a new one.
Mirror ==
  /\ fresh /\ fresh' = FALSE
  /\ ui' = Mirrored(ui, game)
  /\ opened' = Drift(ui, ui')
  /\ UNCHANGED <<mouse, game, wire, errand, steps>>

HearWhisper ==
  /\ Did("whisper")
  /\ \E who \in Range(ui.players) : ui' = ReceiveWhisper(ui, who)
  /\ UNCHANGED <<mouse, game, wire, fresh, opened>>

BeatsEnd ==
  /\ ui.beats # <<>>
  /\ ui' = ClearBeats(ui)
  /\ UNCHANGED <<mouse, game, wire, fresh, opened, errand, steps>>

-----------------------------------------------------------------------------
\* resumed(): every token of the board starts in the turn order, and the fog
\* is that of the viewer the app was started as.
Seated(doc, seat) ==
  Fogged([NewView(doc) EXCEPT
            !.turns = [NoTurns EXCEPT !.order = [n \in DOMAIN doc.tokens |-> doc.tokens[n].id]],
            !.net = seat.net, !.author = seat.author, !.viewer = seat.viewer,
            !.place = seat.place, !.held = seat.held, !.players = <<"bea", "cal">>])

Init ==
  \E doc \in Documents :
    /\ errand \in Errands /\ ui = Seated(doc, errand.seat)
    /\ mouse = [down |-> FALSE, last |-> NoTile, grab |-> NoToken]
    /\ game = Kept(ui) /\ wire = <<>> /\ fresh = FALSE
    /\ opened = [doc |-> doc, fog |-> FALSE, reach |-> FALSE]
    /\ steps = 0

Mouse == ClickOnToken \/ ClickOnTile \/ PaintOn \/ ReleaseMouse \/ RightPress \/ MovePointer \/ ClickMenuRow
Panel ==
  \/ ClickMode \/ ClickBrush \/ ClickSprite \/ ClickUndo \/ ClickRedo
  \/ ClickTurnRow \/ ClickInOut \/ ClickEndTurn \/ ClickInit \/ ClickRoll \/ ClickTime \/ ClickDie
  \/ ClickShape \/ ClickSize \/ ClickWhisper \/ ClickSheet \/ CloseSheet \/ ClickStepper
  \/ ClickBestiary \/ ClickBook \/ ClickLoad
Keyboard ==
  \/ KeyInCommand \/ KeyInWhisper \/ KeyInBook \/ PressCommandKey \/ PressWhisperKey
  \/ PressRotateKey \/ PressFogKey \/ PressEnter \/ PressUndoKey \/ PressRedoKey
Session == Rules \/ OthersPlay \/ Mirror \/ HearWhisper \/ BeatsEnd

Next == Mouse \/ Panel \/ Keyboard \/ Session

Spec == Init /\ [][Next]_vars

-----------------------------------------------------------------------------
(* Properties *)

\* The board after all these steps are run, the last first.
Peeled(m, stack) ==
  LET board[n \in 0..Len(stack)] ==
        IF n = 0 THEN m ELSE Run(board[n - 1], stack[Len(stack) - n + 1]).map
  IN  board[Len(stack)]

\* The board after everything on the undo stack is undone.
Unwound(u) == Peeled(u.map, u.undo)

\* Undoing everything brings back the board as it was opened, whatever was
\* painted, filled, raised, placed, walked or removed since; and what was just
\* undone can be done again (interaction.rs:112-163).
UndoRestores ==
  ~Sends(ui) =>
    /\ Laid(Unwound(ui)) = Laid(opened.doc)
    /\ ui.undo # <<>> => Laid(Redo(Undo(ui)).map) = Laid(ui.map)

\* What the board draws follows the fog: a player is shown no token of others,
\* no marker on one and no tile out of the shroud, but where the player's own
\* tokens see from where they stand now (session.rs:189-228), unless sheets or
\* rulings changed since: the fog does not follow those.
FogFollows ==
  opened.fog \/ ui.viewer = NoOne \/
    LET drawn == Picture(ui, AllShown, {})
        shown == {d[1] : d \in drawn.tokens} \cup {TokenOf(ui.map, id) : id \in drawn.markers}
    IN  /\ \A t \in shown : Commands(ui, t.owner) \/ t.at \in Sees(ui)
        /\ \A at \in DOMAIN drawn.tiles : "shroud" \in drawn.tiles[at][2] \/ at \in Sees(ui)

\* The highlighted reach is the selected token's own from where it stands,
\* and nothing when it is not its turn (interaction.rs:189-213), but for what
\* it does not follow.
ReachHolds == opened.reach \/ ui.reach = ReachOf(ui, ui.token)

\* One step of a walk: to one of the eight neighbours, as the loop takes them and
\* its comment argues (path.rs:46-60; "BFS over 4-connected tiles" of path.rs:1 says
\* otherwise), up one or down two at most, never into water, off the ground or where
\* someone else stands.
Steps(m, id, from, to) ==
  /\ Distance(from, to) = 1 /\ m.elevation[to] - m.elevation[from] \in -2..1
  /\ KindName(m, m.ground[to]) \notin {"empty", "water"}
  /\ \A t \in Range(m.tokens) : t.at = to => t.id = id

\* The highlighted tiles are those a walk within the speed reaches, and the
\* previewed path is such a walk (path.rs:45-113).
WalksFit ==
  opened.reach \/ ui.reach = <<>> \/
    LET here  == TokenOf(ui.map, ui.token).at
        speed == EffectiveMobility(ui.map, ui.token, Defaults)[1]
        walk(at) == <<here>> \o PathTo(ui.reach, at)
    IN  \A at \in DOMAIN ui.reach :
          /\ Len(walk(at)) <= speed + 1
          /\ \A n \in 2..Len(walk(at)) : Steps(ui.map, ui.token, walk(at)[n - 1], walk(at)[n])
          /\ Len(walk(at)) <= speed =>
               \A c \in Cells(ui.map) : Steps(ui.map, ui.token, at, c) => c \in DOMAIN ui.reach

ShrinkKeeps(t, s) ==
  Len(s.order) < Len(t.order) /\ Active(t) \in Range(s.order) => Active(s) = Active(t)

\* Whoever is up stays up when another token leaves the turn order, by the
\* menu, the panel or an eraser's click (turn.rs:66-78); in a session only
\* an initiative rolled over a shorter list may change it.
TurnKept ==
  [][IF ~Sends(ui) THEN ShrinkKeeps(ui.turns, ui'.turns)
     ELSE \/ ShrinkKeeps(game.turns, game'.turns)
          \/ \E e \in Foreign \cup Range(wire) :
               e.kind = "TurnSetOrder" /\ game'.turns = SetOrder(e.order)]_vars

\* A token put on the board takes no id of one that stands on a stored map, nor
\* one whose things are still held (interaction.rs:165-181).
FreshIds ==
  [][Len(ui'.undo) > Len(ui.undo) => (Ids(ui'.map) \ Ids(ui.map)) \cap ui.held = {}]_vars

\* In a session the board becomes another one than the session's in one way
\* only: a file loaded there, which the app puts on its own board and tells
\* nobody (ClickLoad, dispatch.rs:126-140).  No other handler edits it ahead of
\* the host (interaction.rs:309-421, session.rs:303-310).
RemoteFollows ==
  [][Sends(ui) /\ Laid(ui'.map) # Laid(ui.map) => Laid(ui'.map) = Laid(game.map) \/ ClickLoad]_vars
=============================================================================
