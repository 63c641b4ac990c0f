--------------------------------- MODULE View ---------------------------------
(***************************************************************************)
(* isometry-views as pure operators on the view state u: editing, play,     *)
(* fog, initiative, the text lanes, and the mirror of a session.            *)
(*                                                                          *)
(* u is a record with                                                       *)
(*   map, undo, redo             the document, and steps of inverse events  *)
(*   turns                       [order, at, round], at counting from 0     *)
(*   token, tile, reach          selected_token, selected, reach            *)
(*   mode, brush, sprite         what a click does, and with what           *)
(*   viewer, channels            whose fog, and who speaks for a faction    *)
(*   visible, explored           the fog                                    *)
(*   net, outbox, author         net_mode, net_outbox, can_edit_inventory   *)
(*   rolls, held                 roll_log, and the tokens that have an       *)
(*                               inventory or stand on a stored map         *)
(*   place, clock                active_map, and its clock                  *)
(*   anchor, hover, shape        measuring: two tiles and <<kind, size>>    *)
(*   init                        initiative_mode                            *)
(*   beats, seq                  beats on screen and beat_seq               *)
(*   menu, sheet                 context_menu and open_sheet: a token or 0  *)
(*   asks                        what the host's sheet pump is asked for    *)
(*   command, whisper, search    the text lanes: [open, draft]              *)
(*   page, tab, sort             compendium_selected, _tab and _sort        *)
(*   found, messages, letters    command_results, messages, whisper_outbox  *)
(*   players, target             connected_players and whisper_target       *)
(***************************************************************************)
EXTENDS Tiles

CONSTANTS
  RollCap,      \* ROLL_LOG_CAP
  MessageCap,   \* MESSAGES_CAP
  FindCap,      \* CAP of find_query
  Book          \* the compendium's three tabs: tab -> sequence of entries

ASSUME CapsPositive == {RollCap, MessageCap, FindCap} \subseteq Nat \ {0}

NoToken  == 0
NoTile   == <<>>
NoOne    == ""
Defaults == <<5, 6>>     \* MOVE_BUDGET, SIGHT_RADIUS

-----------------------------------------------------------------------------
(* Turn order *)

\* An order: tokens, each once.
IsOrder(ids) ==
  /\ IsList(ids) /\ NoToken \notin Range(ids)
  /\ \A n, k \in DOMAIN ids : ids[n] = ids[k] => n = k

NoTurns == [order |-> <<>>, at |-> 0, round |-> 0]

Active(t) == IF t.at < Len(t.order) THEN t.order[t.at + 1] ELSE NoToken

TurnAdd(t, id) == IF id \in Range(t.order) THEN t ELSE [t EXCEPT !.order = Append(@, id)]

SetOrder(ids) == [order |-> ids, at |-> 0, round |-> 0]

\* Mutant: the cursor stays where it was when someone above it leaves.
TurnRemoveBare(t, id) ==
  IF id \notin Range(t.order) THEN t
  ELSE LET left == RemoveAt(t.order, CHOOSE n \in DOMAIN t.order : t.order[n] = id)
       IN  [t EXCEPT !.order = left, !.at = IF t.at >= Len(left) THEN 0 ELSE t.at]
\* The cursor keeps to the same token.
TurnRemove(t, id) ==
  IF id \notin Range(t.order) THEN t
  ELSE LET pos  == CHOOSE n \in DOMAIN t.order : t.order[n] = id
           left == RemoveAt(t.order, pos)
       IN  [t EXCEPT !.order = left,
                     !.at = IF pos - 1 < t.at THEN t.at - 1
                            ELSE IF t.at >= Len(left) THEN 0 ELSE t.at]

Advance(t) ==
  IF t.order = <<>> THEN t
  ELSE LET next == (t.at + 1) % Len(t.order)
       IN  [t EXCEPT !.at = next, !.round = @ + (IF next = 0 THEN 1 ELSE 0)]

\* To the next token not skipped; a whole lap when all are.
AdvanceSkipping(t, skipped) ==
  LET lap[n \in 0..Len(t.order)] == IF n = 0 THEN t ELSE Advance(lap[n - 1])
      up == {n \in 1..Len(t.order) : Active(lap[n]) \notin skipped}
  IN  lap[IF up = {} THEN Len(t.order) ELSE Min(up)]

-----------------------------------------------------------------------------
(* Logs and fog *)

Capped(log, cap)   == SubSeq(log, Max({1, Len(log) - cap + 1}), Len(log))
PushRoll(log, r)   == Capped(Append(log, r), RollCap)
PushMessage(u, m)  == [u EXCEPT !.messages = Capped(Append(@, m), MessageCap)]

\* The viewer's own tokens, and those of a faction it speaks for.
Commands(u, owner) ==
  /\ u.viewer # NoOne /\ owner # Unowned
  /\ owner = u.viewer \/ Get(u.channels, owner, NoOne) = u.viewer

\* What the viewer's tokens see, each with its own sight.
Sees(u) ==
  UNION {VisibleFrom(u.map, t.at, EffectiveMobility(u.map, t.id, Defaults)[2]) :
           t \in {t \in Range(u.map.tokens) : Commands(u, t.owner)}}

Fogged(u) ==
  IF u.viewer = NoOne THEN [u EXCEPT !.visible = {}, !.explored = {}]
  ELSE LET seen == Sees(u) IN [u EXCEPT !.visible = seen, !.explored = @ \cup seen]

FogLevel(u, at) ==
  IF u.viewer = NoOne \/ at \in u.visible THEN "clear"
  ELSE IF at \in u.explored THEN "dim" ELSE "hidden"

TokenVisible(u, t) == u.viewer = NoOne \/ Commands(u, t.owner) \/ t.at \in u.visible

\* Everyone, then each owner in board order, then everyone again.
CycleViewer(u) ==
  LET owned  == SelectSeq(u.map.tokens, LAMBDA t : t.owner # Unowned)
      owners == FoldLeft(LAMBDA os, t : IF t.owner \in Range(os) THEN os ELSE Append(os, t.owner),
                         <<>>, owned)
      place  == {n \in DOMAIN owners : owners[n] = u.viewer}
      n      == IF u.viewer = NoOne THEN 1 ELSE IF place = {} THEN 0 ELSE Min(place) + 1
  IN  Fogged([u EXCEPT !.viewer = IF n \in DOMAIN owners THEN owners[n] ELSE NoOne,
                       !.explored = {}])

-----------------------------------------------------------------------------
(* Reach and selection *)

MayMove(u, id) == id \notin Range(u.turns.order) \/ Active(u.turns) = id

ReachOf(u, id) ==
  IF id = NoToken \/ id \notin Ids(u.map) \/ ~MayMove(u, id) THEN <<>>
  ELSE Reachable(u.map, TokenOf(u.map, id).at, EffectiveMobility(u.map, id, Defaults)[1], id)

\* A selected token that has left the board is let go.
Reached(u) ==
  [u EXCEPT !.token = IF @ \in Ids(u.map) THEN @ ELSE NoToken, !.reach = ReachOf(u, u.token)]

SelectToken(u, id) == Reached([u EXCEPT !.token = id])

\* In a session the event goes to the host and nothing happens here.
Sends(u)      == u.net = "Remote"
Send(u, e)    == [u EXCEPT !.outbox = Append(@, e)]
MapEvent(e)   == [kind |-> "Map", event |-> e]

-----------------------------------------------------------------------------
(* Editing, as undoable steps *)

\* Mutant: the fog is left as it was.
ApplyStepDry(u, events) ==
  LET r == Run(u.map, events)
  IN  IF r.inverses = <<>> THEN u
      ELSE [u EXCEPT !.map = r.map, !.undo = Append(@, Reverse(r.inverses)), !.redo = <<>>]
\* What applied becomes one step; a new step forgets what was undone.
ApplyStep(u, events) ==
  LET r == Run(u.map, events)
  IN  Fogged(IF r.inverses = <<>> THEN u
             ELSE [u EXCEPT !.map = r.map, !.undo = Append(@, Reverse(r.inverses)), !.redo = <<>>])

Undo(u) ==
  IF u.undo = <<>> THEN u
  ELSE LET r == Run(u.map, Last(u.undo))
       IN  Reached(Fogged([u EXCEPT !.map = r.map, !.undo = Front(@),
                                    !.redo = Append(@, Reverse(r.inverses))]))

\* Runs the last undone step again.
Redo(u) ==
  IF u.redo = <<>> THEN u
  ELSE LET r == Run(u.map, Last(u.redo))
       IN  Reached(Fogged([u EXCEPT !.map = r.map, !.redo = Front(@),
                                    !.undo = Append(@, Reverse(r.inverses))]))

\* Mutant: only the board is looked at, not what is held elsewhere.
NextIdOnBoard(u) == 1 + Max({0} \cup Ids(u.map))
\* One more than every id on the board, on a stored map and of a holder of things.
NextTokenId(u) == 1 + Max({0} \cup Ids(u.map) \cup u.held)

TokenAt(u, at) == IF TokensAt(u.map, at) = <<>> THEN NoToken ELSE TokensAt(u.map, at)[1].id

Fresh(id, at, sprite) == [id |-> id, at |-> at, facing |-> "south", sprite |-> sprite, owner |-> Unowned]
Place(t)    == [kind |-> "TokenPlaced", token |-> t]
Move(id, to) == [kind |-> "TokenMoved", id |-> id, to |-> to]
Face(id, f) == [kind |-> "TokenFaced", id |-> id, facing |-> f]
Leave(id)   == [kind |-> "TokenRemoved", id |-> id]
Paint(layer, at, tile) == [kind |-> "TilePlaced", layer |-> layer, at |-> at, tile |-> tile]

\* Mutant: the token is moved here whoever rules the board.
DragMoveAtOnce(u, id, to) ==
  IF ~InBounds(u.map, to) \/ id \notin Ids(u.map) \/ TokenOf(u.map, id).at = to
     \/ \E t \in Range(u.map.tokens) : t.id # id /\ t.at = to
  THEN u ELSE Reached(ApplyStep(u, <<Move(id, to)>>))
\* A drop on the board, off the token's own tile and nobody else's.
DragMove(u, id, to) ==
  IF ~InBounds(u.map, to) \/ id \notin Ids(u.map) \/ TokenOf(u.map, id).at = to
     \/ \E t \in Range(u.map.tokens) : t.id # id /\ t.at = to
  THEN u
  ELSE IF Sends(u) THEN Send(u, MapEvent(Move(id, to)))
  ELSE Reached(ApplyStep(u, <<Move(id, to)>>))

\* The turn list is changed here at once, the board only when solo.
RemoveToken(u, id) ==
  LET sent == IF Sends(u) THEN Send(u, MapEvent(Leave(id))) ELSE ApplyStep(u, <<Leave(id)>>)
      mine == u.token = id
  IN  [sent EXCEPT !.turns = TurnRemove(@, id), !.menu = NoToken,
                   !.token = IF mine THEN NoToken ELSE @, !.reach = IF mine THEN <<>> ELSE @]

OpenMenu(u, id) == [SelectToken(u, id) EXCEPT !.menu = id]

Clockwise == [north |-> "east", east |-> "south", south |-> "west", west |-> "north"]

RotateSelected(u) ==
  IF u.token = NoToken \/ u.token \notin Ids(u.map) THEN u
  ELSE LET turned == Face(u.token, Clockwise[TokenOf(u.map, u.token).facing])
       IN  IF Sends(u) THEN Send(u, MapEvent(turned)) ELSE ApplyStep(u, <<turned>>)

ClickToken(u, id) ==
  IF u.mode = "Play" THEN SelectToken(u, id)
  ELSE IF u.mode = "Token" /\ ~Sends(u)
  THEN LET gone == ApplyStep(u, <<Leave(id)>>)
       IN  Reached([gone EXCEPT !.turns = TurnRemove(@, id)])
  ELSE u

FacingBetween(from, to) ==
  CASE to[1] - from[1] = 1 -> "east"
    [] to[1] - from[1] = -1 -> "west"
    [] Abs(to[1] - from[1]) # 1 /\ to[2] - from[2] = -1 -> "north"
    [] OTHER -> "south"

\* Walking the selected token to a tile of its reach, facing the way of the
\* last step; the reach is the one computed earlier.
Walk(u, at) ==
  IF u.token = NoToken \/ at \notin DOMAIN u.reach THEN u
  ELSE LET path == PathTo(u.reach, at)
           here == IF u.token \in Ids(u.map) THEN TokenOf(u.map, u.token).at ELSE at
           last == IF Len(path) >= 2 THEN path[Len(path) - 1] ELSE here
           step == <<Move(u.token, at), Face(u.token, FacingBetween(last, at))>>
       IN  IF Sends(u) THEN [u EXCEPT !.outbox = @ \o <<MapEvent(step[1]), MapEvent(step[2])>>]
           ELSE Reached(ApplyStep(u, step))

MaxHeight == 12

ClickTile(u, at) ==
  IF Sends(u) /\ u.mode \notin {"Play", "Select", "Measure"} THEN u ELSE
  CASE u.mode = "Select"  -> [u EXCEPT !.tile = at]
    [] u.mode = "Measure" -> [u EXCEPT !.anchor = at]
    [] u.mode = "Token"   -> IF TokenAt(u, at) # NoToken THEN ClickToken(u, TokenAt(u, at))
                             ELSE ApplyStep(u, <<Place(Fresh(NextTokenId(u), at, u.sprite))>>)
    [] u.mode = "Play"    -> IF TokenAt(u, at) # NoToken THEN SelectToken(u, TokenAt(u, at))
                             ELSE Walk(u, at)
    [] u.mode = "PaintGround" -> ApplyStep(u, <<Paint("ground", at, u.brush)>>)
    [] u.mode = "PaintProp"   -> ApplyStep(u, <<Paint("prop", at, u.brush)>>)
    [] u.mode = "Fill" ->
         ApplyStep(u, SetToSeq({Paint("ground", c, u.brush) : c \in FloodRegion(u.map, u.map.ground, at)}))
    [] u.mode \in {"Raise", "Lower"} ->
         LET h   == u.map.elevation[at]
             new == IF u.mode = "Raise" THEN Min({h + 1, MaxHeight}) ELSE Max({h - 1, 0})
         IN  IF new = h THEN u ELSE ApplyStep(u, <<[kind |-> "ElevationSet", at |-> at, height |-> new]>>)

\* A document loaded from its file: history, selection and turns are gone.
ReplaceMap(u, doc) ==
  Fogged([u EXCEPT !.map = doc, !.undo = <<>>, !.redo = <<>>, !.tile = NoTile, !.turns = NoTurns,
                   !.token = NoToken, !.reach = <<>>, !.explored = {}])

-----------------------------------------------------------------------------
(* Turns, initiative, dice and time *)

\* Mutant: the highlighted reach is left as it was.
ToggleTurnUnreached(u, id) ==
  LET listed == id \in Range(u.turns.order)
  IN  IF Sends(u) THEN Send(u, [kind |-> IF listed THEN "TurnRemove" ELSE "TurnAdd", id |-> id])
      ELSE [u EXCEPT !.turns = IF listed THEN TurnRemove(@, id) ELSE TurnAdd(@, id)]
\* In or out of the turn order.
ToggleTurn(u, id) ==
  LET listed == id \in Range(u.turns.order)
  IN  IF Sends(u) THEN Send(u, [kind |-> IF listed THEN "TurnRemove" ELSE "TurnAdd", id |-> id])
      ELSE Reached([u EXCEPT !.turns = IF listed THEN TurnRemove(@, id) ELSE TurnAdd(@, id)])

\* Rounds tick the clock of a stored map; the counters of whoever is up clear.
EndTurn(u) ==
  IF Sends(u) THEN Send(u, [kind |-> "TurnAdvance"])
  ELSE LET turns == AdvanceSkipping(u.turns, u.map.defeated)
           spent == turns.round - u.turns.round
           ended == [u EXCEPT !.turns = turns, !.clock = IF u.place = NoOne THEN @ ELSE @ + spent]
       IN  IF Active(turns) = NoToken THEN ended
           ELSE SelectToken([ended EXCEPT !.map = ClearCounters(@, Active(turns))], Active(turns))

\* Who is in the roll, the listed or else the whole board.
Combatants(u) ==
  IF u.turns.order = <<>> THEN [n \in DOMAIN u.map.tokens |-> u.map.tokens[n].id] ELSE u.turns.order

SideOf(u, id) ==
  IF id \in Ids(u.map) /\ TokenOf(u.map, id).owner # Unowned THEN TokenOf(u.map, id).owner ELSE "dm"

\* Whose roll counts for the n-th: its own, or that of the first of its side.
Leader(u, n) ==
  IF u.init = "individual" THEN n
  ELSE Min({k \in DOMAIN Combatants(u) : SideOf(u, Combatants(u)[k]) = SideOf(u, Combatants(u)[n])})

Rollers(u) == {Leader(u, n) : n \in DOMAIN Combatants(u)}

\* Whose turn is before whose: the high roll first, ties in the order they
\* rolled, a side in its own order.
Before(u, faces, k, n) ==
  LET a == Leader(u, k)
      b == Leader(u, n)
  IN  faces[a] > faces[b] \/ (faces[a] = faces[b] /\ (a < b \/ (a = b /\ k < n)))

\* Each at the place that so many are before it.
ByRoll(u, faces) ==
  LET ids      == Combatants(u)
      place(n) == 1 + Cardinality({k \in DOMAIN ids : Before(u, faces, k, n)})
  IN  [p \in DOMAIN ids |-> ids[CHOOSE n \in DOMAIN ids : place(n) = p]]

\* Some numbers from the least up.
InOrder(nums) ==
  [p \in 1..Cardinality(nums) |-> CHOOSE n \in nums : Cardinality({k \in nums : k <= n}) = p]

RollInitiative(u, faces) ==
  LET by(n)  == IF u.init = "individual" THEN Combatants(u)[n] ELSE SideOf(u, Combatants(u)[n])
      rolled == InOrder(Rollers(u))
      log    == [n \in DOMAIN rolled |-> [by |-> by(rolled[n]), for |-> "init", total |-> faces[rolled[n]]]]
      order  == ByRoll(u, faces)
  IN  IF Combatants(u) = <<>> THEN u
      ELSE IF Sends(u)
      THEN [u EXCEPT !.outbox = @ \o [n \in DOMAIN log |-> [kind |-> "Rolled", roll |-> log[n]]]
                                  \o <<[kind |-> "TurnSetOrder", order |-> order]>>]
      ELSE Reached([u EXCEPT !.rolls = Capped(@ \o log, RollCap), !.turns = SetOrder(order)])

RollDice(u, label, total) ==
  LET record == [by |-> IF u.viewer = NoOne THEN "dm" ELSE u.viewer, for |-> label, total |-> total]
  IN  IF Sends(u) THEN Send(u, [kind |-> "Rolled", roll |-> record])
      ELSE [u EXCEPT !.rolls = PushRoll(@, record)]

PassTime(u, ticks) ==
  IF u.place = NoOne THEN u
  ELSE IF Sends(u) THEN Send(u, [kind |-> "TimeAdvanced", ticks |-> ticks])
  ELSE [u EXCEPT !.clock = @ + ticks]

\* A flourish is played once per number, whoever sent it how often.
StageBeats(u, seq, beats) ==
  IF seq = u.seq THEN u ELSE [u EXCEPT !.seq = seq, !.beats = beats]
ClearBeats(u) == [u EXCEPT !.beats = <<>>]

Emote(u, id, beat) ==
  IF id \notin Ids(u.map) \/ id \in u.map.defeated THEN u
  ELSE LET shut == [u EXCEPT !.menu = NoToken]
       IN  IF Sends(u) THEN Send(shut, [kind |-> "Emoted", id |-> id, beat |-> beat])
           ELSE StageBeats(shut, u.seq + 1, id :> beat)

\* The area under the template, from the anchor to where the pointer is.
TemplatePreview(u) ==
  IF u.mode # "Measure" \/ u.anchor = NoTile THEN {}
  ELSE TemplateTiles(u.map, u.anchor, u.shape[1], u.shape[2], IF u.hover = NoTile THEN u.anchor ELSE u.hover)

\* Redrawn only where it shows.
Hover(u, at) ==
  IF at # u.hover /\ (\/ u.mode = "Play" /\ u.reach # <<>>
                      \/ u.mode = "Measure" /\ u.anchor # NoTile)
  THEN [u EXCEPT !.hover = at] ELSE u

-----------------------------------------------------------------------------
(* Creatures from the compendium *)

\* The selected tile if it is free, else the first free tile of the block of
\* eight by eight from there (or from (2, 2)), else of the board, else (0, 0).
FreeSpawnTile(u) ==
  LET free(at) == InBounds(u.map, at) /\ TokenAt(u, at) = NoToken
      start    == IF u.tile # NoTile /\ free(u.tile) THEN u.tile ELSE <<2, 2>>
      block(d) == <<start[1] + (d % 8), start[2] + (d \div 8)>>
      near     == {d \in 0..63 : free(block(d))}
      row(d)   == <<d % u.map.width, d \div u.map.width>>
      board    == {d \in 0..(u.map.width * u.map.height - 1) : free(row(d))}
  IN  IF near # {} THEN block(Min(near)) ELSE IF board # {} THEN row(Min(board)) ELSE <<0, 0>>

\* The first entry whose key is the query, or else whose name is, or else
\* whose name or key contains it.
ResolveBestiary(query) ==
  LET matches(n, m) == CASE n = 1 -> m.key = query
                         [] n = 2 -> m.name = query
                         [] n = 3 -> query \in m.words
                         [] n = 4 -> query \in m.inKey
      hits(n) == SelectSeq(Book.monsters, LAMBDA m : matches(n, m))
      found == {n \in 1..4 : hits(n) # <<>>}
  IN  IF query = "" \/ found = {} THEN "" ELSE hits(Min(found))[1].key

\* The first entry of the key, 0 if there is none.
EntryOf(key) == SelectInSeq(Book.monsters, LAMBDA m : m.key = key)
Monster(key) == Book.monsters[EntryOf(key)]

SpawnMonster(u, key) ==
  IF EntryOf(key) = 0 THEN u
  ELSE LET id     == NextTokenId(u)
           placed == Place(Fresh(id, FreeSpawnTile(u), Monster(key).sprite))
           put    == IF Sends(u) THEN Send(u, MapEvent(placed)) ELSE ApplyStep(u, <<placed>>)
       IN  [put EXCEPT !.asks.spawn = <<id, key>>, !.search.open = FALSE, !.page = ""]

SpawnQuery(u, query) ==
  IF u.author /\ ResolveBestiary(query) # "" THEN SpawnMonster(u, ResolveBestiary(query)) ELSE u

FindQuery(u, query) ==
  LET hits(tab, all) == SelectSeq(Book[tab], LAMBDA m : query \in m.words \/ (all /\ query \in m.inKey))
      every == hits("monsters", TRUE) \o hits("items", FALSE) \o hits("spells", FALSE)
      shown == [n \in 1..Min({Len(every), FindCap}) |-> every[n].key]
  IN  [u EXCEPT !.found = IF query = "" THEN <<>>
                          ELSE IF Len(every) > FindCap THEN Append(shown, "more") ELSE shown]

-----------------------------------------------------------------------------
(* The command line: a line is a sequence of words, a leading ">" allowed *)

Verb ==
  "spawn" :> "spawn" @@ "s" :> "spawn" @@ "gen" :> "gen" @@ "generate" :> "gen" @@ "g" :> "gen"
    @@ "find" :> "find" @@ "search" :> "find" @@ "roll" :> "roll" @@ "r" :> "roll"
    @@ "time" :> "time" @@ "wait" :> "time" @@ "t" :> "time" @@ "help" :> "help" @@ "?" :> "help"

\* [verb, rest]; numbers are the words of Ticks.
Ticks == "1" :> 1 @@ "2" :> 2
Parse(line) ==
  LET words == IF line # <<>> /\ Head(line) = ">" THEN Tail(line) ELSE line
      verb  == IF words = <<>> THEN "help" ELSE Get(Verb, Head(words), "unknown")
      rest  == IF Len(words) < 2 THEN "" ELSE words[2]
  IN  [verb |-> IF verb = "time" /\ rest \notin DOMAIN Ticks THEN "unknown" ELSE verb, rest |-> rest]

StartCommand(u)  == [u EXCEPT !.command = [open |-> TRUE, draft |-> <<>>], !.found = <<>>]
CommandCancel(u) == [u EXCEPT !.command = [open |-> FALSE, draft |-> <<>>]]

\* Closed before it runs; an empty line does nothing.  "gen" opens the
\* generator, which Authoring models.
CommandSubmit(u, total) ==
  LET shut == CommandCancel(u)
      cmd  == Parse(u.command.draft)
  IN  CASE u.command.draft = <<>> -> shut
        [] u.command.draft # <<>> /\ cmd.verb = "spawn" -> SpawnQuery(shut, cmd.rest)
        [] u.command.draft # <<>> /\ cmd.verb = "find"  -> FindQuery(shut, cmd.rest)
        [] u.command.draft # <<>> /\ cmd.verb = "roll"  -> IF cmd.rest = "" THEN shut
                                                           ELSE RollDice(shut, cmd.rest, total)
        [] u.command.draft # <<>> /\ cmd.verb = "time"  -> PassTime(shut, Ticks[cmd.rest])
        [] OTHER -> shut

-----------------------------------------------------------------------------
(* Whispers and the compendium *)

StartCompose(u)  == [u EXCEPT !.whisper.open = TRUE]
ComposeCancel(u) == [u EXCEPT !.whisper = [open |-> FALSE, draft |-> <<>>]]
ComposeSend(u) ==
  LET shut == ComposeCancel(u)
      to   == IF u.target = NoOne THEN "table" ELSE u.target
  IN  IF u.whisper.draft = <<>> THEN shut
      ELSE [PushMessage(shut, <<"to", to>>) EXCEPT !.letters = Append(@, to)]
ReceiveWhisper(u, from) == PushMessage(u, <<"from", from>>)

CycleTarget(u) ==
  LET at == {n \in DOMAIN u.players : u.players[n] = u.target}
      n  == IF u.target = NoOne THEN 1 ELSE IF at = {} THEN 0 ELSE Min(at) + 1
  IN  [u EXCEPT !.target = IF n \in DOMAIN u.players THEN u.players[n] ELSE NoOne]

CloseCompendium(u)  == [u EXCEPT !.search = [open |-> FALSE, draft |-> <<>>]]
CompendiumEscape(u) == IF u.page # "" THEN [u EXCEPT !.page = ""] ELSE CloseCompendium(u)
SortBy(u, col) == [u EXCEPT !.sort = IF @[1] = col THEN <<col, ~@[2]>> ELSE <<col, FALSE>>]
SetTab(u, tab) ==
  [u EXCEPT !.tab = tab, !.page = "", !.sort = <<0, FALSE>>, !.search.draft = <<>>]

\* Typing and rubbing out act on an open lane's draft.
Typed(u, lane, word) == IF u[lane].open THEN [u EXCEPT ![lane].draft = Append(@, word)] ELSE u
Rubbed(u, lane) ==
  IF u[lane].open /\ u[lane].draft # <<>> THEN [u EXCEPT ![lane].draft = Front(@)] ELSE u

-----------------------------------------------------------------------------
(* Sheets, and the mirror *)

NoAsks == [bind |-> NoToken, edit |-> <<>>, spawn |-> <<>>, clear |-> <<>>]

OpenSheet(u) ==
  LET id == IF u.token # NoToken THEN u.token ELSE Active(u.turns)
  IN  IF id = NoToken THEN u
      ELSE IF id \in DOMAIN u.map.sheets THEN [u EXCEPT !.sheet = id]
      ELSE IF u.author THEN [u EXCEPT !.sheet = id, !.asks.bind = id] ELSE u

RequestEdit(u, key, delta) == IF u.sheet = NoToken THEN u ELSE [u EXCEPT !.asks.edit = <<u.sheet, key, delta>>]

\* A snapshot of the session replaces everything it replicates; the selection,
\* the undo history and the mode stay.
Mirrored(u, game) ==
  LET lit == IF game.beats = <<>> THEN u ELSE StageBeats(u, game.seq, game.beats)
  IN  Reached(Fogged([lit EXCEPT !.map = game.map, !.turns = game.turns, !.rolls = game.rolls,
                                 !.held = game.held, !.clock = game.clock,
                                 !.token = IF @ \in Ids(game.map) THEN @ ELSE NoToken]))

NewView(map) ==
  [map |-> map, undo |-> <<>>, redo |-> <<>>, turns |-> NoTurns,
   token |-> NoToken, tile |-> NoTile, reach |-> <<>>, mode |-> "Select", brush |-> 1,
   sprite |-> "knight", viewer |-> NoOne, channels |-> <<>>, visible |-> {}, explored |-> {},
   net |-> "Local", outbox |-> <<>>, author |-> TRUE, rolls |-> <<>>, held |-> {},
   place |-> NoOne, clock |-> 0, anchor |-> NoTile, hover |-> NoTile, shape |-> <<"burst", 3>>,
   init |-> "individual", beats |-> <<>>, seq |-> 0, menu |-> NoToken, sheet |-> NoToken,
   asks |-> NoAsks, command |-> [open |-> FALSE, draft |-> <<>>],
   whisper |-> [open |-> FALSE, draft |-> <<>>], search |-> [open |-> FALSE, draft |-> <<>>],
   page |-> "", tab |-> "monsters", sort |-> <<0, FALSE>>, found |-> <<>>, messages |-> <<>>,
   letters |-> <<>>, players |-> <<>>, target |-> NoOne]
=============================================================================
